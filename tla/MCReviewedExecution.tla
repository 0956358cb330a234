------------------------- MODULE MCReviewedExecution -------------------------
(* A small instance of ReviewedExecution: one issue, whose metadata says   *)
(* one of two things that differ in what it depends on.                    *)
EXTENDS ReviewedExecution, TLC

CONSTANTS p1, p2, d1, w1, r1, r2, s1, s2, b1, b2

Symmetric == Permutations({p1, p2}) \cup Permutations({r1, r2})
               \cup Permutations({s1, s2}) \cup Permutations({b1, b2})

TheCandidates ==
  {[ready |-> TRUE, priority |-> 1, depends |-> {}, work |-> w1],
   [ready |-> TRUE, priority |-> 1, depends |-> {d1}, work |-> w1]}
=============================================================================
