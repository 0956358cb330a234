----------------------------- MODULE MCClaimStore -----------------------------
(* Instances of ClaimStore for TLC: which package carries which identity. *)
EXTENDS ClaimStore, TLC

CONSTANTS c1, c2, a1, a2, u1, u2, u3, id1, id2, p1, p2

MCClients == {c1, c2}

\* Packages u1 and u2 carry the same authorization id, as a reissued package does.
TwoPackages == {u1, u2}
SharedId == (u1 :> id1) @@ (u2 :> id1)

ThreePackages == {u1, u2, u3}
SharedAndOther == (u1 :> id1) @@ (u2 :> id1) @@ (u3 :> id2)

ClientSymmetry == Permutations(MCClients)
RaceSymmetry == Permutations(MCClients) \cup Permutations({a1, a2})
===============================================================================
