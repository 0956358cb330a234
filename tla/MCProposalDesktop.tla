-------------------------- MODULE MCProposalDesktop --------------------------
(* A small instance of ProposalDesktop: one job, that may be moved from    *)
(* one customer to the other, in one window.                               *)
EXTENDS ProposalDesktop, TLC

CONSTANTS c1, c2, x, y, f1, f2, f3

ThePairs == {[json |-> f1, docx |-> f3]}

(* A customer with a job and a name that is free; two customers without.   *)
TheRows ==
  {[customer |-> [c \in Customers |-> IF c = c1 THEN x ELSE None],
    job |-> [j \in Jobs |-> [customer |-> c1, says |-> x]]],
   [customer |-> [c \in Customers |-> x], job |-> [j \in Jobs |-> None]]}

AForm(chosen, json, docx) ==
  [chosen |-> chosen, customer |-> IF chosen THEN c1 ELSE None,
   job |-> IF chosen THEN CHOOSE j \in Jobs : TRUE ELSE None,
   details |-> CHOOSE d \in Details : TRUE,
   out |-> [json |-> json, docx |-> docx]]

(* A draft of a job, and one saved before a records file was chosen.       *)
TheDrafts == {AForm(TRUE, f1, f3), AForm(FALSE, f1, f3)}

(* A command may want the same DOCX or the same JSON as the window.        *)
TheCommandForms == {AForm(TRUE, f2, f3), AForm(TRUE, f1, f2)}

(* Two writes, or one write or one death around a command, or a death      *)
(* around a write.                                                         *)
TheBudgets ==
  {[writes |-> 2, deaths |-> 0, commands |-> 0],
   [writes |-> 1, deaths |-> 0, commands |-> 1],
   [writes |-> 0, deaths |-> 1, commands |-> 1],
   [writes |-> 1, deaths |-> 1, commands |-> 0]}
=============================================================================
