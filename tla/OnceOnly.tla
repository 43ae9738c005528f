------------------------------ MODULE OnceOnly ------------------------------
(***************************************************************************)
(* What an entity transfer guard promises: among rival transfers of one    *)
(* entity a single winner is picked.  A crash may lose the record of the   *)
(* winner, but no step ever replaces a winner by another one.              *)
(***************************************************************************)
CONSTANTS Entity, Transfer, Subject, None

VARIABLE winner

Init == winner = [e \in Entity |-> None]

Pick(t) ==
  /\ winner[Subject[t]] = None
  /\ winner' = [winner EXCEPT ![Subject[t]] = t]

Lose(lost) == winner' = [e \in Entity |-> IF e \in lost THEN None ELSE winner[e]]

Next ==
  \/ \E t \in Transfer : Pick(t)
  \/ \E lost \in SUBSET Entity : Lose(lost)

Spec == Init /\ [][Next]_winner
=============================================================================
