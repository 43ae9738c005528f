----------------------------- MODULE MCHandoff -----------------------------
(* Two rival transfers of one entity; a second entity is never transferred. *)
EXTENDS Handoff, TLC

CONSTANTS e1, e2, t1, t2

SubjectOf == (t1 :> e1) @@ (t2 :> e1)
=============================================================================
