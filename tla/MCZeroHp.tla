------------------------------ MODULE MCZeroHp -------------------------------
(* Both handlers and both controllers. *)
EXTENDS ZeroHp

Profiles == {"core", "srd"}
Controllers == {"human", "ai"}
=============================================================================
