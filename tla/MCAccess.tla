------------------------------ MODULE MCAccess ------------------------------
(* The creator and a player, who owns an actor; the player watches.  One more  *)
(* engine than the first, three events, three tickets, two requests in flight. *)
EXTENDS Access, TLC

CONSTANTS gm, player, pc, local

Users == gm :> gm @@ player :> player
Asked == gm :> "player" @@ player :> "owner"
=============================================================================
