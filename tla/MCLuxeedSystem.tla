----------------------------- MODULE MCLuxeedSystem -----------------------------
(* Values for TLC: two clients with a line each, a frame of one byte sent  *)
(* in two transfers.                                                       *)
EXTENDS LuxeedSystem

MCCommands == {"s", "u", "w", "g"}
MCKeys == {"key"}
MCColors == {0, 255}
MCMsgFF == [k \in MCKeys |-> 255]
MCChunkOf == [k \in MCKeys |-> 1]
================================================================================
