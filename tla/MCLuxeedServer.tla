----------------------------- MODULE MCLuxeedServer -----------------------------
(* Values for TLC: the commands two clients send. *)
EXTENDS LuxeedServer

MCCommands == {"s", "u", "w", "g"}
MCWaitCommands == {"s", "w"}
MCNegativeWait == {"w", "w-"}
================================================================================
