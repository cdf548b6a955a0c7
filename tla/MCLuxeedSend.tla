------------------------------ MODULE MCLuxeedSend ------------------------------
(* Values for TLC are in the configurations: blocks of a size that can be  *)
(* cut in several ways, and enough of them for one cut to follow another.  *)
EXTENDS LuxeedSend
================================================================================
