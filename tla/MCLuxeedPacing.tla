----------------------------- MODULE MCLuxeedPacing -----------------------------
(* Values for TLC: the clock may go forward by less than an interval, back *)
(* by more than one, and back so far that a pause does not fit usleep.     *)
EXTENDS LuxeedPacing

MCClockSteps == {1, -3, -5}
================================================================================
