------------------------------ MODULE MCLuxeedFrame ------------------------------
(* Values for TLC: the first key, one in the middle and the last one, and  *)
(* keys that are none; colours at the limits of a byte, and one that is    *)
(* not a byte.                                                             *)
EXTENDS LuxeedFrame

Rgb(red, green, blue) == [r |-> red, g |-> green, b |-> blue]

MCKeyIds == {-1, 0, 37, 75, 76}
MCRgbs == {Rgb(255, 255, 255), Rgb(1, 128, -1)}
================================================================================
