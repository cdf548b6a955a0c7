------------------------------ MODULE LuxeedPixels ------------------------------
(***************************************************************************)
(* What the messages of a keyboard are for, without their bytes: each key  *)
(* has a red, a green and a blue light.  Clients give one key its colour;  *)
(* a frame asks for the colours that all keys have then; the two messages  *)
(* of the self-test ask for full light and for none.                       *)
(***************************************************************************)
EXTENDS Integers

CONSTANTS
    Keys,       \* the keys of the keyboard
    Asked,      \* the keys that clients name
    Rgbs        \* the colours they give: numbers of any size

VARIABLES
    colour,     \* of each key, as the clients gave it
    shown       \* of each key, as the last message asks for it

pixels == <<colour, shown>>

AllDark == [key \in Keys |-> [red |-> 0, green |-> 0, blue |-> 0]]

Init ==
    /\ colour = AllDark
    /\ shown = AllDark

(* One key gets the colour given, in the strength a byte can tell. *)
Give(key, rgb) ==
    /\ colour' = [colour EXCEPT ![key] =
            [red |-> rgb.r % 256, green |-> rgb.g % 256, blue |-> rgb.b % 256]]
    /\ UNCHANGED shown

Show ==
    /\ shown' = colour
    /\ UNCHANGED colour

(* Every light that a key has is on. *)
LightUp ==
    /\ shown' \in [Keys -> [red : {0, 255}, green : {0, 255}, blue : {0, 255}]]
    /\ UNCHANGED colour

Darken ==
    /\ shown' = AllDark
    /\ UNCHANGED colour

Next ==
    \/ \E key \in Keys \cap Asked, rgb \in Rgbs : Give(key, rgb)
    \/ Show
    \/ LightUp
    \/ Darken

Spec == Init /\ [][Next]_pixels
================================================================================
