----------------------------- MODULE LuxeedDisplay -----------------------------
(***************************************************************************)
(* What the driver promises to the owner of the keyboard, with no program  *)
(* counter, no handle and no message: the colours asked for, the colours   *)
(* lit, and whether the driver still owes a frame.                         *)
(*                                                                         *)
(*   - a frame appears at once, and it is what is asked for at that moment *)
(*   - the self-test flash happens only before the keyboard is ready, and  *)
(*     once ready it never happens again                                   *)
(*   - the debt is cleared only when the frame was lit, even if the        *)
(*     keyboard lost it again since                                        *)
(***************************************************************************)
CONSTANTS
    Keys,       \* the colour bytes of a frame
    Colors,     \* the values of a byte
    Off,        \* the value of a byte that is dark
    Flashes     \* the frames of the self-test

VARIABLES
    want,       \* the frame asked for
    shown,      \* the frame lit
    owed,       \* a change asked for was not yet acknowledged
    lost,       \* the keyboard went dark by itself since the last frame
    ready       \* the self-test is over

vars == <<want, shown, owed, lost, ready>>

Frames == [Keys -> Colors]

Solid(c) == [k \in Keys |-> c]

Init ==
    /\ want = Solid(Off)
    /\ shown = Solid(Off)
    /\ owed = FALSE
    /\ lost = TRUE
    /\ ready = FALSE

(* Ask for another frame: a debt unless nothing changes. *)
Ask(f) ==
    /\ want' = f
    /\ owed' = (owed \/ f # want)
    /\ UNCHANGED <<shown, lost, ready>>

Flash(f) ==
    /\ ~ready
    /\ shown' = f
    /\ lost' = FALSE
    /\ UNCHANGED <<want, owed, ready>>

(* The self-test ends dark. *)
Ready ==
    /\ ~ready
    /\ lost \/ shown = Solid(Off)
    /\ ready' = TRUE
    /\ UNCHANGED <<want, shown, owed, lost>>

Show ==
    /\ ready
    /\ shown' = want
    /\ lost' = FALSE
    /\ UNCHANGED <<want, owed, ready>>

Acknowledge ==
    /\ ready
    /\ lost \/ shown = want
    /\ owed' = FALSE
    /\ UNCHANGED <<want, shown, lost, ready>>

(* A keyboard that is unplugged or reset goes dark (or keeps its frame). *)
Lose ==
    /\ shown' \in {shown, Solid(Off)}
    /\ lost' = TRUE
    /\ UNCHANGED <<want, owed, ready>>

Next ==
    \/ \E f \in Frames : Ask(f)
    \/ \E f \in Flashes : Flash(f)
    \/ Ready
    \/ Show
    \/ Acknowledge
    \/ Lose

Spec == Init /\ [][Next]_vars
================================================================================
