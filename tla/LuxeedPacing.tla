------------------------------ MODULE LuxeedPacing ------------------------------
(***************************************************************************)
(* The times of luxeed_device.c: how long the driver sleeps and how far    *)
(* apart it keeps the messages it sends, on a clock that may be set.  What *)
(* the messages carry is in LuxeedDevice.                                  *)
(*                                                                         *)
(* The driver sleeps in real time, t, but measures the interval since its  *)
(* last frame with gettimeofday, t + offset.  Somebody sets that clock     *)
(* forward or back between any two steps of the driver.                    *)
(***************************************************************************)
EXTENDS Integers

CONSTANTS
    min_frame_interval, chunk_delay, slp,   \* 25 ms, 0.75 ms, 100 ms
    Second,
    NapLimit,       \* what useconds_t holds, 2^32 microseconds
    NChunks,        \* the transfers of a message
    ClockSteps,     \* what the clock is set forward by, or back
    MaxSteps,       \* bound: how many times
    MaxUpdates,     \* bound: the updates over a run
    MaxTime         \* bound: the time up to which time passes without a sleep

ASSUME TimesAssumption ==
    /\ min_frame_interval \in Nat /\ slp \in Nat /\ chunk_delay \in Nat
    /\ Second \in Nat /\ NapLimit \in Nat
    /\ min_frame_interval =< slp /\ slp < NapLimit
    /\ chunk_delay < Second
ASSUME BoundsAssumption ==
    /\ NChunks \in Nat \ {0}
    /\ ClockSteps \subseteq Int
    /\ MaxSteps \in Nat /\ MaxUpdates \in Nat /\ MaxTime \in Nat

VARIABLES
    t, offset,
    (* struct luxeed_device *)
    opened, inited,
    init_count,     \* whether it is above 0
    key_data_dirty,
    stamped, stamp, \* update_last_send_time, and whether it was ever stored
    (* luxeed_device_update *)
    pc, force,
    kind, left,     \* the message being sent, and its chunks still to send
    until, after,   \* the end of a sleep, and the step that follows it
    (* history *)
    ended,          \* when the last transfer ended
    failed,         \* when the last failed update closed the device
    ahead, behind,  \* how far the clock was set forward and back since the stamp
    steps, updates

clock == <<t, offset, ahead, behind, steps>>
device == <<opened, inited, init_count>>
last == <<stamped, stamp>>
send == <<kind, left>>
nap == <<until, after>>
vars == <<clock, device, key_data_dirty, last, pc, force, send, nap, ended, failed, updates>>

Sends == {"ff", "00", "frame"}
Points == {"idle", "open", "init", "inited", "check", "throttle", "send",
           "stamp", "fail"} \cup Sends

gettimeofday == t + offset

Init ==
    /\ t = 0 /\ offset = 0
    /\ opened = FALSE /\ inited = FALSE /\ init_count = FALSE
    /\ key_data_dirty = FALSE
    /\ stamped = FALSE /\ stamp = 0
    /\ pc = "idle" /\ force = FALSE
    /\ kind = "ff" /\ left = 0
    /\ until = 0 /\ after = "idle"
    /\ ended = -slp /\ failed = -slp
    /\ ahead = 0 /\ behind = 0
    /\ steps = 0 /\ updates = 0

--------------------------------------------------------------------------------
(* The time and its clock *)

Tick ==
    /\ t < MaxTime \/ (pc = "sleep" /\ t < until)
    /\ t' = t + 1
    /\ UNCHANGED <<offset, ahead, behind, steps, device, key_data_dirty, last, pc, force,
                   send, nap, ended, failed, updates>>

SetClock(d) ==
    /\ steps < MaxSteps
    /\ steps' = steps + 1
    /\ offset' = offset + d
    /\ ahead' = IF d > 0 THEN ahead + d ELSE ahead
    /\ behind' = IF d < 0 THEN behind - d ELSE behind
    /\ UNCHANGED <<t, device, key_data_dirty, last, pc, force, send, nap, ended, failed, updates>>

(* usleep *)
Sleep(d, next) ==
    /\ pc' = "sleep"
    /\ until' = t + d
    /\ after' = next

Wake ==
    /\ pc = "sleep"
    /\ t >= until
    /\ pc' = after
    /\ UNCHANGED <<clock, device, key_data_dirty, last, force, send, nap, ended, failed, updates>>

--------------------------------------------------------------------------------
(* luxeed_device_update *)

SetKeyColor ==
    /\ pc = "idle"
    /\ key_data_dirty' = TRUE
    /\ UNCHANGED <<clock, device, last, pc, force, send, nap, ended, failed, updates>>

Update(forced) ==
    /\ pc = "idle"
    /\ updates < MaxUpdates
    /\ updates' = updates + 1
    /\ force' = forced
    /\ pc' = IF opened THEN "init" ELSE "open"
    /\ UNCHANGED <<clock, device, key_data_dirty, last, send, nap, ended, failed>>

(* luxeed_device_open, whose failed reset leaves the device marked opened  *)
(* until it is closed.                                                     *)
Open ==
    /\ pc = "open"
    /\ \/ pc' = "init" /\ opened' = TRUE
       \/ pc' = "fail" /\ opened' \in BOOLEAN
    /\ UNCHANGED <<clock, inited, init_count, key_data_dirty, last, force, send, nap, ended, failed, updates>>

(* luxeed_device_init: the self-test the first time, failure every other. *)
BeginInit ==
    /\ pc = "init"
    /\ IF ~inited /\ ~init_count
       THEN Sleep(slp, "ff")
       ELSE /\ pc' = IF inited THEN "check" ELSE "fail"
            /\ UNCHANGED nap
    /\ UNCHANGED <<clock, device, key_data_dirty, last, force, send, ended, failed, updates>>

EndInit ==
    /\ pc = "inited"
    /\ inited' = TRUE /\ init_count' = TRUE
    /\ pc' = "check"
    /\ UNCHANGED <<clock, opened, key_data_dirty, last, force, send, nap, ended, failed, updates>>

Check ==
    /\ pc = "check"
    /\ pc' = IF force \/ key_data_dirty THEN "throttle" ELSE "idle"
    /\ UNCHANGED <<clock, device, key_data_dirty, last, force, send, nap, ended, failed, updates>>

(* A double made a useconds_t: undefined where it does not fit. *)
Naps(d) == IF d < NapLimit THEN {d} ELSE 0..NapLimit - 1

(* Mutant: a clock that was set back is not waited for. *)
ThrottleForward ==
    LET dt == gettimeofday - stamp
    IN  /\ pc = "throttle"
        /\ IF stamped /\ min_frame_interval > dt /\ dt >= 0
           THEN \E d \in Naps(min_frame_interval - dt) : Sleep(d, "frame")
           ELSE pc' = "frame" /\ UNCHANGED nap
        /\ UNCHANGED <<clock, device, key_data_dirty, last, force, send, ended, failed, updates>>

(* Mutant: the time that passed is added to the pause. *)
ThrottleAdds ==
    LET dt == gettimeofday - stamp
    IN  /\ pc = "throttle"
        /\ IF stamped /\ min_frame_interval > dt
           THEN \E d \in Naps(min_frame_interval + dt) : Sleep(d, "frame")
           ELSE pc' = "frame" /\ UNCHANGED nap
        /\ UNCHANGED <<clock, device, key_data_dirty, last, force, send, ended, failed, updates>>

Throttle ==
    LET dt == gettimeofday - stamp
    IN  /\ pc = "throttle"
        /\ IF stamped /\ min_frame_interval > dt
           THEN \E d \in Naps(min_frame_interval - dt) : Sleep(d, "frame")
           ELSE pc' = "frame" /\ UNCHANGED nap
        /\ UNCHANGED <<clock, device, key_data_dirty, last, force, send, ended, failed, updates>>

--------------------------------------------------------------------------------
(* luxeed_send_chunked *)

(* (int) chunk_delay * 1000000 is truncated to whole seconds first. *)
ChunkPause == (chunk_delay \div Second) * Second

Begin ==
    /\ pc \in Sends
    /\ kind' = pc
    /\ left' = NChunks
    /\ pc' = "send"
    /\ UNCHANGED <<clock, device, key_data_dirty, last, force, nap, ended, failed, updates>>

(* The transfer of a chunk, and the pause that follows it. *)
Chunk ==
    /\ pc = "send"
    /\ left > 0
    /\ left' = left - 1
    /\ ended' = t
    /\ IF ChunkPause > 0 THEN Sleep(ChunkPause, "send") ELSE UNCHANGED <<pc, nap>>
    /\ UNCHANGED <<clock, device, key_data_dirty, last, force, kind, failed, updates>>

ChunkFails ==
    /\ pc = "send"
    /\ left > 0
    /\ ended' = t
    /\ pc' = "fail"
    /\ UNCHANGED <<clock, device, key_data_dirty, last, force, send, nap, failed, updates>>

(* The two messages of the self-test are each followed by a sleep. *)
Sent ==
    /\ pc = "send"
    /\ left = 0
    /\ \/ kind = "ff" /\ Sleep(slp, "00")
       \/ kind = "00" /\ Sleep(slp, "inited")
       \/ kind = "frame" /\ pc' = "stamp" /\ UNCHANGED nap
    /\ UNCHANGED <<clock, device, key_data_dirty, last, force, send, ended, failed, updates>>

(* The time of completion *)
Stamp ==
    /\ pc = "stamp"
    /\ stamped' = TRUE
    /\ stamp' = gettimeofday
    /\ key_data_dirty' = FALSE
    /\ ahead' = 0 /\ behind' = 0
    /\ pc' = "idle"
    /\ UNCHANGED <<t, offset, steps, device, force, send, nap, ended, failed, updates>>

(* Mutant: a failed update returns without a sleep. *)
FailAtOnce ==
    /\ pc = "fail"
    /\ opened' = FALSE /\ inited' = FALSE
    /\ failed' = t
    /\ pc' = "idle"
    /\ UNCHANGED <<clock, init_count, key_data_dirty, last, force, send, nap, ended, updates>>

Fail ==
    /\ pc = "fail"
    /\ opened' = FALSE /\ inited' = FALSE
    /\ failed' = t
    /\ Sleep(slp, "idle")
    /\ UNCHANGED <<clock, init_count, key_data_dirty, last, force, send, ended, updates>>

Driver ==
    \/ Wake \/ Open \/ BeginInit \/ EndInit \/ Check \/ Throttle
    \/ Begin \/ Chunk \/ ChunkFails \/ Sent \/ Stamp \/ Fail

Next ==
    \/ Tick
    \/ \E d \in ClockSteps : SetClock(d)
    \/ SetKeyColor
    \/ \E forced \in BOOLEAN : Update(forced)
    \/ Driver

Spec == Init /\ [][Next]_vars

--------------------------------------------------------------------------------
(* Properties *)

FlagType ==
    /\ opened \in BOOLEAN /\ inited \in BOOLEAN /\ init_count \in BOOLEAN
    /\ key_data_dirty \in BOOLEAN /\ stamped \in BOOLEAN /\ force \in BOOLEAN

TimeType ==
    /\ t \in Nat /\ offset \in Int
    /\ stamp \in Int
    /\ pc \in Points \cup {"sleep"}
    /\ kind \in Sends /\ left \in 0..NChunks
    /\ until \in Nat /\ after \in Points
    /\ ended \in Int /\ failed \in Int
    /\ ahead \in Nat /\ behind \in Nat
    /\ steps \in 0..MaxSteps /\ updates \in 0..MaxUpdates

TypeOK == FlagType /\ TimeType

(* The clock was set back so far that the pause does not fit usleep. *)
Undefined == min_frame_interval + behind >= NapLimit

(* No message begins sooner than min_frame_interval after the last         *)
(* transfer, whatever message that was and whether it arrived: the pauses  *)
(* of the self-test, of a failure and of the throttle together.  What the  *)
(* clock was set forward since is missing from it.                         *)
MessagesApart ==
    pc \in Sends => t + ahead >= ended + min_frame_interval \/ Undefined

(* The throttle, during which the server does not serve anybody, pauses no *)
(* longer than min_frame_interval and what the clock was set back.         *)
PauseBounded ==
    pc = "sleep" /\ after = "frame" =>
        until - t =< min_frame_interval + behind /\ until - t < NapLimit

(* An update after a failed one does not open the device at once, however  *)
(* soon it is asked for. *)
RetriesApart == pc = "open" => t >= failed + slp

(* What makes the invariants above inductive. *)

(* The point the driver is at, or sleeps before, and the time it is not    *)
(* left before. *)
Point == IF pc = "sleep" THEN after ELSE pc
Due == IF pc = "sleep" THEN until ELSE t

SelfTest == {"ff", "00", "inited"}
AfterFrame == {"send", "stamp", "fail"}

(* The self-test is over before any frame, and never comes back. *)
SelfTestFirst ==
    /\ Point \in SelfTest \/ (Point = "send" /\ kind # "frame") => ~init_count /\ ~inited
    /\ Point \in {"check", "throttle", "frame", "stamp"} \/ (Point = "send" /\ kind = "frame") => inited
    /\ stamped \/ inited => init_count

(* What the clock says passed since the stamp is what did pass since the   *)
(* last transfer or less, but for the steps of the clock. *)
ClockFollows ==
    /\ stamped => gettimeofday - stamp >= ahead - behind
    /\ inited /\ stamped /\ Point \notin AfterFrame =>
          gettimeofday - stamp =< t - ended + ahead - behind

TimesFollow ==
    /\ ended =< t
    /\ Due >= failed + slp
    /\ Point \in SelfTest => Due >= ended + slp
    /\ inited /\ ~stamped /\ Point \notin AfterFrame => Due >= ended + slp
    /\ Point = "frame" => Due + ahead >= ended + min_frame_interval \/ Undefined

IInv ==
    /\ TypeOK
    /\ SelfTestFirst
    /\ ClockFollows
    /\ TimesFollow
    /\ PauseBounded
================================================================================
