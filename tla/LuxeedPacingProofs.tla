--------------------------- MODULE LuxeedPacingProofs ---------------------------
(* Proofs of the invariants of LuxeedPacing, for every value of its        *)
(* constants: whatever the interval, the sleeps and the steps of the clock *)
(* are.                                                                    *)
EXTENDS LuxeedPacing, TLAPS

(* (int) chunk_delay * 1000000, luxeed_device.c:428: a delay that is less  *)
(* than a second is none, and the chunks of a message are sent back to     *)
(* back.                                                                   *)
THEOREM ChunksUnpaced == ChunkPause = 0
<1>1. chunk_delay \div Second = 0
  BY TimesAssumption, SMT
<1>2. 0 * Second = 0
  BY TimesAssumption, SMT
<1> QED
  BY <1>1, <1>2 DEF ChunkPause

LEMMA InitInvariant == Init => IInv
<1> SUFFICES ASSUME Init PROVE IInv
  OBVIOUS
<1> USE TimesAssumption, BoundsAssumption
    DEF Init, Sends, Points, Point, Due, SelfTest, AfterFrame, gettimeofday
<1>0. FlagType
  BY Zenon DEF FlagType
<1>1. TypeOK
  <2>1. -slp \in Int /\ 0 \in 0..MaxSteps /\ 0 \in 0..MaxUpdates /\ 0 \in 0..NChunks
       /\ 0 \in Nat /\ 0 \in Int
    BY SMT
  <2>2. TimeType
    BY <2>1, Zenon DEF TimeType
  <2> QED
    BY <1>0, <2>2 DEF TypeOK
<1>2. SelfTestFirst /\ ClockFollows /\ PauseBounded
  BY SMT DEF SelfTestFirst, ClockFollows, PauseBounded
<1>3. TimesFollow
  BY SMT DEF TimesFollow
<1> QED
  BY <1>1, <1>2, <1>3 DEF IInv

LEMMA StepInvariant == IInv /\ [Next]_vars => IInv'
<1> SUFFICES ASSUME IInv, [Next]_vars PROVE IInv'
  OBVIOUS
<1> USE TimesAssumption, BoundsAssumption
    DEF IInv, TypeOK, FlagType, TimeType, SelfTestFirst, ClockFollows, TimesFollow, PauseBounded, Undefined,
        Point, Due, SelfTest, AfterFrame, Sends, Points, gettimeofday,
        clock, device, last, send, nap
<1>1. CASE Tick
  BY <1>1, SMT DEF Tick
<1>2. ASSUME NEW d \in ClockSteps, SetClock(d) PROVE IInv'
  <2>1. d \in Int
    BY <1>2
  <2> QED
    BY <1>2, <2>1, SMT DEF SetClock
<1>3. CASE SetKeyColor
  BY <1>3, SMT DEF SetKeyColor
<1>4. ASSUME NEW forced \in BOOLEAN, Update(forced) PROVE IInv'
  BY <1>4, SMT DEF Update
<1>5. CASE Wake
  BY <1>5, SMT DEF Wake
<1>6. CASE Open
  <2>1. CASE pc' = "init" /\ opened' = TRUE
    <3>1. opened' \in BOOLEAN
      BY <2>1, Zenon
    <3> QED
      BY <1>6, <2>1, <3>1, SMT DEF Open
  <2>2. CASE pc' = "fail" /\ opened' \in BOOLEAN
    BY <1>6, <2>2, SMT DEF Open
  <2> QED
    BY <1>6, <2>1, <2>2, Zenon DEF Open
<1>7. CASE BeginInit
  BY <1>7, SMT DEF BeginInit, Sleep
<1>8. CASE EndInit
  BY <1>8, SMT DEF EndInit
<1>9. CASE Check
  BY <1>9, SMT DEF Check
<1>10. CASE Throttle
  BY <1>10, SMT DEF Throttle, Sleep, Naps
<1>11. CASE Begin
  BY <1>11, SMT DEF Begin
<1>12. CASE Chunk
  BY <1>12, ChunksUnpaced, SMT DEF Chunk
<1>13. CASE ChunkFails
  BY <1>13, SMT DEF ChunkFails
<1>14. CASE Sent
  BY <1>14, SMT DEF Sent, Sleep
<1>15. CASE Stamp
  <2>0. FlagType'
    BY <1>15, Zenon DEF Stamp
  <2>1. TypeOK'
    <3>1. TimeType'
      BY <1>15, SMT DEF Stamp
    <3> QED
      BY <2>0, <3>1, Zenon
  <2>2. SelfTestFirst'
    <3>1. init_count
      BY <1>15, SMT DEF Stamp
    <3> QED
      BY <1>15, <3>1, Zenon DEF Stamp
  <2>3. ClockFollows'
    BY <1>15, SMT DEF Stamp
  <2>4. TimesFollow'
    BY <1>15, SMT DEF Stamp
  <2>5. PauseBounded'
    BY <1>15, SMT DEF Stamp
  <2> QED
    BY <2>1, <2>2, <2>3, <2>4, <2>5, Zenon
<1>16. CASE Fail
  <2>0. FlagType'
    BY <1>16, Zenon DEF Fail, Sleep
  <2>1. TypeOK'
    <3>1. TimeType'
      BY <1>16, SMT DEF Fail, Sleep
    <3> QED
      BY <2>0, <3>1, Zenon
  <2>2. SelfTestFirst'
    BY <1>16, SMT DEF Fail, Sleep
  <2>3. ClockFollows'
    BY <1>16, SMT DEF Fail, Sleep
  <2>4. TimesFollow'
    BY <1>16, SMT DEF Fail, Sleep
  <2>5. PauseBounded'
    BY <1>16, SMT DEF Fail, Sleep
  <2> QED
    BY <2>1, <2>2, <2>3, <2>4, <2>5, Zenon
<1>17. CASE UNCHANGED vars
  BY <1>17, SMT DEF vars
<1> QED
  BY <1>1, <1>2, <1>3, <1>4, <1>5, <1>6, <1>7, <1>8, <1>9, <1>10, <1>11, <1>12, <1>13, <1>14,
     <1>15, <1>16, <1>17 DEF Next, Driver

THEOREM PacingInvariance == Spec => []IInv
<1>1. Init => IInv
  BY InitInvariant
<1>2. IInv /\ [Next]_vars => IInv'
  BY StepInvariant
<1> QED
  BY <1>1, <1>2, PTL DEF Spec

(* The fields of the driver and its history keep their types. *)
THEOREM PacingTypeCorrect == Spec => []TypeOK
<1>1. IInv => TypeOK
  BY DEF IInv
<1> QED
  BY <1>1, PacingInvariance, PTL

(* At the beginning of a message the interval has passed, through whichever *)
(* of the sleeps: the two of the self-test are covered by slp, that is no  *)
(* less than the interval.                                                 *)
THEOREM MessagesKeptApart == Spec => []MessagesApart
<1>1. IInv => MessagesApart
  <2> SUFFICES ASSUME IInv, pc \in Sends
               PROVE t + ahead >= ended + min_frame_interval \/ Undefined
    BY DEF MessagesApart
  <2>1. Due = t /\ Point = pc
    BY DEF Due, Point, Sends
  <2>2. t \in Nat /\ ended \in Int /\ ahead \in Nat
    BY DEF IInv, TypeOK, TimeType
  <2>3. CASE pc = "frame"
    BY <2>1, <2>3 DEF IInv, TimesFollow
  <2>4. CASE pc \in SelfTest
    <3>1. t >= ended + slp
      BY <2>1, <2>4 DEF IInv, TimesFollow
    <3> QED
      BY <2>2, <3>1, TimesAssumption, SMT
  <2> QED
    BY <2>3, <2>4 DEF Sends, SelfTest
<1> QED
  BY <1>1, PacingInvariance, PTL

(* The throttle holds up the server no longer than the clock was set back. *)
THEOREM ThrottleBounded == Spec => []PauseBounded
<1>1. IInv => PauseBounded
  BY DEF IInv
<1> QED
  BY <1>1, PacingInvariance, PTL

(* A client that asks for updates in a loop does not make the driver look  *)
(* for an absent keyboard in a loop. *)
THEOREM RetriesKeptApart == Spec => []RetriesApart
<1>1. IInv => RetriesApart
  BY DEF IInv, TimesFollow, RetriesApart, Due
<1> QED
  BY <1>1, PacingInvariance, PTL
================================================================================
