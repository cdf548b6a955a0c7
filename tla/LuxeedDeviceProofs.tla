--------------------------- MODULE LuxeedDeviceProofs ---------------------------
(***************************************************************************)
(* Proofs about the driver for every set of key bytes and colours, every   *)
(* number of transfers of a message and every layout of a frame in them.   *)
(***************************************************************************)
EXTENDS LuxeedDevice, TLAPS

--------------------------------------------------------------------------------
(* Type correctness *)

(* Both self-test messages are frames. *)
LEMMA SolidType ==
    /\ msg_ff \in Frames
    /\ msg_00 \in Frames
    /\ Solid(Off) \in Frames
    /\ \A c \in Colors : Solid(c) \in Frames
BY ColorsAssumption DEF msg_00, Solid, Frames

(* A keyboard between two messages is well typed. *)
LEMMA EmptyType == <<>> \in Seq(Frames)
OBVIOUS

(* A message takes at least one transfer. *)
LEMMA SomeChunks == NChunks \in Nat /\ 0 < NChunks
BY ChunksAssumption

(* One more transfer leaves the keyboard well typed. *)
LEMMA ReceiveType ==
    ASSUME TypeOK, Receive
    PROVE  rx' \in Seq(Frames) /\ leds' \in Frames /\ dark' \in BOOLEAN
<1> DEFINE got == Append(rx, msg)
<1>1. got \in Seq(Frames) /\ Len(got) = Len(rx) + 1 /\ Len(rx) \in Nat
  BY DEF TypeOK, KeyboardType, MessageType
<1>2. CASE Len(got) < NChunks
  BY <1>1, <1>2 DEF Receive, TypeOK, KeyboardType
<1>3. CASE ~(Len(got) < NChunks)
  <2>1. /\ rx' = <<>>
        /\ leds' = [k \in Keys |-> got[ChunkOf[k]][k]]
        /\ dark' = FALSE
    BY <1>3 DEF Receive
  <2>2. \A k \in Keys : ChunkOf[k] \in 1..Len(got)
    BY <1>1, <1>3, ChunksAssumption
  <2>3. \A i \in 1..Len(got) : got[i] \in Frames
    BY <1>1
  <2>4. \A k \in Keys : got[ChunkOf[k]][k] \in Colors
    BY <2>2, <2>3 DEF Frames
  <2>5. leds' \in Frames
    BY <2>1, <2>4 DEF Frames
  <2>6. rx' \in Seq(Frames)
    BY <2>1, EmptyType
  <2> QED
    BY <2>1, <2>5, <2>6
<1> QED
  BY <1>2, <1>3

(* A step of the driver, of its client or of its keyboard keeps every      *)
(* variable well typed.                                                    *)
LEMMA TypeInductive ==
    ASSUME TypeOK, [Next]_vars
    PROVE  TypeOK'
<1> USE DEF TypeOK, flags, data, send, kbd
<1>1. ASSUME NEW k \in Keys, NEW c \in Colors, SetKeyColor(k, c)
      PROVE  TypeOK'
  <2>1. HandleType' /\ KeyboardType'
    BY <1>1 DEF SetKeyColor, HandleType, KeyboardType
  <2>2. MessageType'
    BY <1>1 DEF SetKeyColor, Store, Frames, MessageType
  <2> QED
    BY <2>1, <2>2
<1>2. ASSUME NEW c \in Colors, SetKeyColorAll(c)
      PROVE  TypeOK'
  <2>1. HandleType' /\ KeyboardType'
    BY <1>2 DEF SetKeyColorAll, HandleType, KeyboardType
  <2>2. MessageType'
    BY <1>2, SolidType DEF SetKeyColorAll, Store, MessageType
  <2> QED
    BY <2>1, <2>2
<1>3. ASSUME NEW forced \in BOOLEAN, Update(forced)
      PROVE  TypeOK'
  <2>1. HandleType'
    BY <1>3 DEF Update, HandleType, Handles, Steps
  <2>2. MessageType' /\ KeyboardType'
    BY <1>3 DEF Update, MessageType, KeyboardType
  <2> QED
    BY <2>1, <2>2
<1>4. CASE Find \/ OpenHandle \/ Fail
  <2>1. HandleType'
    BY <1>4 DEF Find, OpenHandle, Fail, Close, HandleType, Handles, Steps
  <2>2. MessageType' /\ KeyboardType'
    BY <1>4 DEF Find, OpenHandle, Fail, MessageType, KeyboardType
  <2> QED
    BY <2>1, <2>2
<1>5. CASE Reset
  <2>1. HandleType'
    BY <1>5 DEF Reset, HandleType, Steps
  <2>2. MessageType'
    BY <1>5 DEF Reset, MessageType
  <2>3. KeyboardType'
    BY <1>5, SolidType, EmptyType DEF Reset, KeyboardReset, KeyboardType
  <2> QED
    BY <2>1, <2>2, <2>3
<1>6. CASE BeginInit
  <2>1. HandleType'
    BY <1>6 DEF BeginInit, Start, HandleType, Steps
  <2>2. MessageType'
    BY <1>6, SolidType, SomeChunks DEF BeginInit, Start, MessageType, Kinds
  <2>3. KeyboardType'
    BY <1>6 DEF BeginInit, KeyboardType
  <2> QED
    BY <2>1, <2>2, <2>3
<1>7. CASE Check
  <2>1. HandleType'
    BY <1>7 DEF Check, Start, HandleType, Steps
  <2>2. MessageType'
    BY <1>7, SomeChunks DEF Check, Start, MessageType, Kinds
  <2>3. KeyboardType'
    BY <1>7 DEF Check, KeyboardType
  <2> QED
    BY <2>1, <2>2, <2>3
<1>8. CASE Transfer \/ TransferFails
  <2>1. HandleType'
    BY <1>8 DEF Transfer, TransferFails, HandleType, Steps
  <2>2. MessageType'
    BY <1>8, SomeChunks DEF Transfer, TransferFails, MessageType
  <2>3. KeyboardType'
    BY <1>8, ReceiveType DEF Transfer, TransferFails, KeyboardType
  <2> QED
    BY <2>1, <2>2, <2>3
<1>9. CASE Sent
  <2>1. HandleType'
    <3>1. CASE kind = "ff"
      BY <1>9, <3>1 DEF Sent, Start, HandleType, Steps
    <3>2. CASE kind = "00"
      <4>1. init_count' \in Nat
        BY <1>9, <3>2 DEF Sent, HandleType
      <4> QED
        BY <1>9, <3>2, <4>1 DEF Sent, HandleType, Steps
    <3>3. CASE kind = "frame"
      BY <1>9, <3>3 DEF Sent, HandleType, Steps
    <3> QED
      BY <3>1, <3>2, <3>3 DEF MessageType, Kinds
  <2>2. MessageType'
    <3>1. CASE kind = "ff"
      BY <1>9, <3>1, SolidType, SomeChunks DEF Sent, Start, MessageType, Kinds
    <3>2. CASE kind # "ff"
      BY <1>9, <3>2 DEF Sent, MessageType
    <3> QED
      BY <3>1, <3>2
  <2>3. KeyboardType'
    BY <1>9 DEF Sent, KeyboardType
  <2> QED
    BY <2>1, <2>2, <2>3
<1>10. CASE Environment
  <2>1. HandleType' /\ MessageType'
    <3>1. CASE Unplug
      BY <3>1 DEF Unplug, Gone, HandleType, Handles, MessageType
    <3>2. CASE Plug
      BY <3>2 DEF Plug, HandleType, MessageType
    <3>3. CASE CalmDown
      BY <3>3 DEF CalmDown, HandleType, MessageType
    <3> QED
      BY <1>10, <3>1, <3>2, <3>3 DEF Environment
  <2>2. KeyboardType'
    <3>1. CASE Unplug
      BY <3>1, SolidType, EmptyType DEF Unplug, KeyboardType
    <3>2. CASE Plug
      BY <3>2 DEF Plug, KeyboardType
    <3>3. CASE CalmDown
      BY <3>3 DEF CalmDown, KeyboardType
    <3> QED
      BY <1>10, <3>1, <3>2, <3>3 DEF Environment
  <2> QED
    BY <2>1, <2>2
<1>11. CASE UNCHANGED vars
  BY <1>11 DEF vars, HandleType, MessageType, KeyboardType
<1> QED
  BY <1>1, <1>2, <1>3, <1>4, <1>5, <1>6, <1>7, <1>8, <1>9, <1>10, <1>11
     DEF Next, Client, Driver

(* The initial state is well typed. *)
LEMMA InitType ==
    ASSUME Init
    PROVE  TypeOK
<1>1. HandleType
  BY DEF Init, HandleType, Handles, Steps
<1>2. MessageType
  <2>1. key_data_dirty \in BOOLEAN
    BY DEF Init
  <2> QED
    BY <2>1, SolidType, SomeChunks DEF Init, MessageType, Kinds
<1>3. KeyboardType
  BY SolidType, EmptyType DEF Init, KeyboardType
<1> QED
  BY <1>1, <1>2, <1>3 DEF TypeOK

(* Every reachable state of the driver is well typed. *)
THEOREM TypeCorrect == Spec => []TypeOK
<1>1. Init => TypeOK
  BY InitType
<1>2. TypeOK /\ [Next]_vars => TypeOK'
  BY TypeInductive
<1> QED
  BY <1>1, <1>2, PTL DEF Spec

--------------------------------------------------------------------------------
(* The inductive invariant *)

(* A keyboard that holds nothing is in step with a message not begun.      *)
LEMMA NothingSent == \A f : <<>> = [i \in 1..0 |-> f]
OBVIOUS

(* A keyboard in step with the message being sent takes its next transfer, *)
(* which is not the last: it holds one more.                               *)
LEMMA ReceiveOneMore ==
    ASSUME TypeOK, Receive, chunk + 1 < NChunks,
           rx = [i \in 1..chunk |-> msg]
    PROVE  /\ rx' = [i \in 1..(chunk + 1) |-> msg]
           /\ leds' = leds
           /\ dark' = dark
<1>1. rx \in Seq(Frames) /\ msg \in Frames /\ chunk \in Nat /\ NChunks \in Nat
  BY SomeChunks DEF TypeOK, MessageType, KeyboardType
<1>2. /\ Append(rx, msg) = [i \in 1..(chunk + 1) |-> msg]
      /\ Len(Append(rx, msg)) = chunk + 1
  BY <1>1
<1>3. Len(Append(rx, msg)) < NChunks
  BY <1>2
<1>4. rx' = Append(rx, msg) /\ UNCHANGED <<leds, dark>>
  BY <1>3 DEF Receive
<1> QED
  BY <1>2, <1>4

(* Or it is the last: the keyboard shows the message.                      *)
LEMMA ReceiveLast ==
    ASSUME TypeOK, Receive, chunk + 1 = NChunks,
           rx = [i \in 1..chunk |-> msg]
    PROVE  rx' = <<>> /\ leds' = msg /\ dark' = FALSE
<1> DEFINE got == Append(rx, msg)
<1>1. rx \in Seq(Frames) /\ msg \in Frames /\ chunk \in Nat /\ NChunks \in Nat
  BY SomeChunks DEF TypeOK, MessageType, KeyboardType
<1>2. /\ got = [i \in 1..NChunks |-> msg]
      /\ Len(got) = NChunks
  BY <1>1
<1>3. ~(Len(got) < NChunks)
  BY <1>1, <1>2
<1>4. /\ rx' = <<>>
      /\ leds' = [k \in Keys |-> got[ChunkOf[k]][k]]
      /\ dark' = FALSE
  BY <1>3 DEF Receive
<1>5. \A k \in Keys : got[ChunkOf[k]] = msg
  BY <1>2, ChunksAssumption
<1>6. leds' = [k \in Keys |-> msg[k]]
  BY <1>4, <1>5
<1>7. leds' = msg
  BY <1>1, <1>6 DEF Frames
<1> QED
  BY <1>4, <1>7

(* The flags follow the steps of an update, whoever moves. *)
LEMMA FlagsInductive ==
    ASSUME TypeOK, FlagsFollowSteps, [Next]_vars
    PROVE  FlagsFollowSteps'
<1> USE DEF FlagsFollowSteps, SettledWhenIdle, flags, send
<1>1. /\ opening \in BOOLEAN /\ opened \in BOOLEAN
      /\ initing \in BOOLEAN /\ inited \in BOOLEAN
      /\ kind \in Kinds
  BY DEF TypeOK, HandleType, MessageType
<1>2. ASSUME NEW k \in Keys, NEW c \in Colors, SetKeyColor(k, c)
      PROVE  FlagsFollowSteps'
  BY <1>2 DEF SetKeyColor
<1>3. ASSUME NEW c \in Colors, SetKeyColorAll(c)
      PROVE  FlagsFollowSteps'
  BY <1>3 DEF SetKeyColorAll
<1>4. ASSUME NEW forced \in BOOLEAN, Update(forced)
      PROVE  FlagsFollowSteps'
  BY <1>1, <1>4 DEF Update
<1>5. CASE Find
  BY <1>5 DEF Find
<1>6. CASE OpenHandle
  BY <1>6 DEF OpenHandle
<1>7. CASE Reset
  BY <1>7 DEF Reset
<1>8. CASE BeginInit
  BY <1>1, <1>8 DEF BeginInit, Start
<1>9. CASE Check
  BY <1>1, <1>9 DEF Check, Start
<1>10. CASE Transfer
  BY <1>10 DEF Transfer
<1>11. CASE TransferFails
  BY <1>11 DEF TransferFails
<1>12. CASE Sent
  <2>1. CASE kind = "ff"
    BY <1>12, <2>1 DEF Sent, Start
  <2>2. CASE kind = "00"
    BY <1>12, <2>2 DEF Sent
  <2>3. CASE kind = "frame"
    <3>1. ~opening /\ opened /\ ~initing /\ inited /\ u_dev_hd # "none"
      BY <1>12, <2>3 DEF Sent
    <3>2. pc' = "idle" /\ UNCHANGED <<opening, opened, initing, inited, u_dev_hd>>
      BY <1>12, <2>3 DEF Sent
    <3> QED
      BY <3>1, <3>2
  <2> QED
    BY <1>1, <2>1, <2>2, <2>3 DEF Kinds
<1>13. CASE Fail
  BY <1>13 DEF Fail, Close
<1>14. CASE Environment
  BY <1>14 DEF Environment, Unplug, Plug, CalmDown, Gone
<1>15. CASE UNCHANGED vars
  BY <1>15 DEF vars
<1> QED
  BY <1>2, <1>3, <1>4, <1>5, <1>6, <1>7, <1>8, <1>9, <1>10, <1>11, <1>12,
     <1>13, <1>14, <1>15 DEF Next, Client, Driver

(* The self-test messages are sent before the first initialisation is      *)
(* over, and a clean frame is dark until then.                             *)
LEMMA InitOnceInductive ==
    ASSUME TypeOK, FlagsFollowSteps, InitOnce, [Next]_vars
    PROVE  InitOnce'
<1> USE DEF InitOnce, flags, data, send
<1>1. init_count \in Nat /\ kind \in Kinds
  BY DEF TypeOK, HandleType, MessageType
<1>2. ASSUME NEW k \in Keys, NEW c \in Colors, SetKeyColor(k, c)
      PROVE  InitOnce'
  BY <1>2 DEF SetKeyColor, Store
<1>3. ASSUME NEW c \in Colors, SetKeyColorAll(c)
      PROVE  InitOnce'
  BY <1>3 DEF SetKeyColorAll, Store
<1>4. ASSUME NEW forced \in BOOLEAN, Update(forced)
      PROVE  InitOnce'
  BY <1>4 DEF Update
<1>5. CASE Find \/ OpenHandle \/ Reset
  BY <1>5 DEF Find, OpenHandle, Reset
<1>6. CASE BeginInit
  BY <1>6 DEF BeginInit, Start
<1>7. CASE Check
  BY <1>7 DEF Check, Start
<1>8. CASE Transfer \/ TransferFails
  BY <1>8 DEF Transfer, TransferFails
<1>9. CASE Sent
  <2>1. CASE kind = "ff"
    BY <1>9, <2>1 DEF Sent, Start
  <2>2. CASE kind = "00"
    <3>1. init_count' > 0 /\ pc' = "check"
      BY <1>1, <1>9, <2>2 DEF Sent
    <3> QED
      BY <1>1, <3>1
  <2>3. CASE kind = "frame"
    <3>1. init_count > 0 /\ UNCHANGED <<inited, init_count>> /\ pc' = "idle"
      BY <1>9, <2>3 DEF Sent, FlagsFollowSteps
    <3> QED
      BY <1>1, <3>1
  <2> QED
    BY <1>1, <2>1, <2>2, <2>3 DEF Kinds
<1>10. CASE Fail
  BY <1>10 DEF Fail, Close
<1>11. CASE Environment
  BY <1>11 DEF Environment, Unplug, Plug, CalmDown
<1>12. CASE UNCHANGED vars
  BY <1>12 DEF vars
<1> QED
  BY <1>2, <1>3, <1>4, <1>5, <1>6, <1>7, <1>8, <1>9, <1>10, <1>11, <1>12
     DEF Next, Client, Driver

(* The message being sent is a self-test message, or the clients' frame,   *)
(* which nobody changes before it is sent.                                 *)
LEMMA MessageInductive ==
    ASSUME TypeOK, MessageIsItsKind, [Next]_vars
    PROVE  MessageIsItsKind'
<1> USE DEF MessageIsItsKind, data, send
<1>1. ASSUME NEW k \in Keys, NEW c \in Colors, SetKeyColor(k, c)
      PROVE  MessageIsItsKind'
  BY <1>1 DEF SetKeyColor
<1>2. ASSUME NEW c \in Colors, SetKeyColorAll(c)
      PROVE  MessageIsItsKind'
  BY <1>2 DEF SetKeyColorAll
<1>3. ASSUME NEW forced \in BOOLEAN, Update(forced)
      PROVE  MessageIsItsKind'
  BY <1>3 DEF Update
<1>4. CASE Find \/ OpenHandle \/ Reset
  BY <1>4 DEF Find, OpenHandle, Reset
<1>5. CASE BeginInit
  BY <1>5 DEF BeginInit, Start
<1>6. CASE Check
  BY <1>6 DEF Check, Start
<1>7. CASE Transfer \/ TransferFails
  BY <1>7 DEF Transfer, TransferFails
<1>8. CASE Sent
  BY <1>8 DEF Sent, Start
<1>9. CASE Fail
  BY <1>9 DEF Fail
<1>10. CASE Environment
  BY <1>10 DEF Environment, Unplug, Plug, CalmDown, Solid
<1>11. CASE UNCHANGED vars
  BY <1>11 DEF vars
<1> QED
  BY <1>1, <1>2, <1>3, <1>4, <1>5, <1>6, <1>7, <1>8, <1>9, <1>10, <1>11
     DEF Next, Client, Driver

(* The keyboard stays in step, and shows what was sent to it. *)
LEMMA KeyboardInductive ==
    ASSUME IInv, [Next]_vars
    PROVE  KeyboardFollows'
<1> USE DEF IInv, KeyboardFollows, InStep, flags, data, send, kbd
<1>1. ASSUME NEW k \in Keys, NEW c \in Colors, SetKeyColor(k, c)
      PROVE  KeyboardFollows'
  BY <1>1 DEF SetKeyColor, Store
<1>2. ASSUME NEW c \in Colors, SetKeyColorAll(c)
      PROVE  KeyboardFollows'
  BY <1>2 DEF SetKeyColorAll, Store
<1>3. ASSUME NEW forced \in BOOLEAN, Update(forced)
      PROVE  KeyboardFollows'
  BY <1>3 DEF Update, FlagsFollowSteps, SettledWhenIdle
<1>4. CASE Find
  BY <1>4 DEF Find
<1>5. CASE OpenHandle
  BY <1>5 DEF OpenHandle
<1>6. CASE Reset
  BY <1>6 DEF Reset, KeyboardReset, FlagsFollowSteps
<1>7. CASE BeginInit
  <2>1. CASE initing \/ inited
    BY <1>7, <2>1 DEF BeginInit
  <2>2. CASE ~(initing \/ inited) /\ init_count = 0
    <3>1. pc' = "send" /\ chunk' = 0 /\ rx' = rx /\ u_dev_hd' = u_dev_hd
      BY <1>7, <2>2 DEF BeginInit, Start
    <3>2. u_dev_hd = "live" => rx = <<>>
      BY <1>7 DEF BeginInit
    <3> QED
      BY <3>1, <3>2, NothingSent
  <2>3. CASE ~(initing \/ inited) /\ init_count # 0
    BY <1>7, <2>3 DEF BeginInit
  <2> QED
    BY <2>1, <2>2, <2>3
<1>8. CASE Check
  <2>1. CASE force \/ key_data_dirty
    <3>1. pc' = "send" /\ chunk' = 0 /\ rx' = rx /\ u_dev_hd' = u_dev_hd
      BY <1>8, <2>1 DEF Check, Start
    <3>2. u_dev_hd = "live" => rx = <<>>
      BY <1>8 DEF Check
    <3> QED
      BY <3>1, <3>2, NothingSent
  <2>2. CASE ~(force \/ key_data_dirty)
    BY <1>8, <2>2 DEF Check
  <2> QED
    BY <2>1, <2>2
<1>9. CASE Transfer
  <2>1. rx = [i \in 1..chunk |-> msg] /\ chunk < NChunks
    BY <1>9 DEF Transfer, TypeOK, MessageType
  <2>2. CASE chunk + 1 < NChunks
    BY <1>9, <2>1, <2>2, ReceiveOneMore DEF Transfer
  <2>3. CASE chunk + 1 = NChunks
    BY <1>9, <2>1, <2>3, ReceiveLast DEF Transfer
  <2> QED
    BY <2>1, <2>2, <2>3, SomeChunks DEF TypeOK, MessageType
<1>10. CASE TransferFails
  BY <1>10 DEF TransferFails
<1>11. CASE Sent
  <2>1. CASE kind = "ff"
    <3>1. pc' = "send" /\ chunk' = 0 /\ rx' = rx /\ u_dev_hd' = u_dev_hd
      BY <1>11, <2>1 DEF Sent, Start
    <3>2. u_dev_hd = "live" => rx = <<>>
      BY <1>11 DEF Sent
    <3> QED
      BY <3>1, <3>2, NothingSent
  <2>2. CASE kind = "00"
    <3>1. /\ pc' = "check"
          /\ UNCHANGED <<rx, leds, u_dev_hd, key_data, key_data_dirty>>
      BY <1>11, <2>2 DEF Sent
    <3>2. u_dev_hd = "live" => rx = <<>> /\ leds = msg_00
      BY <1>11, <2>2 DEF Sent, MessageIsItsKind
    <3>3. ~key_data_dirty => key_data = msg_00
      BY <1>11, <2>2 DEF Sent, InitOnce
    <3> QED
      BY <3>1, <3>2, <3>3
  <2>3. CASE kind = "frame"
    <3>1. pc' = "idle" /\ UNCHANGED <<rx, leds, u_dev_hd, key_data>>
      BY <1>11, <2>3 DEF Sent
    <3>2. u_dev_hd = "live" => rx = <<>> /\ leds = key_data
      BY <1>11, <2>3 DEF Sent, MessageIsItsKind
    <3> QED
      BY <3>1, <3>2
  <2> QED
    BY <2>1, <2>2, <2>3 DEF TypeOK, MessageType, Kinds
<1>12. CASE Fail
  BY <1>12 DEF Fail, Close
<1>13. CASE Environment
  BY <1>13 DEF Environment, Unplug, Plug, CalmDown, Gone
<1>14. CASE UNCHANGED vars
  BY <1>14 DEF vars
<1> QED
  BY <1>1, <1>2, <1>3, <1>4, <1>5, <1>6, <1>7, <1>8, <1>9, <1>10, <1>11,
     <1>12, <1>13, <1>14 DEF Next, Client, Driver

--------------------------------------------------------------------------------
(* The theorems *)

(* The conjunction of all the above holds in every reachable state. *)
THEOREM Invariance == Spec => []IInv
<1>1. Init => IInv
  <2> SUFFICES ASSUME Init PROVE IInv
    OBVIOUS
  <2>1. TypeOK
    BY InitType
  <2>2. FlagsFollowSteps /\ MessageIsItsKind
    BY DEF Init, FlagsFollowSteps, SettledWhenIdle, MessageIsItsKind
  <2>3. InitOnce
    BY DEF Init, InitOnce, msg_00
  <2>4. KeyboardFollows
    BY DEF Init, KeyboardFollows, InStep
  <2> QED
    BY <2>1, <2>2, <2>3, <2>4 DEF IInv
<1>2. IInv /\ [Next]_vars => IInv'
  BY TypeInductive, FlagsInductive, InitOnceInductive, MessageInductive,
     KeyboardInductive DEF IInv
<1> QED
  BY <1>1, <1>2, PTL DEF Spec

(* Between two updates the flags are settled, whatever failed before: the  *)
(* next luxeed_device_open is never turned away by a stale opening.        *)
THEOREM FlagsSettle == Spec => []SettledWhenIdle
<1>1. IInv => SettledWhenIdle
  BY DEF IInv, FlagsFollowSteps
<1> QED
  BY <1>1, Invariance, PTL

(* A keyboard that is there never holds part of another message.           *)
THEOREM KeyboardInStep == Spec => []InStep
<1>1. IInv => InStep
  BY DEF IInv, KeyboardFollows
<1> QED
  BY <1>1, Invariance, PTL

(* An update with nothing to send leaves nothing unsent.                   *)
THEOREM CleanIsShown == Spec => []CleanMeansShown
<1>1. IInv => CleanMeansShown
  <2> SUFFICES ASSUME IInv, pc = "idle", u_dev_hd = "live", ~key_data_dirty
               PROVE  leds = key_data
    BY DEF CleanMeansShown
  <2>1. inited
    BY DEF IInv, FlagsFollowSteps, SettledWhenIdle
  <2> QED
    BY <2>1 DEF IInv, KeyboardFollows
<1> QED
  BY <1>1, Invariance, PTL

(* What one step may do to the LEDs. *)
LEMMA LedsStep ==
    ASSUME IInv, [Next]_vars, leds' # leds
    PROVE  leds' \in {msg_ff, msg_00, key_data}
<1> USE DEF flags, data, send, kbd
<1>1. CASE Transfer \/ TransferFails
  <2>1. Receive /\ pc = "send" /\ u_dev_hd = "live"
    BY <1>1 DEF Transfer, TransferFails
  <2>2. TypeOK /\ rx = [i \in 1..chunk |-> msg] /\ chunk < NChunks
    BY <2>1 DEF IInv, KeyboardFollows, InStep, TypeOK, MessageType
  <2>3. chunk + 1 = NChunks
    BY <2>1, <2>2, ReceiveOneMore, SomeChunks DEF TypeOK, MessageType
  <2>4. leds' = msg
    BY <2>1, <2>2, <2>3, ReceiveLast
  <2>5. msg \in {msg_ff, msg_00, key_data}
    BY <2>1, <2>2 DEF IInv, MessageIsItsKind, TypeOK, MessageType, Kinds
  <2> QED
    BY <2>1, <2>4, <2>5
<1>2. CASE Reset \/ Environment
  BY <1>2 DEF Reset, KeyboardReset, Environment, Unplug, Plug, CalmDown, msg_00
<1>3. CASE Client
  BY <1>3 DEF Client, SetKeyColor, SetKeyColorAll, Update
<1>4. CASE Find \/ OpenHandle \/ BeginInit \/ Check \/ Sent \/ Fail
  BY <1>4 DEF Find, OpenHandle, BeginInit, Check, Sent, Fail
<1> QED
  BY <1>1, <1>2, <1>3, <1>4 DEF Next, Driver, vars

(* The LEDs never show a mix of two frames, wherever a transfer fails and  *)
(* whenever the keyboard comes and goes.                                   *)
THEOREM NeverTorn == Spec => NoTearing
<1>1. IInv /\ [Next]_vars =>
        [leds' # leds => leds' \in {msg_ff, msg_00, key_data}]_vars
  BY LedsStep
<1> QED
  BY <1>1, Invariance, PTL DEF Spec, NoTearing

--------------------------------------------------------------------------------
(* Refinement *)

(* Every step of the driver is a step of the display, or none.             *)
LEMMA DisplayStep ==
    ASSUME IInv, [Next]_vars
    PROVE  [Display!Next]_(Display!vars)
<1> USE DEF flags, data, send, kbd, Display!vars
<1> DEFINE quiet == UNCHANGED <<key_data, leds, key_data_dirty, dark, init_count>>
<1>1. TypeOK
  BY DEF IInv
<1>2. quiet => UNCHANGED Display!vars
  OBVIOUS
<1>3. ASSUME NEW f \in Frames, Store(f), UNCHANGED <<leds, dark, init_count>>
      PROVE  Display!Next
  <2>1. Display!Ask(f)
    BY <1>3 DEF Store, Display!Ask
  <2>2. f \in Display!Frames
    BY DEF Frames, Display!Frames
  <2> QED
    BY <2>1, <2>2 DEF Display!Next
<1>4. CASE Client
  <2>1. ASSUME NEW k \in Keys, NEW c \in Colors, SetKeyColor(k, c)
        PROVE  Display!Next
    <3>1. [key_data EXCEPT ![k] = c] \in Frames
      BY <1>1 DEF TypeOK, MessageType, Frames
    <3> QED
      BY <1>3, <2>1, <3>1 DEF SetKeyColor
  <2>2. ASSUME NEW c \in Colors, SetKeyColorAll(c)
        PROVE  Display!Next
    BY <1>3, <2>2, SolidType DEF SetKeyColorAll
  <2>3. ASSUME NEW forced \in BOOLEAN, Update(forced)
        PROVE  quiet
    BY <2>3 DEF Update
  <2> QED
    BY <1>2, <1>4, <2>1, <2>2, <2>3 DEF Client
<1>5. CASE Find \/ OpenHandle \/ BeginInit \/ Check \/ Fail
  <2>1. quiet
    BY <1>5 DEF Find, OpenHandle, BeginInit, Check, Fail
  <2> QED
    BY <1>2, <2>1
<1>6. CASE Reset
  <2>1. CASE KeyboardReset
    BY <1>6, <2>1 DEF Reset, KeyboardReset, Solid, Display!Lose, Display!Solid, Display!Next
  <2>2. CASE UNCHANGED <<rx, leds, dark>>
    BY <1>2, <1>6, <2>2 DEF Reset
  <2> QED
    BY <1>6, <2>1, <2>2 DEF Reset
<1>7. CASE Transfer \/ TransferFails
  <2>1. CASE UNCHANGED <<rx, leds, dark>>
    BY <1>2, <1>7, <2>1 DEF Transfer, TransferFails
  <2>2. CASE Receive /\ u_dev_hd = "live"
    <3>1. rx = [i \in 1..chunk |-> msg] /\ chunk < NChunks
      BY <1>1, <1>7, <2>2
         DEF Transfer, TransferFails, IInv, KeyboardFollows, InStep, TypeOK, MessageType
    <3>2. CASE chunk + 1 < NChunks
      <4>1. leds' = leds /\ dark' = dark
        BY <1>1, <2>2, <3>1, <3>2, ReceiveOneMore
      <4> QED
        BY <1>2, <1>7, <4>1 DEF Transfer, TransferFails
    <3>3. CASE chunk + 1 = NChunks
      <4>1. leds' = msg /\ dark' = FALSE
        BY <1>1, <2>2, <3>1, <3>3, ReceiveLast
      <4>2. UNCHANGED <<key_data, key_data_dirty, init_count>> /\ pc = "send"
        BY <1>7 DEF Transfer, TransferFails
      <4>3. CASE kind = "frame"
        <5>1. msg = key_data /\ init_count > 0
          BY <4>2, <4>3 DEF IInv, MessageIsItsKind, FlagsFollowSteps, InitOnce
        <5> QED
          BY <4>1, <4>2, <5>1 DEF Display!Show, Display!Next
      <4>4. CASE kind # "frame"
        <5>1. ~(init_count > 0)
          BY <4>2, <4>4 DEF IInv, InitOnce
        <5>2. msg \in {msg_ff, msg_00}
          BY <4>2, <4>4, <1>1 DEF IInv, MessageIsItsKind, TypeOK, MessageType, Kinds
        <5>3. Display!Flash(msg)
          BY <4>1, <4>2, <5>1 DEF Display!Flash
        <5> QED
          BY <5>2, <5>3 DEF Display!Next
      <4> QED
        BY <4>3, <4>4
    <3> QED
      BY <1>1, <3>1, <3>2, <3>3, SomeChunks DEF TypeOK, MessageType
  <2> QED
    BY <1>7, <2>1, <2>2 DEF Transfer, TransferFails
<1>8. CASE Sent
  <2>1. CASE kind = "ff"
    BY <1>2, <1>8, <2>1 DEF Sent, Start
  <2>2. CASE kind = "00"
    <3>1. /\ ~(init_count > 0)
          /\ dark \/ leds = Solid(Off)
      BY <1>8, <2>2 DEF Sent, IInv, InitOnce, KeyboardFollows, MessageIsItsKind, msg_00
    <3>2. /\ init_count' > 0
          /\ UNCHANGED <<key_data, leds, key_data_dirty, dark>>
      BY <1>1, <1>8, <2>2 DEF Sent, TypeOK, HandleType
    <3>3. Display!Ready
      BY <3>1, <3>2 DEF Display!Ready, Display!Solid, Solid
    <3> QED
      BY <3>3 DEF Display!Next
  <2>3. CASE kind = "frame"
    <3>1. /\ init_count > 0
          /\ dark \/ leds = key_data
      BY <1>8, <2>3
         DEF Sent, IInv, InitOnce, FlagsFollowSteps, KeyboardFollows, MessageIsItsKind
    <3>2. /\ key_data_dirty' = FALSE
          /\ UNCHANGED <<key_data, leds, dark, init_count>>
      BY <1>8, <2>3 DEF Sent
    <3>3. Display!Acknowledge
      BY <3>1, <3>2 DEF Display!Acknowledge
    <3> QED
      BY <3>3 DEF Display!Next
  <2> QED
    BY <1>1, <2>1, <2>2, <2>3 DEF TypeOK, MessageType, Kinds
<1>9. CASE Unplug
  <2>1. Display!Lose
    BY <1>9 DEF Unplug, Solid, Display!Lose, Display!Solid
  <2> QED
    BY <2>1 DEF Display!Next
<1>10. CASE Plug \/ CalmDown \/ UNCHANGED vars
  <2>1. quiet
    BY <1>10 DEF Plug, CalmDown, vars
  <2> QED
    BY <1>2, <2>1
<1> QED
  BY <1>4, <1>5, <1>6, <1>7, <1>8, <1>9, <1>10 DEF Next, Driver, Environment

(* The driver implements the display: frames appear whole, the self-test   *)
(* runs once, and a change is acknowledged only when it was lit.           *)
THEOREM Refinement == Spec => DisplaySpec
<1>1. Init => Display!Init
  BY DEF Init, Solid, Display!Init, Display!Solid
<1>2. IInv /\ [Next]_vars => [Display!Next]_(Display!vars)
  BY DisplayStep
<1> QED
  BY <1>1, <1>2, Invariance, PTL DEF Spec, DisplaySpec, Display!Spec
================================================================================
