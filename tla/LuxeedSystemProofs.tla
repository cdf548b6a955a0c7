--------------------------- MODULE LuxeedSystemProofs ---------------------------
(***************************************************************************)
(* Proofs about the server and the driver together, for any clients, any   *)
(* frame and any number of transfers: the server makes the driver do what  *)
(* LuxeedDevice specifies, whose proofs are used here as they stand; the   *)
(* update is, for the clients, one step of LuxeedServer; and the last      *)
(* client to leave leaves its colours on the keyboard.                     *)
(***************************************************************************)
EXTENDS LuxeedSystem, TLAPS

DevP == INSTANCE LuxeedDeviceProofs

--------------------------------------------------------------------------------
(* The driver in the system is the driver of LuxeedDevice. *)

(* The two instances of LuxeedDevice are the same. *)
LEMMA SameState == Dev!vars = DevP!vars /\ (Dev!Init <=> DevP!Init)
BY DEF Dev!vars, DevP!vars, Dev!flags, DevP!flags, Dev!data, DevP!data, Dev!send, DevP!send,
       Dev!kbd, DevP!kbd, Dev!Init, DevP!Init, Dev!Solid, DevP!Solid, Dev!msg_00, DevP!msg_00

(* So are what clients ask of the driver, *)
LEMMA SameClient == Dev!Client <=> DevP!Client
BY DEF Dev!Client, DevP!Client, Dev!SetKeyColor, DevP!SetKeyColor, Dev!SetKeyColorAll,
       DevP!SetKeyColorAll, Dev!Store, DevP!Store, Dev!Solid, DevP!Solid, Dev!Update, DevP!Update,
       Dev!flags, DevP!flags, Dev!data, DevP!data, Dev!send, DevP!send, Dev!kbd, DevP!kbd

(* what happens to the keyboard, *)
LEMMA SameEnvironment == Dev!Environment <=> DevP!Environment
BY DEF Dev!Environment, DevP!Environment, Dev!Unplug, DevP!Unplug, Dev!Plug, DevP!Plug,
       Dev!CalmDown, DevP!CalmDown, Dev!Gone, DevP!Gone, Dev!Solid, DevP!Solid,
       Dev!flags, DevP!flags, Dev!data, DevP!data, Dev!send, DevP!send, Dev!kbd, DevP!kbd

(* the steps of an update, *)
LEMMA SameDriver == Dev!Driver <=> DevP!Driver
<1> USE DEF Dev!flags, DevP!flags, Dev!data, DevP!data, Dev!send, DevP!send, Dev!kbd, DevP!kbd,
            Dev!Start, DevP!Start, Dev!Receive, DevP!Receive, Dev!Solid, DevP!Solid,
            Dev!msg_00, DevP!msg_00, Dev!KeyboardReset, DevP!KeyboardReset
<1>1. (Dev!Find <=> DevP!Find) /\ (Dev!OpenHandle <=> DevP!OpenHandle)
  BY DEF Dev!Find, DevP!Find, Dev!OpenHandle, DevP!OpenHandle
<1>2. Dev!Reset <=> DevP!Reset
  BY DEF Dev!Reset, DevP!Reset
<1>3. (Dev!BeginInit <=> DevP!BeginInit) /\ (Dev!Check <=> DevP!Check)
  BY DEF Dev!BeginInit, DevP!BeginInit, Dev!Check, DevP!Check
<1>4. (Dev!Transfer <=> DevP!Transfer) /\ (Dev!TransferFails <=> DevP!TransferFails)
  BY DEF Dev!Transfer, DevP!Transfer, Dev!TransferFails, DevP!TransferFails
<1>5. (Dev!Sent <=> DevP!Sent) /\ (Dev!Fail <=> DevP!Fail)
  BY DEF Dev!Sent, DevP!Sent, Dev!Fail, DevP!Fail, Dev!Close, DevP!Close
<1> QED
  BY <1>1, <1>2, <1>3, <1>4, <1>5 DEF Dev!Driver, DevP!Driver

(* and the invariant that is proved of them. *)
LEMMA SameInvariant == Dev!IInv <=> DevP!IInv
<1>1. Dev!TypeOK <=> DevP!TypeOK
  BY DEF Dev!TypeOK, DevP!TypeOK, Dev!HandleType, DevP!HandleType, Dev!MessageType,
         DevP!MessageType, Dev!KeyboardType, DevP!KeyboardType, Dev!Frames, DevP!Frames,
         Dev!Handles, DevP!Handles, Dev!Steps, DevP!Steps, Dev!Kinds, DevP!Kinds
<1>2. Dev!FlagsFollowSteps <=> DevP!FlagsFollowSteps
  BY DEF Dev!FlagsFollowSteps, DevP!FlagsFollowSteps, Dev!SettledWhenIdle, DevP!SettledWhenIdle
<1>3. (Dev!InitOnce <=> DevP!InitOnce) /\ (Dev!MessageIsItsKind <=> DevP!MessageIsItsKind)
  BY DEF Dev!InitOnce, DevP!InitOnce, Dev!MessageIsItsKind, DevP!MessageIsItsKind,
         Dev!msg_00, DevP!msg_00, Dev!Solid, DevP!Solid
<1>4. Dev!KeyboardFollows <=> DevP!KeyboardFollows
  BY DEF Dev!KeyboardFollows, DevP!KeyboardFollows, Dev!InStep, DevP!InStep
<1> QED
  BY <1>1, <1>2, <1>3, <1>4 DEF Dev!IInv, DevP!IInv

(* What is proved of the driver alone. *)
LEMMA DriverInvariance == Dev!Spec => []Dev!IInv
<1>1. DevP!ColorsAssumption /\ DevP!ChunksAssumption
  BY FramesKnown DEF DevP!ColorsAssumption, DevP!ChunksAssumption
<1>2. DevP!Spec => []DevP!IInv
  BY <1>1, DevP!Invariance
<1>3. Dev!Init => DevP!Init
  BY SameState
<1>4. [Dev!Next]_Dev!vars => [DevP!Next]_DevP!vars
  <2>1. Dev!Next => DevP!Next
    BY SameClient, SameDriver, SameEnvironment DEF Dev!Next, DevP!Next
  <2>2. UNCHANGED Dev!vars => UNCHANGED DevP!vars
    BY DEF Dev!vars, DevP!vars, Dev!flags, DevP!flags, Dev!data, DevP!data, Dev!send,
           DevP!send, Dev!kbd, DevP!kbd
  <2> QED
    BY <2>1, <2>2
<1>5. DevP!IInv => Dev!IInv
  BY SameInvariant
<1> QED
  BY <1>2, <1>3, <1>4, <1>5, PTL DEF Dev!Spec, DevP!Spec

(* The parts of the state of LuxeedDevice, in the tuples of the system. *)
LEMMA DriverStill ==
    ASSUME UNCHANGED <<shared, driver, keyboard>>
    PROVE  UNCHANGED Dev!vars
BY DEF shared, driver, keyboard, Dev!vars, Dev!flags, Dev!data, Dev!send, Dev!kbd

(* What the clients and the loop do leaves the driver alone; a command     *)
(* that speaks to the device is a step of it.                              *)
LEMMA DriverSteps == [Next]_vars => [Dev!Next]_Dev!vars
<1> SUFFICES ASSUME [Next]_vars PROVE Dev!Next \/ UNCHANGED Dev!vars
  OBVIOUS
<1>1. CASE UNCHANGED vars
  BY <1>1, DriverStill DEF vars
<1>2. ASSUME NEW c \in Clients, ClientStep(c) PROVE UNCHANGED Dev!vars
  <2>1. UNCHANGED shared
    BY <1>2 DEF ClientStep, Srv!ClientStep, Srv!Connect, Srv!Write, Srv!EndLine, Srv!HangUp,
                Srv!device, shared
  <2> QED
    BY <1>2, <2>1, DriverStill DEF ClientStep
<1>3. ASSUME NEW c \in Clients, Loop(c) PROVE UNCHANGED Dev!vars
  <2>1. UNCHANGED shared
    BY <1>3 DEF Loop, Srv!Accept, Srv!ReadFires, Srv!SleepFinished, Srv!Fill, Srv!device, shared
  <2> QED
    BY <1>3, <2>1, DriverStill DEF Loop
<1>4. ASSUME NEW c \in Clients, RunSet(c) PROVE Dev!Client
  BY <1>4 DEF RunSet, Dev!Client
<1>5. ASSUME NEW c \in Clients, RunWait(c) \/ RunGet(c) \/ EndUpdate(c) \/ EndClose(c)
      PROVE UNCHANGED Dev!vars
  BY <1>5, DriverStill DEF RunWait, RunGet, EndUpdate, EndClose
<1>6. ASSUME NEW c \in Clients, BeginUpdate(c) PROVE Dev!Client
  BY <1>6 DEF BeginUpdate, Dev!Client
<1>7. ASSUME NEW c \in Clients, BeginClose(c) PROVE Dev!Client \/ UNCHANGED Dev!vars
  BY <1>7, DriverStill DEF BeginClose, Dev!Client
<1>8. CASE DriverStep \/ Environment
  BY <1>8 DEF DriverStep, Environment, Dev!Next
<1> QED
  BY <1>1, <1>2, <1>3, <1>4, <1>5, <1>6, <1>7, <1>8 DEF Next, Handler, Dev!Next

(* The server uses the driver as LuxeedDevice says it is used: colours and *)
(* updates only when no update runs.                                       *)
THEOREM DriverAsSpecified == Spec => Dev!Spec
<1>1. Init => Dev!Init
  BY DEF Init
<1> QED
  BY <1>1, DriverSteps, PTL DEF Spec, Dev!Spec

(* So what is proved of the driver alone holds of it in the server.        *)
LEMMA DriverKeeps == Spec => []Dev!IInv
BY DriverAsSpecified, DriverInvariance, PTL

--------------------------------------------------------------------------------
(* The server: one handler at a time, for a client nothing else waits for. *)

(* Types of what the clients and the server have, as far as it is needed. *)
ServerType ==
    /\ conn \in [Clients -> {"away", "backlog", "open", "closed"}]
    /\ DOMAIN sock = Clients /\ DOMAIN file = Clients
    /\ eof \in [Clients -> BOOLEAN]
    /\ serving \in Clients \cup {Nobody}

(* Types of the flags and of the events. *)
EventType ==
    /\ read_ev_active \in [Clients -> BOOLEAN] /\ timer_ev_active \in [Clients -> BOOLEAN]
    /\ read_ev \in [Clients -> BOOLEAN] /\ timer_ev \in [Clients -> BOOLEAN]

(* A client that is served or not there has no event pending, and no       *)
(* client two; the one that is served is there until it is closed.         *)
NotWaitedFor ==
    /\ \A c \in Clients : ~(read_ev[c] /\ timer_ev[c])
    /\ \A c \in Clients : serving = c \/ conn[c] # "open" => ~read_ev[c] /\ ~timer_ev[c]
    /\ \A c \in Clients : serving = c /\ call # "close" => conn[c] = "open"

(* An update runs only for the client that is served. *)
Called ==
    /\ call \in {"none", "line", "close"}
    /\ call = "none" => pc = "idle"
    /\ call # "none" => serving \in Clients

(* The line that asked for the update is still there. *)
LineWaits ==
    call = "line" =>
        /\ Srv!HasLine(file[serving]) \/ (file[serving] # <<>> /\ Srv!AtEnd(serving))
        /\ file[serving][1] = "u"

(* The client that is being closed has its flags cleared and says no more. *)
CloseWaits ==
    call = "close" =>
        /\ Srv!NoLine(serving)
        /\ conn[serving] = "closed"
        /\ before.opened
        /\ before.flags[1] \in [Clients -> BOOLEAN] /\ before.flags[2] \in [Clients -> BOOLEAN]
        /\ read_ev_active = [before.flags[1] EXCEPT ![serving] = FALSE]
        /\ timer_ev_active = [before.flags[2] EXCEPT ![serving] = FALSE]

(* The types of the ends of the connections and of the process. *)
EndsType ==
    /\ peer \in [Clients -> {"here", "gone", "reset"}]
    /\ alive \in BOOLEAN

(* What holds of the server at each step, whatever an update is at. *)
ServerInv ==
    ServerType /\ EventType /\ NotWaitedFor /\ Called /\ LineWaits /\ CloseWaits

(* Nobody is connected, served or waited for at first. *)
LEMMA InitServer == Init => ServerInv
<1> SUFFICES ASSUME Init PROVE ServerInv
  OBVIOUS
<1>1. ServerType /\ EventType
  BY DEF Init, Srv!Init, ServerType, EventType
<1>2. NotWaitedFor
  BY BoundKnown DEF Init, Srv!Init, NotWaitedFor
<1>3. Called /\ LineWaits /\ CloseWaits
  BY DEF Init, Dev!Init, Called, LineWaits, CloseWaits
<1> QED
  BY <1>1, <1>2, <1>3 DEF ServerInv

(* A client that hangs up, a reply and a crash keep the types of the ends. *)
LEMMA EndsInductive ==
    ASSUME EndsType, [Next]_vars
    PROVE  EndsType'
<1>1. CASE UNCHANGED ends
  BY <1>1 DEF ends, EndsType
<1>2. ASSUME NEW c \in Clients, Srv!HangUp(c) PROVE EndsType'
  BY <1>2 DEF Srv!HangUp, Srv!Departed, EndsType
<1>3. ASSUME NEW c \in Clients, Srv!Reply(c) PROVE EndsType'
  BY <1>3 DEF Srv!Reply, Srv!ends, EndsType
<1>4. CASE DriverStep
  BY <1>4, Zenon DEF DriverStep, EndsType
<1>5. ASSUME NEW c \in Clients, ClientStep(c) PROVE UNCHANGED ends \/ Srv!HangUp(c)
  BY <1>5 DEF ClientStep, Srv!ClientStep, Srv!Connect, Srv!Write, Srv!EndLine, Srv!ends, ends
<1>6. ASSUME NEW c \in Clients, Loop(c) PROVE UNCHANGED ends
  BY <1>6 DEF Loop, Srv!Accept, Srv!ReadFires, Srv!SleepFinished, Srv!Fill, Srv!ends, ends
<1>7. ASSUME NEW c \in Clients, Handler(c) PROVE UNCHANGED ends \/ Srv!Reply(c)
  BY <1>7 DEF Handler, RunSet, RunWait, RunGet, BeginUpdate, EndUpdate, BeginClose, EndClose,
              LineDone
<1>8. Environment \/ UNCHANGED vars => UNCHANGED ends
  BY DEF Environment, vars
<1> QED
  BY <1>1, <1>2, <1>3, <1>4, <1>5, <1>6, <1>7, <1>8 DEF Next

(* The clients write to their own sockets, and not after they hung up. *)
LEMMA ClientsKeep ==
    ASSUME EndsType, ServerInv, NEW c \in Clients, ClientStep(c)
    PROVE  ServerInv'
<1> USE DEF ServerInv
<1>1. UNCHANGED <<file, flags, pending, serving, call, before, pc>>
  BY DEF ClientStep, Srv!ClientStep, Srv!Connect, Srv!Write, Srv!EndLine, Srv!HangUp,
         Srv!flags, Srv!pending, flags, pending, calling, driver
<1>2. DOMAIN sock' = Clients /\ eof' \in [Clients -> BOOLEAN]
  BY DEF ClientStep, Srv!ClientStep, Srv!Connect, Srv!Write, Srv!EndLine, Srv!HangUp,
         Srv!client, ServerType
<1>3. \/ UNCHANGED conn
      \/ conn[c] = "away" /\ conn' = [conn EXCEPT ![c] = "backlog"]
  BY DEF ClientStep, Srv!ClientStep, Srv!Connect, Srv!Write, Srv!EndLine, Srv!HangUp
<1>4. \A d \in Clients : Srv!AtEnd(d) => Srv!AtEnd(d)'
  BY DEF ClientStep, Srv!ClientStep, Srv!Connect, Srv!Write, Srv!EndLine, Srv!HangUp,
         Srv!client, Srv!AtEnd, ServerType
<1>5. \A d \in Clients : Srv!AtEnd(d) => peer'[d] = peer[d]
  BY DEF ClientStep, Srv!ClientStep, Srv!Connect, Srv!Write, Srv!EndLine, Srv!HangUp,
         Srv!Departed, Srv!ends, Srv!AtEnd, EndsType
<1>6. ServerType'
  BY <1>1, <1>2, <1>3 DEF ServerType
<1>7. EventType'
  BY <1>1 DEF EventType, flags, pending
<1>8. NotWaitedFor'
  BY <1>1, <1>3 DEF NotWaitedFor, ServerType, pending
<1>9. Called'
  BY <1>1 DEF Called
<1>10. LineWaits'
  BY <1>1, <1>4 DEF LineWaits, Called, Srv!HasLine
<1>11. CloseWaits'
  BY <1>1, <1>3, <1>4, <1>5 DEF CloseWaits, Called, ServerType, flags, Srv!NoLine, Srv!HasLine
<1> QED
  BY <1>6, <1>7, <1>8, <1>9, <1>10, <1>11

(* An update touches nothing of the server, and the keyboard neither. *)
LEMMA DriverKeepsServer ==
    ASSUME ServerInv, DriverStep \/ Environment
    PROVE  ServerInv'
<1> USE DEF ServerInv
<1>1. UNCHANGED <<server, peer, calling>>
  BY DEF DriverStep, Environment, ends
<1>2. Called'
  <2>1. CASE DriverStep
    <3>1. pc # "idle"
      BY <2>1 DEF DriverStep, Dev!Driver, Dev!Find, Dev!OpenHandle, Dev!Reset, Dev!BeginInit,
                  Dev!Check, Dev!Transfer, Dev!TransferFails, Dev!Sent, Dev!Fail
    <3> QED
      BY <1>1, <3>1 DEF Called, server, calling
  <2>2. CASE Environment
    <3>1. UNCHANGED pc
      BY <2>2 DEF Environment, Dev!Environment, Dev!Unplug, Dev!Plug, Dev!CalmDown
    <3> QED
      BY <1>1, <3>1 DEF Called, server, calling
  <2> QED
    BY <2>1, <2>2
<1>3. ServerType' /\ EventType'
  BY <1>1 DEF ServerType, EventType, server, client, flags, pending
<1>4. NotWaitedFor'
  BY <1>1 DEF NotWaitedFor, server, pending, calling
<1>5. LineWaits' /\ CloseWaits'
  BY <1>1 DEF LineWaits, CloseWaits, Srv!NoLine, Srv!HasLine, Srv!AtEnd, server, client, flags,
     calling
<1> QED
  BY <1>2, <1>3, <1>4, <1>5

(* The loop: a client is accepted, woken, or served because it is ready. *)
LEMMA LoopKeepsServer ==
    ASSUME ServerInv, NEW c \in Clients, Loop(c)
    PROVE  ServerInv'
<1> USE DEF ServerInv
<1>1. UNCHANGED <<call, pc>> /\ call = "none"
  BY DEF Loop, calling, driver
<1>2. ServerType'
  BY DEF Loop, Srv!Accept, Srv!EndpointAccept, Srv!ReadFires, Srv!SleepFinished, Srv!Fill,
         Srv!client, ServerType
<1>3. EventType'
  BY DEF Loop, Srv!Accept, Srv!ClientOpen, Srv!ReadFires, Srv!SleepFinished, Srv!Fill,
         Srv!flags, Srv!pending, EventType
<1>4. NotWaitedFor'
  <2>1. CASE Srv!Accept(c)
    BY <1>1, <2>1, BoundKnown DEF Srv!Accept, Srv!EndpointAccept, Srv!ClientOpen, NotWaitedFor,
       ServerType, EventType
  <2>2. CASE Srv!ReadFires(c)
    BY <1>1, <2>2, BoundKnown DEF Srv!ReadFires, NotWaitedFor, ServerType, EventType
  <2>3. CASE Srv!SleepFinished(c)
    BY <1>1, <2>3, BoundKnown DEF Srv!SleepFinished, NotWaitedFor, ServerType, EventType
  <2>4. CASE Srv!Fill(c)
    BY <1>1, <2>4 DEF Srv!Fill, Srv!pending, NotWaitedFor, ServerType, EventType
  <2> QED
    BY <2>1, <2>2, <2>3, <2>4 DEF Loop
<1>5. Called' /\ LineWaits' /\ CloseWaits'
  BY <1>1 DEF Called, LineWaits, CloseWaits
<1> QED
  BY <1>2, <1>3, <1>4, <1>5

(* A handler that is at its end: nobody is served, and the client that was *)
(* has at most one event. *)
LEMMA HandlerEnds ==
    ASSUME ServerInv, NEW c \in Clients, serving = c, serving' = Nobody,
           call' = "none", pc' = "idle", UNCHANGED <<conn, sock, eof>>, DOMAIN file' = Clients,
           \/ conn[c] = "open" /\ (Srv!ReadAgain(c) \/ Srv!Sleep(c))
           \/ conn[c] # "open" /\ UNCHANGED <<flags, pending>>
    PROVE  ServerInv'
<1> USE DEF ServerInv
<1>1. ServerType' /\ Called' /\ LineWaits' /\ CloseWaits'
  BY DEF ServerType, Called, LineWaits, CloseWaits
<1>2. EventType'
  BY DEF EventType, Srv!ReadAgain, Srv!Sleep, flags, pending
<1>3. NotWaitedFor'
  <2>1. CASE conn[c] = "open" /\ Srv!ReadAgain(c)
    BY <2>1, BoundKnown DEF NotWaitedFor, Srv!ReadAgain, ServerType, EventType
  <2>2. CASE conn[c] = "open" /\ Srv!Sleep(c)
    BY <2>2, BoundKnown DEF NotWaitedFor, Srv!Sleep, ServerType, EventType
  <2>3. CASE conn[c] # "open" /\ UNCHANGED <<flags, pending>>
    BY <2>3, BoundKnown DEF NotWaitedFor, pending
  <2> QED
    BY <2>1, <2>2, <2>3
<1> QED
  BY <1>1, <1>2, <1>3

(* A handler runs a line, or closes its client, with an update or without. *)
LEMMA HandlersKeep ==
    ASSUME ServerInv, NEW c \in Clients, Handler(c)
    PROVE  ServerInv'
<1> USE DEF ServerInv
<1>1. ASSUME RunSet(c) \/ RunWait(c) \/ RunGet(c) PROVE ServerInv'
  <2>1. serving = c /\ serving' = Nobody /\ call = "none" /\ UNCHANGED call
    BY <1>1 DEF RunSet, RunWait, RunGet, Given, LineDone, calling
  <2>2. UNCHANGED pc
    BY <1>1 DEF RunSet, RunWait, RunGet, Dev!SetKeyColor, Dev!SetKeyColorAll, driver
  <2>3. UNCHANGED <<conn, sock, eof>> /\ DOMAIN file' = Clients
    BY <1>1 DEF RunSet, RunWait, RunGet, LineDone, client, ServerType
  <2>4. Srv!ReadAgain(c) \/ Srv!Sleep(c)
    BY <1>1 DEF RunSet, RunWait, RunGet
  <2> QED
    BY <2>1, <2>2, <2>3, <2>4, HandlerEnds DEF Called, NotWaitedFor
<1>2. ASSUME BeginUpdate(c) PROVE ServerInv'
  <2>1. UNCHANGED server /\ serving = c /\ call = "none" /\ call' = "line"
    BY <1>2 DEF BeginUpdate, Given
  <2>2. ServerType' /\ EventType' /\ NotWaitedFor'
    BY <2>1 DEF ServerType, EventType, NotWaitedFor, server, client, flags, pending
  <2>3. Called' /\ CloseWaits'
    BY <2>1 DEF Called, CloseWaits, server
  <2>4. LineWaits'
    BY <1>2, <2>1 DEF BeginUpdate, Given, LineWaits, Srv!HasLine, Srv!AtEnd, server, client
  <2> QED
    BY <2>2, <2>3, <2>4
<1>3. ASSUME EndUpdate(c) PROVE ServerInv'
  <2>1. serving = c /\ serving' = Nobody /\ call = "line" /\ call' = "none"
    BY <1>3 DEF EndUpdate, LineDone
  <2>2. pc' = "idle"
    BY <1>3 DEF EndUpdate, driver
  <2>3. UNCHANGED <<conn, sock, eof>> /\ DOMAIN file' = Clients /\ Srv!ReadAgain(c)
    BY <1>3 DEF EndUpdate, LineDone, client, ServerType
  <2> QED
    BY <2>1, <2>2, <2>3, HandlerEnds DEF NotWaitedFor
<1>4. ASSUME BeginClose(c) PROVE ServerInv'
  <2>1. serving = c /\ call = "none" /\ UNCHANGED <<sock, eof, file, peer>>
    BY <1>4 DEF BeginClose, client, ends
  <2>2. /\ conn' = [conn EXCEPT ![c] = "closed"]
        /\ read_ev_active' = [read_ev_active EXCEPT ![c] = FALSE]
        /\ timer_ev_active' = [timer_ev_active EXCEPT ![c] = FALSE]
    BY <1>4 DEF BeginClose, Srv!EndpointClose
  <2>3. /\ read_ev' = [read_ev EXCEPT ![c] = read_ev[c] /\ ~read_ev_active[c]]
        /\ timer_ev' = [timer_ev EXCEPT ![c] = timer_ev[c] /\ ~timer_ev_active[c]]
    BY <1>4 DEF BeginClose
  <2>4. \/ serving' = c /\ call' = "close" /\ opened /\ before' = Snapshot
        \/ serving' = Nobody /\ call' = "none" /\ pc' = "idle"
    BY <1>4, <2>1 DEF BeginClose, Called, calling, driver
  <2>5. ServerType' /\ Called'
    BY <2>1, <2>2, <2>4 DEF ServerType, Called
  <2>6. EventType'
    BY <2>2, <2>3 DEF EventType
  <2>7. NotWaitedFor'
    BY <2>1, <2>2, <2>3, <2>4, BoundKnown DEF NotWaitedFor, ServerType, EventType
  <2>8. CloseWaits' /\ LineWaits'
    <3>1. Srv!NoLine(c)
      BY <1>4 DEF BeginClose
    <3>2. ASSUME call' = "close" PROVE CloseWaits'
      <4>1. before' = Snapshot /\ serving' = c /\ opened
        BY <2>4, <3>2
      <4>2. before'.opened /\ before'.flags = flags
        BY <4>1 DEF Snapshot
      <4>3. before'.flags[1] = read_ev_active /\ before'.flags[2] = timer_ev_active
        BY <4>2 DEF flags
      <4>4. conn'[c] = "closed"
        BY <2>2 DEF ServerType
      <4> QED
        BY <2>1, <2>2, <3>1, <4>1, <4>2, <4>3, <4>4 DEF CloseWaits, Srv!NoLine, Srv!HasLine,
             Srv!AtEnd, EventType
    <3> QED
      BY <2>4, <3>2 DEF CloseWaits, LineWaits
  <2> QED
    BY <2>5, <2>6, <2>7, <2>8
<1>5. ASSUME EndClose(c) PROVE ServerInv'
  <2>1. serving = c /\ serving' = Nobody /\ call = "close" /\ call' = "none" /\ pc' = "idle"
    BY <1>5 DEF EndClose, driver
  <2>2. UNCHANGED <<conn, sock, eof, file, flags, pending>>
    BY <1>5 DEF EndClose, client
  <2> QED
    BY <2>1, <2>2, HandlerEnds DEF CloseWaits, ServerType
<1> QED
  BY <1>1, <1>2, <1>3, <1>4, <1>5 DEF Handler

(* Every step of the system keeps it. *)
LEMMA ServerInductive == EndsType /\ ServerInv /\ [Next]_vars => ServerInv'
<1> SUFFICES ASSUME EndsType, ServerInv, [Next]_vars PROVE ServerInv'
  OBVIOUS
<1>1. CASE UNCHANGED vars
  BY <1>1 DEF vars, server, ends, client, flags, pending, driver, calling, ServerInv, ServerType,
     EventType, NotWaitedFor, Called, LineWaits, CloseWaits, Srv!NoLine, Srv!HasLine, Srv!AtEnd
<1> QED
  BY <1>1, ClientsKeep, LoopKeepsServer, HandlersKeep, DriverKeepsServer DEF Next

--------------------------------------------------------------------------------
(* The update: what it may have done to the device when it returns.        *)

(* What luxeed_device_update has changed of what it found, at each of its  *)
(* steps: nothing but the initialisation, until it returns.                *)
UpdateUnderWay ==
    call # "none" /\ pc # "idle" =>
        /\ ~force
        /\ key_data_dirty = before.key_data_dirty
        /\ pc \in {"send", "sent"} /\ kind = "frame" => key_data_dirty
        /\ IF before.opened
           THEN /\ pc \in {"init", "check", "send", "sent", "fail"}
                /\ init_count = before.init_count
                /\ pc \in {"init", "check", "send", "sent"} => inited
                /\ pc \in {"send", "sent"} => kind = "frame"
                /\ pc = "fail" => key_data_dirty
           ELSE /\ init_count \in {before.init_count, 1}
                /\ pc \in {"find", "open", "reset", "init"} => init_count = before.init_count
                /\ pc = "init" => ~inited
                /\ pc = "check" \/ (pc \in {"send", "sent"} /\ kind = "frame") =>
                      init_count = 1 /\ before.init_count = 0
                /\ pc \in {"send", "sent"} /\ kind # "frame" =>
                      init_count = 0 /\ before.init_count = 0

(* What it leaves behind: LuxeedServer's DeviceUpdate.                     *)
Updated ==
    \/ /\ before.opened \/ before.init_count = 0
       /\ opened
       /\ init_count = IF before.opened THEN before.init_count ELSE 1
       /\ ~key_data_dirty
    \/ /\ ~before.opened \/ before.key_data_dirty
       /\ ~opened
       /\ init_count \in {before.init_count, IF before.opened THEN before.init_count ELSE 1}
       /\ key_data_dirty = before.key_data_dirty

(* What an update is at, or has done. *)
UpdateInv ==
    /\ UpdateUnderWay
    /\ call # "none" /\ pc = "idle" => Updated

(* The driver follows that, step by step, to what it leaves behind. *)
LEMMA DriverUpdates ==
    ASSUME Dev!IInv, ServerInv, UpdateInv, DriverStep
    PROVE  UpdateInv'
<1> USE DEF UpdateInv, UpdateUnderWay
<1>1. UNCHANGED <<call, before>>
  BY DEF DriverStep, calling
<1>2. /\ pc \in {"init", "check", "send", "sent"} => opened
      /\ pc \in {"find", "open", "reset"} => ~inited
      /\ init_count \in Nat
      /\ opened \in BOOLEAN /\ key_data_dirty \in BOOLEAN
  BY DEF Dev!IInv, Dev!TypeOK, Dev!HandleType, Dev!MessageType, Dev!FlagsFollowSteps
<1>3. CASE call = "none"
  BY <1>1, <1>3
<1>4. ASSUME call # "none", Dev!Find \/ Dev!OpenHandle PROVE UpdateInv'
  BY <1>1, <1>4 DEF Dev!Find, Dev!OpenHandle, Dev!flags, Dev!data, Dev!send
<1>5. ASSUME call # "none", Dev!Reset PROVE UpdateInv'
  BY <1>1, <1>2, <1>5 DEF Dev!Reset, Dev!data, Dev!send
<1>6. ASSUME call # "none", Dev!BeginInit PROVE UpdateInv'
  <2>1. ~initing
    BY <1>6 DEF Dev!BeginInit, Dev!IInv, Dev!FlagsFollowSteps
  <2> QED
    BY <1>1, <1>2, <1>6, <2>1 DEF Dev!BeginInit, Dev!Start, Dev!data, Dev!send
<1>7. ASSUME call # "none", Dev!Check PROVE UpdateInv'
  BY <1>1, <1>2, <1>7 DEF Dev!Check, Dev!Start, Dev!flags, Dev!data, Dev!send, Updated
<1>8. ASSUME call # "none", Dev!Transfer \/ Dev!TransferFails PROVE UpdateInv'
  BY <1>1, <1>2, <1>8 DEF Dev!Transfer, Dev!TransferFails, Dev!flags, Dev!data, Dev!send
<1>9. ASSUME call # "none", Dev!Sent PROVE UpdateInv'
  BY <1>1, <1>2, <1>9 DEF Dev!Sent, Dev!Start, Dev!send, Updated
<1>10. ASSUME call # "none", Dev!Fail PROVE UpdateInv'
  BY <1>1, <1>2, <1>10 DEF Dev!Fail, Dev!Close, Dev!data, Dev!send, Updated
<1> QED
  BY <1>3, <1>4, <1>5, <1>6, <1>7, <1>8, <1>9, <1>10 DEF DriverStep, Dev!Driver

(* Nobody else touches the device while it does. *)
LEMMA UpdateInductive ==
    ASSUME Dev!IInv, ServerInv, UpdateInv, [Next]_vars
    PROVE  UpdateInv'
<1>1. CASE UNCHANGED vars
  BY <1>1 DEF vars, shared, driver, calling, UpdateInv, UpdateUnderWay, Updated
<1>2. ASSUME NEW c \in Clients, ClientStep(c) PROVE UpdateInv'
  <2>1. UNCHANGED shared
    BY <1>2 DEF ClientStep, Srv!ClientStep, Srv!Connect, Srv!Write, Srv!EndLine, Srv!HangUp,
                Srv!device, shared
  <2> QED
    BY <1>2, <2>1 DEF ClientStep, shared, driver, calling, UpdateInv, UpdateUnderWay, Updated
<1>3. ASSUME NEW c \in Clients, Loop(c) PROVE UpdateInv'
  BY <1>3 DEF Loop, calling, UpdateInv, UpdateUnderWay
<1>4. ASSUME NEW c \in Clients, RunSet(c) \/ RunWait(c) \/ RunGet(c) PROVE UpdateInv'
  BY <1>4 DEF RunSet, RunWait, RunGet, Given, calling, UpdateInv, UpdateUnderWay
<1>5. ASSUME NEW c \in Clients, EndUpdate(c) \/ EndClose(c) PROVE UpdateInv'
  BY <1>5 DEF EndUpdate, EndClose, UpdateInv, UpdateUnderWay
<1>6. ASSUME Dev!Update(FALSE), before' = Snapshot, call' # "none" PROVE UpdateInv'
  <2>1. /\ before'.opened = opened /\ before'.init_count = init_count
        /\ before'.key_data_dirty = key_data_dirty
    BY <1>6 DEF Snapshot
  <2>2. ~opening /\ (opened <=> inited)
    BY <1>6 DEF Dev!Update, Dev!IInv, Dev!FlagsFollowSteps, Dev!SettledWhenIdle
  <2> QED
    BY <1>6, <2>1, <2>2 DEF Dev!Update, Dev!flags, Dev!data, Dev!send, UpdateInv, UpdateUnderWay
<1>7. ASSUME NEW c \in Clients, BeginUpdate(c) PROVE UpdateInv'
  BY <1>6, <1>7 DEF BeginUpdate
<1>8. ASSUME NEW c \in Clients, BeginClose(c) PROVE UpdateInv'
  <2>1. CASE opened
    BY <1>6, <1>8, <2>1 DEF BeginClose
  <2>2. CASE ~opened
    BY <1>8, <2>2 DEF BeginClose, calling, UpdateInv, UpdateUnderWay
  <2> QED
    BY <2>1, <2>2
<1>9. CASE Environment
  BY <1>9 DEF Environment, Dev!Environment, Dev!Unplug, Dev!Plug, Dev!CalmDown, Dev!flags,
     Dev!data, Dev!send, calling, UpdateInv, UpdateUnderWay, Updated
<1> QED
  BY <1>1, <1>2, <1>3, <1>4, <1>5, <1>7, <1>8, <1>9, DriverUpdates DEF Next, Handler

--------------------------------------------------------------------------------
(* The frame the clients leave *)

(* Outside an update, a change is unsent on an open device only while a    *)
(* client is there, that will send it or be closed. *)
ChangesAreOwned ==
    call = "none" /\ opened /\ key_data_dirty => \E c \in Clients : conn[c] = "open"

(* Only the client that is served sets colours, and a close sends them. *)
LEMMA OwnedInductive ==
    ASSUME ServerInv, UpdateInv, ChangesAreOwned, [Next]_vars
    PROVE  ChangesAreOwned'
<1> USE DEF ChangesAreOwned
<1>1. CASE UNCHANGED vars
  BY <1>1 DEF vars, server, shared, calling
<1>2. ASSUME NEW c \in Clients, ClientStep(c) PROVE ChangesAreOwned'
  <2>1. UNCHANGED <<shared, calling>>
    BY <1>2 DEF ClientStep, Srv!ClientStep, Srv!Connect, Srv!Write, Srv!EndLine, Srv!HangUp,
                Srv!device, shared
  <2>2. \A d \in Clients : conn[d] = "open" => conn'[d] = "open"
    BY <1>2 DEF ClientStep, Srv!ClientStep, Srv!Connect, Srv!Write, Srv!EndLine, Srv!HangUp,
                ServerInv, ServerType
  <2> QED
    BY <2>1, <2>2 DEF shared, calling
<1>3. ASSUME NEW c \in Clients, Loop(c) PROVE ChangesAreOwned'
  <2>1. UNCHANGED <<shared, calling>>
    BY <1>3 DEF Loop, Srv!Accept, Srv!ReadFires, Srv!SleepFinished, Srv!Fill, Srv!device, shared
  <2>2. \A d \in Clients : conn[d] = "open" => conn'[d] = "open"
    BY <1>3 DEF Loop, Srv!Accept, Srv!EndpointAccept, Srv!ReadFires, Srv!SleepFinished, Srv!Fill,
                ServerInv, ServerType
  <2> QED
    BY <2>1, <2>2 DEF shared, calling
<1>4. ASSUME NEW c \in Clients, RunSet(c) \/ RunWait(c) \/ RunGet(c) PROVE ChangesAreOwned'
  <2>1. conn[c] = "open"
    BY <1>4 DEF RunSet, RunWait, RunGet, Given, ServerInv, NotWaitedFor
  <2> QED
    BY <1>4, <2>1 DEF RunSet, RunWait, RunGet, LineDone
<1>5. ASSUME NEW c \in Clients, EndUpdate(c) \/ EndClose(c) PROVE ChangesAreOwned'
  BY <1>5 DEF EndUpdate, EndClose, UpdateInv, Updated, shared
<1>6. ASSUME NEW c \in Clients, BeginUpdate(c) PROVE ChangesAreOwned'
  BY <1>6 DEF BeginUpdate
<1>7. ASSUME NEW c \in Clients, BeginClose(c) PROVE ChangesAreOwned'
  BY <1>7 DEF BeginClose, shared
<1>8. CASE DriverStep
  <2>1. call # "none"
    BY <1>8 DEF DriverStep, Dev!Driver, Dev!Find, Dev!OpenHandle, Dev!Reset, Dev!BeginInit,
                Dev!Check, Dev!Transfer, Dev!TransferFails, Dev!Sent, Dev!Fail, ServerInv, Called
  <2> QED
    BY <1>8, <2>1 DEF DriverStep, calling
<1>9. CASE Environment
  BY <1>9 DEF Environment, Dev!Environment, Dev!Unplug, Dev!Plug, Dev!CalmDown, Dev!flags,
     Dev!data, server, calling
<1> QED
  BY <1>1, <1>2, <1>3, <1>4, <1>5, <1>6, <1>7, <1>8, <1>9 DEF Next, Handler

(* Together, what holds at each step of the system. *)
SystemInv == EndsType /\ ServerInv /\ UpdateInv /\ ChangesAreOwned

(* The invariant of the composition: what the server waits for, what an    *)
(* update has done so far, and who is to send what is unsent.              *)
THEOREM SystemInvariance == Spec => []SystemInv
<1>1. Init => SystemInv
  BY InitServer DEF Init, Srv!Init, EndsType, SystemInv, UpdateInv, UpdateUnderWay, ChangesAreOwned
<1>2. Dev!IInv /\ SystemInv /\ [Next]_vars => SystemInv'
  BY EndsInductive, ServerInductive, UpdateInductive, OwnedInductive DEF SystemInv
<1> QED
  BY <1>1, <1>2, DriverKeeps, PTL DEF Spec

(* The last client to leave leaves its colours on the keyboard: that the   *)
(* driver knows what it has sent and that the server updates at a close    *)
(* come together here.                                                     *)
THEOREM LeftAsAsked == Spec => []ShownWhenAllGone
<1>1. Dev!IInv => Dev!CleanMeansShown
  BY DEF Dev!IInv, Dev!FlagsFollowSteps, Dev!SettledWhenIdle, Dev!KeyboardFollows,
         Dev!CleanMeansShown
<1>2. Dev!IInv /\ SystemInv => ShownWhenAllGone
  <2> SUFFICES ASSUME Dev!IInv, SystemInv, serving = Nobody, opened, u_dev_hd = "live",
                      \A c \in Clients : conn[c] # "open"
               PROVE  leds = key_data
    BY DEF ShownWhenAllGone
  <2>1. call = "none" /\ pc = "idle"
    BY BoundKnown DEF SystemInv, ServerInv, Called
  <2>2. ~key_data_dirty
    BY <2>1 DEF SystemInv, ChangesAreOwned
  <2> QED
    BY <1>1, <2>1, <2>2 DEF Dev!CleanMeansShown
<1> QED
  BY <1>2, DriverKeeps, SystemInvariance, PTL

--------------------------------------------------------------------------------
(* The server whose updates are one step *)

(* Its state, when no update runs and when one does. *)
LEMMA AtomicVars ==
    ASSUME UNCHANGED <<server, ends, shared, calling>>
    PROVE  UNCHANGED Atomic!vars
BY DEF server, ends, client, flags, pending, shared, calling, Atomic!vars, Atomic!client,
       Atomic!flags, Atomic!pending, Atomic!ends, Atomic!device

(* The steps of an update, and of the keyboard, do not show, but for one   *)
(* that ends the process.                                                  *)
LEMMA AtomicDriver ==
    ASSUME EndsType, ServerInv, UpdateInv, DriverStep \/ Environment
    PROVE  [Atomic!Next]_(Atomic!vars)
<1>1. UNCHANGED <<server, peer, calling>>
  BY DEF DriverStep, Environment, ends
<1>2. call # "none" \/ UNCHANGED shared
  <2>1. CASE DriverStep
    BY <2>1 DEF DriverStep, Dev!Driver, Dev!Find, Dev!OpenHandle, Dev!Reset, Dev!BeginInit,
       Dev!Check, Dev!Transfer, Dev!TransferFails, Dev!Sent, Dev!Fail, ServerInv, Called
  <2>2. CASE Environment
    BY <2>2 DEF Environment, Dev!Environment, Dev!Unplug, Dev!Plug, Dev!CalmDown, Dev!flags,
       Dev!data, shared
  <2> QED
    BY <2>1, <2>2
<1>3. UNCHANGED <<Atomic!client, Atomic!flags, Atomic!pending, Atomic!device, file, done, serving,
                  peer>>
      /\ UNCHANGED (IF call = "close" THEN [conn EXCEPT ![serving] = "open"] ELSE conn)
  BY <1>1, <1>2 DEF server, client, flags, pending, shared, calling, Atomic!client, Atomic!flags,
     Atomic!pending, Atomic!device
<1>4. CASE UNCHANGED alive
  BY <1>3, <1>4 DEF Atomic!vars, Atomic!ends
<1>5. CASE ~UNCHANGED alive
  <2>1. DriverStep
    BY <1>5 DEF Environment, ends
  <2>2. alive /\ ~alive' /\ pc' = "crashed"
    BY <1>5, <2>1, Zenon DEF DriverStep, EndsType
  <2>3. pc \in {"find", "open"}
    BY <2>1, <2>2 DEF DriverStep, Dev!Driver, Dev!Find, Dev!OpenHandle, Dev!Reset, Dev!BeginInit,
       Dev!Check, Dev!Start, Dev!Transfer, Dev!TransferFails, Dev!Sent, Dev!Fail
  <2>4. call # "none" /\ ~before.opened
    BY <2>3 DEF ServerInv, Called, UpdateInv, UpdateUnderWay
  <2>5. call = "line" /\ serving \in Clients
    BY <2>4 DEF ServerInv, Called, CloseWaits
  <2>6. /\ Srv!HasLine(file[serving]) \/ (file[serving] # <<>> /\ Srv!AtEnd(serving))
        /\ file[serving][1] = "u"
    BY <2>5 DEF ServerInv, LineWaits
  <2>7. /\ file[serving] # <<>>
        /\ Atomic!HasLine(file[serving]) \/ Atomic!AtEnd(serving)
    BY <2>6 DEF Srv!HasLine, Srv!AtEnd, Atomic!HasLine, Atomic!AtEnd
  <2>8. alive' = FALSE
    BY <2>1, <2>2, Zenon DEF DriverStep
  <2>9. Atomic!UpdateCrashes(serving)
    BY <1>3, <2>4, <2>6, <2>7, <2>8 DEF Atomic!UpdateCrashes
  <2> QED
    BY <2>2, <2>5, <2>9 DEF Atomic!Next, Atomic!Handler
<1> QED
  BY <1>4, <1>5

(* What the clients do they do to that server as well. *)
LEMMA AtomicClients ==
    ASSUME ServerInv, NEW c \in Clients, ClientStep(c)
    PROVE  Atomic!ClientStep(c)
<1> USE DEF ServerInv
<1>1. alive /\ UNCHANGED <<shared, calling, flags, pending, serving, file, done>>
  BY DEF ClientStep, Srv!ClientStep, Srv!Connect, Srv!Write, Srv!EndLine, Srv!HangUp,
         Srv!device, Srv!flags, Srv!pending, flags, pending, shared
<1>2. UNCHANGED <<Atomic!flags, Atomic!pending, Atomic!device>>
  BY <1>1 DEF shared, calling, flags, pending, Atomic!flags, Atomic!pending, Atomic!device
<1>3. ASSUME Srv!Connect(c) PROVE Atomic!Connect(c)
  <2>1. conn[c] = "away" /\ conn' = [conn EXCEPT ![c] = "backlog"] /\ UNCHANGED Atomic!client
    BY <1>3 DEF Srv!Connect, Srv!client, Atomic!client
  <2>2. UNCHANGED Atomic!ends
    BY <1>3 DEF Srv!Connect, Srv!ends, Atomic!ends
  <2>3. CASE call = "close"
    <3>1. serving # c /\ serving \in Clients
      BY <2>1, <2>3 DEF CloseWaits, Called
    <3>2. [conn' EXCEPT ![serving] = "open"]
            = [[conn EXCEPT ![serving] = "open"] EXCEPT ![c] = "backlog"]
      BY <2>1, <3>1 DEF ServerType
    <3>3. [conn EXCEPT ![serving] = "open"][c] = "away"
      BY <2>1, <3>1 DEF ServerType
    <3> QED
      BY <1>1, <1>2, <2>1, <2>2, <2>3, <3>2, <3>3 DEF Atomic!Connect, calling
  <2>4. CASE call # "close"
    BY <1>1, <1>2, <2>1, <2>2, <2>4 DEF Atomic!Connect, calling
  <2> QED
    BY <2>3, <2>4
<1>4. ASSUME ~Srv!Connect(c) PROVE
         /\ UNCHANGED conn
         /\ UNCHANGED (IF call = "close" THEN [conn EXCEPT ![serving] = "open"] ELSE conn)
  BY <1>1, <1>4 DEF ClientStep, Srv!ClientStep, Srv!Write, Srv!EndLine, Srv!HangUp, calling
<1>5. ~eof[c] => (IF call = "close" THEN [conn EXCEPT ![serving] = "open"] ELSE conn)[c] = conn[c]
  BY DEF CloseWaits, Called, ServerType, Srv!NoLine, Srv!AtEnd
<1>6. ASSUME ~Srv!Connect(c), NEW cmd \in Commands, NEW whole \in BOOLEAN, Srv!Write(c, cmd, whole)
      PROVE  Atomic!Write(c, cmd, whole)
  BY <1>1, <1>2, <1>4, <1>5, <1>6 DEF Srv!Write, Atomic!Write, Srv!NL, Atomic!NL,
     Srv!ends, Atomic!ends
<1>7. ASSUME ~Srv!Connect(c), Srv!EndLine(c) PROVE Atomic!EndLine(c)
  BY <1>1, <1>2, <1>4, <1>7 DEF Srv!EndLine, Atomic!EndLine, Srv!NL, Atomic!NL,
     Srv!ends, Atomic!ends
<1>8. ASSUME ~Srv!Connect(c), Srv!HangUp(c) PROVE Atomic!HangUp(c)
  BY <1>1, <1>2, <1>4, <1>5, <1>8 DEF Srv!HangUp, Atomic!HangUp, Srv!Departed,
     Atomic!Departed
<1> QED
  BY <1>1, <1>3, <1>6, <1>7, <1>8 DEF ClientStep, Srv!ClientStep, Atomic!ClientStep

(* Without an update the two are the same. *)
LEMMA AtomicLoop ==
    ASSUME NEW c \in Clients, Loop(c)
    PROVE  /\ alive
           /\ \/ Atomic!Accept(c) \/ Atomic!ReadFires(c) \/ Atomic!SleepFinished(c)
              \/ Atomic!Fill(c)
<1>1. alive /\ call = "none" /\ call' = "none"
  BY DEF Loop, calling
<1> USE DEF Srv!client, Srv!flags, Srv!pending, Srv!ends, Srv!device, Atomic!client,
            Atomic!flags, Atomic!pending, Atomic!ends, Atomic!device
<1>2. Srv!Accept(c) => Atomic!Accept(c)
  BY <1>1 DEF Srv!Accept, Srv!EndpointAccept, Srv!ClientOpen, Atomic!Accept,
     Atomic!EndpointAccept, Atomic!ClientOpen
<1>3. Srv!ReadFires(c) => Atomic!ReadFires(c)
  BY <1>1 DEF Srv!ReadFires, Atomic!ReadFires
<1>4. Srv!SleepFinished(c) => Atomic!SleepFinished(c)
  BY <1>1 DEF Srv!SleepFinished, Atomic!SleepFinished
<1>5. Srv!Fill(c) => Atomic!Fill(c)
  BY <1>1 DEF Srv!Fill, Srv!HasLine, Atomic!Fill, Atomic!HasLine
<1> QED
  BY <1>1, <1>2, <1>3, <1>4, <1>5 DEF Loop

(* A line that is done is done with or without its newline. *)
LEMMA AtomicLine ==
    ASSUME NEW c \in Clients, NEW command, serving = c, call # "close", call' # "close",
           Srv!HasLine(file[c]) \/ (file[c] # <<>> /\ Srv!AtEnd(c)), file[c][1] = command,
           LineDone(c), Atomic!RunCommand(c, command)
    PROVE  Atomic!RunLine(c) \/ Atomic!RunLastLine(c)
<1>1. /\ UNCHANGED (IF call = "close" THEN [conn EXCEPT ![serving] = "open"] ELSE conn)
      /\ Atomic!Reply(c)
  BY DEF LineDone, Srv!Reply, Srv!ends, Atomic!Reply, Atomic!ends
<1>2. CASE Srv!HasLine(file[c])
  BY <1>1, <1>2 DEF Atomic!RunLine, Atomic!HasLine, Atomic!RestOf, Atomic!client, LineDone,
     Srv!HasLine, Srv!RestOf, client
<1>3. CASE ~Srv!HasLine(file[c])
  BY <1>1, <1>3 DEF Atomic!RunLastLine, Atomic!HasLine, Atomic!AtEnd, Atomic!client, LineDone,
     Srv!HasLine, Srv!AtEnd, client
<1> QED
  BY <1>2, <1>3

(* The commands without an update are done in one step anyway. *)
LEMMA AtomicCommands ==
    ASSUME Dev!IInv, NEW c \in Clients, RunSet(c) \/ RunWait(c) \/ RunGet(c)
    PROVE  Atomic!RunLine(c) \/ Atomic!RunLastLine(c)
<1>1. call = "none" /\ call' = "none" /\ serving = c /\ LineDone(c)
  BY DEF RunSet, RunWait, RunGet, Given, calling
<1>2. Srv!HasLine(file[c]) \/ (file[c] # <<>> /\ Srv!AtEnd(c))
  BY DEF RunSet, RunWait, RunGet, Given
<1>3. ASSUME RunSet(c) PROVE file[c][1] = "s" /\ Atomic!RunCommand(c, "s")
  <2>1. UNCHANGED <<opened, init_count>> /\ key_data_dirty' \in {key_data_dirty, TRUE}
    BY <1>3 DEF RunSet, Dev!SetKeyColor, Dev!SetKeyColorAll, Dev!Store, Dev!flags, Dev!IInv,
       Dev!TypeOK, Dev!MessageType
  <2> QED
    BY <1>1, <1>3, <2>1 DEF RunSet, Given, Srv!ReadAgain, Atomic!RunCommand, Atomic!ReadAgain
<1>4. ASSUME RunWait(c) PROVE file[c][1] = "w" /\ Atomic!RunCommand(c, "w")
  BY <1>1, <1>4 DEF RunWait, Given, Srv!Sleep, shared, Atomic!RunCommand, Atomic!Sleep,
     Atomic!device
<1>5. ASSUME RunGet(c) PROVE file[c][1] = "g" /\ Atomic!RunCommand(c, "g")
  BY <1>1, <1>5 DEF RunGet, Given, Srv!ReadAgain, shared, Atomic!RunCommand, Atomic!ReadAgain,
     Atomic!device
<1> QED
  BY <1>1, <1>2, <1>3, <1>4, <1>5, AtomicLine

(* What an update has done when it returns is what DeviceUpdate may do. *)
LEMMA AtomicUpdate ==
    ASSUME UpdateInv, call # "none", call' = "none", pc = "idle", UNCHANGED shared,
           opened \in BOOLEAN, key_data_dirty \in BOOLEAN
    PROVE  Atomic!DeviceUpdate
<1>1. Updated
  BY DEF UpdateInv
<1> QED
  BY <1>1 DEF Updated, shared, Atomic!DeviceUpdate

(* A line with an update is done when the update returns. *)
LEMMA AtomicEndUpdate ==
    ASSUME Dev!IInv, ServerInv, UpdateInv, NEW c \in Clients, EndUpdate(c)
    PROVE  Atomic!RunLine(c) \/ Atomic!RunLastLine(c)
<1>1. call = "line" /\ call' = "none" /\ serving = c /\ LineDone(c)
  BY DEF EndUpdate
<1>2. /\ Srv!HasLine(file[c]) \/ (file[c] # <<>> /\ Srv!AtEnd(c))
      /\ file[c][1] = "u"
  BY <1>1 DEF ServerInv, LineWaits
<1>3. Atomic!DeviceUpdate
  BY <1>1, AtomicUpdate DEF EndUpdate, Dev!IInv, Dev!TypeOK, Dev!HandleType, Dev!MessageType
<1>4. Atomic!ReadAgain(c)
  BY <1>1 DEF EndUpdate, Srv!ReadAgain, Atomic!ReadAgain
<1> QED
  BY <1>1, <1>2, <1>3, <1>4, AtomicLine DEF Atomic!RunCommand

(* A device that is not open is not updated at a close: the close is one   *)
(* step already. *)
LEMMA AtomicCloseAtOnce ==
    ASSUME NEW c \in Clients, BeginClose(c), ~opened
    PROVE  Atomic!Close(c)
<1>1. call = "none" /\ call' = "none" /\ UNCHANGED shared
  BY DEF BeginClose, calling
<1> QED
  BY <1>1 DEF BeginClose, Srv!NoLine, Srv!HasLine, Srv!AtEnd, Srv!EndpointClose, shared, client,
     ends, Atomic!Close, Atomic!NoLine, Atomic!HasLine, Atomic!AtEnd, Atomic!ClientClose,
     Atomic!EndpointClose, Atomic!client, Atomic!ends, Atomic!device

(* With its update, nothing of the close shows until it is over. *)
LEMMA AtomicBeginClose ==
    ASSUME ServerInv, NEW c \in Clients, BeginClose(c), opened
    PROVE  UNCHANGED Atomic!vars
<1>1. /\ call = "none" /\ call' = "close" /\ before' = Snapshot
      /\ serving = c /\ UNCHANGED <<client, serving, file, done, ends>>
  BY DEF BeginClose
<1>2. /\ before'.opened = opened /\ before'.init_count = init_count
      /\ before'.key_data_dirty = key_data_dirty /\ before'.flags = flags
  BY <1>1 DEF Snapshot
<1>3. before'.flags[1] = read_ev_active /\ before'.flags[2] = timer_ev_active
  BY <1>2 DEF flags
<1>4. conn = [conn' EXCEPT ![serving'] = "open"]
  BY <1>1 DEF BeginClose, Srv!EndpointClose, ServerInv, ServerType, NotWaitedFor
<1>5. UNCHANGED <<read_ev, timer_ev>>
  <2>1. ~read_ev[c] /\ ~timer_ev[c]
    BY <1>1 DEF ServerInv, NotWaitedFor
  <2>2. read_ev' = [read_ev EXCEPT ![c] = FALSE] /\ timer_ev' = [timer_ev EXCEPT ![c] = FALSE]
    BY <2>1 DEF BeginClose
  <2> QED
    BY <2>1, <2>2 DEF ServerInv, EventType
<1> QED
  BY <1>1, <1>2, <1>3, <1>4, <1>5 DEF client, ends, Atomic!vars, Atomic!client, Atomic!flags,
     Atomic!pending, Atomic!ends, Atomic!device

(* The close shows, with all it did, when its update returns. *)
LEMMA AtomicEndClose ==
    ASSUME Dev!IInv, ServerInv, UpdateInv, NEW c \in Clients, EndClose(c)
    PROVE  Atomic!Close(c)
<1>1. /\ call = "close" /\ call' = "none" /\ serving = c /\ serving' = Nobody
      /\ UNCHANGED <<conn, client, file, flags, pending, done, ends, shared>>
  BY DEF EndClose
<1>2. /\ Atomic!NoLine(c) /\ before.opened
      /\ conn[c] = "closed"
      /\ read_ev_active = [before.flags[1] EXCEPT ![c] = FALSE]
      /\ timer_ev_active = [before.flags[2] EXCEPT ![c] = FALSE]
  BY <1>1 DEF ServerInv, CloseWaits, Srv!NoLine, Srv!HasLine, Srv!AtEnd, Atomic!NoLine,
     Atomic!HasLine, Atomic!AtEnd
<1>3. Atomic!DeviceUpdate
  BY <1>1, AtomicUpdate DEF EndClose, Dev!IInv, Dev!TypeOK, Dev!HandleType, Dev!MessageType
<1>4. conn = [[conn EXCEPT ![c] = "open"] EXCEPT ![c] = "closed"]
  BY <1>2 DEF ServerInv, ServerType
<1>5. /\ read_ev = [read_ev EXCEPT ![c] = FALSE] /\ ~read_ev[c]
      /\ timer_ev = [timer_ev EXCEPT ![c] = FALSE] /\ ~timer_ev[c]
  BY <1>1 DEF ServerInv, NotWaitedFor, EventType
<1>6. Atomic!ClientClose(c)
  <2>1. /\ read_ev = [read_ev EXCEPT ![c] = read_ev[c] /\ ~before.flags[1][c]]
        /\ timer_ev = [timer_ev EXCEPT ![c] = timer_ev[c] /\ ~before.flags[2][c]]
    <3>1. /\ (read_ev[c] /\ ~before.flags[1][c]) = FALSE
          /\ (timer_ev[c] /\ ~before.flags[2][c]) = FALSE
      BY <1>5
    <3> QED
      BY <1>5, <3>1
  <2> QED
    BY <1>1, <1>2, <1>3, <1>4, <2>1 DEF flags, pending, Atomic!ClientClose, Atomic!EndpointClose
<1> QED
  BY <1>1, <1>2, <1>6 DEF client, ends, Atomic!Close, Atomic!client, Atomic!ends

(* That an update began does not show. *)
LEMMA AtomicBeginUpdate ==
    ASSUME NEW c \in Clients, BeginUpdate(c)
    PROVE  UNCHANGED Atomic!vars
<1>1. call = "none" /\ call' = "line" /\ before' = Snapshot /\ UNCHANGED <<server, ends>>
  BY DEF BeginUpdate, Given
<1>2. /\ before'.opened = opened /\ before'.init_count = init_count
      /\ before'.key_data_dirty = key_data_dirty
  BY <1>1 DEF Snapshot
<1> QED
  BY <1>1, <1>2 DEF server, ends, client, flags, pending, Atomic!vars, Atomic!client,
     Atomic!flags, Atomic!pending, Atomic!ends, Atomic!device

(* Each step of the system is a step of the server that updates at once,   *)
(* or nothing of it shows.                                                 *)
LEMMA AtomicSteps ==
    ASSUME Dev!IInv, EndsType, ServerInv, UpdateInv, [Next]_vars
    PROVE  [Atomic!Next]_(Atomic!vars)
<1>1. CASE UNCHANGED vars
  BY <1>1, AtomicVars DEF vars
<1>2. CASE DriverStep \/ Environment
  BY <1>2, AtomicDriver
<1>3. ASSUME NEW c \in Clients, ClientStep(c) \/ Loop(c) PROVE Atomic!Next
  BY <1>3, AtomicClients, AtomicLoop DEF Atomic!Next, Atomic!Handler
<1>4. ASSUME NEW c \in Clients, Handler(c) PROVE Atomic!Next \/ UNCHANGED Atomic!vars
  BY <1>4, AtomicCommands, AtomicBeginUpdate, AtomicEndUpdate, AtomicCloseAtOnce,
     AtomicBeginClose, AtomicEndClose DEF Handler, Atomic!Next, Atomic!Handler
<1> QED
  BY <1>1, <1>2, <1>3, <1>4 DEF Next

(* LuxeedServer takes luxeed_device_update, and a close with its update,   *)
(* for one step, and it is right to: the server whose updates take their   *)
(* time among the clients implements it.                                   *)
THEOREM UpdateIsAtomic == Spec => ServerSpec
<1>1. Init => Atomic!Init
  BY DEF Init, Srv!Init, Atomic!Init
<1>2. Dev!IInv /\ SystemInv /\ [Next]_vars => [Atomic!Next]_(Atomic!vars)
  BY AtomicSteps DEF SystemInv
<1> QED
  BY <1>1, <1>2, DriverKeeps, SystemInvariance, PTL DEF Spec, ServerSpec, Atomic!Spec
================================================================================
