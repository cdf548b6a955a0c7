--------------------------- MODULE LuxeedServerProofs ---------------------------
(***************************************************************************)
(* Proofs about the event loop, for any number of clients and commands.    *)
(* What a negative wait does to a client is the finding SleepingAfterWait; *)
(* the proofs about events are for commands without it.                    *)
(***************************************************************************)
EXTENDS LuxeedServer, SequenceTheorems, TLAPS

--------------------------------------------------------------------------------
(* The bytes of the clients *)

Stream == Seq(Commands \cup {NL})

(* The sequences the actions build. *)
LEMMA StreamOps ==
    /\ <<>> \in Stream /\ Len(<<>>) = 0
    /\ \A s \in Stream : Len(s) \in Nat /\ (s = <<>> <=> Len(s) = 0)
    /\ \A s \in Stream : Append(s, NL) \in Stream /\ Len(Append(s, NL)) = Len(s) + 1
    /\ \A s, t \in Stream : s \o t \in Stream /\ Len(s \o t) = Len(s) + Len(t)
    /\ \A s \in Stream, cmd \in Commands :
         /\ s \o <<cmd, NL>> \in Stream /\ Len(s \o <<cmd, NL>>) = Len(s) + 2
         /\ s \o <<cmd>> \in Stream /\ Len(s \o <<cmd>>) = Len(s) + 1
<1>1. <<>> \in Stream /\ Len(<<>>) = 0
  BY DEF Stream
<1>2. \A s \in Stream : Len(s) \in Nat /\ (s = <<>> <=> Len(s) = 0)
  BY EmptySeq, LenProperties DEF Stream
<1>3. \A s \in Stream : Append(s, NL) \in Stream /\ Len(Append(s, NL)) = Len(s) + 1
  BY DEF Stream
<1>4. \A s, t \in Stream : s \o t \in Stream /\ Len(s \o t) = Len(s) + Len(t)
  BY ConcatProperties DEF Stream
<1>5. ASSUME NEW cmd \in Commands
      PROVE  /\ <<cmd, NL>> \in Stream /\ Len(<<cmd, NL>>) = 2
             /\ <<cmd>> \in Stream /\ Len(<<cmd>>) = 1
  BY DEF Stream
<1> QED
  BY <1>1, <1>2, <1>3, <1>4, <1>5

(* What is left when the first line is taken out. *)
LEMMA RestIsStream ==
    ASSUME NEW f \in Stream, HasLine(f)
    PROVE  RestOf(f) \in Stream /\ Len(RestOf(f)) + 2 = Len(f)
<1>1. Len(f) \in Nat /\ Len(f) > 1
  BY StreamOps DEF HasLine
<1>2. 3 \in 1..(Len(f) + 1)
  BY <1>1
<1>3. CASE Len(f) = 2
  BY <1>1, <1>3 DEF RestOf, Stream
<1>4. CASE Len(f) > 2
  BY <1>1, <1>4, SubSeqProperties DEF RestOf, Stream
<1>5. \A n \in Nat : n > 1 => n = 2 \/ n > 2
  OBVIOUS
<1>6. Len(f) = 2 \/ Len(f) > 2
  BY <1>1, <1>5, Zenon
<1> QED
  BY <1>3, <1>4, <1>6

(* A stream is a sequence of pieces. *)
LEMMA StreamsArePieces ==
    ASSUME NEW f \in [Clients -> Stream]
    PROVE  f \in [Clients -> Seq(Pieces)]
<1>1. Commands \cup {NL} \subseteq Pieces
  BY CommandsAssumption DEF Pieces
<1>2. \A s \in Stream : s \in Seq(Pieces)
  BY <1>1 DEF Stream
<1> QED
  BY <1>2

--------------------------------------------------------------------------------
(* Types and what a client has written *)

(* The part of the invariant that is about streams and counters. *)
StreamInv ==
    /\ TypeOK
    /\ NothingLost
    /\ StreamType

(* One if the last line written is half a line, and not executed yet. *)
OpenLine(mid, d, w) == IF mid /\ d # w THEN 1 ELSE 0

(* The account of one client, from the lengths of what it wrote. *)
Account(file_len, sock_len, open_line, d, w) ==
    file_len + sock_len + open_line + 2 * d = 2 * w

LEMMA NothingLostIsAccount ==
    NothingLost <=>
        \A c \in Clients :
            /\ Account(Len(file[c]), Len(sock[c]), OpenLine(midline[c], done[c], written[c]),
                       done[c], written[c])
            /\ midline[c] /\ done[c] = written[c] => eof[c]
BY DEF NothingLost, Account, OpenLine

(* The arithmetic of each step: a command written whole or half, the end   *)
(* of a line, a read, a line executed, a last line executed. *)
LEMMA AccountSteps ==
    ASSUME NEW f \in Nat, NEW s \in Nat, NEW o \in Nat, NEW d \in Nat, NEW w \in Nat,
           o <= 1, Account(f, s, o, d, w)
    PROVE  /\ d <= w
           /\ o = 0 => Account(f, s + 2, 0, d, w + 1) /\ Account(f, s + 1, 1, d, w + 1)
           /\ o = 1 => Account(f, s + 1, 0, d, w)
           /\ Account(f + s, 0, o, d, w)
           /\ \A g \in Nat : g + 2 = f =>
                 Account(g, s, o, d + 1, w) /\ d + 1 <= w /\ d # w /\ (o = 1 => d + 1 # w)
           /\ f = 1 /\ s = 0 => Account(0, 0, 0, d + 1, w) /\ d + 1 = w
BY DEF Account

(* The types of flags, events and device, that RunCommand and ClientClose  *)
(* change for the handler. *)
EffectTypes ==
    /\ read_ev_active \in [Clients -> BOOLEAN]
    /\ timer_ev_active \in [Clients -> BOOLEAN]
    /\ read_ev \in [Clients -> BOOLEAN]
    /\ timer_ev \in [Clients -> BOOLEAN]
    /\ dev_opened \in BOOLEAN
    /\ dev_init_count \in Nat
    /\ key_data_dirty \in BOOLEAN

(* luxeed_device_update keeps the types of the device. *)
LEMMA DeviceUpdateTypes ==
    ASSUME EffectTypes, DeviceUpdate
    PROVE  dev_opened' \in BOOLEAN /\ dev_init_count' \in Nat /\ key_data_dirty' \in BOOLEAN
<1>1. dev_init_count' \in Nat
  BY SMT DEF EffectTypes, DeviceUpdate
<1>2. dev_opened' \in BOOLEAN /\ key_data_dirty' \in BOOLEAN
  BY Zenon DEF EffectTypes, DeviceUpdate
<1> QED
  BY <1>1, <1>2

(* A command keeps the types. *)
LEMMA RunCommandTypes ==
    ASSUME EffectTypes, NEW c \in Clients, NEW cmd, RunCommand(c, cmd)
    PROVE  EffectTypes'
<1>1. CASE ReadAgain(c) /\ UNCHANGED device
  BY <1>1 DEF EffectTypes, ReadAgain, device
<1>2. CASE Sleep(c) /\ UNCHANGED device
  BY <1>2, Zenon DEF EffectTypes, Sleep, device
<1>3. CASE UNCHANGED <<flags, pending, device>>
  BY <1>3 DEF EffectTypes, flags, pending, device
<1>4. CASE ReadAgain(c) /\ DeviceUpdate
  BY <1>4, DeviceUpdateTypes DEF EffectTypes, ReadAgain
<1>5. CASE /\ ReadAgain(c)
           /\ key_data_dirty' \in {key_data_dirty, TRUE}
           /\ UNCHANGED <<dev_opened, dev_init_count>>
  <2>1. /\ read_ev_active' \in [Clients -> BOOLEAN]
        /\ timer_ev_active' \in [Clients -> BOOLEAN]
        /\ read_ev' \in [Clients -> BOOLEAN]
        /\ timer_ev' \in [Clients -> BOOLEAN]
        /\ dev_opened' \in BOOLEAN
        /\ dev_init_count' \in Nat
    BY <1>5 DEF EffectTypes, ReadAgain
  <2>2. key_data_dirty' \in BOOLEAN
    BY <1>5, Zenon DEF EffectTypes
  <2> QED
    BY <2>1, <2>2 DEF EffectTypes
<1> QED
  BY <1>1, <1>2, <1>3, <1>4, <1>5 DEF RunCommand

(* The close of a client keeps the types. *)
LEMMA ClientCloseTypes ==
    ASSUME EffectTypes, NEW c \in Clients, ClientClose(c)
    PROVE  EffectTypes'
<1>1. /\ read_ev_active' \in [Clients -> BOOLEAN]
      /\ timer_ev_active' \in [Clients -> BOOLEAN]
      /\ read_ev' \in [Clients -> BOOLEAN]
      /\ timer_ev' \in [Clients -> BOOLEAN]
  BY Zenon DEF EffectTypes, ClientClose
<1>2. dev_opened' \in BOOLEAN /\ dev_init_count' \in Nat /\ key_data_dirty' \in BOOLEAN
  <2>1. CASE DeviceUpdate
    BY <2>1, DeviceUpdateTypes
  <2>2. CASE UNCHANGED device
    BY <2>2 DEF EffectTypes, device
  <2> QED
    BY <2>1, <2>2 DEF ClientClose
<1> QED
  BY <1>1, <1>2 DEF EffectTypes

(* What is true of one client. *)
ClientAccount(f, s, mid, d, w, ended) ==
    /\ Account(f, s, OpenLine(mid, d, w), d, w)
    /\ d <= w
    /\ mid /\ d = w => ended

(* The types of the ends of the connections and of the process. *)
EndsType ==
    /\ peer \in [Clients -> {"here", "gone", "reset"}]
    /\ alive \in BOOLEAN

(* A client that hangs up, a reply and a crash keep them. *)
LEMMA EndsKeepType ==
    ASSUME EndsType, [Next]_vars
    PROVE  EndsType'
<1>1. CASE UNCHANGED ends
  BY <1>1 DEF EndsType, ends
<1>2. ASSUME NEW c \in Clients, HangUp(c)
      PROVE  EndsType'
  BY <1>2 DEF HangUp, Departed, EndsType
<1>3. ASSUME NEW c \in Clients, Reply(c)
      PROVE  EndsType'
  BY <1>3 DEF Reply, EndsType, ends
<1>4. ASSUME NEW c \in Clients, UpdateCrashes(c)
      PROVE  EndsType'
  BY <1>4 DEF UpdateCrashes, EndsType
<1>5. ASSUME NEW c \in Clients
      PROVE  /\ ClientStep(c) => UNCHANGED ends \/ HangUp(c)
             /\ Accept(c) \/ ReadFires(c) \/ SleepFinished(c) => UNCHANGED ends
             /\ Handler(c) => UNCHANGED ends \/ Reply(c) \/ UpdateCrashes(c)
  BY DEF ClientStep, Connect, Write, EndLine, Accept, ReadFires, SleepFinished,
    Handler, Fill, RunLine, RunLastLine, Close
<1>6. UNCHANGED vars => UNCHANGED ends
  BY DEF vars
<1> QED
  BY <1>1, <1>2, <1>3, <1>4, <1>5, <1>6 DEF Next

(* What has to be shown of a step to keep types and accounts. *)
LEMMA StreamInvParts ==
    ASSUME EndsType',
           conn' \in [Clients -> {"away", "backlog", "open", "closed"}],
           midline' \in [Clients -> BOOLEAN], eof' \in [Clients -> BOOLEAN],
           serving' \in Clients \cup {Nobody}, EffectTypes',
           sock' \in [Clients -> Stream], file' \in [Clients -> Stream],
           written' \in [Clients -> 0..MaxLines], done' \in [Clients -> Nat],
           \A c \in Clients :
             ClientAccount(Len(file'[c]), Len(sock'[c]), midline'[c], done'[c], written'[c], eof'[c])
    PROVE  StreamInv'
<1>1. done' \in [Clients -> 0..MaxLines]
  <2>1. \A c \in Clients : done'[c] <= written'[c]
    BY DEF ClientAccount
  <2> QED
    BY <2>1, MaxLinesAssumption
<1>2. sock' \in [Clients -> Seq(Pieces)] /\ file' \in [Clients -> Seq(Pieces)]
  BY StreamsArePieces
<1>3. TypeOK'
  BY <1>1, <1>2 DEF TypeOK, EffectTypes, EndsType
<1>4. NothingLost'
  BY DEF NothingLost, ClientAccount, Account, OpenLine
<1>5. StreamType'
  BY DEF StreamType, Stream
<1> QED
  BY <1>3, <1>4, <1>5 DEF StreamInv

(* What the invariant says of the state before a step. *)
LEMMA StreamFacts ==
    ASSUME StreamInv
    PROVE  /\ conn \in [Clients -> {"away", "backlog", "open", "closed"}]
           /\ midline \in [Clients -> BOOLEAN] /\ eof \in [Clients -> BOOLEAN]
           /\ serving \in Clients \cup {Nobody}
           /\ EffectTypes
           /\ sock \in [Clients -> Stream] /\ file \in [Clients -> Stream]
           /\ written \in [Clients -> 0..MaxLines] /\ done \in [Clients -> Nat]
           /\ \A c \in Clients :
                /\ ClientAccount(Len(file[c]), Len(sock[c]), midline[c], done[c], written[c], eof[c])
                /\ Len(file[c]) \in Nat /\ Len(sock[c]) \in Nat
                /\ written[c] \in Nat /\ done[c] \in Nat
                /\ midline[c] \in BOOLEAN
<1>1. /\ conn \in [Clients -> {"away", "backlog", "open", "closed"}]
      /\ midline \in [Clients -> BOOLEAN] /\ eof \in [Clients -> BOOLEAN]
      /\ serving \in Clients \cup {Nobody}
      /\ EffectTypes
      /\ sock \in [Clients -> Stream] /\ file \in [Clients -> Stream]
      /\ written \in [Clients -> 0..MaxLines] /\ done \in [Clients -> Nat]
  BY MaxLinesAssumption DEF StreamInv, TypeOK, StreamType, EffectTypes, Stream
<1>2. ASSUME NEW c \in Clients
      PROVE  /\ ClientAccount(Len(file[c]), Len(sock[c]), midline[c], done[c], written[c], eof[c])
             /\ Len(file[c]) \in Nat /\ Len(sock[c]) \in Nat
             /\ written[c] \in Nat /\ done[c] \in Nat
             /\ midline[c] \in BOOLEAN
  <2> DEFINE o == OpenLine(midline[c], done[c], written[c])
  <2>1. Len(file[c]) \in Nat /\ Len(sock[c]) \in Nat
    BY <1>1, StreamOps
  <2>2. written[c] \in Nat /\ done[c] \in Nat /\ midline[c] \in BOOLEAN
    BY <1>1, MaxLinesAssumption
  <2>3. /\ Account(Len(file[c]), Len(sock[c]), o, done[c], written[c])
        /\ midline[c] /\ done[c] = written[c] => eof[c]
    BY NothingLostIsAccount DEF StreamInv
  <2>4. o \in Nat /\ o <= 1
    BY DEF OpenLine
  <2> HIDE DEF o
  <2> DEFINE f == Len(file[c])
             s == Len(sock[c])
             d == done[c]
             w == written[c]
  <2>6. f \in Nat /\ s \in Nat /\ d \in Nat /\ w \in Nat /\ Account(f, s, o, d, w)
    BY <2>1, <2>2, <2>3
  <2> HIDE DEF f, s, d, w
  <2>7. d <= w
    BY <2>4, <2>6, AccountSteps
  <2>5. done[c] <= written[c]
    BY <2>7 DEF d, w
  <2> QED
    BY <2>1, <2>2, <2>3, <2>5, Zenon DEF ClientAccount, o
<1> QED
  BY <1>1, <1>2

(* The accounts a client's steps lead to. *)
LEMMA WritingAccounts ==
    ASSUME StreamInv, NEW c \in Clients
    PROVE  /\ ~midline[c] =>
                /\ ClientAccount(Len(file[c]), Len(sock[c]) + 2, FALSE, done[c], written[c] + 1, eof[c])
                /\ ClientAccount(Len(file[c]), Len(sock[c]) + 1, TRUE, done[c], written[c] + 1, eof[c])
           /\ midline[c] /\ ~eof[c] =>
                ClientAccount(Len(file[c]), Len(sock[c]) + 1, FALSE, done[c], written[c], eof[c])
           /\ ClientAccount(Len(file[c]), Len(sock[c]), midline[c], done[c], written[c], TRUE)
<1> DEFINE f == Len(file[c])
           s == Len(sock[c])
           d == done[c]
           w == written[c]
           o == OpenLine(midline[c], d, w)
<1>1. /\ f \in Nat /\ s \in Nat /\ d \in Nat /\ w \in Nat
      /\ Account(f, s, o, d, w) /\ d <= w
  BY StreamFacts DEF ClientAccount
<1>2. midline[c] /\ d = w => eof[c]
  BY StreamFacts DEF ClientAccount
<1>3. midline[c] \in BOOLEAN
  BY StreamFacts
<1> HIDE DEF f, s, d, w
<1>4. /\ o \in Nat /\ o <= 1
      /\ ~midline[c] => o = 0
      /\ midline[c] /\ d # w => o = 1
  BY <1>3 DEF OpenLine
<1>5. /\ OpenLine(FALSE, d, w + 1) = 0 /\ OpenLine(TRUE, d, w + 1) = 1 /\ OpenLine(FALSE, d, w) = 0
      /\ d <= w + 1 /\ d # w + 1
  BY <1>1 DEF OpenLine
<1> HIDE DEF o
<1>6. /\ o = 0 => Account(f, s + 2, 0, d, w + 1) /\ Account(f, s + 1, 1, d, w + 1)
      /\ o = 1 => Account(f, s + 1, 0, d, w)
  BY <1>1, <1>4, AccountSteps
<1>7. /\ ~midline[c] => /\ ClientAccount(f, s + 2, FALSE, d, w + 1, eof[c])
                        /\ ClientAccount(f, s + 1, TRUE, d, w + 1, eof[c])
      /\ midline[c] /\ ~eof[c] => ClientAccount(f, s + 1, FALSE, d, w, eof[c])
      /\ ClientAccount(f, s, midline[c], d, w, TRUE)
  <2>1. ASSUME ~midline[c]
        PROVE  /\ ClientAccount(f, s + 2, FALSE, d, w + 1, eof[c])
               /\ ClientAccount(f, s + 1, TRUE, d, w + 1, eof[c])
    BY <1>4, <1>5, <1>6, <2>1, Zenon DEF ClientAccount
  <2>2. ASSUME midline[c], ~eof[c]
        PROVE  ClientAccount(f, s + 1, FALSE, d, w, eof[c])
    BY <1>1, <1>2, <1>4, <1>5, <1>6, <2>2, Zenon DEF ClientAccount
  <2>3. ClientAccount(f, s, midline[c], d, w, TRUE)
    BY <1>1, Zenon DEF ClientAccount, o
  <2> QED
    BY <2>1, <2>2, <2>3
<1> QED
  BY <1>7, Zenon DEF f, s, d, w

(* The accounts the server's steps lead to. *)
LEMMA ServingAccounts ==
    ASSUME StreamInv, NEW c \in Clients
    PROVE  /\ ClientAccount(Len(file[c]) + Len(sock[c]), 0, midline[c], done[c], written[c], eof[c])
           /\ \A g \in Nat : g + 2 = Len(file[c]) =>
                ClientAccount(g, Len(sock[c]), midline[c], done[c] + 1, written[c], eof[c])
           /\ Len(file[c]) = 1 /\ Len(sock[c]) = 0 /\ eof[c] =>
                ClientAccount(0, 0, midline[c], done[c] + 1, written[c], eof[c])
<1> DEFINE f == Len(file[c])
           s == Len(sock[c])
           d == done[c]
           w == written[c]
           o == OpenLine(midline[c], d, w)
           p == OpenLine(midline[c], d + 1, w)
<1>1. /\ f \in Nat /\ s \in Nat /\ d \in Nat /\ w \in Nat
      /\ Account(f, s, o, d, w) /\ d <= w
  BY StreamFacts DEF ClientAccount
<1>2. midline[c] /\ d = w => eof[c]
  BY StreamFacts DEF ClientAccount
<1>3. midline[c] \in BOOLEAN
  BY StreamFacts
<1> HIDE DEF f, s, d, w
<1>4. /\ o \in Nat /\ o <= 1
      /\ ~midline[c] => o = 0 /\ p = 0
      /\ midline[c] /\ d # w => o = 1
      /\ midline[c] /\ d + 1 # w => p = 1
      /\ d + 1 = w => p = 0
  BY <1>3 DEF OpenLine
<1> HIDE DEF o, p
<1>5. /\ Account(f + s, 0, o, d, w)
      /\ \A g \in Nat : g + 2 = f =>
            Account(g, s, o, d + 1, w) /\ d + 1 <= w /\ d # w /\ (o = 1 => d + 1 # w)
      /\ f = 1 /\ s = 0 => Account(0, 0, 0, d + 1, w) /\ d + 1 = w
  BY <1>1, <1>4, AccountSteps
<1>6. ClientAccount(f + s, 0, midline[c], d, w, eof[c])
  BY <1>1, <1>2, <1>5, Zenon DEF ClientAccount, o
<1>7. ASSUME NEW g \in Nat, g + 2 = f
      PROVE  ClientAccount(g, s, midline[c], d + 1, w, eof[c])
  <2>1. /\ Account(g, s, o, d + 1, w)
        /\ d + 1 <= w /\ d # w
        /\ o = 1 => d + 1 # w
    BY <1>5, <1>7
  <2>2. p = o /\ ~(midline[c] /\ d + 1 = w)
    BY <1>4, <2>1, Zenon
  <2> QED
    BY <2>1, <2>2, Zenon DEF ClientAccount, p
<1>8. ASSUME f = 1, s = 0, eof[c]
      PROVE  ClientAccount(0, 0, midline[c], d + 1, w, eof[c])
  <2>1. Account(0, 0, 0, d + 1, w) /\ d + 1 = w
    BY <1>5, <1>8
  <2>2. p = 0 /\ d + 1 <= w
    BY <1>1, <1>4, <2>1
  <2> QED
    BY <1>8, <2>1, <2>2, Zenon DEF ClientAccount, p
<1> QED
  BY <1>6, <1>7, <1>8, Zenon DEF f, s, d, w

(* The steps of the clients. *)
LEMMA ClientKeepsStreams ==
    ASSUME StreamInv, EndsType', NEW c \in Clients, ClientStep(c)
    PROVE  StreamInv'
<1>1. CASE Connect(c)
  BY <1>1, StreamFacts, StreamInvParts
    DEF Connect, client, flags, pending, device, EffectTypes
<1>2. ASSUME NEW cmd \in Commands, NEW whole \in BOOLEAN, Write(c, cmd, whole)
      PROVE  StreamInv'
  <2> DEFINE new == IF whole THEN <<cmd, NL>> ELSE <<cmd>>
  <2>1. /\ sock[c] \o new \in Stream
        /\ Len(sock[c] \o new) = Len(sock[c]) + IF whole THEN 2 ELSE 1
    BY StreamFacts, StreamOps
  <2> HIDE DEF new
  <2>2. /\ sock' = [sock EXCEPT ![c] = sock[c] \o new]
        /\ midline' = [midline EXCEPT ![c] = ~whole]
        /\ written' = [written EXCEPT ![c] = written[c] + 1]
        /\ written[c] < MaxLines /\ ~midline[c]
    BY <1>2 DEF Write, new
  <2>3. sock' \in [Clients -> Stream]
    BY <2>1, <2>2, StreamFacts
  <2>4. midline' \in [Clients -> BOOLEAN] /\ written' \in [Clients -> 0..MaxLines]
    BY <2>2, StreamFacts, MaxLinesAssumption
  <2>5. ASSUME NEW x \in Clients
        PROVE  ClientAccount(Len(file[x]), Len(sock'[x]), midline'[x], done[x], written'[x], eof[x])
    <3>1. CASE x # c
      BY <2>2, <3>1, StreamFacts
    <3>2. CASE x = c /\ whole
      <4>1. Len(sock'[c]) = Len(sock[c]) + 2 /\ ~midline'[c] /\ written'[c] = written[c] + 1
        BY <2>1, <2>2, <3>2, StreamFacts
      <4>2. midline'[c] = FALSE
        BY <4>1, <2>4
      <4> QED
        BY <2>2, <3>2, <4>1, <4>2, StreamFacts, WritingAccounts
    <3>3. CASE x = c /\ ~whole
      <4>1. Len(sock'[c]) = Len(sock[c]) + 1 /\ midline'[c] /\ written'[c] = written[c] + 1
        BY <2>1, <2>2, <3>3, StreamFacts
      <4>2. midline'[c] = TRUE
        BY <4>1, <2>4
      <4> QED
        BY <2>2, <3>3, <4>1, <4>2, StreamFacts, WritingAccounts
    <3> QED
      BY <3>1, <3>2, <3>3
  <2>6. UNCHANGED <<conn, eof, file, flags, pending, done, serving, device>>
    BY <1>2 DEF Write
  <2> QED
    BY <2>3, <2>4, <2>5, <2>6, StreamFacts, StreamInvParts
      DEF flags, pending, device, EffectTypes
<1>3. CASE EndLine(c)
  <2>1. /\ sock' = [sock EXCEPT ![c] = Append(sock[c], NL)]
        /\ midline' = [midline EXCEPT ![c] = FALSE]
        /\ midline[c] /\ ~eof[c]
        /\ UNCHANGED <<conn, eof, written, file, flags, pending, done, serving, device>>
    BY <1>3 DEF EndLine
  <2>2. Append(sock[c], NL) \in Stream /\ Len(Append(sock[c], NL)) = Len(sock[c]) + 1
    BY StreamFacts, StreamOps
  <2>3. sock' \in [Clients -> Stream] /\ midline' \in [Clients -> BOOLEAN]
    BY <2>1, <2>2, StreamFacts
  <2>4. ASSUME NEW x \in Clients
        PROVE  ClientAccount(Len(file[x]), Len(sock'[x]), midline'[x], done[x], written[x], eof[x])
    <3>1. CASE x # c
      BY <2>1, <3>1, StreamFacts
    <3>2. CASE x = c
      <4>1. Len(sock'[c]) = Len(sock[c]) + 1 /\ midline'[c] = FALSE
        BY <2>1, <2>2, StreamFacts
      <4> QED
        BY <2>1, <3>2, <4>1, StreamFacts, WritingAccounts
    <3> QED
      BY <3>1, <3>2
  <2> QED
    BY <2>1, <2>3, <2>4, StreamFacts, StreamInvParts DEF flags, pending, device, EffectTypes
<1>4. CASE HangUp(c)
  <2>1. /\ eof' = [eof EXCEPT ![c] = TRUE]
        /\ UNCHANGED <<conn, sock, midline, written, file, flags, pending, done, serving, device>>
    BY <1>4 DEF HangUp
  <2>2. ASSUME NEW x \in Clients
        PROVE  ClientAccount(Len(file[x]), Len(sock[x]), midline[x], done[x], written[x], eof'[x])
    <3>1. CASE x # c
      BY <2>1, <3>1, StreamFacts
    <3>2. CASE x = c
      <4>1. eof'[c] = TRUE
        BY <2>1, StreamFacts
      <4> QED
        BY <3>2, <4>1, StreamFacts, WritingAccounts
    <3> QED
      BY <3>1, <3>2
  <2>3. eof' \in [Clients -> BOOLEAN]
    BY <2>1, StreamFacts
  <2> QED
    BY <2>1, <2>2, <2>3, StreamFacts, StreamInvParts DEF flags, pending, device, EffectTypes
<1> QED
  BY <1>1, <1>2, <1>3, <1>4 DEF ClientStep

(* The steps of the loop that touch no stream. *)
LEMMA LoopKeepsStreams ==
    ASSUME StreamInv, EndsType', NEW c \in Clients, Accept(c) \/ ReadFires(c) \/ SleepFinished(c)
    PROVE  StreamInv'
<1>1. UNCHANGED <<client, file, done, device>>
  BY DEF Accept, ReadFires, SleepFinished
<1>2. conn' \in [Clients -> {"away", "backlog", "open", "closed"}]
  BY StreamFacts DEF Accept, EndpointAccept, ReadFires, SleepFinished
<1>3. serving' \in Clients \cup {Nobody}
  BY StreamFacts DEF Accept, ReadFires, SleepFinished
<1>4. /\ read_ev_active' \in [Clients -> BOOLEAN]
      /\ timer_ev_active' \in [Clients -> BOOLEAN]
      /\ read_ev' \in [Clients -> BOOLEAN]
      /\ timer_ev' \in [Clients -> BOOLEAN]
  <2>1. CASE Accept(c)
    BY <2>1, StreamFacts DEF Accept, ClientOpen, EffectTypes
  <2>2. CASE ReadFires(c)
    BY <2>2, StreamFacts DEF ReadFires, EffectTypes, flags
  <2>3. CASE SleepFinished(c)
    BY <2>3, StreamFacts, Zenon DEF SleepFinished, EffectTypes
  <2> QED
    BY <2>1, <2>2, <2>3
<1>5. EffectTypes'
  BY <1>1, <1>4, StreamFacts DEF EffectTypes, device
<1> QED
  BY <1>1, <1>2, <1>3, <1>5, StreamFacts, StreamInvParts DEF client

(* A read, a line executed, a last line executed, a close. *)
LEMMA HandlerKeepsStreams ==
    ASSUME StreamInv, EndsType', NEW c \in Clients, Handler(c)
    PROVE  StreamInv'
<1>1. CASE Fill(c)
  <2>1. /\ file' = [file EXCEPT ![c] = file[c] \o sock[c]]
        /\ sock' = [sock EXCEPT ![c] = <<>>]
        /\ UNCHANGED <<conn, midline, eof, written, flags, pending, done, serving, device>>
    BY <1>1 DEF Fill
  <2>2. /\ file[c] \o sock[c] \in Stream
        /\ Len(file[c] \o sock[c]) = Len(file[c]) + Len(sock[c])
        /\ <<>> \in Stream /\ Len(<<>>) = 0
    BY StreamFacts, StreamOps
  <2>3. file' \in [Clients -> Stream] /\ sock' \in [Clients -> Stream]
    BY <2>1, <2>2, StreamFacts
  <2>4. ASSUME NEW x \in Clients
        PROVE  ClientAccount(Len(file'[x]), Len(sock'[x]), midline[x], done[x], written[x], eof[x])
    <3>1. CASE x # c
      BY <2>1, <3>1, StreamFacts
    <3>2. CASE x = c
      <4>1. Len(file'[c]) = Len(file[c]) + Len(sock[c]) /\ Len(sock'[c]) = 0
        BY <2>1, <2>2, StreamFacts
      <4> QED
        BY <3>2, <4>1, ServingAccounts
    <3> QED
      BY <3>1, <3>2
  <2> QED
    BY <2>1, <2>3, <2>4, StreamFacts, StreamInvParts DEF flags, pending, device, EffectTypes
<1>2. CASE RunLine(c)
  <2>1. /\ file' = [file EXCEPT ![c] = RestOf(file[c])]
        /\ done' = [done EXCEPT ![c] = done[c] + 1]
        /\ serving' = Nobody
        /\ UNCHANGED <<conn, client>>
    BY <1>2 DEF RunLine
  <2>2. HasLine(file[c]) /\ RunCommand(c, file[c][1])
    BY <1>2 DEF RunLine
  <2>3. RestOf(file[c]) \in Stream /\ Len(RestOf(file[c])) + 2 = Len(file[c])
    BY <2>2, StreamFacts, RestIsStream
  <2>4. Len(RestOf(file[c])) \in Nat
    BY <2>3, StreamOps
  <2>5. file' \in [Clients -> Stream] /\ done' \in [Clients -> Nat]
    BY <2>1, <2>3, StreamFacts
  <2>6. EffectTypes'
    BY <2>2, StreamFacts, RunCommandTypes
  <2>7. ASSUME NEW x \in Clients
        PROVE  ClientAccount(Len(file'[x]), Len(sock[x]), midline[x], done'[x], written[x], eof[x])
    <3>1. CASE x # c
      BY <2>1, <3>1, StreamFacts
    <3>2. CASE x = c
      <4>1. Len(file'[c]) = Len(RestOf(file[c])) /\ done'[c] = done[c] + 1
        BY <2>1, StreamFacts
      <4>2. ClientAccount(Len(RestOf(file[c])), Len(sock[c]), midline[c], done[c] + 1, written[c], eof[c])
        BY <2>3, <2>4, ServingAccounts
      <4> QED
        BY <3>2, <4>1, <4>2
    <3> QED
      BY <3>1, <3>2
  <2> QED
    BY <2>1, <2>5, <2>6, <2>7, StreamFacts, StreamInvParts DEF client
<1>3. CASE RunLastLine(c)
  <2>1. /\ file' = [file EXCEPT ![c] = <<>>]
        /\ done' = [done EXCEPT ![c] = done[c] + 1]
        /\ serving' = Nobody
        /\ UNCHANGED <<conn, client>>
        /\ RunCommand(c, file[c][1])
    BY <1>3 DEF RunLastLine
  <2>2. ~(Len(file[c]) > 1) /\ file[c] # <<>> /\ sock[c] = <<>> /\ eof[c]
    BY <1>3 DEF RunLastLine, AtEnd, HasLine
  <2>3. <<>> \in Stream /\ Len(<<>>) = 0
    BY StreamOps
  <2>4. Len(file[c]) = 1 /\ Len(sock[c]) = 0
    <3>1. Len(file[c]) # 0
      BY <2>2, StreamFacts, StreamOps
    <3>2. Len(file[c]) \in Nat
      BY StreamFacts
    <3>3. \A n \in Nat : ~(n > 1) /\ n # 0 => n = 1
      OBVIOUS
    <3>4. Len(file[c]) = 1
      BY <2>2, <3>1, <3>2, <3>3, Zenon
    <3>5. Len(sock[c]) = 0
      BY <2>2, <2>3, Zenon
    <3> QED
      BY <3>4, <3>5
  <2>5. file' \in [Clients -> Stream] /\ done' \in [Clients -> Nat]
    BY <2>1, <2>3, StreamFacts
  <2>6. EffectTypes'
    BY <2>1, StreamFacts, RunCommandTypes
  <2>7. ASSUME NEW x \in Clients
        PROVE  ClientAccount(Len(file'[x]), Len(sock[x]), midline[x], done'[x], written[x], eof[x])
    <3>1. CASE x # c
      BY <2>1, <3>1, StreamFacts
    <3>2. CASE x = c
      <4>1. Len(file'[c]) = 0 /\ done'[c] = done[c] + 1
        BY <2>1, <2>3, StreamFacts
      <4> QED
        BY <2>2, <2>4, <3>2, <4>1, ServingAccounts
    <3> QED
      BY <3>1, <3>2
  <2> QED
    BY <2>1, <2>5, <2>6, <2>7, StreamFacts, StreamInvParts DEF client
<1>4. CASE Close(c)
  <2>1. ClientClose(c) /\ serving' = Nobody /\ UNCHANGED <<client, file, done>>
    BY <1>4 DEF Close
  <2>2. EffectTypes'
    BY <2>1, StreamFacts, ClientCloseTypes
  <2>3. conn' \in [Clients -> {"away", "backlog", "open", "closed"}]
    BY <2>1, StreamFacts DEF ClientClose, EndpointClose
  <2> QED
    BY <2>1, <2>2, <2>3, StreamFacts, StreamInvParts DEF client
<1>5. CASE UpdateCrashes(c)
  <2>1. UNCHANGED <<conn, client, file, flags, pending, done, serving, device>>
    BY <1>5 DEF UpdateCrashes
  <2> QED
    BY <2>1, StreamFacts, StreamInvParts DEF client, flags, pending, device, EffectTypes
<1> QED
  BY <1>1, <1>2, <1>3, <1>4, <1>5 DEF Handler

(* Types and accounts hold whatever the commands are, negative waits       *)
(* included. *)
LEMMA StreamInvariance == Spec => []StreamInv
<1>1. Init => StreamInv
  <2> SUFFICES ASSUME Init PROVE StreamInv
    OBVIOUS
  <2>1. TypeOK
    <3>1. <<>> \in Seq(Pieces)
      OBVIOUS
    <3>2. [c \in Clients |-> <<>>] \in [Clients -> Seq(Pieces)]
      BY <3>1
    <3>3. 0 \in 0..MaxLines
      BY MaxLinesAssumption
    <3> QED
      BY <3>2, <3>3 DEF Init, TypeOK
  <2>2. NothingLost
    <3>1. ASSUME NEW c \in Clients
          PROVE  /\ Len(file[c]) = 0 /\ Len(sock[c]) = 0
                 /\ midline[c] = FALSE /\ done[c] = 0 /\ written[c] = 0
      <4>1. file[c] = <<>> /\ sock[c] = <<>>
        BY DEF Init
      <4> QED
        BY <4>1, StreamOps DEF Init
    <3>2. ASSUME NEW c \in Clients
          PROVE  /\ Account(Len(file[c]), Len(sock[c]), OpenLine(midline[c], done[c], written[c]),
                            done[c], written[c])
                 /\ midline[c] /\ done[c] = written[c] => eof[c]
      <4>1. OpenLine(midline[c], done[c], written[c]) = 0
        BY <3>1, Zenon DEF OpenLine
      <4>2. Account(0, 0, 0, 0, 0)
        BY DEF Account
      <4> QED
        BY <3>1, <4>1, <4>2, Zenon
    <3> QED
      BY <3>2, NothingLostIsAccount
  <2>3. StreamType
    BY DEF Init, StreamType
  <2> QED
    BY <2>1, <2>2, <2>3 DEF StreamInv
<1>2. StreamInv /\ [Next]_vars => StreamInv'
  <2> SUFFICES ASSUME StreamInv, [Next]_vars PROVE StreamInv'
    OBVIOUS
  <2>1. EndsType'
    <3>1. EndsType
      BY DEF StreamInv, TypeOK, EndsType
    <3> QED
      BY <3>1, EndsKeepType
  <2>2. CASE Next
    BY <2>1, <2>2, ClientKeepsStreams, LoopKeepsStreams, HandlerKeepsStreams DEF Next
  <2>3. CASE UNCHANGED vars
    <3>1. UNCHANGED <<conn, client, file, flags, pending, done, serving, device>>
      BY <2>3 DEF vars
    <3> QED
      BY <2>1, <3>1, StreamFacts, StreamInvParts DEF client, flags, pending, device, EffectTypes
  <2> QED
    BY <2>2, <2>3
<1> QED
  BY <1>1, <1>2, PTL DEF Spec

--------------------------------------------------------------------------------
(* Events *)

(* The part of the invariant that is about events. *)
EventInv ==
    /\ OnlyOpenServed
    /\ OneEventPerClient
    /\ EventsAreFlagged

(* What it says of one client. *)
ClientEvents(c) ==
    /\ serving = c => conn[c] = "open"
    /\ conn[c] # "open" => ~read_ev[c] /\ ~timer_ev[c]
    /\ conn[c] = "open" =>
          IF serving = c THEN ~read_ev[c] /\ ~timer_ev[c] ELSE (read_ev[c] <=> ~timer_ev[c])
    /\ read_ev[c] => read_ev_active[c]
    /\ timer_ev[c] => timer_ev_active[c]

LEMMA EventInvIsClientEvents ==
    TypeOK => (EventInv <=> \A x \in Clients : ClientEvents(x))
<1> SUFFICES ASSUME TypeOK
             PROVE  EventInv <=> \A x \in Clients : ClientEvents(x)
  OBVIOUS
<1>1. \A c \in Clients : read_ev[c] \in BOOLEAN /\ timer_ev[c] \in BOOLEAN
  BY DEF TypeOK
<1>2. serving \in Clients \/ serving = Nobody
  BY DEF TypeOK
<1>3. ASSUME EventInv, NEW c \in Clients
      PROVE  ClientEvents(c)
  <2>1. c # Nobody
    BY NobodyAssumption
  <2>2. read_ev[c] # timer_ev[c] <=> (read_ev[c] <=> ~timer_ev[c])
    BY <1>1
  <2> QED
    BY <1>3, <2>1, <2>2, Zenon
      DEF EventInv, OnlyOpenServed, OneEventPerClient, EventsAreFlagged, ClientEvents
<1>4. ASSUME \A c \in Clients : ClientEvents(c)
      PROVE  EventInv
  <2>1. OnlyOpenServed
    BY <1>2, <1>4, Zenon DEF OnlyOpenServed, ClientEvents
  <2>2. OneEventPerClient
    <3>1. ASSUME NEW c \in Clients
          PROVE  read_ev[c] # timer_ev[c] <=> (read_ev[c] <=> ~timer_ev[c])
      BY <1>1
    <3> QED
      BY <1>4, <3>1, Zenon DEF OneEventPerClient, ClientEvents
  <2>3. EventsAreFlagged
    <3>1. "closed" # "open"
      OBVIOUS
    <3> QED
      BY <1>4, <3>1, Zenon DEF EventsAreFlagged, ClientEvents
  <2> QED
    BY <2>1, <2>2, <2>3 DEF EventInv
<1> QED
  BY <1>3, <1>4

LEMMA EventInvLater == (TypeOK => (EventInv <=> \A x \in Clients : ClientEvents(x)))'
BY EventInvIsClientEvents, PTL

(* Nothing changes for the other clients. *)
OthersSame(c) ==
    \A x \in Clients \ {c} :
        /\ conn'[x] = conn[x]
        /\ read_ev'[x] = read_ev[x] /\ timer_ev'[x] = timer_ev[x]
        /\ read_ev_active'[x] = read_ev_active[x] /\ timer_ev_active'[x] = timer_ev_active[x]

(* The handler that runs, before and after, is that of one client. *)
LEMMA StepOfOneClient ==
    ASSUME TypeOK, TypeOK', EventInv, NEW c \in Clients, OthersSame(c),
           serving \in {Nobody, c}, serving' \in {Nobody, c},
           ClientEvents(c)'
    PROVE  EventInv'
<1>1. ASSUME NEW x \in Clients
      PROVE  ClientEvents(x)'
  <2>1. CASE x = c
    BY <2>1
  <2>2. CASE x # c
    <3>1. serving # x /\ serving' # x
      BY <2>2, NobodyAssumption
    <3>2. ClientEvents(x)
      BY EventInvIsClientEvents
    <3>3. /\ conn'[x] = conn[x]
          /\ read_ev'[x] = read_ev[x] /\ timer_ev'[x] = timer_ev[x]
          /\ read_ev_active'[x] = read_ev_active[x] /\ timer_ev_active'[x] = timer_ev_active[x]
      BY <2>2, Zenon DEF OthersSame
    <3> QED
      BY <3>1, <3>2, <3>3, Zenon DEF ClientEvents
  <2> QED
    BY <2>1, <2>2
<1> QED
  BY <1>1, EventInvLater

(* The event that is pending fires, or a connection is accepted. *)
LEMMA LoopKeepsEvents ==
    ASSUME TypeOK, TypeOK', EventInv, NEW c \in Clients,
           Accept(c) \/ ReadFires(c) \/ SleepFinished(c)
    PROVE  EventInv'
<1>1. ClientEvents(c)
  BY EventInvIsClientEvents
<1>2. c # Nobody
  BY NobodyAssumption
<1>3. CASE Accept(c)
  <2>1. /\ serving = Nobody /\ serving' = Nobody
        /\ conn' = [conn EXCEPT ![c] = "open"] /\ conn[c] = "backlog"
        /\ read_ev_active' = [read_ev_active EXCEPT ![c] = TRUE]
        /\ read_ev' = [read_ev EXCEPT ![c] = TRUE]
        /\ timer_ev_active' = [timer_ev_active EXCEPT ![c] = TRUE]
        /\ timer_ev' = timer_ev
    BY <1>3 DEF Accept, EndpointAccept, ClientOpen
  <2>2. /\ conn'[c] = "open" /\ read_ev'[c] /\ read_ev_active'[c]
        /\ timer_ev_active'[c] /\ timer_ev'[c] = timer_ev[c]
    BY <2>1 DEF TypeOK
  <2>3. ~timer_ev[c]
    BY <1>1, <2>1 DEF ClientEvents
  <2>4. OthersSame(c)
    BY <2>1 DEF OthersSame, TypeOK
  <2>5. ClientEvents(c)'
    BY <1>2, <2>1, <2>2, <2>3, Zenon DEF ClientEvents
  <2> QED
    BY <2>1, <2>4, <2>5, StepOfOneClient
<1>4. CASE ReadFires(c)
  <2>1. /\ serving = Nobody /\ serving' = c /\ conn' = conn /\ read_ev[c]
        /\ read_ev' = [read_ev EXCEPT ![c] = FALSE]
        /\ read_ev_active' = read_ev_active /\ timer_ev_active' = timer_ev_active
        /\ timer_ev' = timer_ev
    BY <1>4 DEF ReadFires, flags
  <2>2. ~read_ev'[c]
    BY <2>1 DEF TypeOK
  <2>3. conn[c] = "open" /\ ~timer_ev[c]
    BY <1>1, <1>2, <2>1, Zenon DEF ClientEvents
  <2>4. OthersSame(c)
    BY <2>1 DEF OthersSame, TypeOK
  <2>5. ClientEvents(c)'
    BY <2>1, <2>2, <2>3, Zenon DEF ClientEvents
  <2> QED
    BY <2>1, <2>4, <2>5, StepOfOneClient
<1>5. CASE SleepFinished(c)
  <2>1. /\ serving = Nobody /\ serving' = Nobody /\ conn' = conn /\ timer_ev[c]
        /\ timer_ev' = [timer_ev EXCEPT ![c] = FALSE]
        /\ timer_ev_active' = [timer_ev_active EXCEPT ![c] = @ /\ ~read_ev_active[c]]
        /\ read_ev_active' = [read_ev_active EXCEPT ![c] = TRUE]
        /\ read_ev' = [read_ev EXCEPT ![c] = TRUE]
    BY <1>5 DEF SleepFinished
  <2>2. ~timer_ev'[c] /\ read_ev'[c] /\ read_ev_active'[c]
    BY <2>1 DEF TypeOK
  <2>3. conn[c] = "open"
    BY <1>1, <2>1, Zenon DEF ClientEvents
  <2>4. OthersSame(c)
    BY <2>1 DEF OthersSame, TypeOK
  <2>5. ClientEvents(c)'
    BY <1>2, <2>1, <2>2, <2>3, Zenon DEF ClientEvents
  <2> QED
    BY <2>1, <2>4, <2>5, StepOfOneClient
<1> QED
  BY <1>3, <1>4, <1>5

(* What a command does to the events of its client: it adds the read event *)
(* again, or the timer. *)
LEMMA RunCommandEvents ==
    ASSUME TypeOK, NEW c \in Clients, NEW cmd, cmd # "w-", RunCommand(c, cmd), ~read_ev[c], ~timer_ev[c]
    PROVE  /\ \A x \in Clients \ {c} :
                /\ read_ev'[x] = read_ev[x] /\ timer_ev'[x] = timer_ev[x]
                /\ read_ev_active'[x] = read_ev_active[x] /\ timer_ev_active'[x] = timer_ev_active[x]
           /\ \/ read_ev'[c] /\ read_ev_active'[c] /\ ~timer_ev'[c]
              \/ ~read_ev'[c] /\ timer_ev'[c] /\ timer_ev_active'[c]
<1>1. CASE ReadAgain(c)
  BY <1>1 DEF ReadAgain, TypeOK
<1>2. CASE Sleep(c)
  <2>1. \A x \in Clients \ {c} :
          /\ read_ev'[x] = read_ev[x] /\ timer_ev'[x] = timer_ev[x]
          /\ read_ev_active'[x] = read_ev_active[x] /\ timer_ev_active'[x] = timer_ev_active[x]
    BY <1>2 DEF Sleep, TypeOK
  <2>2. timer_ev'[c] /\ timer_ev_active'[c]
    BY <1>2 DEF Sleep, TypeOK
  <2>3. read_ev'[c] = (read_ev[c] /\ ~read_ev_active[c])
    BY <1>2, Zenon DEF Sleep, TypeOK
  <2> QED
    BY <2>1, <2>2, <2>3, Zenon
<1> QED
  BY <1>1, <1>2 DEF RunCommand

(* The handler ends with an event for its client, or closes it. *)
LEMMA HandlerKeepsEvents ==
    ASSUME "w-" \notin Commands, StreamInv, StreamInv', EventInv, NEW c \in Clients, Handler(c)
    PROVE  EventInv'
<1>1. TypeOK /\ TypeOK' /\ file \in [Clients -> Stream]
  BY StreamFacts DEF StreamInv
<1>2. ClientEvents(c) /\ c # Nobody
  BY <1>1, EventInvIsClientEvents, NobodyAssumption
<1>3. serving = c
  BY DEF Handler, Fill, RunLine, RunLastLine, UpdateCrashes, Close
<1>4. conn[c] = "open" /\ ~read_ev[c] /\ ~timer_ev[c]
  BY <1>2, <1>3, Zenon DEF ClientEvents
<1>5. CASE Fill(c) \/ UpdateCrashes(c)
  <2>1. UNCHANGED <<conn, flags, pending, serving>>
    BY <1>5 DEF Fill, UpdateCrashes
  <2>2. OthersSame(c) /\ serving' = c
    BY <1>3, <2>1 DEF OthersSame, flags, pending
  <2>3. ClientEvents(c)'
    BY <1>2, <2>1 DEF ClientEvents, flags, pending
  <2> QED
    BY <1>1, <1>3, <2>2, <2>3, StepOfOneClient
<1>6. CASE RunLine(c) \/ RunLastLine(c)
  <2>1. RunCommand(c, file[c][1]) /\ serving' = Nobody /\ conn' = conn
    BY <1>6 DEF RunLine, RunLastLine
  <2>2. file[c][1] # "w-"
    <3>1. Len(file[c]) >= 1
      <4>1. Len(file[c]) \in Nat /\ file[c] \in Stream
        BY <1>1, StreamFacts
      <4>2. Len(file[c]) # 0
        BY <1>6, <4>1, StreamOps DEF RunLine, RunLastLine, HasLine
      <4> QED
        BY <4>1, <4>2
    <3>2. file[c][1] \in Commands \cup {NL}
      BY <1>1, <3>1, StreamFacts DEF Stream
    <3> QED
      BY <3>2 DEF NL
  <2>3. /\ \A x \in Clients \ {c} :
            /\ read_ev'[x] = read_ev[x] /\ timer_ev'[x] = timer_ev[x]
            /\ read_ev_active'[x] = read_ev_active[x] /\ timer_ev_active'[x] = timer_ev_active[x]
        /\ \/ read_ev'[c] /\ read_ev_active'[c] /\ ~timer_ev'[c]
           \/ ~read_ev'[c] /\ timer_ev'[c] /\ timer_ev_active'[c]
    BY <1>1, <1>4, <2>1, <2>2, RunCommandEvents
  <2>4. OthersSame(c)
    BY <2>1, <2>3, Zenon DEF OthersSame
  <2>5. ClientEvents(c)'
    BY <1>2, <1>4, <2>1, <2>3, Zenon DEF ClientEvents
  <2> QED
    BY <1>1, <1>3, <2>1, <2>4, <2>5, StepOfOneClient
<1>7. CASE Close(c)
  <2>1. ClientClose(c) /\ serving' = Nobody
    BY <1>7 DEF Close
  <2>2. OthersSame(c) /\ conn'[c] = "closed"
    BY <1>1, <2>1 DEF ClientClose, EndpointClose, OthersSame, TypeOK
  <2>3. /\ read_ev'[c] = (read_ev[c] /\ ~read_ev_active[c])
        /\ timer_ev'[c] = (timer_ev[c] /\ ~timer_ev_active[c])
    BY <1>1, <2>1, Zenon DEF ClientClose, TypeOK
  <2>4. ~read_ev'[c] /\ ~timer_ev'[c]
    BY <1>4, <2>3, Zenon
  <2>5. ClientEvents(c)'
    <3>1. "closed" # "open"
      OBVIOUS
    <3> QED
      BY <1>2, <2>1, <2>2, <2>4, <3>1, Zenon DEF ClientEvents
  <2> QED
    BY <1>1, <1>3, <2>1, <2>2, <2>5, StepOfOneClient
<1> QED
  BY <1>5, <1>6, <1>7 DEF Handler

(* A client touches no event. *)
LEMMA ClientKeepsEvents ==
    ASSUME TypeOK, TypeOK', EventInv, NEW c \in Clients, ClientStep(c)
    PROVE  EventInv'
<1>1. UNCHANGED <<flags, pending, serving>>
  BY DEF ClientStep, Connect, Write, EndLine, HangUp
<1>2. ASSUME NEW x \in Clients
      PROVE  conn'[x] = "open" <=> conn[x] = "open"
  BY DEF ClientStep, Connect, Write, EndLine, HangUp, TypeOK
<1>3. ASSUME NEW x \in Clients
      PROVE  ClientEvents(x)'
  <2>1. ClientEvents(x)
    BY EventInvIsClientEvents
  <2> QED
    BY <1>1, <1>2, <2>1, Zenon DEF ClientEvents, flags, pending
<1> QED
  BY <1>3, EventInvLater

(* Without negative waits exactly one event waits for each client. *)
LEMMA EventInvariance ==
    ASSUME "w-" \notin Commands
    PROVE  Spec => []EventInv
<1>1. Init => EventInv
  BY DEF Init, EventInv, OnlyOpenServed, OneEventPerClient, EventsAreFlagged
<1>2. StreamInv /\ StreamInv' /\ EventInv /\ [Next]_vars => EventInv'
  <2> SUFFICES ASSUME StreamInv, StreamInv', EventInv, [Next]_vars PROVE EventInv'
    OBVIOUS
  <2>1. TypeOK /\ TypeOK'
    BY DEF StreamInv
  <2>2. CASE Next
    BY <2>1, <2>2, ClientKeepsEvents, LoopKeepsEvents, HandlerKeepsEvents DEF Next
  <2>3. CASE UNCHANGED vars
    BY <2>3 DEF vars, flags, pending,
      EventInv, OnlyOpenServed, OneEventPerClient, EventsAreFlagged
  <2> QED
    BY <2>2, <2>3
<1> QED
  BY <1>1, <1>2, StreamInvariance, PTL DEF Spec

--------------------------------------------------------------------------------
(* The frame *)

(* An update leaves no change behind on an open device. *)
LEMMA UpdateFlushes ==
    ASSUME DeviceUpdate
    PROVE  ~(dev_opened' /\ key_data_dirty')
BY Zenon DEF DeviceUpdate

(* The client whose command ran is still open; the last one to close makes *)
(* the update.                                                             *)
LEMMA FrameKept ==
    ASSUME TypeOK, TypeOK', OnlyOpenServed, NoOrphanedChange, [Next]_vars
    PROVE  NoOrphanedChange'
<1>1. ASSUME NEW c \in Clients,
             \/ ClientStep(c) \/ Accept(c) \/ ReadFires(c) \/ SleepFinished(c)
             \/ Fill(c) \/ UpdateCrashes(c)
      PROVE  NoOrphanedChange'
  <2>1. UNCHANGED device
    BY <1>1 DEF ClientStep, Connect, Write, EndLine, HangUp, Accept, ReadFires, SleepFinished,
      Fill, UpdateCrashes
  <2>2. \A x \in Clients : conn[x] = "open" => conn'[x] = "open"
    BY <1>1 DEF ClientStep, Connect, Write, EndLine, HangUp, Accept, EndpointAccept,
      ReadFires, SleepFinished, Fill, UpdateCrashes, TypeOK
  <2> QED
    BY <2>1, <2>2, Zenon DEF NoOrphanedChange, device
<1>2. ASSUME NEW c \in Clients, RunLine(c) \/ RunLastLine(c)
      PROVE  NoOrphanedChange'
  <2>1. serving = c /\ conn' = conn
    BY <1>2 DEF RunLine, RunLastLine
  <2>2. conn'[c] = "open"
    BY <2>1, NobodyAssumption DEF OnlyOpenServed
  <2> QED
    BY <2>2 DEF NoOrphanedChange
<1>3. ASSUME NEW c \in Clients, Close(c)
      PROVE  NoOrphanedChange'
  <2>1. CASE DeviceUpdate
    BY <2>1, UpdateFlushes DEF NoOrphanedChange
  <2>2. CASE ~dev_opened /\ UNCHANGED device
    BY <2>2 DEF NoOrphanedChange, device
  <2> QED
    BY <1>3, <2>1, <2>2 DEF Close, ClientClose
<1>4. CASE UNCHANGED vars
  BY <1>4 DEF vars, device, NoOrphanedChange
<1> QED
  BY <1>1, <1>2, <1>3, <1>4 DEF Next, Handler

--------------------------------------------------------------------------------
(* The theorems *)

(* The types of the server's state hold for any commands, negative waits   *)
(* included; the counters stay within what the client wrote.               *)
THEOREM ServerTypeCorrect == Spec => []TypeOK
<1>1. StreamInv => TypeOK
  BY DEF StreamInv
<1> QED
  BY <1>1, StreamInvariance, PTL

(* The inductive invariant, for commands without a negative wait: nothing  *)
(* a client wrote is lost, one event waits for each open client, and no    *)
(* change stays behind.                                                    *)
THEOREM ServerInvariance ==
    ASSUME "w-" \notin Commands
    PROVE  Spec => []IInv
<1>1. Init => NoOrphanedChange
  BY DEF Init, NoOrphanedChange
<1>2. TypeOK /\ TypeOK' /\ OnlyOpenServed /\ NoOrphanedChange /\ [Next]_vars => NoOrphanedChange'
  BY FrameKept
<1>3. StreamInv => TypeOK
  BY DEF StreamInv
<1>4. EventInv => OnlyOpenServed
  BY DEF EventInv
<1>5. StreamInv /\ EventInv /\ NoOrphanedChange => IInv
  BY DEF StreamInv, EventInv, IInv
<1> QED
  BY <1>1, <1>2, <1>3, <1>4, <1>5, StreamInvariance, EventInvariance, PTL DEF Spec

(* luxeed_client_read, luxeed_client_sleep and luxeed_client_sleep_finished *)
(* leave exactly one event pending for each client that is not served.     *)
THEOREM OneEventWaits ==
    ASSUME "w-" \notin Commands
    PROVE  Spec => []OneEventPerClient
<1>1. IInv => OneEventPerClient
  BY DEF IInv
<1> QED
  BY <1>1, ServerInvariance, PTL

(* luxeed_client_close, that goes by the flags, leaves no event behind.    *)
THEOREM NoEventOutlives ==
    ASSUME "w-" \notin Commands
    PROVE  Spec => []EventsAreFlagged
<1>1. IInv => EventsAreFlagged
  BY DEF IInv
<1> QED
  BY <1>1, ServerInvariance, PTL

(* The update in luxeed_client_close leaves no change unsent on an open    *)
(* device when the last client goes.                                       *)
THEOREM LastClientFlushes ==
    ASSUME "w-" \notin Commands
    PROVE  Spec => []NoOrphanedChange
<1>1. IInv => NoOrphanedChange
  BY DEF IInv
<1> QED
  BY <1>1, ServerInvariance, PTL
================================================================================
