---------------------------- MODULE LuxeedMainProofs ----------------------------
(* Proofs about LuxeedMain, for every command line, log level and number   *)
(* of clients: IInv is inductive, and what the server holds follows.       *)
EXTENDS LuxeedMain, TLAPS

(* luxeed_main_argv keeps the options well typed. *)
LEMMA MainArgvType ==
    ASSUME env \in LogLevels, NEW o \in OptionsType
    PROVE  /\ MainArgv(o) \in OptionsType
           /\ WithDefaults(MainArgv(o)) \in OptionsType
<1>1. log_level \in Nat /\ (env # Unset => env \in Nat)
  BY LogLevelsAssumption DEF log_level
<1>2. MainArgv(o) \in OptionsType
  <2> DEFINE d == IF env = Unset THEN o.debug ELSE env
             y == IF log_level >= 5 THEN log_level - 5 ELSE o.debug_syscall
  <2>1. d \in Nat /\ y \in Nat
    BY <1>1 DEF OptionsType
  <2>2. MainArgv(o) = [o EXCEPT !.debug = d, !.debug_syscall = y]
    BY Zenon DEF MainArgv
  <2> HIDE DEF d, y
  <2> QED BY <2>1, <2>2 DEF OptionsType
<1>3. ASSUME NEW p \in OptionsType PROVE WithDefaults(p) \in OptionsType
  <2> DEFINE h == IF p.host = Unset THEN DefaultHost ELSE p.host
             n == IF p.port = 0 THEN DefaultPort ELSE p.port
  <2>1. h \in Values({"h"}) \cup {DefaultHost, Unset}
    BY Zenon DEF OptionsType
  <2>2. n \in Int
    BY DEF OptionsType, DefaultPort
  <2>3. WithDefaults(p) = [p EXCEPT !.debug = log_level, !.host = h, !.port = n]
    BY Zenon DEF WithDefaults
  <2> HIDE DEF h, n
  <2> QED BY <1>1, <2>1, <2>2, <2>3 DEF OptionsType
<1> QED BY <1>2, <1>3

(* parse_opt keeps them well typed, whatever option it has a case for. *)
LEMMA ParseOptType ==
    ASSUME NEW o \in OptionsType, NEW a \in Arguments, a[1] \in Cases
    PROVE  ParseOpt(o, a[1], a[2]) \in OptionsType
<1>1. CASE a[1] = "h"
  <2>1. a[2] \in Values({"h"})
    BY <1>1 DEF Values
  <2>2. ParseOpt(o, a[1], a[2]) = [o EXCEPT !.host = a[2]]
    BY <1>1, Zenon DEF ParseOpt, ARG
  <2> QED BY <2>1, <2>2 DEF OptionsType
<1>2. CASE a[1] = "p"
  <2>1. a[2] \in Int
    BY <1>2, ArgumentsAssumption
  <2>2. ParseOpt(o, a[1], a[2]) = [o EXCEPT !.port = a[2]]
    BY <1>2, Zenon DEF ParseOpt, ARG
  <2> QED BY <2>1, <2>2 DEF OptionsType
<1>3. CASE a[1] \in {"c", ARG}
  <2>1. a[2] \in Values({"c", ARG})
    BY <1>3 DEF Values
  <2>2. o.commands_n \in 0..MaxCommands - 1
    BY DEF OptionsType, MaxCommands
  <2> DEFINE k == [o.commands EXCEPT ![o.commands_n] = a[2]]
  <2>3. ParseOpt(o, a[1], a[2]) = [o EXCEPT !.commands = k]
    BY <1>3, Zenon DEF ParseOpt, ARG
  <2>4. k \in [0..MaxCommands - 1 -> Values({"c", ARG}) \cup {Unset}]
    BY <2>1, <2>2 DEF OptionsType
  <2>5. ASSUME NEW x \in [0..MaxCommands - 1 -> Values({"c", ARG}) \cup {Unset}]
        PROVE  [o EXCEPT !.commands = x] \in OptionsType
    BY DEF OptionsType
  <2> HIDE DEF k
  <2> QED BY <2>3, <2>4, <2>5, Zenon
<1>4. CASE a[1] \in {"d", "D", "v"}
  <2>1. \/ ParseOpt(o, a[1], a[2]) = [o EXCEPT !.debug = @ + 1]
        \/ ParseOpt(o, a[1], a[2]) = [o EXCEPT !.debug_syscall = @ + 1]
        \/ ParseOpt(o, a[1], a[2]) = [o EXCEPT !.verbose = @ + 1]
    BY <1>4, Zenon DEF ParseOpt, ARG
  <2>2. o.debug + 1 \in Nat /\ o.debug_syscall + 1 \in Nat /\ o.verbose + 1 \in Nat
    BY DEF OptionsType
  <2>3. ASSUME NEW x \in Nat
        PROVE  /\ [o EXCEPT !.debug = x] \in OptionsType
               /\ [o EXCEPT !.debug_syscall = x] \in OptionsType
               /\ [o EXCEPT !.verbose = x] \in OptionsType
    BY DEF OptionsType
  <2> QED BY <2>1, <2>2, <2>3, Zenon
<1>5. CASE a[1] \in {"s", "k"}
  <2>1. \/ ParseOpt(o, a[1], a[2]) = [o EXCEPT !.server = 1]
        \/ ParseOpt(o, a[1], a[2]) = [o EXCEPT !.show_key_map = 1]
    BY <1>5, Zenon DEF ParseOpt, ARG
  <2> QED BY <2>1 DEF OptionsType
<1> QED BY <1>1, <1>2, <1>3, <1>4, <1>5 DEF Cases

(* The program starts with nothing held. *)
LEMMA InitIInv == Init => IInv
<1> SUFFICES ASSUME Init PROVE IInv
  OBVIOUS
<1>1. NoOptions \in OptionsType
  BY DEF NoOptions, OptionsType
<1>2. argv \in Seq(Arguments)
  BY DEF Init
<1>3. TypeOK
  BY <1>1, <1>2 DEF Init, TypeOK, files
<1>4. Held /\ Outcome /\ FailureIsReported
  BY DEF Init, Held, Outcome, FailureIsReported
<1> QED BY <1>3, <1>4 DEF IInv

(* The steps of main, up to the server. *)
LEMMA MainKeeps ==
    ASSUME IInv, MainBegins \/ NoServer \/ ServerBegins \/ Parse
    PROVE  IInv'
<1> USE DEF IInv
<1>1. CASE MainBegins
  <2>1. MainArgv(opts) \in OptionsType
    BY MainArgvType DEF TypeOK, files
  <2>2. TypeOK'
    BY <1>1, <2>1 DEF MainBegins, TypeOK, files, server, kernel, network
  <2>3. Held' /\ Outcome' /\ FailureIsReported'
    BY <1>1 DEF MainBegins, Held, Outcome, FailureIsReported, server, kernel, network
  <2> QED BY <2>2, <2>3
<1>2. CASE NoServer
  <2>1. TypeOK'
    BY <1>2 DEF NoServer, TypeOK, files, server, kernel, network
  <2>2. opts.server \in {0, 1} /\ opts.show_key_map \in {0, 1}
    BY DEF TypeOK, files, OptionsType
  <2>3. Held' /\ Outcome' /\ FailureIsReported'
    BY <1>2, <2>2 DEF NoServer, Held, Outcome, FailureIsReported, server, kernel, network
  <2> QED BY <2>1, <2>3
<1>3. CASE ServerBegins
  <2>1. MainArgv(opts) \in OptionsType /\ WithDefaults(MainArgv(opts)) \in OptionsType
    BY MainArgvType DEF TypeOK, files
  <2>2. TypeOK'
    BY <1>3, <2>1 DEF ServerBegins, TypeOK, files, kernel, network
  <2>3. Held' /\ Outcome' /\ FailureIsReported'
    BY <1>3 DEF ServerBegins, Held, Outcome, FailureIsReported, kernel, network
  <2> QED BY <2>2, <2>3
<1>4. CASE Parse
  <2>1. PICK a \in Arguments : ParseArgument(a) \/ RefuseArgument(a)
    BY <1>4 DEF Parse
  <2>2. CASE ParseArgument(a)
    <3>1. ParseOpt(opts, a[1], a[2]) \in OptionsType
      BY <2>2, ParseOptType DEF ParseArgument, Taken, TypeOK, files
    <3>2. TypeOK'
      BY <2>2, <3>1 DEF ParseArgument, TypeOK, files, server, kernel, network
    <3>3. Held' /\ Outcome' /\ FailureIsReported'
      BY <2>2 DEF ParseArgument, Held, Outcome, FailureIsReported, server, kernel, network
    <3> QED BY <3>2, <3>3
  <2>3. CASE RefuseArgument(a)
    <3>1. TypeOK'
      BY <2>3 DEF RefuseArgument, TypeOK, files, server, kernel, network
    <3>2. Held' /\ Outcome' /\ FailureIsReported'
      BY <2>3 DEF RefuseArgument, Held, Outcome, FailureIsReported, server, kernel, network
    <3> QED BY <3>1, <3>2
  <2> QED BY <2>1, <2>2, <2>3
<1> QED BY <1>1, <1>2, <1>3, <1>4

(* The steps that open the server, and what a failed one does. *)
LEMMA OpenKeeps ==
    ASSUME IInv, OpenContext \/ EndpointInit \/ OpenSocket \/ Bind \/ Listen \/ OpenFails
    PROVE  IInv'
<1> USE DEF IInv
<1>1. CASE OpenContext
  <2>1. TypeOK'
    BY <1>1 DEF OpenContext, TypeOK, files, Held, network
  <2>2. Held' /\ Outcome' /\ FailureIsReported'
    BY <1>1 DEF OpenContext, Held, Outcome, FailureIsReported, network
  <2> QED BY <2>1, <2>2
<1>2. CASE EndpointInit
  <2>1. TypeOK'
    BY <1>2 DEF EndpointInit, TypeOK, files, server, kernel, network
  <2>2. Held' /\ Outcome' /\ FailureIsReported'
    BY <1>2 DEF EndpointInit, Held, Outcome, FailureIsReported, server, kernel, network
  <2> QED BY <2>1, <2>2
<1>3. CASE OpenSocket
  <2>1. TypeOK'
    BY <1>3 DEF OpenSocket, TypeOK, files, server, network
  <2>2. Held' /\ Outcome' /\ FailureIsReported'
    BY <1>3 DEF OpenSocket, Held, Outcome, FailureIsReported, server, network
  <2> QED BY <2>1, <2>2
<1>4. CASE Bind
  <2>1. TypeOK'
    BY <1>4 DEF Bind, TypeOK, files, server, network
  <2>2. Held' /\ Outcome' /\ FailureIsReported'
    BY <1>4 DEF Bind, Held, Outcome, FailureIsReported, server, network
  <2> QED BY <2>1, <2>2
<1>5. CASE Listen
  <2>1. TypeOK'
    BY <1>5 DEF Listen, TypeOK, files, network
  <2>2. Held' /\ Outcome' /\ FailureIsReported'
    BY <1>5 DEF Listen, Held, Outcome, FailureIsReported, network
  <2> QED BY <2>1, <2>2
<1>6. CASE OpenFails
  <2>1. TypeOK'
    BY <1>6 DEF OpenFails, TypeOK, files, server, kernel, network
  <2>2. Held' /\ Outcome' /\ FailureIsReported'
    BY <1>6 DEF OpenFails, Held, Outcome, FailureIsReported, server, kernel, network
  <2> QED BY <2>1, <2>2
<1> QED BY <1>1, <1>2, <1>3, <1>4, <1>5, <1>6

(* luxeed_server_close, the first time and the second. *)
LEMMA CloseKeeps ==
    ASSUME IInv, Closing
    PROVE  IInv'
<1> USE DEF IInv
<1>1. CASE CloseDevice
  <2>1. accept_ev' \in BOOLEAN
    BY <1>1, Zenon DEF CloseDevice, TypeOK, files
  <2>2. TypeOK'
    <3>1. /\ u_ctx' \in BOOLEAN /\ accept_ev_active' \in BOOLEAN /\ in_main' \in BOOLEAN
          /\ pc' = "close_context" /\ dev' = "none"
      BY <1>1, Zenon DEF CloseDevice, TypeOK, files
    <3>2. /\ env' \in LogLevels /\ argv' \in Seq(Arguments)
          /\ opts' \in OptionsType /\ srv_opts' \in OptionsType
          /\ contexts' \in {0, 1} /\ result' \in {0, -1}
          /\ socket' \in {"none", "made", "bound", "listening"}
          /\ backlog' \in Nat /\ clients' \in Nat /\ connections' \in Nat
          /\ status' \in {0, EX_USAGE, 255}
      BY <1>1 DEF CloseDevice, TypeOK, files, network
    <3>3. server_path' \in BOOLEAN /\ path_exists' \in BOOLEAN
      BY <1>1, Zenon DEF CloseDevice, TypeOK, files
    <3> QED BY <2>1, <3>1, <3>2, <3>3, Zenon DEF TypeOK
  <2>3. Held' /\ Outcome' /\ FailureIsReported'
    BY <1>1 DEF CloseDevice, Held, Outcome, FailureIsReported, network
  <2> QED BY <2>2, <2>3
<1>2. CASE CloseContext
  <2>1. TypeOK'
    <3>1. contexts' \in {0, 1}
      BY <1>2 DEF CloseContext, TypeOK, files, Held
    <3>2. /\ pc' \in {"close", "exited"}
          /\ status' \in {0, EX_USAGE, 255}
          /\ in_main' \in BOOLEAN
      BY <1>2, Zenon DEF CloseContext, Return, TypeOK, files
    <3>3. u_ctx' = FALSE /\ UNCHANGED <<env, argv, opts, srv_opts, dev, accept_ev_active, result,
                                        accept_ev, socket, address, network>>
      BY <1>2 DEF CloseContext
    <3>4. u_ctx' \in BOOLEAN /\ accept_ev' \in BOOLEAN /\ accept_ev_active' \in BOOLEAN
      BY <3>3, Zenon DEF TypeOK, files
    <3>5. /\ env' \in LogLevels /\ argv' \in Seq(Arguments)
          /\ opts' \in OptionsType /\ srv_opts' \in OptionsType
          /\ dev' \in {"none", "closed", "open"} /\ result' \in {0, -1}
          /\ socket' \in {"none", "made", "bound", "listening"}
          /\ backlog' \in Nat /\ clients' \in Nat /\ connections' \in Nat
      BY <3>3 DEF TypeOK, files, network
    <3>6. server_path' \in BOOLEAN /\ path_exists' \in BOOLEAN
      BY <1>2, Zenon DEF CloseContext, TypeOK
    <3> QED BY <3>1, <3>2, <3>4, <3>5, <3>6, Zenon DEF TypeOK
  <2>2. Held'
    BY <1>2 DEF CloseContext, Return, Held, network
  <2>3. Outcome'
    BY <1>2 DEF CloseContext, Return, Outcome, Held, network
  <2>4. FailureIsReported'
    BY <1>2 DEF CloseContext, Return, Outcome, FailureIsReported, TypeOK, files, EX_USAGE, network
  <2> QED BY <2>1, <2>2, <2>3, <2>4
<1> QED BY <1>1, <1>2 DEF Closing

(* The loop, and the clients that connect. *)
LEMMA LoopKeeps ==
    ASSUME IInv, Connect \/ Loop
    PROVE  IInv'
<1> USE DEF IInv
<1>1. CASE Connect
  <2>1. TypeOK'
    BY <1>1 DEF Connect, TypeOK, files, server, kernel
  <2>2. Held' /\ Outcome' /\ FailureIsReported'
    BY <1>1 DEF Connect, Held, Outcome, FailureIsReported, server, kernel
  <2> QED BY <2>1, <2>2
<1>2. CASE Accept
  <2>1. TypeOK'
    BY <1>2 DEF Accept, TypeOK, files
  <2>2. Held' /\ Outcome' /\ FailureIsReported'
    BY <1>2 DEF Accept, Held, Outcome, FailureIsReported
  <2> QED BY <2>1, <2>2
<1>3. CASE AcceptFails
  <2>1. TypeOK'
    BY <1>3 DEF AcceptFails, TypeOK, files, server, kernel, network
  <2>2. Held' /\ Outcome' /\ FailureIsReported'
    BY <1>3 DEF AcceptFails, Held, Outcome, FailureIsReported, server, kernel, network
  <2> QED BY <2>1, <2>2
<1>4. CASE ClientCloses
  <2>1. TypeOK'
    BY <1>4 DEF ClientCloses, TypeOK, files, server, kernel
  <2>2. Held' /\ Outcome' /\ FailureIsReported'
    BY <1>4 DEF ClientCloses, Held, Outcome, FailureIsReported, server, kernel
  <2> QED BY <2>1, <2>2
<1>5. CASE DeviceUpdate
  <2>1. TypeOK'
    BY <1>5 DEF DeviceUpdate, TypeOK, files, kernel, network
  <2>2. u_ctx
    BY <1>5 DEF DeviceUpdate, Outcome, Held, TypeOK, files
  <2>3. Held' /\ Outcome' /\ FailureIsReported'
    BY <1>5, <2>2 DEF DeviceUpdate, Held, Outcome, FailureIsReported, kernel, network
  <2> QED BY <2>1, <2>3
<1>6. CASE LoopEnds
  <2>1. TypeOK'
    BY <1>6 DEF LoopEnds, TypeOK, files, kernel, network
  <2>2. Held' /\ Outcome' /\ FailureIsReported'
    BY <1>6 DEF LoopEnds, Held, Outcome, FailureIsReported, kernel, network
  <2> QED BY <2>1, <2>2
<1> QED BY <1>1, <1>2, <1>3, <1>4, <1>5, <1>6 DEF Loop

(* The inductive invariant of main: what is held at each place it can fail *)
(* at, and what it will report.                                            *)
THEOREM MainInvariance == Spec => []IInv
<1>1. IInv /\ [Next]_vars => IInv'
  <2> SUFFICES ASSUME IInv, [Next]_vars PROVE IInv'
    OBVIOUS
  <2>1. CASE UNCHANGED vars
    BY <2>1 DEF vars, server, kernel, network, files, IInv, TypeOK, Held, Outcome, FailureIsReported
  <2>2. CASE Next
    BY <2>2, MainKeeps, OpenKeeps, CloseKeeps, LoopKeeps DEF Next, Opening
  <2> QED BY <2>1, <2>2
<1> QED BY <1>1, InitIInv, PTL DEF Spec

(* Types, and the count of libusb contexts stays 0 or 1: the second        *)
(* luxeed_server_close releases nothing again.                             *)
THEOREM MainTypeCorrect == Spec => []TypeOK
<1>1. IInv => TypeOK
  BY DEF IInv
<1> QED BY <1>1, MainInvariance, PTL

(* The device never outlives the libusb context it was opened in. *)
THEOREM DeviceWithinContext == Spec => []ContextOutlivesDevice
<1>1. IInv => ContextOutlivesDevice
  BY DEF IInv, Held, ContextOutlivesDevice
<1> QED BY <1>1, MainInvariance, PTL

(* The program exits with nothing held, whatever failed. *)
THEOREM NothingLeaks == Spec => []ReleasedAtExit
<1>1. IInv => ReleasedAtExit
  BY DEF IInv, Held, ReleasedAtExit
<1> QED BY <1>1, MainInvariance, PTL

(* A server that could not open exits with a status that says so. *)
THEOREM FailureReported == Spec => []FailureIsReported
<1>1. IInv => FailureIsReported
  BY DEF IInv
<1> QED BY <1>1, MainInvariance, PTL

(* A server in its loop listens and waits for connections. *)
THEOREM AcceptIsPending == Spec => []LoopIsArmed
<1>1. IInv => LoopIsArmed
  BY DEF IInv, Held, Outcome, LoopIsArmed
<1> QED BY <1>1, MainInvariance, PTL
--------------------------------------------------------------------------------
(* An argument more is the last of its option, and changes what was asked  *)
(* for with no other.  Max of a set is only known to be in it because each *)
(* argument leaves it so.                                                  *)
LEMMA AskedAppended ==
    ASSUME argv \in Seq(Arguments), NEW a \in Arguments, argv' = Append(argv, a),
           NEW key, NEW default,
           Given(key) # {} => Max(Given(key)) \in Given(key)
    PROVE  /\ Given(key)' # {} => Max(Given(key)') \in Given(key)'
           /\ Asked(key, default)' = IF a[1] = key THEN a[2] ELSE Asked(key, default)
<1> DEFINE n == Len(argv)
<1>1. n \in Nat /\ DOMAIN argv = 1..n /\ DOMAIN argv' = 1..(n + 1)
  BY DEF n
<1>2. argv'[n + 1] = a /\ \A i \in 1..n : argv'[i] = argv[i]
  OBVIOUS
<1> HIDE DEF n
<1>3. CASE a[1] = key
  <2>1. Given(key)' = Given(key) \cup {n + 1}
    BY <1>1, <1>2, <1>3 DEF Given
  <2>2. \A i \in Given(key) : i \in 1..n
    BY <1>1 DEF Given
  <2>3. Max(Given(key)') = n + 1
    BY <1>1, <2>1, <2>2 DEF Max
  <2> QED BY <1>2, <1>3, <2>1, <2>3, Zenon DEF Asked
<1>4. CASE a[1] # key
  <2>1. Given(key)' = Given(key)
    BY <1>1, <1>2, <1>4 DEF Given
  <2>2. Given(key) # {} => argv'[Max(Given(key))] = argv[Max(Given(key))]
    BY <1>1, <1>2 DEF Given
  <2> QED BY <1>4, <2>1, <2>2, Zenon DEF Asked
<1> QED BY <1>3, <1>4

(* What parse_opt makes of the host and the port. *)
LEMMA ParseOptHostPort ==
    ASSUME NEW o \in OptionsType, NEW a \in Arguments, a[1] \in Cases
    PROVE  /\ ParseOpt(o, a[1], a[2]).host = IF a[1] = "h" THEN a[2] ELSE o.host
           /\ ParseOpt(o, a[1], a[2]).port = IF a[1] = "p" THEN a[2] ELSE o.port
<1>1. CASE a[1] = "h"
  <2>1. ParseOpt(o, a[1], a[2]) = [o EXCEPT !.host = a[2]]
    BY <1>1, Zenon DEF ParseOpt, ARG
  <2> QED BY <1>1, <2>1 DEF OptionsType
<1>2. CASE a[1] = "p"
  <2>1. ParseOpt(o, a[1], a[2]) = [o EXCEPT !.port = a[2]]
    BY <1>2, Zenon DEF ParseOpt, ARG
  <2> QED BY <1>2, <2>1 DEF OptionsType
<1>3. CASE a[1] \notin {"h", "p"}
  <2>1. \/ ParseOpt(o, a[1], a[2]) = [o EXCEPT !.debug = @ + 1]
        \/ ParseOpt(o, a[1], a[2]) = [o EXCEPT !.debug_syscall = @ + 1]
        \/ ParseOpt(o, a[1], a[2]) = [o EXCEPT !.verbose = @ + 1]
        \/ ParseOpt(o, a[1], a[2]) = [o EXCEPT !.server = 1]
        \/ ParseOpt(o, a[1], a[2]) = [o EXCEPT !.show_key_map = 1]
        \/ ParseOpt(o, a[1], a[2]) = [o EXCEPT !.commands[o.commands_n] = a[2]]
    BY <1>3, Zenon DEF ParseOpt, Cases, ARG
  <2> QED BY <1>3, <2>1 DEF OptionsType
<1> QED BY <1>1, <1>2, <1>3

(* luxeed_main_argv changes neither, and the server fills in its defaults. *)
LEMMA DefaultsHostPort ==
    ASSUME NEW o \in OptionsType
    PROVE  /\ MainArgv(o).host = o.host /\ MainArgv(o).port = o.port
           /\ WithDefaults(MainArgv(o)).host = IF o.host = Unset THEN DefaultHost ELSE o.host
           /\ WithDefaults(MainArgv(o)).port = IF o.port = 0 THEN DefaultPort ELSE o.port
<1> DEFINE m == MainArgv(o)
<1>1. m.host = o.host /\ m.port = o.port /\ DOMAIN m = DOMAIN o
  BY DEF MainArgv, OptionsType
<1>2. "host" \in DOMAIN m /\ "port" \in DOMAIN m
  BY <1>1 DEF OptionsType
<1> HIDE DEF m
<1>3. /\ WithDefaults(m).host = IF m.host = Unset THEN DefaultHost ELSE m.host
      /\ WithDefaults(m).port = IF m.port = 0 THEN DefaultPort ELSE m.port
  BY <1>2 DEF WithDefaults
<1> QED BY <1>1, <1>3 DEF m

(* An argument is remembered, also one that is refused, which is neither a *)
(* host nor a port.                                                        *)
LEMMA ParseRemembers ==
    ASSUME IInv, Remembered, Parse
    PROVE  Remembered'
<1>1. argv \in Seq(Arguments) /\ opts \in OptionsType
  BY DEF IInv, TypeOK, files
<1>2. PICK a \in Arguments : ParseArgument(a) \/ RefuseArgument(a)
  BY DEF Parse
<1>3. argv' = Append(argv, a)
  BY <1>2 DEF ParseArgument, RefuseArgument
<1>4. \A key \in {"h", "p"} : Given(key)' # {} => Max(Given(key)') \in Given(key)'
  BY <1>1, <1>3, AskedAppended DEF Remembered
<1>5. /\ Asked("h", Unset)' = IF a[1] = "h" THEN a[2] ELSE Asked("h", Unset)
      /\ Asked("p", 0)' = IF a[1] = "p" THEN a[2] ELSE Asked("p", 0)
  BY <1>1, <1>3, AskedAppended DEF Remembered
<1>6. pc' \notin {"libusb_init", "inet_aton", "socket", "bind", "listen", "loop"}
  BY <1>2 DEF ParseArgument, RefuseArgument
<1>7. /\ opts'.host = IF a[1] = "h" THEN a[2] ELSE opts.host
      /\ opts'.port = IF a[1] = "p" THEN a[2] ELSE opts.port
  <2>1. CASE ParseArgument(a)
    BY <1>1, <2>1, ParseOptHostPort DEF ParseArgument, Taken
  <2>2. CASE RefuseArgument(a)
    <3>1. opts.commands_n < MaxCommands
      BY <1>1 DEF OptionsType, MaxCommands
    <3>2. a[1] \notin Cases
      BY <2>2, <3>1 DEF RefuseArgument, Taken
    <3> QED BY <2>2, <3>2 DEF RefuseArgument, Cases
  <2> QED BY <1>2, <2>1, <2>2
<1>8. opts.host = Asked("h", Unset) /\ opts.port = Asked("p", 0)
  BY DEF Remembered
<1>9. opts'.host = Asked("h", Unset)' /\ opts'.port = Asked("p", 0)'
  <2>1. CASE a[1] = "h"
    BY <1>5, <1>7, <1>8, <2>1, Zenon
  <2>2. CASE a[1] # "h"
    BY <1>5, <1>7, <1>8, <2>2, Zenon
  <2> QED BY <2>1, <2>2
<1> QED BY <1>4, <1>6, <1>9 DEF Remembered

(* Every step hands on what was asked for. *)
LEMMA NextRemembers ==
    ASSUME IInv, Remembered, [Next]_vars
    PROVE  Remembered'
<1>1. opts \in OptionsType /\ srv_opts \in OptionsType
  BY DEF IInv, TypeOK, files
<1>2. CASE Parse
  BY <1>2, ParseRemembers
<1>3. ASSUME UNCHANGED argv
      PROVE  /\ \A key : Given(key)' = Given(key)
             /\ \A key, default : Asked(key, default)' = Asked(key, default)
  BY <1>3, Zenon DEF Given, Asked
<1>4. CASE MainBegins \/ ServerBegins
  <2>1. opts'.host = opts.host /\ opts'.port = opts.port /\ UNCHANGED argv
    BY <1>1, <1>4, DefaultsHostPort DEF MainBegins, ServerBegins
  <2>2. CASE MainBegins
    BY <1>3, <2>1, <2>2 DEF MainBegins, Remembered
  <2>3. CASE ServerBegins
    <3>1. /\ srv_opts'.host = IF opts.host = Unset THEN DefaultHost ELSE opts.host
          /\ srv_opts'.port = IF opts.port = 0 THEN DefaultPort ELSE opts.port
          /\ pc' = "libusb_init"
      BY <1>1, <2>3, DefaultsHostPort DEF ServerBegins
    <3> QED BY <1>3, <2>1, <3>1 DEF Remembered
  <2> QED BY <1>4, <2>2, <2>3
<1>5. CASE OpenContext \/ EndpointInit \/ OpenSocket \/ Bind \/ Listen
  <2>1. UNCHANGED <<argv, opts, srv_opts>>
    BY <1>5 DEF OpenContext, EndpointInit, OpenSocket, Bind, Listen, server
  <2>2. pc \in {"libusb_init", "inet_aton", "socket", "bind", "listen"}
    BY <1>5 DEF OpenContext, EndpointInit, OpenSocket, Bind, Listen
  <2>3. pc' \in {"listen", "loop"} => address' = <<srv_opts.host, Htons(srv_opts.port)>>
    BY <1>5 DEF OpenContext, EndpointInit, OpenSocket, Bind, Listen, kernel, Remembered
  <2> QED BY <1>3, <2>1, <2>2, <2>3 DEF Remembered
<1>6. CASE Connect \/ Accept \/ ClientCloses \/ DeviceUpdate
  <2>1. UNCHANGED <<argv, opts, srv_opts, pc, address>>
    BY <1>6 DEF Connect, Accept, ClientCloses, DeviceUpdate, server, kernel
  <2> QED BY <1>3, <2>1 DEF Remembered
<1>7. CASE NoServer \/ OpenFails \/ Closing \/ AcceptFails \/ LoopEnds
  <2>1. UNCHANGED <<argv, opts>>
    BY <1>7 DEF NoServer, OpenFails, Closing, CloseDevice, CloseContext, AcceptFails, LoopEnds
  <2>2. pc' \in {"exited", "close", "close_context", "crashed"}
    BY <1>7 DEF NoServer, OpenFails, Closing, CloseDevice, CloseContext, Return, AcceptFails, LoopEnds
  <2> QED BY <1>3, <2>1, <2>2 DEF Remembered
<1>8. CASE UNCHANGED vars
  BY <1>3, <1>8 DEF vars, server, kernel, Remembered
<1> QED BY <1>2, <1>4, <1>5, <1>6, <1>7, <1>8 DEF Next, Opening, Loop

(* htons keeps what is a port. *)
LEMMA PortsFit ==
    ASSUME NEW n, IsPort(n)
    PROVE  Htons(n) = n
BY DEF IsPort, Htons

(* The server listens on the host and port asked for last, whatever else   *)
(* is on the command line and in whatever order.                           *)
THEOREM ListensAsAsked == Spec => []ListensWhereAsked
<1>1. Init => Remembered
  BY DEF Init, NoOptions, Remembered, Given, Asked
<1>2. IInv /\ Remembered /\ [Next]_vars => Remembered'
  BY NextRemembers
<1>3. IInv /\ Remembered => ListensWhereAsked
  <2> SUFFICES ASSUME IInv, Remembered, pc = "loop" PROVE ListensWhereAsked
    BY Zenon DEF ListensWhereAsked
  <2>1. srv_opts.host = Asked("h", DefaultHost)
    <3>1. CASE Given("h") = {}
      BY <3>1 DEF Remembered, Asked
    <3>2. CASE Given("h") # {}
      <4> DEFINE last == argv[Max(Given("h"))]
      <4>1. last \in Arguments /\ last[1] = "h"
        BY <3>2 DEF Remembered, Given, IInv, TypeOK
      <4>2. opts.host = last[2] /\ Asked("h", DefaultHost) = last[2]
        <5>1. opts.host = Asked("h", Unset)
          BY DEF Remembered
        <5> QED BY <3>2, <5>1, Zenon DEF Asked
      <4>3. last[2] # Unset
        BY <4>1, ArgumentsAssumption
      <4> QED BY <4>2, <4>3 DEF Remembered
    <3> QED BY <3>1, <3>2
  <2>2. srv_opts.port = IF Asked("p", 0) = 0 THEN DefaultPort ELSE Asked("p", 0)
    BY DEF Remembered
  <2>3. address = <<srv_opts.host, Htons(srv_opts.port)>>
    BY DEF Remembered
  <2>4. IsPort(DefaultPort)
    BY SMT DEF DefaultPort, IsPort
  <2> DEFINE port == Asked("p", 0)
             bound == Htons(srv_opts.port)
  <2>5. address[1] = Asked("h", DefaultHost) /\ address[2] = bound
    <3> HIDE DEF bound
    <3>1. address = <<srv_opts.host, bound>>
      BY <2>3, Zenon DEF bound
    <3> QED BY <2>1, <3>1
  <2>6. IsPort(port) => bound = port
    <3> SUFFICES ASSUME IsPort(port) PROVE bound = port
      OBVIOUS
    <3>1. port # 0
      <4> HIDE DEF port
      <4> QED BY SMT DEF IsPort
    <3>2. srv_opts.port = port
      BY <2>2, <3>1, Zenon
    <3> QED BY <3>2, PortsFit, Zenon
  <2>7. port = 0 => bound = DefaultPort
    <3> SUFFICES ASSUME port = 0 PROVE bound = DefaultPort
      OBVIOUS
    <3>1. srv_opts.port = DefaultPort
      BY <2>2, Zenon
    <3> QED BY <2>4, <3>1, PortsFit, Zenon
  <2> HIDE DEF bound
  <2> QED BY <2>5, <2>6, <2>7, Zenon DEF ListensWhereAsked
<1> QED BY <1>1, <1>2, <1>3, MainInvariance, PTL DEF Spec
================================================================================
