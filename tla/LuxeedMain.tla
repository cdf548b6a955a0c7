------------------------------- MODULE LuxeedMain -------------------------------
(***************************************************************************)
(* The program from main to its event loop: luxeed.c, luxeed_main_argv,    *)
(* luxeed_server_main with luxeed_server_open and luxeed_server_close, and *)
(* luxeed_endpoint_bind.  Options are parsed one by one into               *)
(* luxeed_options, the mode is chosen, and the server opens libusb, its    *)
(* device and its socket, each of which may fail, before it accepts        *)
(* clients.  luxeed_server_close runs twice after a failed open: once from *)
(* luxeed_server_open and once from luxeed_server_main.                    *)
(*                                                                         *)
(* parse_opt has no case for --fifo and --uds, so opts.fifo and opts.uds   *)
(* stay 0 and what luxeed_server_open would do with them is never reached. *)
(* What the clients do is in LuxeedServer: here they come, go, and have    *)
(* the device opened and closed.                                           *)
(***************************************************************************)
EXTENDS Integers, Sequences, FiniteSetsExt

CONSTANTS
    Arguments,      \* what may be typed: pairs <<option, value>>
    MaxArgs,        \* bound: the length of a command line
    LogLevels,      \* values of LUXEED_LOG_LEVEL, or Unset
    Hosts,          \* hosts inet_aton understands
    MaxClients,     \* bound: connections over a run
    Unset

(* struct argp_option options[], and ARG for an argument of no option *)
Declared == {"v", "d", "D", "s", "h", "p", "f", "u", "c", "k"}
ARG == "ARG"

DefaultHost == "127.0.0.1"
DefaultPort == 12345
MaxCommands == 16
EX_USAGE == 64

ASSUME ArgumentsAssumption ==
    \A a \in Arguments :
        /\ a[1] \in Declared \cup {ARG}
        /\ a[1] = "p" => a[2] \in Int
        /\ a[1] = "h" => a[2] # Unset
ASSUME LogLevelsAssumption == LogLevels \subseteq Nat \cup {Unset} /\ Unset \notin Nat
ASSUME HostsAssumption == DefaultHost \in Hosts /\ Unset \notin Hosts
ASSUME BoundsAssumption == MaxArgs \in Nat /\ MaxClients \in Nat

VARIABLES
    pc,
    env,            \* LUXEED_LOG_LEVEL
    argv,           \* the arguments parsed so far
    opts,           \* luxeed_options
    (* struct luxeed_server *)
    srv_opts,
    dev,            \* "none", or the device created and "closed" or "open"
    u_ctx,          \* the pointer is set
    accept_ev_active,
    result,         \* -1 after a failure
    in_main,        \* luxeed_server_close was called by luxeed_server_main
    server_path,    \* "/tmp/luxeed" was written to it: else it is empty
    (* libevent, libusb, the kernel *)
    accept_ev,
    contexts,       \* libusb_init less libusb_exit
    socket,         \* "none", "made", "bound", "listening"
    address,        \* what it is bound to
    backlog, clients, connections,
    path_exists,    \* something has the name /tmp/luxeed
    status          \* the exit status

server == <<srv_opts, dev, u_ctx, accept_ev_active, in_main>>
kernel == <<accept_ev, contexts, socket, address>>
network == <<backlog, clients, connections>>
files == <<server_path, path_exists>>
vars == <<pc, env, argv, opts, server, result, kernel, network, files, status>>

(* luxeed_log_level, that keeps its 0 when the variable is not set *)
log_level == IF env = Unset THEN 0 ELSE env

NoOptions ==
    [debug |-> 0, debug_syscall |-> 0, verbose |-> 0, server |-> 0,
     show_key_map |-> 0, host |-> Unset, port |-> 0,
     commands |-> [i \in 0..MaxCommands - 1 |-> Unset], commands_n |-> 0]

(* luxeed_main_argv, that main calls before it parses and luxeed_server_main after. *)
MainArgv(o) ==
    [o EXCEPT !.debug = IF env = Unset THEN @ ELSE env,
              !.debug_syscall = IF log_level >= 5 THEN log_level - 5 ELSE @]

Init ==
    /\ pc = "main"
    /\ env \in LogLevels
    /\ argv = <<>>
    /\ opts = NoOptions
    /\ srv_opts = NoOptions
    /\ dev = "none"
    /\ u_ctx = FALSE
    /\ accept_ev_active = FALSE
    /\ result = 0
    /\ in_main = FALSE
    /\ accept_ev = FALSE
    /\ contexts = 0
    /\ socket = "none"
    /\ address = Unset
    /\ backlog = 0 /\ clients = 0 /\ connections = 0
    /\ server_path = FALSE
    /\ path_exists \in BOOLEAN     \* the name may be anybody's
    /\ status = 0

--------------------------------------------------------------------------------
(* luxeed.c *)

MainBegins ==
    /\ pc = "main"
    /\ opts' = MainArgv(opts)
    /\ pc' = "parse"
    /\ UNCHANGED <<env, files, argv, server, result, kernel, network, status>>

(* Mutant: -h keeps the first host. *)
ParseOptFirstHost(o, key, arg) ==
    CASE key = "d" -> [o EXCEPT !.debug = @ + 1]
      [] key = "D" -> [o EXCEPT !.debug_syscall = @ + 1]
      [] key = "v" -> [o EXCEPT !.verbose = @ + 1]
      [] key = "s" -> [o EXCEPT !.server = 1]
      [] key = "h" -> [o EXCEPT !.host = IF @ = Unset THEN arg ELSE @]
      [] key = "p" -> [o EXCEPT !.port = arg]
      [] key = "k" -> [o EXCEPT !.show_key_map = 1]
      [] key \in {"c", ARG} -> [o EXCEPT !.commands[o.commands_n] = arg]

(* parse_opt, of the keys it has a case for.  -c and the arguments of no   *)
(* option go to the same place, whose index is never incremented.          *)
ParseOpt(o, key, arg) ==
    CASE key = "d" -> [o EXCEPT !.debug = @ + 1]
      [] key = "D" -> [o EXCEPT !.debug_syscall = @ + 1]
      [] key = "v" -> [o EXCEPT !.verbose = @ + 1]
      [] key = "s" -> [o EXCEPT !.server = 1]
      [] key = "h" -> [o EXCEPT !.host = arg]
      [] key = "p" -> [o EXCEPT !.port = arg]
      [] key = "k" -> [o EXCEPT !.show_key_map = 1]
      [] key \in {"c", ARG} -> [o EXCEPT !.commands[o.commands_n] = arg]

Cases == {"d", "D", "v", "s", "h", "p", "k", "c", ARG}

(* There is a case for it and, were commands_n ever to grow, room. *)
Taken(a) ==
    /\ a[1] \in Cases
    /\ a[1] \in {"c", ARG} => opts.commands_n < MaxCommands

ParseArgument(a) ==
    /\ pc = "parse"
    /\ Len(argv) < MaxArgs
    /\ Taken(a)
    /\ argv' = Append(argv, a)
    /\ opts' = ParseOpt(opts, a[1], a[2])
    /\ UNCHANGED <<pc, env, files, server, result, kernel, network, status>>

(* ARGP_ERR_UNKNOWN of an option that was declared: argp ends the program. *)
RefuseArgument(a) ==
    /\ pc = "parse"
    /\ Len(argv) < MaxArgs
    /\ ~Taken(a)
    /\ argv' = Append(argv, a)
    /\ pc' = "exited"
    /\ status' = EX_USAGE
    /\ UNCHANGED <<env, files, opts, server, result, kernel, network>>

(* luxeed_key_map_dump, and client mode, that is not written. *)
NoServer ==
    /\ pc = "parse"
    /\ opts.show_key_map # 0 \/ opts.server = 0
    /\ pc' = "exited"
    /\ UNCHANGED <<env, files, argv, opts, server, result, kernel, network, status>>

--------------------------------------------------------------------------------
(* luxeed_server_main *)

(* The server's copy of the options. *)
WithDefaults(o) ==
    [o EXCEPT !.debug = log_level,
              !.host = IF @ = Unset THEN DefaultHost ELSE @,
              !.port = IF @ = 0 THEN DefaultPort ELSE @]

ServerBegins ==
    /\ pc = "parse"
    /\ opts.show_key_map = 0 /\ opts.server # 0
    /\ opts' = MainArgv(opts)
    /\ srv_opts' = WithDefaults(MainArgv(opts))
    /\ pc' = "libusb_init"
    /\ UNCHANGED <<env, files, argv, dev, u_ctx, accept_ev_active, in_main, result, kernel,
                   network, status>>

(* libusb_init, and luxeed_server_device: the device is created, not opened. *)
OpenContext ==
    /\ pc = "libusb_init"
    /\ u_ctx' = TRUE
    /\ contexts' = contexts + 1
    /\ server_path' = TRUE
    /\ dev' = "closed"
    /\ pc' = "inet_aton"
    /\ UNCHANGED <<env, argv, opts, srv_opts, accept_ev_active, in_main, result, accept_ev,
                   socket, address, network, path_exists, status>>

(* luxeed_endpoint_init *)
EndpointInit ==
    /\ pc = "inet_aton"
    /\ srv_opts.host \in Hosts
    /\ pc' = "socket"
    /\ UNCHANGED <<env, files, argv, opts, server, result, kernel, network, status>>

(* luxeed_endpoint_bind *)
OpenSocket ==
    /\ pc = "socket"
    /\ socket' = "made"
    /\ pc' = "bind"
    /\ UNCHANGED <<env, files, argv, opts, server, result, accept_ev, contexts, address, network,
                   status>>

Htons(port) == port % 65536

(* The port, an int from atoi, is cut to its 16 bits by htons; 0 lets the  *)
(* kernel choose one, which is 0 here.                                     *)
Bind ==
    /\ pc = "bind"
    /\ socket' = "bound"
    /\ address' = <<srv_opts.host, Htons(srv_opts.port)>>
    /\ pc' = "listen"
    /\ UNCHANGED <<env, files, argv, opts, server, result, accept_ev, contexts, network, status>>

(* listen, and the accept event of luxeed_server_open_socket. *)
Listen ==
    /\ pc = "listen"
    /\ socket' = "listening"
    /\ accept_ev_active' = TRUE
    /\ accept_ev' = TRUE
    /\ pc' = "loop"
    /\ UNCHANGED <<env, files, argv, opts, srv_opts, dev, u_ctx, in_main, result, contexts,
                   address, network, status>>

(* Mutant: the failure of the socket is not passed on. *)
OpenFailsQuietly ==
    /\ \/ pc \in {"libusb_init", "socket", "bind", "listen"}
       \/ pc = "inet_aton" /\ srv_opts.host \notin Hosts
    /\ pc' = "close"
    /\ UNCHANGED <<env, files, argv, opts, server, result, kernel, network, status>>

(* Any of the calls fails: luxeed_server_open closes the server. *)
OpenFails ==
    /\ \/ pc \in {"libusb_init", "socket", "bind", "listen"}
       \/ pc = "inet_aton" /\ srv_opts.host \notin Hosts
    /\ result' = -1
    /\ pc' = "close"
    /\ UNCHANGED <<env, files, argv, opts, server, kernel, network, status>>

--------------------------------------------------------------------------------
(* luxeed_server_close, as far as the device and from there on. *)

(* Mutant: the context goes while the device is there. *)
CloseDeviceLater ==
    /\ pc = "close"
    /\ accept_ev_active' = FALSE
    /\ accept_ev' = IF accept_ev_active THEN FALSE ELSE accept_ev
    /\ pc' = "close_context"
    /\ UNCHANGED <<env, files, argv, opts, srv_opts, dev, u_ctx, in_main, result, contexts,
                   socket, address, network, status>>

(* Mutant: the accept event is not deleted. *)
CloseDeviceOnly ==
    /\ pc = "close"
    /\ dev' = "none"
    /\ pc' = "close_context"
    /\ UNCHANGED <<env, files, argv, opts, srv_opts, u_ctx, accept_ev_active, in_main, result,
                   kernel, network, status>>

CloseDevice ==
    /\ pc = "close"
    /\ accept_ev_active' = FALSE
    /\ accept_ev' = IF accept_ev_active THEN FALSE ELSE accept_ev
    /\ dev' = "none"
    /\ pc' = "close_context"
    /\ UNCHANGED <<env, files, argv, opts, srv_opts, u_ctx, in_main, result, contexts, socket,
                   address, network, status>>

(* Back in luxeed_server_main, that closes again, or in main, that exits. *)
Return ==
    IF in_main
    THEN /\ pc' = "exited"
         /\ status' = IF result # 0 THEN 255 ELSE 0
         /\ UNCHANGED in_main
    ELSE /\ pc' = "close"
         /\ in_main' = TRUE
         /\ UNCHANGED status

(* unlink(srv->server_path), of the name as it was copied, and the context. *)
CloseContext ==
    /\ pc = "close_context"
    /\ contexts' = IF u_ctx THEN contexts - 1 ELSE contexts
    /\ u_ctx' = FALSE
    /\ path_exists' = (path_exists /\ ~server_path)
    /\ Return
    /\ UNCHANGED <<env, argv, opts, srv_opts, dev, accept_ev_active, result, accept_ev, socket,
                   address, network, server_path>>

--------------------------------------------------------------------------------
(* The event loop *)

Connect ==
    /\ socket = "listening" /\ pc = "loop"
    /\ connections < MaxClients
    /\ connections' = connections + 1
    /\ backlog' = backlog + 1
    /\ UNCHANGED <<pc, env, files, argv, opts, server, result, kernel, clients, status>>

(* Mutant: the accept event, that is not persistent, is not added again. *)
AcceptOnce ==
    /\ pc = "loop"
    /\ accept_ev /\ backlog > 0
    /\ accept_ev' = FALSE
    /\ backlog' = backlog - 1
    /\ clients' = clients + 1
    /\ UNCHANGED <<pc, env, files, argv, opts, server, result, contexts, socket, address,
                   connections, status>>

(* luxeed_server_accept *)
Accept ==
    /\ pc = "loop"
    /\ accept_ev /\ backlog > 0
    /\ accept_ev_active' = TRUE
    /\ accept_ev' = TRUE
    /\ backlog' = backlog - 1
    /\ clients' = clients + 1
    /\ UNCHANGED <<pc, env, files, argv, opts, srv_opts, dev, u_ctx, in_main, result, contexts,
                   socket, address, connections, status>>

(* accept fails: no descriptor is left, or the client has gone again.      *)
(* luxeed_client_close follows cli->srv, that luxeed_client_open would     *)
(* have set.                                                               *)
AcceptFails ==
    /\ pc = "loop"
    /\ accept_ev /\ backlog > 0
    /\ pc' = "crashed"
    /\ UNCHANGED <<env, files, argv, opts, server, result, kernel, network, status>>

ClientCloses ==
    /\ pc = "loop"
    /\ clients > 0
    /\ clients' = clients - 1
    /\ UNCHANGED <<pc, env, files, argv, opts, server, result, kernel, backlog, connections,
                   status>>

(* An update opens the device, and closes it when it fails. *)
DeviceUpdate ==
    /\ pc = "loop"
    /\ clients > 0
    /\ dev' \in {"open", "closed"}
    /\ UNCHANGED <<pc, env, files, argv, opts, srv_opts, u_ctx, accept_ev_active, in_main, result,
                   kernel, network, status>>

(* event_dispatch returns -1, that luxeed_server_main does not look at. *)
LoopEnds ==
    /\ pc = "loop"
    /\ pc' = "close"
    /\ in_main' = TRUE
    /\ UNCHANGED <<env, files, argv, opts, srv_opts, dev, u_ctx, accept_ev_active, result, kernel,
                   network, status>>

--------------------------------------------------------------------------------
Parse == \E a \in Arguments : ParseArgument(a) \/ RefuseArgument(a)

Opening == MainBegins \/ NoServer \/ ServerBegins \/ OpenContext \/ EndpointInit
           \/ OpenSocket \/ Bind \/ Listen \/ OpenFails

Closing == CloseDevice \/ CloseContext

Loop == Accept \/ AcceptFails \/ ClientCloses \/ DeviceUpdate \/ LoopEnds

Next == Parse \/ Opening \/ Closing \/ Connect \/ Loop

Spec == Init /\ [][Next]_vars

(* The process runs, and libevent dispatches what is ready.  Nobody has to *)
(* type another argument or to connect.                                    *)
FairSpec == Spec /\ WF_vars(Opening) /\ WF_vars(Closing) /\ WF_vars(Accept \/ AcceptFails)

--------------------------------------------------------------------------------
(* Properties *)

Values(keys) == {a[2] : a \in {b \in Arguments : b[1] \in keys}}

OptionsType ==
    [debug : Nat, debug_syscall : Nat, verbose : Nat, server : {0, 1}, show_key_map : {0, 1},
     host : Values({"h"}) \cup {DefaultHost, Unset}, port : Int,
     commands : [0..MaxCommands - 1 -> Values({"c", ARG}) \cup {Unset}], commands_n : {0}]

(* Types; the context is opened once and never closed more often than that. *)
TypeOK ==
    /\ pc \in {"main", "parse", "libusb_init", "inet_aton", "socket", "bind", "listen", "loop",
               "close", "close_context", "exited", "crashed"}
    /\ env \in LogLevels
    /\ argv \in Seq(Arguments)
    /\ opts \in OptionsType
    /\ srv_opts \in OptionsType
    /\ dev \in {"none", "closed", "open"}
    /\ u_ctx \in BOOLEAN
    /\ accept_ev_active \in BOOLEAN
    /\ result \in {0, -1}
    /\ in_main \in BOOLEAN
    /\ accept_ev \in BOOLEAN
    /\ contexts \in {0, 1}
    /\ socket \in {"none", "made", "bound", "listening"}
    /\ backlog \in Nat /\ clients \in Nat /\ connections \in Nat
    /\ server_path \in BOOLEAN /\ path_exists \in BOOLEAN
    /\ status \in {0, EX_USAGE, 255}

(* The device, whose handle is libusb's, is never there without the        *)
(* context it was opened in, although luxeed_server_close may run twice.   *)
ContextOutlivesDevice == dev # "none" => contexts = 1

(* Whatever failed, the program exits with the context closed, the device  *)
(* destroyed and the accept event deleted.                                 *)
ReleasedAtExit ==
    pc = "exited" => contexts = 0 /\ dev = "none" /\ ~accept_ev

(* A server that could not open exits with a status that says so, through  *)
(* luxeed_server_open, luxeed_server_main and main; none that could does.  *)
FailureIsReported ==
    pc = "exited" /\ opts.server # 0 /\ opts.show_key_map = 0 /\ status # EX_USAGE =>
        (status = 255 <=> socket # "listening")

(* While the loop runs there is a listening socket, and the event that     *)
(* accepts its connections is pending whenever it is flagged, and is.      *)
LoopIsArmed ==
    pc = "loop" => socket = "listening" /\ accept_ev /\ accept_ev_active

(* Where an option is on the command line. *)
Given(key) == {i \in DOMAIN argv : argv[i][1] = key}

(* The last value given for an option, or default. *)
Asked(key, default) == IF Given(key) = {} THEN default ELSE argv[Max(Given(key))][2]

IsPort(n) == n \in Int /\ 0 < n /\ n < 65536

(* The server listens on the host that was asked for last, in whatever     *)
(* order, and on its default otherwise.  It listens on the port asked for, *)
(* if that is one; 0, or none at all, stands for the default.              *)
ListensWhereAsked ==
    pc = "loop" =>
        LET port == Asked("p", 0)
        IN  /\ address[1] = Asked("h", DefaultHost)
            /\ IsPort(port) => address[2] = port
            /\ port = 0 => address[2] = DefaultPort

(* Every connection is accepted in the end: the handler adds its event     *)
(* again before it does anything else.                                     *)
EveryoneAccepted == backlog > 0 ~> backlog = 0 \/ pc # "loop"

(* What makes these inductive: how far the opening and the closing are     *)
(* says what is held, and what result and the socket say agrees.           *)
Held ==
    /\ contexts = IF u_ctx THEN 1 ELSE 0
    /\ accept_ev <=> accept_ev_active
    /\ dev # "none" => u_ctx
    /\ accept_ev => pc \in {"loop", "close", "crashed"}
    /\ pc \in {"main", "parse", "libusb_init", "exited"} => ~u_ctx
    /\ pc \in {"inet_aton", "socket", "bind", "listen", "loop"} => u_ctx
    /\ pc = "close_context" => dev = "none"

Outcome ==
    /\ pc \in {"main", "parse", "libusb_init", "inet_aton", "socket", "bind", "listen"} =>
          result = 0 /\ socket # "listening" /\ ~in_main
    /\ pc \in {"main", "parse"} => status = 0
    /\ pc \in {"close", "close_context"} => (result # 0 <=> socket # "listening")
    /\ pc = "loop" => accept_ev /\ result = 0 /\ socket = "listening"

IInv == TypeOK /\ Held /\ Outcome /\ FailureIsReported

(* What was asked for on its way to bind: through the options, the copy    *)
(* the server makes of them, and the address of its socket.                *)
Remembered ==
    /\ \A key \in {"h", "p"} : Given(key) # {} => Max(Given(key)) \in Given(key)
    /\ opts.host = Asked("h", Unset)
    /\ opts.port = Asked("p", 0)
    /\ pc \in {"libusb_init", "inet_aton", "socket", "bind", "listen", "loop"} =>
          /\ srv_opts.host = IF opts.host = Unset THEN DefaultHost ELSE opts.host
          /\ srv_opts.port = IF opts.port = 0 THEN DefaultPort ELSE opts.port
    /\ pc \in {"listen", "loop"} => address = <<srv_opts.host, Htons(srv_opts.port)>>

(* A client that cannot be accepted is cleaned up, and the server goes on  *)
(* accepting others (luxeed_server_accept: "Accept another.").             *)
SurvivesFailedAccept == pc # "crashed"
================================================================================
