------------------------------ MODULE LuxeedServer ------------------------------
(***************************************************************************)
(* The server, luxeed_server.c with luxeed_endpoint.c and                  *)
(* luxeed_command.c: one thread, one libevent loop, and any number of      *)
(* clients.  A client is served by a read event that is not persistent: it *)
(* is added again after each command, by the read handler or, after a "w"  *)
(* command, by the timer.  Lines are read with fgets, so what a client     *)
(* wrote is first in the kernel's buffer, that wakes the loop, then in the *)
(* buffer of the FILE, that does not.                                      *)
(*                                                                         *)
(* A client writes pieces: the text of a command, and the newline that     *)
(* ends it.  luxeed_device_update is atomic here: LuxeedDevice has the     *)
(* steps of it, and the colours.  Of a reply only the write is here, that  *)
(* resets a connection whose client has gone, or ends the process by       *)
(* SIGPIPE; LuxeedCommand says which commands are answered.  A failed      *)
(* accept, that ends the process too, is in LuxeedMain.                    *)
(***************************************************************************)
EXTENDS Naturals, Sequences

CONSTANTS
    Clients,
    Commands,   \* the commands clients send, among AllCommands
    MaxLines,   \* bound: the commands a client sends
    Nobody

(* "g" stands for every command that changes no colour and no event, the   *)
(* blank line among them; "w" waits, and "w-" waits a negative time.       *)
AllCommands == {"s", "u", "w", "w-", "g"}
NL == "newline"
Pieces == AllCommands \cup {NL}

ASSUME CommandsAssumption == Commands \subseteq AllCommands
ASSUME MaxLinesAssumption == MaxLines \in Nat
ASSUME NobodyAssumption == Nobody \notin Clients

VARIABLES
    (* a client and its socket *)
    conn,           \* "away", "backlog", "open", "closed" (by the server)
    sock,           \* written and not read: in the kernel
    midline,        \* the last command written lacks its newline
    eof,            \* the client has shut down its side
    written,        \* commands written, all of which arrive
    peer,           \* "here", "gone" (it may be), or "reset"
    (* struct luxeed_client and its endpoint *)
    file,           \* read and not consumed: in the FILE
    read_ev_active, timer_ev_active,    \* what the endpoint says
    read_ev, timer_ev,                  \* what libevent has pending
    done,           \* lines executed
    (* the server *)
    serving,        \* the client whose read handler runs, or Nobody
    alive,          \* the process
    (* struct luxeed_device *)
    dev_opened, dev_init_count, key_data_dirty

client   == <<sock, midline, eof, written>>
flags    == <<read_ev_active, timer_ev_active>>
pending  == <<read_ev, timer_ev>>
ends     == <<peer, alive>>
device   == <<dev_opened, dev_init_count, key_data_dirty>>
vars     == <<conn, client, file, flags, pending, done, serving, ends, device>>

TypeOK ==
    /\ conn \in [Clients -> {"away", "backlog", "open", "closed"}]
    /\ sock \in [Clients -> Seq(Pieces)]
    /\ midline \in [Clients -> BOOLEAN]
    /\ eof \in [Clients -> BOOLEAN]
    /\ written \in [Clients -> 0..MaxLines]
    /\ file \in [Clients -> Seq(Pieces)]
    /\ read_ev_active \in [Clients -> BOOLEAN]
    /\ timer_ev_active \in [Clients -> BOOLEAN]
    /\ read_ev \in [Clients -> BOOLEAN]
    /\ timer_ev \in [Clients -> BOOLEAN]
    /\ done \in [Clients -> 0..MaxLines]
    /\ peer \in [Clients -> {"here", "gone", "reset"}]
    /\ alive \in BOOLEAN
    /\ serving \in Clients \cup {Nobody}
    /\ dev_opened \in BOOLEAN
    /\ dev_init_count \in Nat
    /\ key_data_dirty \in BOOLEAN

--------------------------------------------------------------------------------
(* luxeed_server_open: the device is created, not opened. *)
Init ==
    /\ conn = [c \in Clients |-> "away"]
    /\ sock = [c \in Clients |-> <<>>]
    /\ midline = [c \in Clients |-> FALSE]
    /\ eof = [c \in Clients |-> FALSE]
    /\ written = [c \in Clients |-> 0]
    /\ file = [c \in Clients |-> <<>>]
    /\ read_ev_active = [c \in Clients |-> FALSE]
    /\ timer_ev_active = [c \in Clients |-> FALSE]
    /\ read_ev = [c \in Clients |-> FALSE]
    /\ timer_ev = [c \in Clients |-> FALSE]
    /\ done = [c \in Clients |-> 0]
    /\ peer = [c \in Clients |-> "here"]
    /\ alive = TRUE
    /\ serving = Nobody
    /\ dev_opened = FALSE
    /\ dev_init_count = 0
    /\ key_data_dirty = FALSE

--------------------------------------------------------------------------------
(* The clients, in their own processes. *)

Connect(c) ==
    /\ conn[c] = "away"
    /\ conn' = [conn EXCEPT ![c] = "backlog"]
    /\ UNCHANGED <<client, file, flags, pending, done, serving, ends, device>>

(* A command, with its newline or without it yet. *)
Write(c, cmd, whole) ==
    /\ conn[c] \in {"backlog", "open"}
    /\ ~eof[c]
    /\ ~midline[c]
    /\ written[c] < MaxLines
    /\ sock' = [sock EXCEPT ![c] = @ \o IF whole THEN <<cmd, NL>> ELSE <<cmd>>]
    /\ midline' = [midline EXCEPT ![c] = ~whole]
    /\ written' = [written EXCEPT ![c] = @ + 1]
    /\ UNCHANGED <<conn, eof, file, flags, pending, done, serving, ends, device>>

EndLine(c) ==
    /\ midline[c]
    /\ ~eof[c]
    /\ sock' = [sock EXCEPT ![c] = Append(@, NL)]
    /\ midline' = [midline EXCEPT ![c] = FALSE]
    /\ UNCHANGED <<conn, eof, written, file, flags, pending, done, serving, ends, device>>

(* What a client that hangs up makes of its connection: it may have left   *)
(* with the bytes sent to it unread, which resets it; or it is "gone", and *)
(* the next that is sent to it may reset the connection, or be heard by a  *)
(* client that has shut down its own side only.                            *)
Departed(c) == {[peer EXCEPT ![c] = "gone"], [peer EXCEPT ![c] = "reset"]}

HangUp(c) ==
    /\ conn[c] \in {"backlog", "open"}
    /\ ~eof[c]
    /\ eof' = [eof EXCEPT ![c] = TRUE]
    /\ peer' \in Departed(c)
    /\ UNCHANGED <<conn, sock, midline, written, file, flags, pending, done, serving, alive,
                   device>>

--------------------------------------------------------------------------------
(* The event loop *)

(* luxeed_endpoint_accept: a connection of the backlog. *)
EndpointAccept(c) ==
    /\ conn[c] = "backlog"
    /\ conn' = [conn EXCEPT ![c] = "open"]

(* luxeed_client_open: the timer is flagged active and is not pending. *)
ClientOpen(c) ==
    /\ read_ev_active' = [read_ev_active EXCEPT ![c] = TRUE]
    /\ read_ev' = [read_ev EXCEPT ![c] = TRUE]
    /\ timer_ev_active' = [timer_ev_active EXCEPT ![c] = TRUE]
    /\ UNCHANGED timer_ev

(* luxeed_server_accept *)
Accept(c) ==
    /\ alive /\ serving = Nobody
    /\ EndpointAccept(c)
    /\ ClientOpen(c)
    /\ UNCHANGED <<client, file, done, serving, ends, device>>

(* libevent calls luxeed_client_read: the kernel has something to read,    *)
(* if only the end of the file.  The event is pending no more.             *)
ReadFires(c) ==
    /\ alive /\ serving = Nobody
    /\ read_ev[c]
    /\ sock[c] # <<>> \/ eof[c]
    /\ read_ev' = [read_ev EXCEPT ![c] = FALSE]
    /\ serving' = c
    /\ UNCHANGED <<conn, client, file, flags, timer_ev, done, ends, device>>

(* Mutant: the timer does not restart the reading. *)
SleepFinishedOnly(c) ==
    /\ alive /\ serving = Nobody
    /\ timer_ev[c]
    /\ timer_ev' = [timer_ev EXCEPT ![c] = FALSE]
    /\ UNCHANGED <<conn, client, file, flags, read_ev, done, serving, ends, device>>

(* Mutant: the reading restarts and is not flagged. *)
SleepFinishedUnflagged(c) ==
    /\ alive /\ serving = Nobody
    /\ timer_ev[c]
    /\ timer_ev' = [timer_ev EXCEPT ![c] = FALSE]
    /\ read_ev' = [read_ev EXCEPT ![c] = TRUE]
    /\ UNCHANGED <<conn, client, file, flags, done, serving, ends, device>>

(* luxeed_client_sleep_finished: its test of read_ev_active, meant for the *)
(* timer, finds it cleared by luxeed_client_sleep; timer_ev_active stays.  *)
SleepFinished(c) ==
    /\ alive /\ serving = Nobody
    /\ timer_ev[c]
    /\ timer_ev' = [timer_ev EXCEPT ![c] = FALSE]
    /\ timer_ev_active' = [timer_ev_active EXCEPT ![c] = @ /\ ~read_ev_active[c]]
    /\ read_ev_active' = [read_ev_active EXCEPT ![c] = TRUE]
    /\ read_ev' = [read_ev EXCEPT ![c] = TRUE]
    /\ UNCHANGED <<conn, client, file, done, serving, ends, device>>

--------------------------------------------------------------------------------
(* luxeed_device_update(dev, 0), whose failures are not reported: a device *)
(* initialised once and closed since is not initialised again.  It fails   *)
(* only if it has to speak to the keyboard.                                *)
DeviceUpdate ==
    \/ /\ dev_opened \/ dev_init_count = 0
       /\ dev_opened' = TRUE
       /\ dev_init_count' = IF dev_opened THEN dev_init_count ELSE 1
       /\ key_data_dirty' = FALSE
    \/ /\ ~dev_opened \/ key_data_dirty
       /\ dev_opened' = FALSE
       /\ dev_init_count' \in {dev_init_count, IF dev_opened THEN dev_init_count ELSE 1}
       /\ UNCHANGED key_data_dirty

(* luxeed_endpoint_read_line: the first line of the FILE, when it has one: *)
(* a FILE that is not empty starts with the text of a command, which its   *)
(* newline follows.                                                        *)
HasLine(f) == Len(f) > 1

RestOf(f) == SubSeq(f, 3, Len(f))

(* The read(2) of fgets takes all there is, past the end of the line. *)
Fill(c) ==
    /\ serving = c
    /\ ~HasLine(file[c])
    /\ sock[c] # <<>>
    /\ file' = [file EXCEPT ![c] = @ \o sock[c]]
    /\ sock' = [sock EXCEPT ![c] = <<>>]
    /\ UNCHANGED <<conn, midline, eof, written, flags, pending, done, serving, ends, device>>

(* Mutant: reading goes on while the client waits. *)
SleepAndRead(c) ==
    /\ timer_ev_active' = [timer_ev_active EXCEPT ![c] = TRUE]
    /\ timer_ev' = [timer_ev EXCEPT ![c] = TRUE]
    /\ read_ev_active' = [read_ev_active EXCEPT ![c] = TRUE]
    /\ read_ev' = [read_ev EXCEPT ![c] = TRUE]

(* luxeed_client_sleep, of a time that is not negative *)
Sleep(c) ==
    /\ read_ev_active' = [read_ev_active EXCEPT ![c] = FALSE]
    /\ read_ev' = [read_ev EXCEPT ![c] = @ /\ ~read_ev_active[c]]
    /\ timer_ev_active' = [timer_ev_active EXCEPT ![c] = TRUE]
    /\ timer_ev' = [timer_ev EXCEPT ![c] = TRUE]

(* The event added again by luxeed_client_read, when its command did not   *)
(* ask it not to. *)
ReadAgain(c) ==
    /\ read_ev_active' = [read_ev_active EXCEPT ![c] = TRUE]
    /\ read_ev' = [read_ev EXCEPT ![c] = TRUE]
    /\ UNCHANGED <<timer_ev_active, timer_ev>>

(* The reply of luxeed_client_read_command, to any command if the client   *)
(* is verbose or the line is bad: none, one that is heard, the one a       *)
(* client that has gone is not there for, or one into a connection that is *)
(* no more, whose flush raises SIGPIPE unless it only collects the error.  *)
Reply(c) ==
    \/ UNCHANGED ends
    \/ peer[c] = "gone" /\ peer' = [peer EXCEPT ![c] = "reset"] /\ UNCHANGED alive
    \/ peer[c] = "reset" /\ alive' = FALSE /\ UNCHANGED peer

(* luxeed_client_run_command and the rest of luxeed_client_read.  The      *)
(* colours set by "s" may be those of the frame already.                   *)
RunCommand(c, cmd) ==
    \/ /\ cmd = "s"
       /\ key_data_dirty' \in {key_data_dirty, TRUE}
       /\ UNCHANGED <<dev_opened, dev_init_count>>
       /\ ReadAgain(c)
    \/ /\ cmd = "u"
       /\ DeviceUpdate
       /\ ReadAgain(c)
    \/ /\ cmd = "w"
       /\ Sleep(c)
       /\ UNCHANGED device
    \/ /\ cmd = "w-"
       /\ UNCHANGED <<flags, pending, device>>
    \/ /\ cmd = "g"
       /\ ReadAgain(c)
       /\ UNCHANGED device

RunLine(c) ==
    /\ serving = c
    /\ HasLine(file[c])
    /\ RunCommand(c, file[c][1])
    /\ file' = [file EXCEPT ![c] = RestOf(@)]
    /\ done' = [done EXCEPT ![c] = @ + 1]
    /\ serving' = Nobody
    /\ Reply(c)
    /\ UNCHANGED <<conn, client>>

AtEnd(c) == sock[c] = <<>> /\ eof[c]

(* fgets returns a last line that has no newline. *)
RunLastLine(c) ==
    /\ serving = c
    /\ ~HasLine(file[c]) /\ file[c] # <<>>
    /\ AtEnd(c)
    /\ RunCommand(c, file[c][1])
    /\ file' = [file EXCEPT ![c] = <<>>]
    /\ done' = [done EXCEPT ![c] = @ + 1]
    /\ serving' = Nobody
    /\ Reply(c)
    /\ UNCHANGED <<conn, client>>

(* An update of a device that is not opened may end the process, in        *)
(* luxeed_device_find or in libusb_open.                                   *)
UpdateCrashes(c) ==
    /\ serving = c
    /\ file[c] # <<>> /\ file[c][1] = "u"
    /\ HasLine(file[c]) \/ AtEnd(c)
    /\ ~dev_opened
    /\ alive' = FALSE
    /\ UNCHANGED <<conn, client, peer, file, flags, pending, done, serving, device>>

(* luxeed_endpoint_close: the client sees the end of its connection. *)
EndpointClose(c) == conn' = [conn EXCEPT ![c] = "closed"]

(* Mutant: a close that does not update the device. *)
ClientCloseOnly(c) ==
    /\ timer_ev_active' = [timer_ev_active EXCEPT ![c] = FALSE]
    /\ timer_ev' = [timer_ev EXCEPT ![c] = @ /\ ~timer_ev_active[c]]
    /\ read_ev_active' = [read_ev_active EXCEPT ![c] = FALSE]
    /\ read_ev' = [read_ev EXCEPT ![c] = @ /\ ~read_ev_active[c]]
    /\ EndpointClose(c)
    /\ UNCHANGED device

(* luxeed_client_close: an event is removed if its flag says it is there,  *)
(* and the device is updated if it is open.                                *)
ClientClose(c) ==
    /\ timer_ev_active' = [timer_ev_active EXCEPT ![c] = FALSE]
    /\ timer_ev' = [timer_ev EXCEPT ![c] = @ /\ ~timer_ev_active[c]]
    /\ read_ev_active' = [read_ev_active EXCEPT ![c] = FALSE]
    /\ read_ev' = [read_ev EXCEPT ![c] = @ /\ ~read_ev_active[c]]
    /\ EndpointClose(c)
    /\ IF dev_opened THEN DeviceUpdate ELSE UNCHANGED device

(* fgets returns 0 at the end, and for a last line cut off by a read that  *)
(* fails, as it may on a connection that was reset.                        *)
NoLine(c) ==
    /\ file[c] = <<>> \/ (~HasLine(file[c]) /\ peer[c] = "reset")
    /\ AtEnd(c)

(* luxeed_client_read closes and frees the client. *)
Close(c) ==
    /\ serving = c
    /\ NoLine(c)
    /\ ClientClose(c)
    /\ serving' = Nobody
    /\ UNCHANGED <<client, file, done, ends>>

--------------------------------------------------------------------------------
ClientStep(c) ==
    /\ alive
    /\ \/ Connect(c)
       \/ \E cmd \in Commands, whole \in BOOLEAN : Write(c, cmd, whole)
       \/ EndLine(c)
       \/ HangUp(c)

(* The read handler, from its event to its return. *)
Handler(c) ==
    /\ alive
    /\ \/ Fill(c)
       \/ RunLine(c)
       \/ RunLastLine(c)
       \/ UpdateCrashes(c)
       \/ Close(c)

Next ==
    \E c \in Clients :
        \/ ClientStep(c)
        \/ Accept(c)
        \/ ReadFires(c)
        \/ SleepFinished(c)
        \/ Handler(c)

Spec == Init /\ [][Next]_vars

(***************************************************************************)
(* The loop dispatches every event that is ready, and a handler that can   *)
(* go on does.  Clients may do what they like: none has to write, to end   *)
(* the line it began, or to hang up.                                       *)
(***************************************************************************)
Fairness ==
    \A c \in Clients :
        /\ WF_vars(Accept(c))
        /\ WF_vars(ReadFires(c))
        /\ WF_vars(SleepFinished(c))
        /\ WF_vars(Handler(c))

FairSpec == Spec /\ Fairness

--------------------------------------------------------------------------------
(* Safety *)

(* Outside its handler an open client is waited for by exactly one event:  *)
(* by none it would be forgotten, by both it would run commands while it   *)
(* waits.  In its handler it is waited for by none.                        *)
OneEventPerClient ==
    \A c \in Clients : conn[c] = "open" =>
        IF serving = c THEN ~read_ev[c] /\ ~timer_ev[c]
                       ELSE read_ev[c] # timer_ev[c]

(* An event that is pending is flagged, so that luxeed_client_close, that  *)
(* goes by the flags, leaves no event behind that points to a freed        *)
(* client.                                                                 *)
EventsAreFlagged ==
    \A c \in Clients :
        /\ read_ev[c] => read_ev_active[c]
        /\ timer_ev[c] => timer_ev_active[c]
        /\ conn[c] = "closed" => ~read_ev[c] /\ ~timer_ev[c]

(* A change is not left unsent on an open device when the last client is   *)
(* gone.                                                                   *)
NoOrphanedChange ==
    (dev_opened /\ key_data_dirty) => \E c \in Clients : conn[c] = "open"

(* What makes the invariants above inductive. *)

(* Every piece a client wrote is in the kernel, in the FILE, or executed:  *)
(* two pieces to a command, one to a last line that lacks its newline, and *)
(* none to that line once it is executed, at the end of the file.          *)
NothingLost ==
    \A c \in Clients :
        LET open_line == IF midline[c] /\ done[c] # written[c] THEN 1 ELSE 0 IN
        /\ Len(file[c]) + Len(sock[c]) + open_line + 2 * done[c] = 2 * written[c]
        /\ midline[c] /\ done[c] = written[c] => eof[c]

(* Only commands the clients send travel. *)
StreamType ==
    /\ sock \in [Clients -> Seq(Commands \cup {NL})]
    /\ file \in [Clients -> Seq(Commands \cup {NL})]

(* Only open clients are served or waited for. *)
OnlyOpenServed ==
    /\ serving # Nobody => conn[serving] = "open"
    /\ \A c \in Clients : conn[c] # "open" => ~read_ev[c] /\ ~timer_ev[c]

IInv ==
    /\ TypeOK
    /\ NothingLost
    /\ StreamType
    /\ OnlyOpenServed
    /\ OneEventPerClient
    /\ EventsAreFlagged
    /\ NoOrphanedChange

(* "I/O read is sleeping after wait command", luxeed_server.c:130: an open *)
(* client that is not read from is asleep, with a timer to wake it.        *)
SleepingAfterWait ==
    \A c \in Clients :
        (conn[c] = "open" /\ serving # c /\ ~read_ev[c]) => timer_ev[c]

--------------------------------------------------------------------------------
(* Liveness *)

(* Everything was executed, the last line with or without its newline, but *)
(* for one that lacked it when the connection was reset.                   *)
Drained(c) ==
    /\ conn[c] = "closed"
    /\ \/ done[c] = written[c]
       \/ peer[c] = "reset" /\ midline[c] /\ done[c] + 1 = written[c]

(* fgets waits for the rest of a line: the one thread of the server does.  *)
Blocked(c) ==
    serving = c /\ ~HasLine(file[c]) /\ sock[c] = <<>> /\ ~eof[c]

(* fgets is left waiting for good by no client. *)
NoneBlocksForGood == \A d \in Clients : []<>~Blocked(d)

(* A client that hangs up has every command executed and is then closed,   *)
(* unless the process ends or some client leaves its line without an end   *)
(* for good: that, and a reply to one that has gone, is all that clients   *)
(* can do to each other.  (Each hangs up once, and stays closed.)          *)
DrainedAfterHangUp ==
    NoneBlocksForGood => <>[](alive => \A c \in Clients : eof[c] => Drained(c))

(* "so that select() still has other read(0) pending",                     *)
(* luxeed_endpoint.c:191: of two lines the second is executed too.         *)
EveryLineRuns ==
    \A c \in Clients, n \in 1..MaxLines :
        (written[c] = n /\ ~midline[c]) ~> (done[c] >= n \/ ~alive)
================================================================================
