------------------------------ MODULE LuxeedSystem ------------------------------
(***************************************************************************)
(* The server and the driver together: the handlers of LuxeedServer call   *)
(* luxeed_device_update, whose steps are those of LuxeedDevice, while      *)
(* clients write, hang up and connect, and the keyboard comes and goes.    *)
(* The server serves nobody else until the update returns.                 *)
(*                                                                         *)
(* LuxeedServer takes an update, and a close with its update, for one      *)
(* step: ServerSpec below is that the server is right to, in what its      *)
(* clients can see of it.                                                  *)
(***************************************************************************)
EXTENDS Naturals, Sequences

CONSTANTS
    Clients, Commands, MaxLines, Nobody,
    Keys, Colors, Off, msg_ff, NChunks, ChunkOf

(* A wait of a negative time is left to LuxeedServer: it only loses its    *)
(* client. *)
ASSUME CommandsKnown == Commands \subseteq {"s", "u", "w", "g"}
ASSUME BoundKnown == MaxLines \in Nat /\ Nobody \notin Clients
ASSUME FramesKnown ==
    /\ Off \in Colors /\ msg_ff \in [Keys -> Colors]
    /\ NChunks \in Nat \ {0} /\ ChunkOf \in [Keys -> 1..NChunks]

VARIABLES
    (* LuxeedServer *)
    conn, sock, midline, eof, written, file,
    peer, read_ev_active, timer_ev_active, read_ev, timer_ev, done, serving, alive,
    (* LuxeedDevice *)
    u_dev, u_dev_hd, opening, opened, initing, inited, init_count,
    key_data, key_data_dirty, msg, pc, force, kind, chunk,
    plugged, rx, leds, dark, calm,
    (* the call of luxeed_device_update that runs *)
    call,           \* "none", "line" or "close": what called it
    before          \* what a client could tell of the server before it

client == <<sock, midline, eof, written>>
flags == <<read_ev_active, timer_ev_active>>
pending == <<read_ev, timer_ev>>
server == <<conn, client, file, flags, pending, done, serving>>
ends == <<peer, alive>>
shared == <<opened, init_count, key_data_dirty>>
driver == <<u_dev, u_dev_hd, opening, initing, inited, key_data, msg, pc, force, kind, chunk>>
keyboard == <<plugged, rx, leds, dark, calm>>
calling == <<call, before>>
vars == <<server, ends, shared, driver, keyboard, calling>>

Srv == INSTANCE LuxeedServer WITH dev_opened <- opened, dev_init_count <- init_count
Dev == INSTANCE LuxeedDevice

Nothing == [opened |-> FALSE, init_count |-> 0, key_data_dirty |-> FALSE, flags |-> <<>>]

Snapshot ==
    [opened |-> opened, init_count |-> init_count, key_data_dirty |-> key_data_dirty,
     flags |-> flags]

Init ==
    /\ Srv!Init
    /\ Dev!Init
    /\ call = "none"
    /\ before = Nothing

--------------------------------------------------------------------------------
(* What goes on whatever the server does *)

ClientStep(c) ==
    /\ Srv!ClientStep(c)
    /\ UNCHANGED <<driver, keyboard, calling>>

Environment ==
    /\ Dev!Environment
    /\ UNCHANGED <<server, ends, calling>>

(* A step of the update that was called: it may be the last of the process. *)
DriverStep ==
    /\ Dev!Driver
    /\ alive' = (alive /\ pc' # "crashed")
    /\ UNCHANGED <<server, peer, calling>>

--------------------------------------------------------------------------------
(* The server, when no update runs *)

Loop(c) ==
    /\ alive /\ call = "none"
    /\ Srv!Accept(c) \/ Srv!ReadFires(c) \/ Srv!SleepFinished(c) \/ Srv!Fill(c)
    /\ UNCHANGED <<driver, keyboard, calling>>

(* luxeed_client_run_command gets a line, or the last one. *)
Given(c, cmd) ==
    /\ serving = c
    /\ call = "none"
    /\ Srv!HasLine(file[c]) \/ (file[c] # <<>> /\ Srv!AtEnd(c))
    /\ file[c][1] = cmd

(* The line is behind it, and may be answered. *)
LineDone(c) ==
    /\ file' = [file EXCEPT ![c] = IF Srv!HasLine(@) THEN Srv!RestOf(@) ELSE <<>>]
    /\ done' = [done EXCEPT ![c] = @ + 1]
    /\ serving' = Nobody
    /\ Srv!Reply(c)
    /\ UNCHANGED <<conn, client>>

RunSet(c) ==
    /\ Given(c, "s")
    /\ \/ \E k \in Keys, v \in Colors : Dev!SetKeyColor(k, v)
       \/ \E v \in Colors : Dev!SetKeyColorAll(v)
    /\ Srv!ReadAgain(c)
    /\ LineDone(c)
    /\ UNCHANGED calling

RunWait(c) ==
    /\ Given(c, "w")
    /\ Srv!Sleep(c)
    /\ LineDone(c)
    /\ UNCHANGED <<shared, driver, keyboard, calling>>

RunGet(c) ==
    /\ Given(c, "g")
    /\ Srv!ReadAgain(c)
    /\ LineDone(c)
    /\ UNCHANGED <<shared, driver, keyboard, calling>>

BeginUpdate(c) ==
    /\ Given(c, "u")
    /\ Dev!Update(FALSE)
    /\ call' = "line"
    /\ before' = Snapshot
    /\ UNCHANGED <<server, ends>>

(* Mutant: the handler does not wait for the update. *)
EndUpdateEarly(c) ==
    /\ call = "line"
    /\ serving = c
    /\ Srv!ReadAgain(c)
    /\ LineDone(c)
    /\ call' = "none"
    /\ before' = Nothing
    /\ UNCHANGED <<shared, driver, keyboard>>

EndUpdate(c) ==
    /\ call = "line" /\ pc = "idle"
    /\ serving = c
    /\ Srv!ReadAgain(c)
    /\ LineDone(c)
    /\ call' = "none"
    /\ before' = Nothing
    /\ UNCHANGED <<shared, driver, keyboard>>

(* Mutant: a close without an update. *)
CloseOnly(c) ==
    /\ serving = c
    /\ call = "none"
    /\ Srv!NoLine(c)
    /\ Srv!ClientCloseOnly(c)
    /\ serving' = Nobody
    /\ UNCHANGED <<client, file, done, ends, driver, keyboard, calling>>

(* luxeed_client_close removes the events and closes the connection first: *)
(* the client sees its end before the frame is sent.                       *)
BeginClose(c) ==
    /\ serving = c
    /\ call = "none"
    /\ Srv!NoLine(c)
    /\ timer_ev_active' = [timer_ev_active EXCEPT ![c] = FALSE]
    /\ timer_ev' = [timer_ev EXCEPT ![c] = @ /\ ~timer_ev_active[c]]
    /\ read_ev_active' = [read_ev_active EXCEPT ![c] = FALSE]
    /\ read_ev' = [read_ev EXCEPT ![c] = @ /\ ~read_ev_active[c]]
    /\ Srv!EndpointClose(c)
    /\ IF opened
       THEN /\ Dev!Update(FALSE)
            /\ call' = "close"
            /\ before' = Snapshot
            /\ UNCHANGED serving
       ELSE /\ serving' = Nobody
            /\ UNCHANGED <<shared, driver, keyboard, calling>>
    /\ UNCHANGED <<client, file, done, ends>>

(* Mutant: a client is freed only if its update did not fail. *)
EndCloseIfSent(c) ==
    /\ call = "close" /\ pc = "idle" /\ opened
    /\ serving = c
    /\ serving' = Nobody
    /\ call' = "none"
    /\ before' = Nothing
    /\ UNCHANGED <<conn, client, file, flags, pending, done, ends, shared, driver, keyboard>>

EndClose(c) ==
    /\ call = "close" /\ pc = "idle"
    /\ serving = c
    /\ serving' = Nobody
    /\ call' = "none"
    /\ before' = Nothing
    /\ UNCHANGED <<conn, client, file, flags, pending, done, ends, shared, driver, keyboard>>

Handler(c) ==
    /\ alive
    /\ \/ RunSet(c) \/ RunWait(c) \/ RunGet(c)
       \/ BeginUpdate(c) \/ EndUpdate(c)
       \/ BeginClose(c) \/ EndClose(c)

Next ==
    \/ \E c \in Clients : ClientStep(c) \/ Loop(c) \/ Handler(c)
    \/ DriverStep
    \/ Environment

Spec == Init /\ [][Next]_vars

(* The one thread of the server, in a handler or in the update it called. *)
Thread == DriverStep \/ \E c \in Clients : Handler(c)

(* The loop dispatches every event that is ready, and the thread goes on;  *)
(* nothing is asked of the clients or of the keyboard.                     *)
Fairness ==
    /\ \A c \in Clients : WF_vars(Loop(c))
    /\ WF_vars(Thread)

FairSpec == Spec /\ Fairness

--------------------------------------------------------------------------------
(* Properties *)

(* When the last client is gone and its handler is over, a keyboard that   *)
(* the driver has open, and that was not pulled out since, shows the frame *)
(* the clients left: no colour of theirs is still to be sent.              *)
ShownWhenAllGone ==
    /\ serving = Nobody
    /\ \A c \in Clients : conn[c] # "open"
    /\ opened
    /\ u_dev_hd = "live"
    => leds = key_data

(* The server as its clients see it, an update for one step of it: until   *)
(* it returns, the state of the device, the flags of the client and its    *)
(* connection are those from before.                                       *)
Atomic == INSTANCE LuxeedServer WITH
    dev_opened <- IF call = "none" THEN opened ELSE before.opened,
    dev_init_count <- IF call = "none" THEN init_count ELSE before.init_count,
    key_data_dirty <- IF call = "none" THEN key_data_dirty ELSE before.key_data_dirty,
    conn <- IF call = "close" THEN [conn EXCEPT ![serving] = "open"] ELSE conn,
    read_ev_active <- IF call = "close" THEN before.flags[1] ELSE read_ev_active,
    timer_ev_active <- IF call = "close" THEN before.flags[2] ELSE timer_ev_active

ServerSpec == Atomic!Spec

(* Every client that hangs up is served to its last line and closed in the *)
(* end, whatever the updates it waits for do, and whatever becomes of the  *)
(* keyboard: but for the exceptions of LuxeedServer.                       *)
DrainedAfterHangUp ==
    Srv!NoneBlocksForGood =>
        <>[](alive => \A c \in Clients : eof[c] => Srv!Drained(c) /\ serving # c)

SomeoneLeaves == \E c \in Clients : eof[c] /\ conn[c] # "closed"

(* On a bus that works, a client that hangs up leaves a keyboard that      *)
(* shows what was asked for, whether or not it ended with an update.       *)
ShownAfterHangUp ==
    Srv!NoneBlocksForGood =>
        (SomeoneLeaves /\ Dev!Healthy /\ opened /\ key_data_dirty)
            ~> (leds = key_data \/ ~alive)
================================================================================
