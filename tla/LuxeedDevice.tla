------------------------------ MODULE LuxeedDevice ------------------------------
(***************************************************************************)
(* The keyboard driver, luxeed_device.c: the lifecycle of the device       *)
(* handle, its initialisation, and luxeed_device_update, at the            *)
(* granularity of one USB call.  The driver is one thread; the keyboard    *)
(* is a second actor, that can be unplugged, plugged in again or fail a    *)
(* transfer between any two USB calls of the driver.                       *)
(*                                                                         *)
(* A key stands for one byte of key_data, a frame for all of them.  A      *)
(* message is sent as NChunks transfers, and carries byte k in transfer    *)
(* ChunkOf[k].  Short transfers are in LuxeedSend, the bytes of a message   *)
(* in LuxeedFrame.                                                         *)
(***************************************************************************)
EXTENDS Naturals, Sequences

CONSTANTS
    Keys,       \* the bytes of key_data
    Colors,     \* the values of a byte
    Off,        \* 0x00: a dark byte, and every key byte of msg_00
    msg_ff,     \* the key bytes of the other self-test message
    NChunks,    \* the transfers of a message (6 in the code: 384 / 64)
    ChunkOf     \* the transfer of a message that carries a byte

ASSUME ColorsAssumption == Off \in Colors /\ msg_ff \in [Keys -> Colors]
ASSUME ChunksAssumption ==
    /\ NChunks \in Nat \ {0}
    /\ ChunkOf \in [Keys -> 1..NChunks]

VARIABLES
    (* struct luxeed_device *)
    u_dev, u_dev_hd,    \* "none", "live", or "stale": its keyboard has gone
    opening, opened, initing, inited, init_count,
    key_data, key_data_dirty,
    msg,                \* the bytes of the message being sent
    (* locals of the running luxeed_device_update *)
    pc,                 \* what the driver does next
    force,              \* the argument of luxeed_device_update
    kind,               \* the message being sent: "ff", "00" or "frame"
    chunk,              \* transfers of it already done
    (* the keyboard *)
    plugged,            \* it is on the bus
    rx,                 \* the transfers it holds of an incomplete message
    leds,               \* the frame it shows
    dark,               \* it was unplugged or reset since it last took a message
    calm                \* the bus has stopped failing

flags == <<opening, opened, initing, inited, init_count>>
data  == <<key_data, key_data_dirty>>
send  == <<msg, kind, chunk>>
kbd   == <<plugged, rx, leds, dark>>
vars  == <<u_dev, u_dev_hd, flags, data, send, pc, force, kbd, calm>>

Frames == [Keys -> Colors]

Solid(c) == [k \in Keys |-> c]

msg_00 == Solid(Off)

Kinds == {"ff", "00", "frame"}
Steps == {"idle", "find", "open", "reset", "init", "check", "send", "sent", "fail",
          "crashed"}

Handles == {"none", "live", "stale"}

HandleType ==
    /\ u_dev \in Handles /\ u_dev_hd \in Handles
    /\ opening \in BOOLEAN /\ opened \in BOOLEAN
    /\ initing \in BOOLEAN /\ inited \in BOOLEAN
    /\ init_count \in Nat
    /\ pc \in Steps
    /\ force \in BOOLEAN
    /\ calm \in BOOLEAN

MessageType ==
    /\ key_data \in Frames
    /\ key_data_dirty \in BOOLEAN
    /\ msg \in Frames
    /\ kind \in Kinds
    /\ chunk \in 0..NChunks
    /\ pc = "send" => chunk < NChunks

KeyboardType ==
    /\ plugged \in BOOLEAN
    /\ rx \in Seq(Frames)
    /\ leds \in Frames
    /\ dark \in BOOLEAN

TypeOK == HandleType /\ MessageType /\ KeyboardType

--------------------------------------------------------------------------------
(* luxeed_device_create: memset(dev, 0, ...).  The keyboard may be absent. *)
Init ==
    /\ u_dev = "none" /\ u_dev_hd = "none"
    /\ opening = FALSE /\ opened = FALSE /\ initing = FALSE /\ inited = FALSE
    /\ init_count = 0
    /\ key_data = Solid(Off)
    /\ key_data_dirty = FALSE
    /\ msg = msg_00
    /\ pc = "idle"
    /\ force = FALSE
    /\ kind = "ff"
    /\ chunk = 0
    /\ plugged \in BOOLEAN
    /\ rx = <<>>
    /\ leds = Solid(Off)
    /\ dark = TRUE
    /\ calm = FALSE

--------------------------------------------------------------------------------
(* The colours, written by the "s" command between two updates. *)

(* A changed frame is a frame to send. *)
Store(f) ==
    /\ key_data' = f
    /\ key_data_dirty' = (key_data_dirty \/ f # key_data)

(* luxeed_device_set_key_color *)
SetKeyColor(k, c) ==
    /\ pc = "idle"
    /\ Store([key_data EXCEPT ![k] = c])
    /\ UNCHANGED <<u_dev, u_dev_hd, flags, send, pc, force, kbd, calm>>

(* luxeed_device_set_key_color_all *)
SetKeyColorAll(c) ==
    /\ pc = "idle"
    /\ Store(Solid(c))
    /\ UNCHANGED <<u_dev, u_dev_hd, flags, send, pc, force, kbd, calm>>

--------------------------------------------------------------------------------
(* luxeed_device_update, and luxeed_device_open at its head. *)

Update(forced) ==
    /\ pc = "idle"
    /\ force' = forced
    /\ IF opened \/ opening
       THEN /\ pc' = "init"
            /\ UNCHANGED <<u_dev_hd, flags>>
       ELSE /\ u_dev_hd' = "none"
            /\ opening' = TRUE
            /\ opened' = FALSE
            /\ pc' = "find"
            /\ UNCHANGED <<initing, inited, init_count>>
    /\ UNCHANGED <<u_dev, data, send, kbd, calm>>

(* luxeed_device_find: also fails when the descriptor of any device cannot *)
(* be read, be the keyboard found or not.  When the list itself cannot be  *)
(* had, devs is NULL and is read all the same: the process ends.           *)
Find ==
    /\ pc = "find"
    /\ \/ plugged /\ u_dev' = "live" /\ pc' = "open"
       \/ plugged /\ ~calm /\ u_dev' = "live" /\ pc' = "fail"
       \/ ~(plugged /\ calm) /\ u_dev' = "none" /\ pc' = "fail"
       \/ ~calm /\ u_dev' = "none" /\ pc' = "crashed"
    /\ UNCHANGED <<u_dev_hd, flags, data, send, force, kbd, calm>>

(* libusb_open, of the keyboard that was found.  luxeed_device_find gave   *)
(* its reference back with the list: of a keyboard that has gone since,    *)
(* and of any that libusb does not hold itself, the memory is free, and    *)
(* what libusb_open makes of it is an error at best.                       *)
OpenHandle ==
    /\ pc = "open"
    /\ \/ u_dev = "live" /\ u_dev_hd' = "live" /\ pc' = "reset"
       \/ ~(u_dev = "live" /\ calm) /\ u_dev_hd' = "none" /\ pc' \in {"fail", "crashed"}
    /\ UNCHANGED <<u_dev, flags, data, send, force, kbd, calm>>

(* A reset keyboard waits for a first transfer; its LEDs may go out. *)
KeyboardReset ==
    /\ rx' = <<>>
    /\ leds' \in {leds, Solid(Off)}
    /\ dark' = TRUE

(* Mutant: an open that does not reset the keyboard. *)
OpenWithoutReset ==
    /\ pc = "reset"
    /\ opening' = FALSE
    /\ opened' = TRUE
    /\ pc' = "init"
    /\ UNCHANGED <<u_dev, u_dev_hd, initing, inited, init_count, data, send, force, kbd, calm>>

(* libusb_reset_device, whose failure fails the open, and                  *)
(* libusb_claim_interface, whose result is ignored; the device is marked   *)
(* opened whatever the reset returned.                                     *)
Reset ==
    /\ pc = "reset"
    /\ opening' = FALSE
    /\ opened' = TRUE
    /\ \/ u_dev_hd = "live" /\ KeyboardReset /\ pc' = "init"
       \/ /\ ~(u_dev_hd = "live" /\ calm)
          /\ pc' = "fail"
          /\ \/ u_dev_hd = "live" /\ KeyboardReset
             \/ UNCHANGED <<rx, leds, dark>>
    /\ UNCHANGED <<u_dev, u_dev_hd, initing, inited, init_count, data, send, force, plugged, calm>>

--------------------------------------------------------------------------------
(* luxeed_device_init *)

Start(k, f) ==
    /\ kind' = k
    /\ msg' = f
    /\ chunk' = 0
    /\ pc' = "send"

(* Mutant: every initialisation sends the self-test. *)
InitAlwaysFlashes ==
    /\ pc = "init"
    /\ IF initing \/ inited
       THEN pc' = "check" /\ UNCHANGED <<initing, inited, send>>
       ELSE initing' = TRUE /\ inited' = FALSE /\ Start("ff", msg_ff)
    /\ UNCHANGED <<u_dev, u_dev_hd, opening, opened, init_count, data, force, kbd, calm>>

(* Only the first initialisation sends the two messages.  A later one      *)
(* finds init_count > 0, sends nothing, and returns the -1 result was      *)
(* declared with.                                                          *)
BeginInit ==
    /\ pc = "init"
    /\ IF initing \/ inited
       THEN pc' = "check" /\ UNCHANGED <<initing, inited, send>>
       ELSE /\ initing' = TRUE
            /\ inited' = FALSE
            /\ IF init_count = 0
               THEN Start("ff", msg_ff)
               ELSE pc' = "fail" /\ UNCHANGED send
    /\ UNCHANGED <<u_dev, u_dev_hd, opening, opened, init_count, data, force, kbd, calm>>

(* Mutant: only a forced update sends. *)
CheckForcedOnly ==
    /\ pc = "check"
    /\ IF force
       THEN Start("frame", key_data)
       ELSE pc' = "idle" /\ UNCHANGED send
    /\ UNCHANGED <<u_dev, u_dev_hd, flags, data, force, kbd, calm>>

(* The frame is composed from key_data, unless there is nothing to send. *)
Check ==
    /\ pc = "check"
    /\ IF force \/ key_data_dirty
       THEN Start("frame", key_data)
       ELSE pc' = "idle" /\ UNCHANGED send
    /\ UNCHANGED <<u_dev, u_dev_hd, flags, data, force, kbd, calm>>

--------------------------------------------------------------------------------
(* luxeed_send_chunked: one libusb_bulk_transfer per step. *)

(* The keyboard takes one transfer; the last of a message lights it up. *)
Receive ==
    LET got == Append(rx, msg) IN
    IF Len(got) < NChunks
    THEN rx' = got /\ UNCHANGED <<leds, dark>>
    ELSE /\ rx' = <<>>
         /\ leds' = [k \in Keys |-> got[ChunkOf[k]][k]]
         /\ dark' = FALSE

Transfer ==
    /\ pc = "send"
    /\ u_dev_hd = "live"
    /\ Receive
    /\ chunk' = chunk + 1
    /\ pc' = IF chunk + 1 < NChunks THEN "send" ELSE "sent"
    /\ UNCHANGED <<u_dev, u_dev_hd, flags, data, msg, kind, force, plugged, calm>>

(* Mutant: an error that is not reported to the caller. *)
TransferFailsSilently ==
    /\ pc = "send"
    /\ ~(u_dev_hd = "live" /\ calm)
    /\ pc' = "sent"
    /\ UNCHANGED <<u_dev, u_dev_hd, flags, data, send, force, kbd, calm>>

(* A failed transfer (error or timeout) may have reached the keyboard. *)
TransferFails ==
    /\ pc = "send"
    /\ ~(u_dev_hd = "live" /\ calm)
    /\ pc' = "fail"
    /\ \/ u_dev_hd = "live" /\ Receive
       \/ UNCHANGED <<rx, leds, dark>>
    /\ UNCHANGED <<u_dev, u_dev_hd, flags, data, send, force, plugged, calm>>

(* What follows luxeed_send: msg_00 after msg_ff, the end of the           *)
(* initialisation after msg_00, the end of the update after a frame.       *)
Sent ==
    /\ pc = "sent"
    /\ \/ /\ kind = "ff"
          /\ Start("00", msg_00)
          /\ UNCHANGED <<initing, inited, init_count, key_data_dirty>>
       \/ /\ kind = "00"
          /\ initing' = FALSE
          /\ inited' = TRUE
          /\ init_count' = init_count + 1
          /\ pc' = "check"
          /\ UNCHANGED <<key_data_dirty, send>>
       \/ /\ kind = "frame"
          /\ key_data_dirty' = FALSE
          /\ pc' = "idle"
          /\ UNCHANGED <<initing, inited, init_count, send>>
    /\ UNCHANGED <<u_dev, u_dev_hd, opening, opened, key_data, force, kbd, calm>>

(* Mutant: a close that leaves an initialisation in progress. *)
CloseKeepsIniting ==
    /\ u_dev' = "none" /\ u_dev_hd' = "none"
    /\ opening' = FALSE
    /\ opened' = FALSE
    /\ inited' = FALSE
    /\ initing' = initing

(* Mutant: a close that leaves an open in progress. *)
CloseKeepsOpening ==
    /\ u_dev' = "none" /\ u_dev_hd' = "none"
    /\ opening' = opening
    /\ opened' = FALSE
    /\ inited' = FALSE
    /\ initing' = FALSE

(* luxeed_device_close *)
Close ==
    /\ u_dev' = "none" /\ u_dev_hd' = "none"
    /\ opening' = FALSE
    /\ opened' = FALSE
    /\ inited' = FALSE
    /\ initing' = FALSE

(* The tail of luxeed_device_update: close, and return 0. *)
Fail ==
    /\ pc = "fail"
    /\ Close
    /\ pc' = "idle"
    /\ UNCHANGED <<init_count, data, send, force, kbd, calm>>

--------------------------------------------------------------------------------
(* The keyboard and its bus. *)

Gone(handle) == IF handle = "live" THEN "stale" ELSE handle

Unplug ==
    /\ plugged
    /\ ~calm
    /\ plugged' = FALSE
    /\ u_dev' = Gone(u_dev)
    /\ u_dev_hd' = Gone(u_dev_hd)
    /\ rx' = <<>>
    /\ leds' = Solid(Off)
    /\ dark' = TRUE
    /\ UNCHANGED <<flags, data, send, pc, force, calm>>

(* A handle opened before stays stale. *)
Plug ==
    /\ ~plugged
    /\ plugged' = TRUE
    /\ UNCHANGED <<u_dev, u_dev_hd, flags, data, send, pc, force, rx, leds, dark, calm>>

(* From some moment on the bus works, and libusb with it, that holds on to *)
(* the keyboards that are plugged in.                                      *)
CalmDown ==
    /\ ~calm
    /\ calm' = TRUE
    /\ UNCHANGED <<u_dev, u_dev_hd, flags, data, send, pc, force, kbd>>

--------------------------------------------------------------------------------
Client ==
    \/ \E k \in Keys, c \in Colors : SetKeyColor(k, c)
    \/ \E c \in Colors : SetKeyColorAll(c)
    \/ \E forced \in BOOLEAN : Update(forced)

Driver ==
    \/ Find
    \/ OpenHandle
    \/ Reset
    \/ BeginInit
    \/ Check
    \/ Transfer
    \/ TransferFails
    \/ Sent
    \/ Fail

Environment ==
    \/ Unplug
    \/ Plug
    \/ CalmDown

Next ==
    \/ Client
    \/ Driver
    \/ Environment

Spec == Init /\ [][Next]_vars

(***************************************************************************)
(* The thread runs on; a client asks for an update again and again (every  *)
(* client script ends its frames with "u"); a keyboard is plugged back in, *)
(* and the bus stops failing some day.                                     *)
(***************************************************************************)
Fairness ==
    /\ WF_vars(Driver)
    /\ WF_vars(Update(FALSE))
    /\ WF_vars(Plug)
    /\ WF_vars(CalmDown)

FairSpec == Spec /\ Fairness

--------------------------------------------------------------------------------
(* Safety *)

(* Between two updates no flag of an attempt in progress is left behind,   *)
(* and the device is opened exactly when it is initialised and holds a     *)
(* handle: what a later open, that returns at once when opening or opened, *)
(* relies on.                                                              *)
SettledWhenIdle ==
    pc = "idle" =>
        /\ ~opening /\ ~initing
        /\ opened <=> inited
        /\ opened <=> u_dev_hd # "none"

(* While the driver sends to a keyboard that is there, the keyboard holds  *)
(* exactly the transfers of this message, and none of one cut off before.  *)
InStep ==
    (pc = "send" /\ u_dev_hd = "live") =>
        rx = [i \in 1..chunk |-> msg]

(* Nothing to send means nothing is missing: an idle driver with a clean   *)
(* frame and a live handle has the keyboard showing key_data.              *)
CleanMeansShown ==
    (pc = "idle" /\ u_dev_hd = "live" /\ ~key_data_dirty) => leds = key_data

(* The LEDs never show a mix of two frames: they change to a frame of the  *)
(* self-test or to the whole of what the clients asked for.                *)
NoTearing ==
    [][leds' # leds => leds' \in {msg_ff, msg_00, key_data}]_vars

(* What makes the invariants above inductive. *)

(* The flags at every step of luxeed_device_update but its failure, which  *)
(* closes the device whatever they are. *)
FlagsFollowSteps ==
    /\ SettledWhenIdle
    /\ pc \in {"find", "open"} =>
          opening /\ ~opened /\ ~initing /\ ~inited /\ u_dev_hd = "none"
    /\ pc = "reset" =>
          opening /\ ~opened /\ ~initing /\ ~inited /\ u_dev_hd # "none"
    /\ pc \in {"init", "check", "send", "sent"} =>
          ~opening /\ opened /\ u_dev_hd # "none"
    /\ pc = "init" => ~initing
    /\ pc = "check" => ~initing /\ inited
    /\ pc \in {"send", "sent"} =>
          IF kind = "frame" THEN ~initing /\ inited ELSE initing /\ ~inited

(* One initialisation, whose messages are only sent before it succeeds. *)
InitOnce ==
    /\ inited => init_count > 0
    /\ (pc \in {"send", "sent"} /\ kind # "frame") => init_count = 0
    /\ (init_count = 0 /\ ~key_data_dirty) => key_data = msg_00

(* The message being sent is the one its kind says. *)
MessageIsItsKind ==
    pc \in {"send", "sent"} =>
        /\ kind = "ff" => msg = msg_ff
        /\ kind = "00" => msg = msg_00
        /\ kind = "frame" => msg = key_data

(* A keyboard that is there holds no transfer between two messages, and    *)
(* the message just sent is lit unless the keyboard has gone dark since.   *)
KeyboardFollows ==
    /\ InStep
    /\ (pc \in {"idle", "init", "check", "sent"} /\ u_dev_hd = "live") => rx = <<>>
    /\ (pc = "sent" /\ u_dev_hd = "live") => leds = msg
    /\ pc = "sent" => dark \/ leds = msg
    /\ ( /\ pc \in {"idle", "init", "check"}
         /\ u_dev_hd = "live"
         /\ inited
         /\ ~key_data_dirty ) => leds = key_data

IInv ==
    /\ TypeOK
    /\ FlagsFollowSteps
    /\ InitOnce
    /\ MessageIsItsKind
    /\ KeyboardFollows

(* The detailed driver implements the display it promises. *)
Display == INSTANCE LuxeedDisplay WITH
    want <- key_data, shown <- leds, owed <- key_data_dirty,
    lost <- dark, ready <- init_count > 0, Flashes <- {msg_ff, msg_00}

DisplaySpec == Display!Spec

--------------------------------------------------------------------------------
(* Liveness *)

(* Initialised once, closed since. *)
Wedged == pc = "idle" /\ ~opened /\ init_count > 0

(* The process was ended by libusb, or by the list it did not get. *)
Crashed == pc = "crashed"

(* A change is sent in the end, whatever the bus did before it calmed      *)
(* down, unless the driver lost a keyboard it had already initialised, or  *)
(* the process.                                                            *)
SentOrWedged == key_data_dirty ~> (~key_data_dirty \/ Wedged \/ Crashed)

(* A calm bus, and a handle that is good or still to be opened for the     *)
(* first time, and not of a keyboard that went before it was.              *)
Healthy ==
    /\ calm
    /\ u_dev # "stale" /\ u_dev_hd # "stale"
    /\ pc \notin {"fail", "crashed"}
    /\ init_count = 0 \/ inited

(* In that case the keyboard shows what was asked for. *)
ShownWhenHealthy == (Healthy /\ key_data_dirty) ~> leds = key_data

(* "Try again next time", luxeed_device.c:669: a failed update is made up  *)
(* for by a later one, if the process survives it.                         *)
TryAgainNextTime == key_data_dirty ~> (~key_data_dirty \/ Crashed)
================================================================================
