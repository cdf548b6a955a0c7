------------------------------- MODULE LuxeedSend -------------------------------
(***************************************************************************)
(* One call of luxeed_send_chunked, luxeed_device.c, at the granularity of *)
(* bytes: the loop that cuts a message into blocks, puts a header before   *)
(* each, and goes on from what libusb says it transferred.  A transfer may *)
(* be short, or empty, and still succeed.                                  *)
(*                                                                         *)
(* A byte is its place in memory: 1..Size is the message, and what lies    *)
(* above is not.  The header of a chunk is counted and not kept.  The      *)
(* checksum that is computed before the loop is not in this module.        *)
(***************************************************************************)
EXTENDS Naturals, Sequences

CONSTANTS
    BlockSize,  \* LUXEED_BLOCK_SIZE: 64
    Blocks      \* the blocks of a message: 6, as a message has 384 bytes

ASSUME BlockAssumption == BlockSize \in Nat \ {0} /\ Blocks \in Nat \ {0}

Size == Blocks * BlockSize

VARIABLES
    pc,         \* "loop", "done", or "failed": the result of the call
    buf,        \* the bytes of the message before the pointer of that name
    left,
    wire,       \* the data bytes the keyboard has received
    whole       \* history: every transfer so far took all of its chunk

vars == <<pc, buf, left, wire, whole>>

TypeOK ==
    /\ pc \in {"loop", "done", "failed"}
    /\ buf \in 0..Size
    /\ left \in 0..Size
    /\ wire \in Seq(Nat)
    /\ whole \in BOOLEAN

Init ==
    /\ pc = "loop"
    /\ buf = 0
    /\ left = Size
    /\ wire = <<>>
    /\ whole = TRUE

(* Mutant: the header takes the place of the last byte. *)
ChunkDataLessHeader == IF BlockSize < left THEN BlockSize ELSE left - 1

(* The data of a chunk: a whole block is copied, what is left is sent. *)
ChunkData == IF BlockSize < left THEN BlockSize ELSE left

(* The keyboard receives the header and the n data bytes from buf on. *)
Deliver(n) == wire' = wire \o [i \in 1..n |-> buf + i]

(* Mutant: the header is counted as data. *)
AdvanceWithHeader(transferred) ==
    IF transferred > 0
    THEN buf' = buf + transferred /\ left' = left - transferred
    ELSE UNCHANGED <<buf, left>>

(* All but the header has been sent. *)
Advance(transferred) ==
    IF transferred > 0
    THEN buf' = buf + (transferred - 1) /\ left' = left - (transferred - 1)
    ELSE UNCHANGED <<buf, left>>

(* libusb_bulk_transfer succeeds with this many bytes, the header's one    *)
(* included.                                                               *)
Transfer(transferred) ==
    /\ pc = "loop"
    /\ left > 0
    /\ IF transferred > 0 THEN Deliver(transferred - 1) ELSE UNCHANGED wire
    /\ Advance(transferred)
    /\ whole' = (whole /\ transferred = 1 + ChunkData)
    /\ UNCHANGED pc

(* Mutant: a transfer that timed out is tried again, whole. *)
TransferAgain(transferred) ==
    /\ pc = "loop"
    /\ left > 0
    /\ IF transferred > 0 THEN Deliver(transferred - 1) ELSE UNCHANGED wire
    /\ Len(wire') <= 2 * Size      \* bound: what is sent over and over
    /\ UNCHANGED <<pc, buf, left, whole>>

(* It fails or times out, and some of the chunk may have arrived. *)
TransferFails(transferred) ==
    /\ pc = "loop"
    /\ left > 0
    /\ IF transferred > 0 THEN Deliver(transferred - 1) ELSE UNCHANGED wire
    /\ pc' = "failed"
    /\ UNCHANGED <<buf, left, whole>>

Return ==
    /\ pc = "loop"
    /\ ~(left > 0)
    /\ pc' = "done"
    /\ UNCHANGED <<buf, left, wire, whole>>

Next ==
    \/ \E transferred \in 0..(1 + ChunkData) : Transfer(transferred)
    \/ \E transferred \in 0..(1 + ChunkData) : TransferFails(transferred)
    \/ Return

Spec == Init /\ [][Next]_vars

(***************************************************************************)
(* A keyboard that answers takes some data in the end.  The loop itself    *)
(* bounds neither the time nor the number of the transfers that take none. *)
(***************************************************************************)
Progress == \E transferred \in 2..(1 + ChunkData) : Transfer(transferred)

Fairness == WF_vars(Progress) /\ WF_vars(Return)

FairSpec == Spec /\ Fairness

--------------------------------------------------------------------------------
(* Safety *)

Prefix(n) == [i \in 1..n |-> i]

(* However the transfers are cut, the keyboard receives the bytes of the   *)
(* message once, in order, and none that lies behind it; the loop goes on  *)
(* from the first byte that did not arrive.                                *)
PrefixOnWire ==
    /\ Len(wire) <= Size
    /\ wire = Prefix(Len(wire))
    /\ pc # "failed" => buf = Len(wire)

(* luxeed_send is believed by luxeed_device_update and luxeed_device_init: *)
(* success means that the keyboard has the message.                        *)
DoneMeansSent == pc = "done" => wire = Prefix(Size)

(* The copy of a whole block stays inside the message as long as no        *)
(* transfer was short.                                                     *)
ReadsInside == (pc = "loop" /\ left > 0 /\ whole) => buf + BlockSize <= Size

(* What makes them inductive: left counts what buf has not passed, and buf *)
(* stands at the start of a block as long as no transfer was short.        *)
IInv ==
    /\ TypeOK
    /\ buf + left = Size
    /\ PrefixOnWire
    /\ pc = "done" => left = 0
    /\ whole => \E n \in 0..Blocks : buf = n * BlockSize

--------------------------------------------------------------------------------
(* The loop implements the transfers of LuxeedDevice, where each takes one *)
(* chunk of the message: a chunk counts when the last of its bytes has     *)
(* arrived, in however many transfers, and a byte is lit as what arrived   *)
(* in its place.                                                           *)

(* The chunk that carries a byte of the message. *)
ChunkOf == [k \in 1..Size |-> (k - 1) \div BlockSize + 1]

(* A chunk as it arrived, and the rest of the message. *)
Arrived(i) == [k \in 1..Size |-> IF ChunkOf[k] = i THEN wire[k] ELSE k]

Dark == [k \in 1..Size |-> 0]

Driver == INSTANCE LuxeedDevice WITH
    Keys <- 1..Size, Colors <- 0..Size, Off <- 0, msg_ff <- Prefix(Size),
    NChunks <- Blocks,
    u_dev <- "live", u_dev_hd <- "live", opening <- FALSE, opened <- TRUE,
    initing <- FALSE, inited <- TRUE, init_count <- 1,
    key_data <- Prefix(Size), key_data_dirty <- TRUE, msg <- Prefix(Size),
    force <- TRUE, kind <- "frame", plugged <- TRUE, calm <- FALSE,
    pc <- IF pc = "failed" THEN "fail" ELSE IF left > 0 THEN "send" ELSE "sent",
    chunk <- buf \div BlockSize,
    rx <- IF Len(wire) < Size THEN [i \in 1..Len(wire) \div BlockSize |-> Arrived(i)] ELSE <<>>,
    leds <- IF Len(wire) < Size THEN Dark ELSE wire,
    dark <- Len(wire) < Size

SendBegins == pc = "loop" /\ left > 0 /\ buf = 0 /\ wire = <<>>

(* A call of luxeed_send_chunked, with all its short and empty transfers,  *)
(* is a sequence of transfers of the driver, the last of which may fail:   *)
(* none is skipped, repeated, or takes bytes of another chunk.             *)
SendsAsDriver ==
    SendBegins /\ [][Driver!Transfer \/ Driver!TransferFails]_(Driver!vars)

--------------------------------------------------------------------------------
(* Liveness *)

(* The call ends, and every client that waits for the thread is served. *)
Ends == <>(pc # "loop")
================================================================================
