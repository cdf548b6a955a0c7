---------------------------- MODULE LuxeedSendProofs ----------------------------
(***************************************************************************)
(* Proofs about luxeed_send_chunked for every size of a block and every    *)
(* number of blocks of a message.                                          *)
(***************************************************************************)
EXTENDS LuxeedSend, SequenceTheorems, TLAPS

--------------------------------------------------------------------------------
(* Arithmetic and sequences *)

(* The size of a message is a number. *)
LEMMA SizeType == Size \in Nat /\ BlockSize \in Nat /\ BlockSize > 0
BY BlockAssumption DEF Size

(* A block before the last one leaves room for another. *)
LEMMA BlockFits ==
    ASSUME NEW n \in 0..Blocks, n * BlockSize < Size
    PROVE  /\ n + 1 \in 0..Blocks
           /\ (n + 1) * BlockSize = n * BlockSize + BlockSize
           /\ n * BlockSize + BlockSize <= Size
<1>1. n \in Nat /\ Blocks \in Nat /\ BlockSize \in Nat
  BY BlockAssumption
<1>2. n # Blocks
  BY <1>1 DEF Size
<1>3. n + 1 <= Blocks
  BY <1>1, <1>2
<1>4. (n + 1) * BlockSize = n * BlockSize + BlockSize
  BY <1>1
<1>5. PICK m \in Nat : Blocks = (n + 1) + m
  <2>1. Blocks - (n + 1) \in Nat /\ Blocks = (n + 1) + (Blocks - (n + 1))
    BY <1>1, <1>3
  <2> QED
    BY <2>1
<1>6. Blocks * BlockSize = (n + 1) * BlockSize + m * BlockSize
  BY <1>1, <1>5
<1>7. m * BlockSize \in Nat /\ (n + 1) * BlockSize \in Nat
  BY <1>1
<1> QED
  BY <1>1, <1>3, <1>4, <1>6, <1>7 DEF Size

(* The first bytes and the next ones are the first bytes again. *)
LEMMA PrefixGrows ==
    ASSUME NEW a \in Nat, NEW n \in Nat
    PROVE  /\ Prefix(a) \in Seq(Nat)
           /\ Len(Prefix(a)) = a
           /\ Prefix(a) \o [i \in 1..n |-> a + i] = Prefix(a + n)
<1> DEFINE more == [i \in 1..n |-> a + i]
<1>1. Prefix(a) \in Seq(Nat) /\ Len(Prefix(a)) = a
  BY DEF Prefix
<1>2. more \in Seq(Nat) /\ Len(more) = n
  OBVIOUS
<1>3. Prefix(a + n) \in Seq(Nat) /\ Len(Prefix(a + n)) = a + n
  BY DEF Prefix
<1>4. /\ Prefix(a) \o more \in Seq(Nat)
      /\ Len(Prefix(a) \o more) = a + n
      /\ \A i \in 1..(a + n) :
           (Prefix(a) \o more)[i] = IF i <= a THEN Prefix(a)[i] ELSE more[i - a]
  BY <1>1, <1>2
<1>5. ASSUME NEW i \in 1..(a + n)
      PROVE  (Prefix(a) \o more)[i] = Prefix(a + n)[i]
  <2>1. Prefix(a + n)[i] = i
    BY DEF Prefix
  <2>2. CASE i <= a
    <3>1. Prefix(a)[i] = i
      BY <2>2 DEF Prefix
    <3> QED
      BY <1>4, <2>1, <2>2, <3>1
  <2>3. CASE ~(i <= a)
    <3>1. i - a \in 1..n
      BY <2>3
    <3>2. more[i - a] = i
      BY <3>1
    <3> QED
      BY <1>4, <2>1, <2>3, <3>2
  <2> QED
    BY <2>2, <2>3
<1>6. Prefix(a) \o more = Prefix(a + n)
  <2> DEFINE both == Prefix(a) \o more
             all == Prefix(a + n)
  <2>1. both \in Seq(Nat) /\ all \in Seq(Nat) /\ Len(both) = Len(all)
    BY <1>3, <1>4
  <2>2. \A i \in 1..Len(both) : both[i] = all[i]
    BY <1>4, <1>5
  <2> HIDE DEF both, all
  <2>3. both = all
    BY <2>1, <2>2, SeqEqual
  <2> QED
    BY <2>3 DEF both, all
<1> QED
  BY <1>1, <1>6

(* A chunk with data holds some, and no more than is left. *)
LEMMA ChunkType ==
    ASSUME TypeOK, left > 0
    PROVE  ChunkData \in Nat /\ 1 <= ChunkData /\ ChunkData <= left /\ ChunkData <= BlockSize
BY SizeType DEF ChunkData, TypeOK
--------------------------------------------------------------------------------
(* The inductive invariant *)

(* What the keyboard has after one more delivery, of the loop or of a      *)
(* transfer that fails.                                                    *)
LEMMA DeliverGrows ==
    ASSUME IInv, pc = "loop", NEW n \in Nat, n <= left, Deliver(n)
    PROVE  /\ wire' = Prefix(buf + n)
           /\ wire' \in Seq(Nat)
           /\ Len(wire') = buf + n
           /\ buf + n <= Size
<1>1. buf \in Nat /\ left \in Nat /\ buf + left = Size
  BY SizeType DEF IInv, TypeOK
<1>2. wire = Prefix(buf)
  BY DEF IInv, PrefixOnWire
<1>3. wire' = Prefix(buf + n)
  BY <1>1, <1>2, PrefixGrows DEF Deliver
<1>4. buf + n \in Nat /\ buf + n <= Size
  BY <1>1, SizeType
<1> QED
  BY <1>3, <1>4, PrefixGrows

(* A transfer that succeeds, of any length. *)
LEMMA TransferKeeps ==
    ASSUME IInv, NEW transferred \in 0..(1 + ChunkData), Transfer(transferred)
    PROVE  IInv'
<1>1. /\ pc = "loop" /\ left > 0 /\ pc' = "loop"
      /\ buf \in Nat /\ left \in Nat /\ Size \in Nat /\ buf + left = Size
      /\ ChunkData \in Nat /\ ChunkData <= left
      /\ whole \in BOOLEAN
  BY SizeType, ChunkType DEF Transfer, IInv, TypeOK
<1>2. CASE transferred = 0
  <2>1. UNCHANGED <<pc, buf, left, wire>> /\ whole' = FALSE
    <3>1. transferred # 1 + ChunkData
      BY <1>1, <1>2
    <3>2. whole' = FALSE
      BY <3>1, Zenon DEF Transfer
    <3>3. UNCHANGED <<pc, buf, left, wire>>
      BY <1>2 DEF Transfer, Advance
    <3> QED
      BY <3>2, <3>3
  <2>2. TypeOK'
    BY <2>1 DEF IInv, TypeOK
  <2> QED
    BY <2>1, <2>2, <1>1 DEF IInv, PrefixOnWire
<1>3. CASE transferred > 0
  <2> DEFINE n == transferred - 1
  <2>1. n \in Nat /\ n <= left
    BY <1>1, <1>3
  <2>2. Deliver(n) /\ buf' = buf + n /\ left' = left - n
    BY <1>3 DEF Transfer, Advance
  <2>3. whole' => whole /\ n = ChunkData
    <3>1. whole' => whole /\ transferred = 1 + ChunkData
      BY Zenon DEF Transfer
    <3>2. transferred = 1 + ChunkData => n = ChunkData
      BY <1>1
    <3> QED
      BY <3>1, <3>2
  <2> HIDE DEF n
  <2>4. /\ wire' = Prefix(buf') /\ wire' \in Seq(Nat)
        /\ Len(wire') = buf' /\ buf' <= Size
    BY <1>1, <2>1, <2>2, DeliverGrows
  <2>5. buf' \in 0..Size /\ left' \in 0..Size /\ buf' + left' = Size
    BY <1>1, <2>1, <2>2, <2>4
  <2>6. whole' \in BOOLEAN
    BY DEF Transfer
  <2>7. TypeOK'
    BY <1>1, <2>4, <2>5, <2>6 DEF TypeOK
  <2>8. PrefixOnWire'
    <3>1. Size' = Size
      BY DEF Size
    <3> QED
      BY <2>4, <3>1 DEF PrefixOnWire, Prefix
  <2>9. ASSUME whole'
        PROVE  \E k \in 0..Blocks : buf' = k * BlockSize
    <3>1. PICK k \in 0..Blocks : buf = k * BlockSize
      BY <2>3, <2>9 DEF IInv
    <3>2. k * BlockSize < Size
      BY <1>1, <3>1
    <3>3. /\ k + 1 \in 0..Blocks
          /\ (k + 1) * BlockSize = buf + BlockSize
          /\ buf + BlockSize <= Size
      BY <3>1, <3>2, BlockFits
    <3>4. BlockSize <= left
      BY <1>1, <3>3, SizeType
    <3>5. ChunkData = BlockSize
      BY <1>1, <3>4, SizeType DEF ChunkData
    <3>6. buf' = (k + 1) * BlockSize
      BY <2>2, <2>3, <2>9, <3>3, <3>5
    <3> QED
      BY <3>3, <3>6
  <2> QED
    BY <1>1, <2>5, <2>7, <2>8, <2>9 DEF IInv, Size
<1> QED
  BY <1>1, <1>2, <1>3

(* A transfer that fails, of any length. *)
LEMMA FailureKeeps ==
    ASSUME IInv, NEW transferred \in 0..(1 + ChunkData), TransferFails(transferred)
    PROVE  IInv'
<1>1. /\ pc = "loop" /\ left > 0 /\ pc' = "failed"
      /\ UNCHANGED <<buf, left, whole>>
      /\ ChunkData \in Nat /\ ChunkData <= left /\ left \in Nat
  BY SizeType, ChunkType DEF TransferFails, IInv, TypeOK
<1>2. wire' \in Seq(Nat) /\ wire' = Prefix(Len(wire')) /\ Len(wire') <= Size
  <2>1. CASE transferred = 0
    BY <2>1 DEF TransferFails, IInv, TypeOK, PrefixOnWire
  <2>2. CASE transferred > 0
    <3>1. transferred - 1 \in Nat /\ transferred - 1 <= left
      BY <1>1, <2>2
    <3>2. Deliver(transferred - 1)
      BY <2>2 DEF TransferFails
    <3> QED
      BY <1>1, <3>1, <3>2, DeliverGrows
  <2> QED
    BY <1>1, <2>1, <2>2
<1>3. TypeOK'
  BY <1>1, <1>2 DEF IInv, TypeOK, Size
<1>4. PrefixOnWire'
  BY <1>1, <1>2 DEF PrefixOnWire, Prefix, Size
<1> QED
  BY <1>1, <1>3, <1>4 DEF IInv, Size

(* The loop ends with nothing left. *)
LEMMA ReturnKeeps ==
    ASSUME IInv, Return
    PROVE  IInv'
<1>1. /\ pc = "loop" /\ ~(left > 0) /\ pc' = "done"
      /\ UNCHANGED <<buf, left, wire, whole>>
  BY DEF Return
<1>2. left = 0
  BY <1>1, SizeType DEF IInv, TypeOK
<1>3. TypeOK'
  BY <1>1 DEF IInv, TypeOK, Size
<1>4. PrefixOnWire'
  BY <1>1 DEF IInv, PrefixOnWire, Prefix, Size
<1> QED
  BY <1>1, <1>2, <1>3, <1>4 DEF IInv, Size

--------------------------------------------------------------------------------
(* The theorems *)

(* Whatever libusb transfers, the loop counts right. *)
THEOREM SendInvariance == Spec => []IInv
<1>1. Init => IInv
  <2> SUFFICES ASSUME Init PROVE IInv
    OBVIOUS
  <2>1. pc = "loop" /\ buf = 0 /\ left = Size /\ wire = <<>> /\ whole = TRUE
    BY DEF Init
  <2>2. <<>> \in Seq(Nat) /\ Len(<<>>) = 0 /\ <<>> = Prefix(0)
    BY DEF Prefix
  <2>3. TypeOK
    BY <2>1, <2>2, SizeType DEF TypeOK
  <2>4. PrefixOnWire
    BY <2>1, <2>2, SizeType DEF PrefixOnWire
  <2>5. 0 \in 0..Blocks /\ 0 = 0 * BlockSize
    BY BlockAssumption
  <2> QED
    BY <2>1, <2>3, <2>4, <2>5, SizeType DEF IInv
<1>2. IInv /\ [Next]_vars => IInv'
  <2> SUFFICES ASSUME IInv, [Next]_vars PROVE IInv'
    OBVIOUS
  <2>1. CASE UNCHANGED vars
    BY <2>1 DEF vars, IInv, TypeOK, PrefixOnWire, Prefix, Size
  <2> QED
    BY <2>1, TransferKeeps, FailureKeeps, ReturnKeeps DEF Next
<1> QED
  BY <1>1, <1>2, PTL DEF Spec

(* The keyboard receives the bytes of the message once, in order, and no   *)
(* byte behind it, wherever the transfers are cut.                         *)
THEOREM PrefixReceived == Spec => []PrefixOnWire
<1>1. IInv => PrefixOnWire
  BY DEF IInv
<1> QED
  BY <1>1, SendInvariance, PTL

(* A send that succeeds has sent the message. *)
THEOREM SuccessIsDelivery == Spec => []DoneMeansSent
<1>1. IInv => DoneMeansSent
  <2> SUFFICES ASSUME IInv, pc = "done" PROVE wire = Prefix(Size)
    BY DEF DoneMeansSent
  <2>1. buf = Size
    BY SizeType DEF IInv, TypeOK
  <2> QED
    BY <2>1 DEF IInv, PrefixOnWire
<1> QED
  BY <1>1, SendInvariance, PTL

(* Without short transfers the copies of whole blocks stay inside the      *)
(* message, because its size is a number of blocks.                        *)
THEOREM CopiesInside == Spec => []ReadsInside
<1>1. IInv => ReadsInside
  <2> SUFFICES ASSUME IInv, left > 0, whole PROVE buf + BlockSize <= Size
    BY DEF ReadsInside
  <2>1. PICK k \in 0..Blocks : buf = k * BlockSize
    BY DEF IInv
  <2>2. buf < Size
    BY SizeType DEF IInv, TypeOK
  <2> QED
    BY <2>1, <2>2, BlockFits
<1> QED
  BY <1>1, SendInvariance, PTL

(* The position in the message and what is left of it stay within it. *)
THEOREM SendTypeCorrect == Spec => []TypeOK
<1>1. IInv => TypeOK
  BY DEF IInv
<1> QED
  BY <1>1, SendInvariance, PTL

--------------------------------------------------------------------------------
(* The loop implements the transfers of LuxeedDevice. *)

(* The chunks that bytes fill: with a chunk's bytes at most, one more. *)
LEMMA ChunksFill ==
    ASSUME NEW a \in 0..Size
    PROVE  /\ a \div BlockSize \in 0..Blocks
           /\ a < Size <=> a \div BlockSize < Blocks
           /\ \A n \in 0..BlockSize :
                 (a + n) \div BlockSize \in {a \div BlockSize, a \div BlockSize + 1}
<1>1. BlockSize \in Nat \ {0} /\ Blocks \in Nat \ {0} /\ a \in Nat /\ Size = Blocks * BlockSize
  BY SizeType, BlockAssumption DEF Size
<1> DEFINE q == a \div BlockSize
<1>2. q \in Nat /\ q * BlockSize <= a /\ a < q * BlockSize + BlockSize
  BY <1>1
<1> HIDE DEF q
<1>3. a < Size => q < Blocks
  <2>1. Blocks <= q => Blocks * BlockSize <= q * BlockSize
    BY <1>1, <1>2
  <2> QED BY <1>1, <1>2, <2>1
<1>4. q < Blocks => a < Size
  <2>1. q < Blocks => q * BlockSize + BlockSize <= Blocks * BlockSize
    BY <1>1, <1>2
  <2> QED BY <1>1, <1>2, <2>1
<1>5. q <= Blocks
  <2>1. Blocks < q => Blocks * BlockSize + BlockSize <= q * BlockSize
    BY <1>1, <1>2
  <2> QED BY <1>1, <1>2, <2>1
<1>6. ASSUME NEW n \in 0..BlockSize
      PROVE  (a + n) \div BlockSize \in {q, q + 1}
  <2> DEFINE p == (a + n) \div BlockSize
  <2>1. p \in Nat /\ p * BlockSize <= a + n /\ a + n < p * BlockSize + BlockSize
    BY <1>1
  <2> HIDE DEF p
  <2>2. p < q => p * BlockSize + BlockSize <= q * BlockSize
    BY <1>1, <1>2, <2>1
  <2>3. q + 1 < p => (q + 2) * BlockSize <= p * BlockSize
    BY <1>1, <1>2, <2>1
  <2>4. (q + 2) * BlockSize = q * BlockSize + BlockSize + BlockSize
    BY <1>1, <1>2
  <2>5. ~(p < q) /\ ~(q + 1 < p)
    BY <1>1, <1>2, <2>1, <2>2, <2>3, <2>4
  <2> QED BY <1>2, <2>1, <2>5 DEF p
<1> QED BY <1>1, <1>2, <1>3, <1>4, <1>5, <1>6 DEF q

(* A byte of a chunk that is filled has arrived. *)
LEMMA FilledChunks ==
    ASSUME NEW a \in 0..Size, NEW k \in 1..Size, ChunkOf[k] <= a \div BlockSize
    PROVE  k <= a
<1>1. BlockSize \in Nat \ {0} /\ Size \in Nat /\ k - 1 \in Nat /\ a \in Nat
  BY SizeType, BlockAssumption
<1> DEFINE q == a \div BlockSize
           p == (k - 1) \div BlockSize
<1>2. q \in Nat /\ q * BlockSize <= a
  BY <1>1
<1>3. p \in Nat /\ k - 1 < p * BlockSize + BlockSize
  BY <1>1
<1>4. ChunkOf[k] = p + 1
  BY DEF ChunkOf
<1> HIDE DEF q, p
<1>5. p + 1 <= q
  BY <1>4 DEF q
<1>6. p * BlockSize + BlockSize <= q * BlockSize
  BY <1>1, <1>2, <1>3, <1>5
<1> QED BY <1>1, <1>2, <1>3, <1>6

(* The chunks that the first bytes of the message fill are its chunks. *)
LEMMA ChunksArrive ==
    ASSUME NEW a \in 0..Size, NEW i \in 1..(a \div BlockSize)
    PROVE  [k \in 1..Size |-> IF ChunkOf[k] = i THEN Prefix(a)[k] ELSE k] = Prefix(Size)
<1>1. ASSUME NEW k \in 1..Size, ChunkOf[k] = i
      PROVE  Prefix(a)[k] = k
  <2>1. a \div BlockSize \in Nat
    BY ChunksFill
  <2>2. k <= a
    BY <1>1, <2>1, FilledChunks
  <2> QED BY <2>2 DEF Prefix
<1> QED BY <1>1 DEF Prefix

(* Every byte is in a chunk. *)
LEMMA ChunkOfType == ChunkOf \in [1..Size -> 1..Blocks]
<1>1. ASSUME NEW k \in 1..Size PROVE (k - 1) \div BlockSize + 1 \in 1..Blocks
  <2>1. k - 1 \in 0..Size /\ k - 1 < Size /\ Blocks \in Nat
    BY SizeType, BlockAssumption
  <2>2. (k - 1) \div BlockSize \in 0..Blocks /\ (k - 1) \div BlockSize < Blocks
    BY <2>1, ChunksFill
  <2> QED BY <2>1, <2>2
<1> QED BY <1>1 DEF ChunkOf

(* What the keyboard of the driver has of the message, once the first a    *)
(* bytes of it have arrived.                                               *)
Chunks(c) == [i \in 1..c |-> Prefix(Size)]

LEMMA ChunksHeld ==
    ASSUME NEW w, NEW a \in 0..Size, w = Prefix(a)
    PROVE  /\ Len(w) = a
           /\ [i \in 1..Len(w) \div BlockSize |->
                  [k \in 1..Size |-> IF ChunkOf[k] = i THEN w[k] ELSE k]] = Chunks(a \div BlockSize)
<1>1. Len(w) = a
  BY PrefixGrows, SizeType
<1>2. \A i \in 1..(a \div BlockSize) :
         [k \in 1..Size |-> IF ChunkOf[k] = i THEN w[k] ELSE k] = Prefix(Size)
  BY ChunksArrive
<1> QED BY <1>1, <1>2, Zenon DEF Chunks

(* One chunk more, and the last one makes the message. *)
LEMMA ChunkAppended ==
    ASSUME NEW c \in 0..(Blocks - 1)
    PROVE  /\ Append(Chunks(c), Prefix(Size)) = Chunks(c + 1)
           /\ Len(Chunks(c + 1)) = c + 1
           /\ c + 1 = Blocks => [k \in 1..Size |-> Chunks(c + 1)[ChunkOf[k]][k]] = Prefix(Size)
<1> DEFINE m == Prefix(Size)
<1>1. c \in Nat /\ Blocks \in Nat
  BY BlockAssumption
<1>2. Append([i \in 1..c |-> m], m) = [i \in 1..c + 1 |-> m]
  <2> HIDE DEF m
  <2> QED BY <1>1
<1>3. Len([i \in 1..c + 1 |-> m]) = c + 1
  <2> HIDE DEF m
  <2> QED BY <1>1
<1>4. ASSUME c + 1 = Blocks, NEW k \in 1..Size PROVE Chunks(c + 1)[ChunkOf[k]][k] = k
  <2>1. ChunkOf[k] \in 1..c + 1
    BY <1>4, ChunkOfType
  <2>2. Chunks(c + 1)[ChunkOf[k]] = m
    BY <2>1, Zenon DEF Chunks
  <2> QED BY <2>2 DEF Prefix
<1> QED BY <1>2, <1>3, <1>4 DEF Chunks, Prefix

(* Bytes that fill no chunk: nothing the driver knows of. *)
LEMMA NothingReceived ==
    ASSUME NEW a \in 0..Size, NEW b \in 0..Size, wire = Prefix(a), wire' = Prefix(b),
           a \div BlockSize = b \div BlockSize, a < Size
    PROVE  UNCHANGED Driver!kbd
<1>1. /\ Len(wire) = a
      /\ [i \in 1..Len(wire) \div BlockSize |->
             [k \in 1..Size |-> IF ChunkOf[k] = i THEN wire[k] ELSE k]] = Chunks(a \div BlockSize)
  BY ChunksHeld
<1>2. /\ Len(wire') = b
      /\ [i \in 1..Len(wire') \div BlockSize |->
             [k \in 1..Size |-> IF ChunkOf[k] = i THEN wire'[k] ELSE k]] = Chunks(b \div BlockSize)
  BY ChunksHeld
<1>3. b < Size
  BY ChunksFill
<1>4. UNCHANGED <<Size, ChunkOf, Dark, Blocks, BlockSize>>
  BY DEF Size, ChunkOf, Dark
<1> QED BY <1>1, <1>2, <1>3, <1>4 DEF Driver!kbd, Arrived

(* Bytes that fill one: a transfer. *)
LEMMA ChunkReceived ==
    ASSUME NEW a \in 0..Size, NEW b \in 0..Size, wire = Prefix(a), wire' = Prefix(b),
           b \div BlockSize = a \div BlockSize + 1
    PROVE  Driver!Receive
<1> DEFINE c == a \div BlockSize
<1>1. a < Size /\ c \in 0..(Blocks - 1) /\ b \div BlockSize = c + 1
      /\ (b < Size <=> c + 1 < Blocks) /\ c + 1 <= Blocks /\ b <= Size
  <2>1. /\ c \in 0..Blocks /\ b \div BlockSize \in 0..Blocks
        /\ (a < Size <=> c < Blocks)
        /\ (b < Size <=> b \div BlockSize < Blocks)
    BY ChunksFill
  <2>2. Blocks \in Nat /\ b \div BlockSize = c + 1 /\ b <= Size
    BY SizeType, BlockAssumption
  <2> HIDE DEF c
  <2> QED BY <2>1, <2>2
<1> HIDE DEF c
<1>2. /\ Len(wire) = a
      /\ [i \in 1..Len(wire) \div BlockSize |-> Arrived(i)] = Chunks(c)
  BY ChunksHeld DEF Arrived, c
<1>3. /\ Len(wire') = b
      /\ [i \in 1..Len(wire') \div BlockSize |->
             [k \in 1..Size |-> IF ChunkOf[k] = i THEN wire'[k] ELSE k]] = Chunks(c + 1)
  BY <1>1, ChunksHeld
<1>4. /\ Append(Chunks(c), Prefix(Size)) = Chunks(c + 1)
      /\ Len(Chunks(c + 1)) = c + 1
      /\ c + 1 = Blocks => [k \in 1..Size |-> Chunks(c + 1)[ChunkOf[k]][k]] = Prefix(Size)
  BY <1>1, ChunkAppended
<1>5. UNCHANGED <<Size, ChunkOf, Dark, Blocks, BlockSize>>
  BY DEF Size, ChunkOf, Dark
<1>6. Append(IF Len(wire) < Size THEN [i \in 1..Len(wire) \div BlockSize |-> Arrived(i)]
             ELSE <<>>, Prefix(Size)) = Chunks(c + 1)
  BY <1>1, <1>2, <1>4, Zenon
<1>7. CASE c + 1 < Blocks
  <2>1. b < Size
    BY <1>1, <1>7
  <2>2. (IF Len(wire) < Size THEN [i \in 1..Len(wire) \div BlockSize |-> Arrived(i)]
         ELSE <<>>)' = Chunks(c + 1)
    BY <1>3, <1>5, <2>1, Zenon DEF Arrived
  <2>3. UNCHANGED <<IF Len(wire) < Size THEN Dark ELSE wire, Len(wire) < Size>>
    BY <1>1, <1>2, <1>3, <1>5, <2>1
  <2>4. Len(Chunks(c + 1)) < Blocks
    BY <1>4, <1>7, Zenon
  <2> QED BY <1>6, <2>2, <2>3, <2>4, Zenon DEF Driver!Receive
<1>8. CASE c + 1 = Blocks
  <2>1. b = Size /\ ~(b < Size)
    BY <1>1, <1>8, SizeType
  <2>2. (IF Len(wire) < Size THEN [i \in 1..Len(wire) \div BlockSize |-> Arrived(i)]
         ELSE <<>>)' = <<>>
    BY <1>3, <1>5, <2>1
  <2>3. (IF Len(wire) < Size THEN Dark ELSE wire)' = Prefix(Size) /\ (Len(wire) < Size)' = FALSE
    BY <1>3, <1>5, <2>1
  <2>4. ~(Len(Chunks(c + 1)) < Blocks)
    BY <1>4, <1>8, BlockAssumption
  <2> QED BY <1>4, <1>6, <1>8, <2>2, <2>3, <2>4, Zenon DEF Driver!Receive
<1> QED BY <1>1, <1>7, <1>8, BlockAssumption

(* A transfer that succeeds ends a chunk or does not show. *)
LEMMA TransferIsDriver ==
    ASSUME IInv, NEW transferred \in 0..(1 + ChunkData), Transfer(transferred)
    PROVE  Driver!Transfer \/ UNCHANGED Driver!vars
<1>1. /\ pc = "loop" /\ left > 0 /\ pc' = "loop"
      /\ buf \in Nat /\ left \in Nat /\ Size \in Nat /\ buf + left = Size /\ wire = Prefix(buf)
      /\ ChunkData \in Nat /\ ChunkData <= left /\ ChunkData <= BlockSize
      /\ BlockSize \in Nat /\ Blocks \in Nat
  BY SizeType, ChunkType, BlockAssumption DEF Transfer, IInv, TypeOK, PrefixOnWire
<1>2. UNCHANGED <<Size, ChunkOf, Dark, Prefix(Size), Blocks, BlockSize>>
  BY DEF Size, ChunkOf, Dark, Prefix
<1>3. CASE transferred = 0
  <2>1. UNCHANGED <<pc, buf, left, wire>>
    BY <1>3 DEF Transfer, Advance
  <2> QED BY <1>2, <2>1 DEF Driver!vars, Driver!flags, Driver!data, Driver!send, Driver!kbd, Arrived
<1>4. CASE transferred > 0
  <2>1. PICK n \in 0..BlockSize : /\ n <= left /\ Deliver(n)
                                  /\ buf' = buf + n /\ left' = left - n
    <3>1. transferred - 1 \in 0..BlockSize /\ transferred - 1 <= left
      BY <1>1, <1>4
    <3>2. Deliver(transferred - 1) /\ buf' = buf + (transferred - 1)
          /\ left' = left - (transferred - 1)
      BY <1>4 DEF Transfer, Advance
    <3> QED BY <3>1, <3>2
  <2>2. wire' = Prefix(buf') /\ buf \in 0..Size /\ buf' \in 0..Size /\ buf < Size
        /\ (left' > 0 <=> buf' < Size)
    BY <1>1, <2>1, DeliverGrows
  <2>3. /\ buf \div BlockSize \in Nat /\ buf' \div BlockSize \in {buf \div BlockSize, buf \div BlockSize + 1}
        /\ (buf' < Size <=> buf' \div BlockSize < Blocks)
    BY <2>1, <2>2, ChunksFill
  <2>4. CASE buf' \div BlockSize = buf \div BlockSize
    <3>1. buf' < Size
      BY <2>2, <2>4, ChunksFill
    <3>2. UNCHANGED Driver!kbd
      BY <1>1, <2>2, <2>4, NothingReceived
    <3> QED BY <1>1, <1>2, <2>2, <2>4, <3>1, <3>2
         DEF Driver!vars, Driver!flags, Driver!data, Driver!send
  <2>5. CASE buf' \div BlockSize = buf \div BlockSize + 1
    <3>1. Driver!Receive
      BY <1>1, <2>2, <2>5, ChunkReceived
    <3> QED BY <1>1, <1>2, <2>2, <2>3, <2>5, <3>1
         DEF Driver!Transfer, Driver!flags, Driver!data
  <2> QED BY <2>3, <2>4, <2>5
<1> QED BY <1>3, <1>4

(* One that fails may have ended a chunk all the same. *)
LEMMA FailureIsDriver ==
    ASSUME IInv, NEW transferred \in 0..(1 + ChunkData), TransferFails(transferred)
    PROVE  Driver!TransferFails
<1>1. /\ pc = "loop" /\ left > 0 /\ pc' = "failed"
      /\ UNCHANGED <<buf, left>>
      /\ buf \in Nat /\ left \in Nat /\ Size \in Nat /\ buf + left = Size /\ wire = Prefix(buf)
      /\ ChunkData \in Nat /\ ChunkData <= left /\ ChunkData <= BlockSize
      /\ BlockSize \in Nat /\ Blocks \in Nat
  BY SizeType, ChunkType, BlockAssumption DEF TransferFails, IInv, TypeOK, PrefixOnWire
<1>2. UNCHANGED <<Size, ChunkOf, Dark, Prefix(Size), Blocks, BlockSize>>
  BY DEF Size, ChunkOf, Dark, Prefix
<1>3. Driver!Receive \/ UNCHANGED Driver!kbd
  <2>1. PICK n \in 0..BlockSize : n <= left /\ wire' = Prefix(buf + n)
    <3>1. CASE transferred = 0
      <4>1. wire' = Prefix(buf + 0) /\ 0 \in 0..BlockSize /\ 0 <= left
        BY <1>1, <3>1 DEF TransferFails
      <4> QED BY <4>1
    <3>2. CASE transferred > 0
      <4>1. transferred - 1 \in 0..BlockSize /\ transferred - 1 <= left
        BY <1>1, <3>2
      <4>2. Deliver(transferred - 1)
        BY <3>2 DEF TransferFails
      <4>3. wire' = Prefix(buf + (transferred - 1))
        BY <1>1, <4>1, <4>2, DeliverGrows
      <4> QED BY <4>1, <4>3
    <3> QED BY <3>1, <3>2
  <2>2. buf \in 0..Size /\ buf + n \in 0..Size /\ buf < Size
    BY <1>1, <2>1
  <2>3. (buf + n) \div BlockSize \in {buf \div BlockSize, buf \div BlockSize + 1}
    BY <2>1, <2>2, ChunksFill
  <2> DEFINE a == buf
             b == buf + n
  <2>4. wire = Prefix(a) /\ wire' = Prefix(b) /\ a \in 0..Size /\ b \in 0..Size /\ a < Size
    BY <1>1, <2>1, <2>2
  <2> HIDE DEF a, b
  <2>5. CASE a \div BlockSize = b \div BlockSize
    BY <2>4, <2>5, NothingReceived
  <2>6. CASE b \div BlockSize = a \div BlockSize + 1
    BY <2>4, <2>6, ChunkReceived
  <2> QED BY <2>3, <2>5, <2>6 DEF a, b
<1> QED BY <1>1, <1>2, <1>3 DEF Driver!TransferFails, Driver!flags, Driver!data, Driver!send, Driver!kbd

(* The loop, with whatever transfers, does what the driver's specification *)
(* says of a message: it takes its chunks one by one, and the message is   *)
(* shown when the last one is there.                                       *)
THEOREM LoopIsTransfers == Spec => SendsAsDriver
<1>1. Init => SendBegins
  BY SizeType, BlockAssumption DEF Init, SendBegins, Size
<1>2. IInv /\ [Next]_vars => [Driver!Transfer \/ Driver!TransferFails]_(Driver!vars)
  <2> SUFFICES ASSUME IInv, [Next]_vars
               PROVE  Driver!Transfer \/ Driver!TransferFails \/ UNCHANGED Driver!vars
    OBVIOUS
  <2>1. UNCHANGED <<Size, ChunkOf, Dark, Prefix(Size), Blocks, BlockSize>>
    BY DEF Size, ChunkOf, Dark, Prefix
  <2>2. CASE Return \/ UNCHANGED vars
    <3>1. UNCHANGED <<buf, left, wire>> /\ (pc' = "failed" <=> pc = "failed")
      BY <2>2 DEF Return, vars
    <3> QED BY <2>1, <3>1 DEF Driver!vars, Driver!flags, Driver!data, Driver!send, Driver!kbd, Arrived
  <2> QED BY <2>2, TransferIsDriver, FailureIsDriver DEF Next
<1> QED BY <1>1, <1>2, SendInvariance, PTL DEF Spec, SendsAsDriver
================================================================================
