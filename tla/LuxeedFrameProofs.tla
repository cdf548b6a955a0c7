---------------------------- MODULE LuxeedFrameProofs ----------------------------
(***************************************************************************)
(* Proofs about the bytes of a message for every content of key_data,      *)
(* every key and every colour.  That what is sent verifies follows from    *)
(* which bytes are written after the sum was taken.  That the asserts hold *)
(* needs the sum itself: the second part shows that Total is defined, adds *)
(* up the rows of both templates, and finds what the source wrote there.   *)
(* The third part follows the light of a key from its byte in key_data to  *)
(* its byte in the message.                                                *)
(***************************************************************************)
EXTENDS LuxeedFrame, TLAPS, WellFoundedInduction

(* A buffer has a byte at each index, whatever it is. *)
IsBuffer(buf) == buf = [i \in Index |-> buf[i]]

(* The place of the checksum does not count. *)
LEMMA ChecksumStable ==
    ASSUME NEW buf, NEW b, IsBuffer(buf)
    PROVE  Checksum([buf EXCEPT ![chksum_i] = b]) = Checksum(buf)
<1>1. [[buf EXCEPT ![chksum_i] = b] EXCEPT ![chksum_i] = 0] = [buf EXCEPT ![chksum_i] = 0]
  BY DEF IsBuffer
<1> QED
  BY <1>1 DEF Checksum

(* The place of the checksum is one. *)
LEMMA ChecksumIndex == chksum_i \in Index /\ chksum_i - 1 \in Index
BY DEF chksum_i, Index, MsgSize

(* A self-test message that was checked verifies. *)
LEMMA CheckedVerifies ==
    ASSUME NEW buf, IsBuffer(buf)
    PROVE  /\ IsBuffer(Checked(buf))
           /\ Checked(buf)[chksum_i] = Checksum(Checked(buf))
<1>1. IsBuffer(Checked(buf))
  BY DEF IsBuffer, Checked
<1>2. Checked(buf)[chksum_i] = Checksum(buf)
  BY ChecksumIndex DEF IsBuffer, Checked
<1>3. Checksum(Checked(buf)) = Checksum(buf)
  BY ChecksumStable DEF Checked
<1> QED
  BY <1>1, <1>2, <1>3

(* The byte before the checksum is zero already, and no key's: clearing it *)
(* after the sum was taken changes nothing.                                *)
LEMMA ClearedAlready ==
    ASSUME NEW data
    PROVE  /\ IsBuffer(Compose(data))
           /\ Compose(data)[chksum_i - 1] = 0
<1>1. IsBuffer(Compose(data))
  BY DEF IsBuffer, Compose
<1>2. msg_xx[chksum_i - 1] = 0
  BY DEF msg_xx, Template, LitKeys, chksum_i, Index, MsgSize
<1>3. chksum_i - 1 \notin KeyStart..(KeyEnd - 1)
  BY DEF chksum_i, KeyStart, KeyEnd, NumOfKeys
<1>4. Compose(data)[chksum_i - 1] = 0
  BY <1>2, <1>3, ChecksumIndex DEF Compose
<1> QED
  BY <1>1, <1>4

(* So a frame is checked like any other message. *)
LEMMA FrameIsChecked ==
    ASSUME NEW data
    PROVE  CheckedFrame(Compose(data)) = Checked(Compose(data))
<1> DEFINE buf == Compose(data)
<1>1. IsBuffer(buf) /\ buf[chksum_i - 1] = 0
  BY ClearedAlready
<1>2. chksum_i # chksum_i - 1
  BY DEF chksum_i
<1> HIDE DEF buf
<1>3. \A s : [buf EXCEPT ![chksum_i] = s, ![chksum_i - 1] = 0] = [buf EXCEPT ![chksum_i] = s]
  BY <1>1, <1>2, ChecksumIndex DEF IsBuffer
<1>4. CheckedFrame(buf) = Checked(buf)
  BY <1>3 DEF CheckedFrame, Checked
<1> QED
  BY <1>4 DEF buf

--------------------------------------------------------------------------------
(* What every step keeps: the static buffers are buffers, and the message  *)
(* sent last verifies.                                                     *)
Verified ==
    /\ IsBuffer(ff)
    /\ IsBuffer(zero)
    /\ SentVerifies

(* Every message sent verifies: the self-test however often it was sent,   *)
(* and a frame of any colours, although one byte of it is written after    *)
(* the sum was taken.                                                      *)
THEOREM ChecksumSent == Spec => []SentVerifies
<1>1. Init => Verified
  <2>1. IsBuffer(msg_ff) /\ IsBuffer(msg_00)
    BY DEF IsBuffer, msg_ff, msg_00, Template
  <2> QED
    BY <2>1 DEF Init, Verified, SentVerifies
<1>2. Verified /\ [Next]_vars => Verified'
  <2> SUFFICES ASSUME Verified, [Next]_vars
               PROVE  Verified'
    OBVIOUS
  <2>1. ASSUME NEW key \in KeyIds, NEW rgb \in Rgbs, SetKeyColor(key, rgb)
        PROVE  Verified'
    BY <2>1 DEF SetKeyColor, Verified, IsBuffer, SentVerifies, Checksum, Total
  <2>2. CASE SendFF
    BY <2>2, CheckedVerifies DEF SendFF, Verified, IsBuffer, SentVerifies
  <2>3. CASE Send00
    BY <2>3, CheckedVerifies DEF Send00, Verified, IsBuffer, SentVerifies
  <2>4. CASE SendFrame
    <3>1. IsBuffer(Compose(key_data))
      BY ClearedAlready
    <3>2. sent'[chksum_i] = Checksum(sent')
      BY <2>4, <3>1, FrameIsChecked, CheckedVerifies DEF SendFrame
    <3> QED
      BY <2>4, <3>2 DEF SendFrame, Verified, IsBuffer, SentVerifies
  <2>5. CASE UNCHANGED vars
    BY <2>5 DEF vars, Verified, IsBuffer, SentVerifies
  <2> QED
    BY <2>1, <2>2, <2>3, <2>4, <2>5 DEF Next
<1>3. Verified => SentVerifies
  BY DEF Verified
<1> QED
  BY <1>1, <1>2, <1>3, PTL DEF Spec

--------------------------------------------------------------------------------
(* The sum of a message. *)

(* A set of naturals that has 0, and with each number the next one, has all. *)
LEMMA NatsByStep ==
    ASSUME NEW P, 0 \in P, \A n \in Nat : n \in P => n + 1 \in P
    PROVE  Nat \subseteq P
<1> DEFINE S == Nat \ P
<1> SUFFICES ASSUME S # {} PROVE FALSE
  OBVIOUS
<1>1. PICK m \in S : \A x \in S : <<x, m>> \notin OpToRel(<, Nat)
  BY WFMin, NatLessThanWellFounded, Zenon
<1>2. \A x \in S : ~(x < m)
  BY <1>1 DEF OpToRel
<1>3. m \in Nat /\ m \notin P /\ m # 0
  OBVIOUS
<1>4. m - 1 \in Nat /\ m - 1 < m /\ (m - 1) + 1 = m
  BY <1>3
<1>5. m - 1 \in P
  BY <1>2, <1>4
<1> QED BY <1>3, <1>4, <1>5

(* A recursive function over an interval exists. *)
LEMMA RecursionExists ==
    ASSUME NEW N \in Nat, NEW step \in [(1..N) \X Int -> Int]
    PROVE  \E u \in [0..N -> Int] : u[0] = 0 /\ \A n \in 1..N : u[n] = step[<<n, u[n - 1]>>]
<1> DEFINE Upto(n, u) == u[0] = 0 /\ \A i \in 1..n : u[i] = step[<<i, u[i - 1]>>]
           P == {n \in Nat : n =< N => \E u \in [0..n -> Int] : Upto(n, u)}
<1>1. 0 \in P
  <2> DEFINE u == [i \in 0..0 |-> 0]
  <2>1. u \in [0..0 -> Int] /\ Upto(0, u)
    OBVIOUS
  <2> QED BY <2>1, Zenon
<1>2. ASSUME NEW n \in Nat, n \in P PROVE n + 1 \in P
  <2> SUFFICES ASSUME n + 1 =< N PROVE \E u \in [0..n + 1 -> Int] : Upto(n + 1, u)
    OBVIOUS
  <2>1. n =< N
    OBVIOUS
  <2>2. PICK u \in [0..n -> Int] : Upto(n, u)
    BY <1>2, <2>1
  <2> DEFINE s == step[<<n + 1, u[n]>>]
             v == [i \in 0..n + 1 |-> IF i = n + 1 THEN s ELSE u[i]]
  <2>3. s \in Int
    <3>1. <<n + 1, u[n]>> \in (1..N) \X Int
      BY <2>2
    <3> QED BY <3>1
  <2>4. v \in [0..n + 1 -> Int]
    BY <2>2, <2>3
  <2>5. /\ v[0] = u[0] /\ v[n + 1] = s
        /\ \A i \in 1..n : v[i] = u[i] /\ v[i - 1] = u[i - 1]
        /\ v[(n + 1) - 1] = u[n]
    OBVIOUS
  <2> HIDE DEF v
  <2>6. ASSUME NEW i \in 1..n + 1 PROVE v[i] = step[<<i, v[i - 1]>>]
    <3>1. CASE i = n + 1
      BY <2>5, <3>1
    <3>2. CASE i \in 1..n
      BY <2>2, <2>5, <3>2
    <3> QED BY <3>1, <3>2
  <2> QED BY <2>2, <2>4, <2>5, <2>6
<1> HIDE DEF P
<1>3. N \in P
  BY <1>1, <1>2, NatsByStep
<1> USE DEF P
<1>4. N =< N
  OBVIOUS
<1> QED BY <1>3, <1>4

(* The numbers are those of the code. *)
LEMMA Sizes == MsgSize = 384 /\ MsgSize \div 16 = 24 /\ Index = 0..383 /\ chksum_i = 334
BY DEF MsgSize, Index, chksum_i

(* The sum goes from one byte to the next. *)
LEMMA IndexSteps ==
    ASSUME NEW N \in Nat
    PROVE  /\ \A n \in 1..N : n - 1 \in 0..N - 1 /\ n - 1 \in 0..N
           /\ \A n \in 0..N : n = 0 \/ n \in 1..N
           /\ 0 % 16 = 0
OBVIOUS

(* The bytes of a row. *)
LEMMA RowSteps ==
    ASSUME NEW s \in 0..23
    PROVE  /\ 16 * s \in 0..MsgSize /\ (16 * s) % 16 = 0 /\ 16 * s + 0 = 16 * s
           /\ 16 * (s + 1) - 1 = 16 * s + 15
           /\ \A k \in 0..15 : 16 * s + k \in Index
           /\ \A k \in 1..15 :
                 /\ 16 * s + k \in 0..MsgSize /\ (16 * s + k) - 1 = 16 * s + (k - 1)
                 /\ (16 * s + k) % 16 # 0 /\ k - 1 \in 0..15 /\ k \in 0..15
BY DEF MsgSize, Index

(* A row of a message, and its sum. *)
Row(buf, s) == [k \in 0..15 |-> buf[16 * s + k]]

Sum16(b) ==
    b[0] + b[1] + b[2] + b[3] + b[4] + b[5] + b[6] + b[7]
        + b[8] + b[9] + b[10] + b[11] + b[12] + b[13] + b[14] + b[15]

(* Sums that start at 0 and grow by a byte of a row each. *)
LEMMA RowSummed ==
    ASSUME NEW b \in [0..15 -> Int], NEW g, g[0] = 0,
           \A k \in 1..15 : g[k] = g[k - 1] + b[k - 1]
    PROVE  g[15] + b[15] = Sum16(b) /\ g[15] + b[15] \in Int /\ g[15] \in Int
<1>1. /\ b[0] \in Int /\ b[1] \in Int /\ b[2] \in Int /\ b[3] \in Int
      /\ b[4] \in Int /\ b[5] \in Int /\ b[6] \in Int /\ b[7] \in Int
      /\ b[8] \in Int /\ b[9] \in Int /\ b[10] \in Int /\ b[11] \in Int
      /\ b[12] \in Int /\ b[13] \in Int /\ b[14] \in Int /\ b[15] \in Int
  OBVIOUS
<1>2. \A k \in 1..15 : g[k] = g[k - 1] + b[k - 1]
  OBVIOUS
<1>3. /\ g[1] = g[0] + b[0] /\ g[2] = g[1] + b[1] /\ g[3] = g[2] + b[2]
  BY <1>2
<1>4. /\ g[4] = g[3] + b[3] /\ g[5] = g[4] + b[4] /\ g[6] = g[5] + b[5]
  BY <1>2
<1>5. /\ g[7] = g[6] + b[6] /\ g[8] = g[7] + b[7] /\ g[9] = g[8] + b[8]
  BY <1>2
<1>6. /\ g[10] = g[9] + b[9] /\ g[11] = g[10] + b[10] /\ g[12] = g[11] + b[11]
  BY <1>2
<1>7. /\ g[13] = g[12] + b[12] /\ g[14] = g[13] + b[13] /\ g[15] = g[14] + b[14]
  BY <1>2
<1>8. g[0] = 0
  OBVIOUS
<1>9. g[3] = b[0] + b[1] + b[2]
  BY <1>1, <1>3, <1>8
<1>10. g[6] = b[0] + b[1] + b[2] + b[3] + b[4] + b[5]
  BY <1>1, <1>4, <1>9
<1>11. g[9] = b[0] + b[1] + b[2] + b[3] + b[4] + b[5] + b[6] + b[7] + b[8]
  BY <1>1, <1>5, <1>10
<1>12. g[12] = b[0] + b[1] + b[2] + b[3] + b[4] + b[5] + b[6] + b[7] + b[8] + b[9] + b[10] + b[11]
  BY <1>1, <1>6, <1>11
<1>13. g[15] = b[0] + b[1] + b[2] + b[3] + b[4] + b[5] + b[6] + b[7] + b[8] + b[9] + b[10] + b[11]
                  + b[12] + b[13] + b[14]
  BY <1>1, <1>7, <1>12
<1> QED BY <1>1, <1>13 DEF Sum16

(* The inner loop of the sum computes a function. *)
LEMMA UptoExists ==
    ASSUME NEW N \in Nat, NEW buf \in [0..N - 1 -> Int]
    PROVE  \E f : f = [n \in 0..N |-> IF n % 16 = 0 THEN 0 ELSE f[n - 1] + buf[n - 1]]
<1> DEFINE step == [p \in (1..N) \X Int |-> IF p[1] % 16 = 0 THEN 0 ELSE p[2] + buf[p[1] - 1]]
<1>1. \A n \in 1..N : buf[n - 1] \in Int
  BY IndexSteps
<1>2. step \in [(1..N) \X Int -> Int]
  <2>1. \A n \in 1..N : \A m \in Int : (IF n % 16 = 0 THEN 0 ELSE m + buf[n - 1]) \in Int
    BY <1>1
  <2>2. \A p \in (1..N) \X Int : p[1] \in 1..N /\ p[2] \in Int
    OBVIOUS
  <2> QED BY <2>1, <2>2
<1>3. \A n \in 1..N : \A m \in Int : step[<<n, m>>] = IF n % 16 = 0 THEN 0 ELSE m + buf[n - 1]
  OBVIOUS
<1> HIDE DEF step
<1>4. PICK f \in [0..N -> Int] : f[0] = 0 /\ \A n \in 1..N : f[n] = step[<<n, f[n - 1]>>]
  BY <1>2, RecursionExists, Zenon
<1>5. ASSUME NEW n \in 1..N PROVE f[n] = IF n % 16 = 0 THEN 0 ELSE f[n - 1] + buf[n - 1]
  <2>1. f[n - 1] \in Int
    BY <1>4, IndexSteps, Zenon
  <2> QED BY <1>3, <1>4, <2>1, Zenon
<1>6. f[0] = IF 0 % 16 = 0 THEN 0 ELSE f[0 - 1] + buf[0 - 1]
  BY <1>4, IndexSteps, Zenon
<1>7. ASSUME NEW n \in 0..N PROVE f[n] = IF n % 16 = 0 THEN 0 ELSE f[n - 1] + buf[n - 1]
  <2>1. CASE n = 0
    BY <1>6, <2>1, Zenon
  <2>2. CASE n \in 1..N
    BY <1>5, <2>2, Zenon
  <2> QED BY <2>1, <2>2, IndexSteps, Zenon
<1>8. f = [n \in 0..N |-> IF n % 16 = 0 THEN 0 ELSE f[n - 1] + buf[n - 1]]
  <2>1. f = [n \in 0..N |-> f[n]]
    BY <1>4, Zenon
  <2> QED BY <1>7, <2>1, Zenon
<1> QED BY <1>8, Zenon

(* What it computes is the sum of a row. *)
LEMMA UptoIsRow ==
    ASSUME NEW buf \in [Index -> Int],
           NEW u, u = CHOOSE f : f = [n \in 0..MsgSize |->
                                         IF n % 16 = 0 THEN 0 ELSE f[n - 1] + buf[n - 1]],
           NEW s \in 0..23
    PROVE  /\ Row(buf, s) \in [0..15 -> Int]
           /\ u[16 * (s + 1) - 1] \in Int /\ buf[16 * (s + 1) - 1] \in Int
           /\ u[16 * (s + 1) - 1] + buf[16 * (s + 1) - 1] = Sum16(Row(buf, s))
<1>1. MsgSize \in Nat /\ buf \in [0..MsgSize - 1 -> Int]
  <2>1. MsgSize \in Nat
    BY DEF MsgSize
  <2> QED BY <2>1, Zenon DEF Index
<1>2. u = [n \in 0..MsgSize |-> IF n % 16 = 0 THEN 0 ELSE u[n - 1] + buf[n - 1]]
  BY <1>1, UptoExists, Zenon
<1>3. ASSUME NEW n \in 0..MsgSize PROVE u[n] = IF n % 16 = 0 THEN 0 ELSE u[n - 1] + buf[n - 1]
  BY <1>2, Zenon
<1> DEFINE c == 16 * s
           g == [k \in 0..15 |-> u[c + k]]
           b == Row(buf, s)
<1>4. /\ c \in 0..MsgSize /\ c % 16 = 0 /\ c + 0 = c
      /\ 16 * (s + 1) - 1 = c + 15
      /\ \A k \in 0..15 : c + k \in Index
      /\ \A k \in 1..15 :
            /\ c + k \in 0..MsgSize /\ (c + k) - 1 = c + (k - 1)
            /\ (c + k) % 16 # 0 /\ k - 1 \in 0..15 /\ k \in 0..15
  BY RowSteps, Zenon
<1>5. b = [k \in 0..15 |-> buf[c + k]]
  BY Zenon DEF Row
<1> HIDE DEF c
<1>6. u[c] = 0
  BY <1>3, <1>4, Zenon
<1>7. ASSUME NEW k \in 1..15 PROVE u[c + k] = u[c + (k - 1)] + buf[c + (k - 1)]
  BY <1>3, <1>4, Zenon
<1>8. b \in [0..15 -> Int]
  <2>1. \A k \in 0..15 : buf[c + k] \in Int
    BY <1>4, Zenon
  <2> QED BY <1>5, <2>1
<1>9. 0 \in 0..15 /\ 15 \in 0..15
  OBVIOUS
<1>10. g[0] = 0
  BY <1>4, <1>6, <1>9, Zenon
<1>11. ASSUME NEW k \in 1..15 PROVE g[k] = g[k - 1] + b[k - 1]
  <2>1. k \in 0..15 /\ k - 1 \in 0..15
    BY <1>4, Zenon
  <2>2. g[k] = u[c + k] /\ g[k - 1] = u[c + (k - 1)] /\ b[k - 1] = buf[c + (k - 1)]
    BY <1>5, <2>1, Zenon
  <2> QED BY <1>7, <2>2, Zenon
<1>12. g[15] = u[c + 15] /\ b[15] = buf[c + 15]
  BY <1>5, <1>9, Zenon
<1>13. b[15] \in Int
  BY <1>8, <1>9, Zenon
<1> HIDE DEF g, b
<1>14. g[15] + b[15] = Sum16(b) /\ g[15] \in Int
  BY <1>8, <1>10, <1>11, RowSummed
<1> QED BY <1>4, <1>8, <1>12, <1>13, <1>14 DEF b

(* The sums that end the rows are integers. *)
IntRows(N, u, buf) == \A r \in 1..N : u[16 * r - 1] \in Int /\ buf[16 * r - 1] \in Int

(* What the outer loop computes. *)
RowSums(N, u, buf, v) ==
    v = [r \in 0..N |-> IF r = 0 THEN 0 ELSE v[r - 1] + u[16 * r - 1] + buf[16 * r - 1]]

(* There is such a function. *)
LEMMA RowsExist ==
    ASSUME NEW N \in Nat, NEW u, NEW buf,
           IntRows(N, u, buf)
    PROVE  \E f : f = [r \in 0..N |->
                         IF r = 0 THEN 0 ELSE f[r - 1] + u[16 * r - 1] + buf[16 * r - 1]]
<1> DEFINE step == [p \in (1..N) \X Int |-> p[2] + u[16 * p[1] - 1] + buf[16 * p[1] - 1]]
<1>1. \A r \in 1..N : \A m \in Int : m + u[16 * r - 1] + buf[16 * r - 1] \in Int
  BY DEF IntRows
<1>2. step \in [(1..N) \X Int -> Int]
  <2>1. \A p \in (1..N) \X Int : p[1] \in 1..N /\ p[2] \in Int
    OBVIOUS
  <2> QED BY <1>1, <2>1, Zenon
<1>3. \A r \in 1..N : \A m \in Int : step[<<r, m>>] = m + u[16 * r - 1] + buf[16 * r - 1]
  <2>1. \A r \in 1..N : \A m \in Int :
           <<r, m>> \in (1..N) \X Int /\ <<r, m>>[1] = r /\ <<r, m>>[2] = m
    OBVIOUS
  <2> QED BY <2>1, Zenon
<1> HIDE DEF step
<1>4. PICK f \in [0..N -> Int] : f[0] = 0 /\ \A r \in 1..N : f[r] = step[<<r, f[r - 1]>>]
  BY <1>2, RecursionExists, Zenon
<1>5. ASSUME NEW r \in 0..N
      PROVE  f[r] = IF r = 0 THEN 0 ELSE f[r - 1] + u[16 * r - 1] + buf[16 * r - 1]
  <2>1. CASE r = 0
    BY <1>4, <2>1, Zenon
  <2>2. CASE r # 0
    <3>1. r \in 1..N /\ r - 1 \in 0..N
      BY <2>2, IndexSteps
    <3>2. f[r - 1] \in Int
      BY <1>4, <3>1, Zenon
    <3> QED BY <1>3, <1>4, <2>2, <3>1, <3>2, Zenon
  <2> QED BY <2>1, <2>2
<1>6. f = [r \in 0..N |-> IF r = 0 THEN 0 ELSE f[r - 1] + u[16 * r - 1] + buf[16 * r - 1]]
  <2>1. f = [r \in 0..N |-> f[r]]
    BY <1>4, Zenon
  <2> QED BY <1>5, <2>1, Zenon
<1> QED BY <1>6, Zenon

(* It is one to the integers. *)
LEMMA RowsAdd ==
    ASSUME NEW N \in Nat, NEW u, NEW buf,
           IntRows(N, u, buf), NEW v, RowSums(N, u, buf, v)
    PROVE  /\ v \in [0..N -> Int] /\ v[0] = 0
           /\ \A r \in 1..N : v[r] = v[r - 1] + (u[16 * r - 1] + buf[16 * r - 1])
<1>1. \A r \in 1..N : \A m \in Int : m + u[16 * r - 1] + buf[16 * r - 1] \in Int
  BY DEF IntRows
<1>2. v = [r \in 0..N |-> IF r = 0 THEN 0 ELSE v[r - 1] + u[16 * r - 1] + buf[16 * r - 1]]
  BY DEF RowSums
<1>3. ASSUME NEW r \in 0..N
      PROVE  v[r] = IF r = 0 THEN 0 ELSE v[r - 1] + u[16 * r - 1] + buf[16 * r - 1]
  BY <1>2, Zenon
<1>4. v[0] = 0
  <2>1. 0 \in 0..N
    OBVIOUS
  <2> QED BY <1>3, <2>1, Zenon
<1> DEFINE P == {r \in Nat : r \in 0..N => v[r] \in Int}
<1>5. 0 \in P
  BY <1>4
<1>6. ASSUME NEW r \in Nat, r \in P PROVE r + 1 \in P
  <2> SUFFICES ASSUME r + 1 \in 0..N PROVE v[r + 1] \in Int
    OBVIOUS
  <2>1. r \in 0..N /\ r + 1 \in 1..N /\ r + 1 # 0 /\ (r + 1) - 1 = r
    OBVIOUS
  <2>2. v[r] \in Int
    BY <1>6, <2>1, Zenon
  <2>3. v[r + 1] = v[r] + u[16 * (r + 1) - 1] + buf[16 * (r + 1) - 1]
    BY <1>3, <2>1, Zenon
  <2> QED BY <1>1, <2>1, <2>2, <2>3, Zenon
<1> HIDE DEF P
<1>7. Nat \subseteq P
  BY <1>5, <1>6, NatsByStep, Zenon
<1>8. ASSUME NEW r \in 0..N PROVE v[r] \in Int
  <2>1. r \in Nat
    OBVIOUS
  <2> QED BY <1>7, <2>1, Zenon DEF P
<1>9. v \in [0..N -> Int]
  <2>1. v = [r \in 0..N |-> v[r]]
    BY <1>2, <1>3, Zenon
  <2> QED BY <1>8, <2>1, Zenon
<1>10. ASSUME NEW r \in 1..N
       PROVE  v[r] = v[r - 1] + (u[16 * r - 1] + buf[16 * r - 1])
  <2>1. r \in 0..N /\ r # 0 /\ r - 1 \in 0..N
    OBVIOUS
  <2>2. v[r - 1] \in Int /\ u[16 * r - 1] \in Int /\ buf[16 * r - 1] \in Int
    BY <1>8, <2>1, Zenon DEF IntRows
  <2>3. v[r] = v[r - 1] + u[16 * r - 1] + buf[16 * r - 1]
    BY <1>3, <2>1, Zenon
  <2> QED BY <2>2, <2>3
<1> QED BY <1>4, <1>9, <1>10

(* The total of a message is that of its rows. *)
LEMMA TotalIsRows ==
    ASSUME NEW buf \in [Index -> Int]
    PROVE  \E v \in [0..24 -> Int] :
              /\ v[0] = 0 /\ Total(buf) = v[24]
              /\ \A s \in 0..23 : v[s + 1] = v[s] + Sum16(Row(buf, s))
<1> DEFINE N == MsgSize \div 16
<1>1. PICK u : u = CHOOSE f : f = [n \in 0..MsgSize |->
                                      IF n % 16 = 0 THEN 0 ELSE f[n - 1] + buf[n - 1]]
  OBVIOUS
<1>2. PICK v : v = CHOOSE f : f = [r \in 0..N |->
                       IF r = 0 THEN 0 ELSE f[r - 1] + u[16 * r - 1] + buf[16 * r - 1]]
  OBVIOUS
<1>3. Total(buf) = v[N]
  BY <1>1, <1>2 DEF Total
<1>4. N = 24
  BY Sizes
<1>5. N \in Nat
  BY <1>4
<1> HIDE DEF N
<1>6. ASSUME NEW s \in 0..23
      PROVE  /\ u[16 * (s + 1) - 1] \in Int /\ buf[16 * (s + 1) - 1] \in Int
             /\ u[16 * (s + 1) - 1] + buf[16 * (s + 1) - 1] = Sum16(Row(buf, s))
  BY <1>1, UptoIsRow, Zenon
<1>7. ASSUME NEW r \in 1..N PROVE u[16 * r - 1] \in Int /\ buf[16 * r - 1] \in Int
  <2>1. r - 1 \in 0..23 /\ (r - 1) + 1 = r
    BY <1>4
  <2> QED BY <1>6, <2>1, Zenon
<1>8. /\ v \in [0..N -> Int] /\ v[0] = 0
      /\ \A r \in 1..N : v[r] = v[r - 1] + (u[16 * r - 1] + buf[16 * r - 1])
  <2>1. IntRows(N, u, buf)
    BY <1>7, Zenon DEF IntRows
  <2>2. RowSums(N, u, buf, v)
    <3>1. \E f : f = [r \in 0..N |->
                         IF r = 0 THEN 0 ELSE f[r - 1] + u[16 * r - 1] + buf[16 * r - 1]]
      BY <1>5, <2>1, RowsExist, SMT
    <3> QED BY <1>2, <3>1, Zenon DEF RowSums
  <2> QED BY <1>5, <2>1, <2>2, RowsAdd, SMT
<1>9. ASSUME NEW s \in 0..23 PROVE v[s + 1] = v[s] + Sum16(Row(buf, s))
  <2>1. s + 1 \in 1..N /\ (s + 1) - 1 = s
    BY <1>4
  <2> QED BY <1>6, <1>8, <2>1, Zenon
<1> QED BY <1>3, <1>4, <1>8, <1>9

(* Rows of one value. *)
LEMMA EvenRow ==
    ASSUME NEW b, NEW c \in {0, 255}, \A k \in 0..15 : b[k] = c
    PROVE  Sum16(b) = 16 * c
<1>1. /\ b[0] = c /\ b[1] = c /\ b[2] = c /\ b[3] = c /\ b[4] = c /\ b[5] = c /\ b[6] = c
      /\ b[7] = c /\ b[8] = c /\ b[9] = c /\ b[10] = c /\ b[11] = c /\ b[12] = c /\ b[13] = c
      /\ b[14] = c /\ b[15] = c
  OBVIOUS
<1> QED BY <1>1 DEF Sum16

(* Twenty-four sums, added up. *)
LEMMA RowsAddUp ==
    ASSUME NEW v \in [0..24 -> Int], NEW w \in [0..23 -> Int], v[0] = 0,
           \A s \in 0..23 : v[s + 1] = v[s] + w[s]
    PROVE  v[24] = w[0] + w[1] + w[2] + w[3] + w[4] + w[5] + w[6] + w[7]
                       + w[8] + w[9] + w[10] + w[11] + w[12] + w[13] + w[14] + w[15]
                       + w[16] + w[17] + w[18] + w[19] + w[20] + w[21] + w[22] + w[23]
<1>1. \A s \in 0..23 : w[s] \in Int /\ v[s] \in Int /\ v[s + 1] = v[s] + w[s]
  OBVIOUS
<1>2. v[4] = w[0] + w[1] + w[2] + w[3]
  <2>1. v[1] = v[0] + w[0] /\ v[2] = v[1] + w[1] /\ v[3] = v[2] + w[2] /\ v[4] = v[3] + w[3]
    BY <1>1
  <2> QED BY <1>1, <2>1
<1>3. v[8] = v[4] + w[4] + w[5] + w[6] + w[7]
  <2>1. v[5] = v[4] + w[4] /\ v[6] = v[5] + w[5] /\ v[7] = v[6] + w[6] /\ v[8] = v[7] + w[7]
    BY <1>1
  <2> QED BY <1>1, <2>1
<1>4. v[12] = v[8] + w[8] + w[9] + w[10] + w[11]
  <2>1. v[9] = v[8] + w[8] /\ v[10] = v[9] + w[9] /\ v[11] = v[10] + w[10] /\ v[12] = v[11] + w[11]
    BY <1>1
  <2> QED BY <1>1, <2>1
<1>5. v[16] = v[12] + w[12] + w[13] + w[14] + w[15]
  <2>1. v[13] = v[12] + w[12] /\ v[14] = v[13] + w[13] /\ v[15] = v[14] + w[14] /\ v[16] = v[15] + w[15]
    BY <1>1
  <2> QED BY <1>1, <2>1
<1>6. v[20] = v[16] + w[16] + w[17] + w[18] + w[19]
  <2>1. v[17] = v[16] + w[16] /\ v[18] = v[17] + w[17] /\ v[19] = v[18] + w[18] /\ v[20] = v[19] + w[19]
    BY <1>1
  <2> QED BY <1>1, <2>1
<1>7. v[24] = v[20] + w[20] + w[21] + w[22] + w[23]
  <2>1. v[21] = v[20] + w[20] /\ v[22] = v[21] + w[21] /\ v[23] = v[22] + w[22] /\ v[24] = v[23] + w[23]
    BY <1>1
  <2> QED BY <1>1, <2>1
<1>8. \A s \in 0..23 : w[s] \in Int
  OBVIOUS
<1> QED BY <1>2, <1>3, <1>4, <1>5, <1>6, <1>7, <1>8

(* The row of the head, with the two bytes of the mode. *)
LEMMA HeadRow ==
    ASSUME NEW mode \in [1..2 -> Bytes], NEW buf, \A i \in 0..15 : buf[i] = HeadByte(mode, i)
    PROVE  Sum16(Row(buf, 0)) = 176 + mode[1] + mode[2]
<1>1. \A k \in 0..15 : Row(buf, 0)[k] = HeadByte(mode, k)
  BY DEF Row
<1> DEFINE b == Row(buf, 0)
<1>2. /\ b[0] = 2 /\ b[1] = 1 /\ b[2] = 128 /\ b[3] = 0 /\ b[4] = mode[1] /\ b[5] = mode[2]
      /\ b[6] = 0 /\ b[7] = 1 /\ b[8] = 2 /\ b[9] = 3 /\ b[10] = 4 /\ b[11] = 5 /\ b[12] = 6
      /\ b[13] = 7 /\ b[14] = 8 /\ b[15] = 9
  BY <1>1 DEF HeadByte
<1>3. mode[1] \in Int /\ mode[2] \in Int
  BY DEF Bytes
<1> HIDE DEF b
<1> QED BY <1>2, <1>3 DEF Sum16, b

(* What is summed. *)
Summed(buf) == [buf EXCEPT ![chksum_i] = 0]

(* What is summed of a template, byte by byte. *)
LEMMA TemplateBytes ==
    ASSUME NEW mode \in [1..2 -> Bytes], NEW lit, NEW check \in Bytes,
           NEW buf, buf = Summed(Template(mode, lit, check))
    PROVE  /\ buf \in [Index -> Int]
           /\ \A i \in 0..15 : buf[i] = HeadByte(mode, i)
           /\ \A i \in 16..383 : i \notin {334, 335} => buf[i] = IF i \in lit THEN 255 ELSE 0
           /\ buf[334] = 0 /\ buf[335] = 3
<1> DEFINE T == Template(mode, lit, check)
<1>1. DOMAIN T = Index
  BY DEF Template
<1>2. /\ \A i \in 0..15 : T[i] = HeadByte(mode, i)
      /\ \A i \in 16..383 : i \notin {334, 335} => T[i] = IF i \in lit THEN 255 ELSE 0
      /\ T[335] = 3
  BY DEF Template, Index, MsgSize, chksum_i
<1> HIDE DEF T
<1>3. buf = [i \in Index |-> IF i = chksum_i THEN 0 ELSE T[i]]
  BY <1>1 DEF T, Summed
<1>4. \A i \in 0..383 : buf[i] = IF i = 334 THEN 0 ELSE T[i]
  BY <1>3, Sizes
<1>5. \A i \in 0..15 : buf[i] = HeadByte(mode, i)
  <2> SUFFICES ASSUME NEW i \in 0..15 PROVE buf[i] = HeadByte(mode, i)
    OBVIOUS
  <2>1. i \in 0..383 /\ i # 334
    OBVIOUS
  <2>2. buf[i] = T[i]
    BY <1>4, <2>1
  <2> QED BY <1>2, <2>2
<1>6. \A i \in 16..383 : i \notin {334, 335} => buf[i] = IF i \in lit THEN 255 ELSE 0
  <2> SUFFICES ASSUME NEW i \in 16..383, i \notin {334, 335}
               PROVE  buf[i] = IF i \in lit THEN 255 ELSE 0
    OBVIOUS
  <2>1. i \in 0..383 /\ i # 334
    OBVIOUS
  <2>2. buf[i] = T[i]
    BY <1>4, <2>1
  <2>3. T[i] = IF i \in lit THEN 255 ELSE 0
    BY <1>2, Zenon
  <2> QED BY <2>2, <2>3, Zenon
<1>7. buf[334] = 0 /\ buf[335] = 3
  BY <1>2, <1>4
<1>8. \A i \in Index : buf[i] \in Int
  <2>1. \A i \in Index : i \in 0..15 \/ i \in {334, 335} \/ (i \in 16..383 /\ i \notin {334, 335})
    BY Sizes
  <2>2. \A i \in 0..15 : HeadByte(mode, i) \in Int
    BY DEF HeadByte, Bytes
  <2> QED BY <1>5, <1>6, <1>7, <2>1, <2>2
<1>9. buf \in [Index -> Int]
  <2>1. buf = [i \in Index |-> buf[i]]
    BY <1>3
  <2> QED BY <1>8, <2>1, Zenon
<1> QED BY <1>5, <1>6, <1>7, <1>9

(* The checksum of a message is that of the sums of its rows. *)
LEMMA ChecksumByRows ==
    ASSUME NEW m, Summed(m) \in [Index -> Int],
           NEW w \in [0..23 -> Int], \A s \in 0..23 : Sum16(Row(Summed(m), s)) = w[s]
    PROVE  Checksum(m) = (w[0] + w[1] + w[2] + w[3] + w[4] + w[5] + w[6] + w[7]
                              + w[8] + w[9] + w[10] + w[11] + w[12] + w[13] + w[14] + w[15]
                              + w[16] + w[17] + w[18] + w[19] + w[20] + w[21] + w[22] + w[23]
                              - 5) % 256
<1>1. PICK v \in [0..24 -> Int] :
         /\ v[0] = 0 /\ Total(Summed(m)) = v[24]
         /\ \A s \in 0..23 : v[s + 1] = v[s] + Sum16(Row(Summed(m), s))
  BY TotalIsRows, Zenon
<1>2. \A s \in 0..23 : v[s + 1] = v[s] + w[s]
  BY <1>1, Zenon
<1>3. v[24] = w[0] + w[1] + w[2] + w[3] + w[4] + w[5] + w[6] + w[7]
                  + w[8] + w[9] + w[10] + w[11] + w[12] + w[13] + w[14] + w[15]
                  + w[16] + w[17] + w[18] + w[19] + w[20] + w[21] + w[22] + w[23]
  BY <1>1, <1>2, RowsAddUp
<1>4. Checksum(m) = (v[24] - 5) % 256
  BY <1>1, Zenon DEF Checksum, Summed
<1> QED BY <1>3, <1>4, SMTT(30)

(* The sum of msg_00 is the one it has. *)
LEMMA ZeroChecks == Checksum(msg_00) = 176
<1> DEFINE buf == Summed(msg_00)
<1>1. <<1, 1>> \in [1..2 -> Bytes] /\ 176 \in Bytes
  BY DEF Bytes
<1>2. /\ buf \in [Index -> Int]
      /\ \A i \in 0..15 : buf[i] = HeadByte(<<1, 1>>, i)
      /\ \A i \in 16..383 : i \notin {334, 335} => buf[i] = 0
      /\ buf[334] = 0 /\ buf[335] = 3
  <2>1. buf = Summed(Template(<<1, 1>>, {}, 176))
    BY Zenon DEF msg_00
  <2> HIDE DEF buf
  <2>2. /\ buf \in [Index -> Int]
        /\ \A i \in 0..15 : buf[i] = HeadByte(<<1, 1>>, i)
        /\ \A i \in 16..383 : i \notin {334, 335} => buf[i] = IF i \in {} THEN 255 ELSE 0
        /\ buf[334] = 0 /\ buf[335] = 3
    BY <1>1, <2>1, TemplateBytes
  <2> QED BY <2>2
<1> HIDE DEF buf
<1>3. Sum16(Row(buf, 0)) = 178
  <2>1. Sum16(Row(buf, 0)) = 176 + 1 + 1
    BY <1>1, <1>2, HeadRow
  <2> QED BY <2>1
<1>4. ASSUME NEW s \in 1..23, s # 20 PROVE Sum16(Row(buf, s)) = 0
  <2>1. \A k \in 0..15 : 16 * s + k \in 16..383 /\ 16 * s + k \notin {334, 335}
    BY <1>4
  <2>2. \A k \in 0..15 : Row(buf, s)[k] = 0
    BY <1>2, <2>1 DEF Row
  <2>3. Sum16(Row(buf, s)) = 16 * 0
    BY <2>2, EvenRow
  <2> QED BY <2>3
<1>5. Sum16(Row(buf, 20)) = 3
  <2> DEFINE b == Row(buf, 20)
  <2>1. \A k \in 0..15 : b[k] = IF k = 15 THEN 3 ELSE 0
    <3>1. \A k \in 0..15 : b[k] = buf[320 + k]
      BY DEF Row
    <3>2. \A k \in 0..15 : /\ k = 15 => 320 + k = 335
                           /\ k = 14 => 320 + k = 334
                           /\ k < 14 => 320 + k \in 16..383 /\ 320 + k \notin {334, 335}
                           /\ k = 15 \/ k = 14 \/ k < 14
      OBVIOUS
    <3> QED BY <1>2, <3>1, <3>2
  <2> HIDE DEF b
  <2>2. /\ b[0] = 0 /\ b[1] = 0 /\ b[2] = 0 /\ b[3] = 0 /\ b[4] = 0 /\ b[5] = 0 /\ b[6] = 0
        /\ b[7] = 0 /\ b[8] = 0 /\ b[9] = 0 /\ b[10] = 0 /\ b[11] = 0 /\ b[12] = 0 /\ b[13] = 0
        /\ b[14] = 0 /\ b[15] = 3
    BY <2>1
  <2> QED BY <2>2 DEF Sum16, b
<1> DEFINE w == [s \in 0..23 |-> IF s = 0 THEN 178 ELSE IF s = 20 THEN 3 ELSE 0]
<1>6. /\ w \in [0..23 -> Int]
      /\ w[0] = 178 /\ w[20] = 3 /\ \A s \in 1..23 : s # 20 => w[s] = 0
  OBVIOUS
<1> HIDE DEF w
<1>7. ASSUME NEW s \in 0..23 PROVE Sum16(Row(buf, s)) = w[s]
  BY <1>3, <1>4, <1>5, <1>6
<1>8. Checksum(msg_00) = (w[0] + w[1] + w[2] + w[3] + w[4] + w[5] + w[6] + w[7]
                              + w[8] + w[9] + w[10] + w[11] + w[12] + w[13] + w[14] + w[15]
                              + w[16] + w[17] + w[18] + w[19] + w[20] + w[21] + w[22] + w[23]
                              - 5) % 256
  BY <1>2, <1>6, <1>7, ChecksumByRows DEF buf
<1> QED BY <1>6, <1>8

(* So is that of msg_ff: its rows are all lit, or dark, or those where the *)
(* keys without a LED are.                                                 *)
LEMMA FFChecks == Checksum(msg_ff) = 230
<1> DEFINE buf == Summed(msg_ff)
           lit == LitKeys \cup (325..333)
<1>1. <<0, 22>> \in [1..2 -> Bytes] /\ 230 \in Bytes
  BY DEF Bytes
<1>2. /\ buf \in [Index -> Int]
      /\ \A i \in 0..15 : buf[i] = HeadByte(<<0, 22>>, i)
      /\ \A i \in 16..383 : i \notin {334, 335} => buf[i] = IF i \in lit THEN 255 ELSE 0
      /\ buf[334] = 0 /\ buf[335] = 3
  <2>1. buf = Summed(Template(<<0, 22>>, lit, 230))
    BY Zenon DEF msg_ff
  <2> HIDE DEF buf, lit
  <2> QED BY <1>1, <2>1, TemplateBytes, SMTT(20)
<1>3. \A i \in 16..383 :
         i \in lit <=> \/ i \in 55..225 \/ i \in 229..231 \/ i \in 235..243
                      \/ i \in 247..249 \/ i \in 256..282 \/ i \in 325..333
  BY DEF LitKeys
<1> HIDE DEF buf, lit
<1>15. /\ \A i \in (16..383) \ {334, 335} : i \notin lit => buf[i] = 0
       /\ \A i \in (16..383) \ {334, 335} : i \in lit => buf[i] = 255
  <2>1. \A i \in (16..383) \ {334, 335} : i \in 16..383 /\ i \notin {334, 335}
    OBVIOUS
  <2>2. ASSUME NEW i \in (16..383) \ {334, 335} PROVE buf[i] = IF i \in lit THEN 255 ELSE 0
    <3>1. \A k \in 16..383 : k \notin {334, 335} => buf[k] = IF k \in lit THEN 255 ELSE 0
      BY <1>2, Zenon
    <3> QED BY <2>1, <3>1
  <2>3. ASSUME NEW i \in (16..383) \ {334, 335}, i \notin lit PROVE buf[i] = 0
    <3>1. (IF i \in lit THEN 255 ELSE 0) = 0
      BY <2>3
    <3> QED BY <2>2, <3>1
  <2>4. ASSUME NEW i \in (16..383) \ {334, 335}, i \in lit PROVE buf[i] = 255
    <3>1. (IF i \in lit THEN 255 ELSE 0) = 255
      BY <2>4
    <3> QED BY <2>2, <3>1
  <2> QED BY <2>3, <2>4, Zenon
<1>4. Sum16(Row(buf, 0)) = 198
  <2>1. Sum16(Row(buf, 0)) = 176 + 0 + 22
    BY <1>1, <1>2, HeadRow
  <2> QED BY <2>1
<1>5. ASSUME NEW s \in {1, 2, 18, 19, 21, 22, 23} PROVE Sum16(Row(buf, s)) = 0
  <2>1. \A k \in 0..15 : 16 * s + k \in (16..383) \ {334, 335}
    OBVIOUS
  <2>2. \A k \in 0..15 : 16 * s + k \notin lit
    BY <1>3, <2>1
  <2>3. ASSUME NEW k \in 0..15 PROVE Row(buf, s)[k] = 0
    <3>1. 16 * s + k \in (16..383) \ {334, 335} /\ 16 * s + k \notin lit
      BY <2>1, <2>2
    <3>2. buf[16 * s + k] = 0
      BY <1>15, <3>1
    <3> QED BY <3>2 DEF Row
  <2>4. Sum16(Row(buf, s)) = 16 * 0
    BY <2>3, EvenRow
  <2> QED BY <2>4
<1>6. ASSUME NEW s \in (4..13) \cup {16} PROVE Sum16(Row(buf, s)) = 4080
  <2>1. \A k \in 0..15 : 16 * s + k \in (16..383) \ {334, 335}
    OBVIOUS
  <2>2. \A k \in 0..15 : 16 * s + k \in lit
    BY <1>3, <2>1
  <2>3. ASSUME NEW k \in 0..15 PROVE Row(buf, s)[k] = 255
    <3>1. 16 * s + k \in (16..383) \ {334, 335} /\ 16 * s + k \in lit
      BY <2>1, <2>2
    <3>2. buf[16 * s + k] = 255
      BY <1>15, <3>1
    <3> QED BY <3>2 DEF Row
  <2>4. Sum16(Row(buf, s)) = 16 * 255
    BY <2>3, EvenRow
  <2> QED BY <2>4
<1>7. Sum16(Row(buf, 3)) = 2295
  <2> DEFINE b == Row(buf, 3)
  <2>1. \A k \in 0..15 : b[k] = buf[48 + k]
    BY DEF Row
  <2> HIDE DEF b
  <2>2. /\ b[0] = 0 /\ b[1] = 0 /\ b[2] = 0 /\ b[3] = 0 /\ b[4] = 0
        /\ b[5] = 0 /\ b[6] = 0 /\ b[7] = 255 /\ b[8] = 255 /\ b[9] = 255
        /\ b[10] = 255 /\ b[11] = 255 /\ b[12] = 255 /\ b[13] = 255 /\ b[14] = 255 /\ b[15] = 255
    BY <1>2, <1>3, <2>1
  <2> QED BY <2>2 DEF Sum16, b
<1>8. Sum16(Row(buf, 14)) = 2550
  <2> DEFINE b == Row(buf, 14)
  <2>1. \A k \in 0..15 : b[k] = buf[224 + k]
    BY DEF Row
  <2> HIDE DEF b
  <2>2. /\ b[0] = 255 /\ b[1] = 255 /\ b[2] = 0 /\ b[3] = 0 /\ b[4] = 0
        /\ b[5] = 255 /\ b[6] = 255 /\ b[7] = 255 /\ b[8] = 0 /\ b[9] = 0
        /\ b[10] = 0 /\ b[11] = 255 /\ b[12] = 255 /\ b[13] = 255 /\ b[14] = 255 /\ b[15] = 255
    BY <1>2, <1>3, <2>1
  <2> QED BY <2>2 DEF Sum16, b
<1>9. Sum16(Row(buf, 15)) = 1785
  <2> DEFINE b == Row(buf, 15)
  <2>1. \A k \in 0..15 : b[k] = buf[240 + k]
    BY DEF Row
  <2> HIDE DEF b
  <2>2. /\ b[0] = 255 /\ b[1] = 255 /\ b[2] = 255 /\ b[3] = 255 /\ b[4] = 0
        /\ b[5] = 0 /\ b[6] = 0 /\ b[7] = 255 /\ b[8] = 255 /\ b[9] = 255
        /\ b[10] = 0 /\ b[11] = 0 /\ b[12] = 0 /\ b[13] = 0 /\ b[14] = 0 /\ b[15] = 0
    BY <1>2, <1>3, <2>1
  <2> QED BY <2>2 DEF Sum16, b
<1>10. Sum16(Row(buf, 17)) = 2805
  <2> DEFINE b == Row(buf, 17)
  <2>1. \A k \in 0..15 : b[k] = buf[272 + k]
    BY DEF Row
  <2> HIDE DEF b
  <2>2. /\ b[0] = 255 /\ b[1] = 255 /\ b[2] = 255 /\ b[3] = 255 /\ b[4] = 255
        /\ b[5] = 255 /\ b[6] = 255 /\ b[7] = 255 /\ b[8] = 255 /\ b[9] = 255
        /\ b[10] = 255 /\ b[11] = 0 /\ b[12] = 0 /\ b[13] = 0 /\ b[14] = 0 /\ b[15] = 0
    BY <1>2, <1>3, <2>1
  <2> QED BY <2>2 DEF Sum16, b
<1>11. Sum16(Row(buf, 20)) = 2298
  <2> DEFINE b == Row(buf, 20)
  <2>1. \A k \in 0..15 : b[k] = buf[320 + k]
    BY DEF Row
  <2> HIDE DEF b
  <2>2. /\ b[0] = 0 /\ b[1] = 0 /\ b[2] = 0 /\ b[3] = 0 /\ b[4] = 0
        /\ b[5] = 255 /\ b[6] = 255 /\ b[7] = 255 /\ b[8] = 255 /\ b[9] = 255
        /\ b[10] = 255 /\ b[11] = 255 /\ b[12] = 255 /\ b[13] = 255 /\ b[14] = 0 /\ b[15] = 3
    BY <1>2, <1>3, <2>1
  <2> QED BY <2>2 DEF Sum16, b
<1> DEFINE w == [s \in 0..23 |->
                    IF s = 0 THEN 198 ELSE IF s = 3 THEN 2295 ELSE IF s = 14 THEN 2550
                    ELSE IF s = 15 THEN 1785 ELSE IF s = 17 THEN 2805 ELSE IF s = 20 THEN 2298
                    ELSE IF s \in (4..13) \cup {16} THEN 4080 ELSE 0]
<1>12. /\ w \in [0..23 -> Int]
       /\ w[0] = 198 /\ w[3] = 2295 /\ w[14] = 2550 /\ w[15] = 1785 /\ w[17] = 2805 /\ w[20] = 2298
       /\ \A s \in (4..13) \cup {16} : w[s] = 4080
       /\ \A s \in {1, 2, 18, 19, 21, 22, 23} : w[s] = 0
  OBVIOUS
<1> HIDE DEF w
<1>13. ASSUME NEW s \in 0..23 PROVE Sum16(Row(buf, s)) = w[s]
  <2>1. \/ s \in {0, 3, 14, 15, 17, 20} \/ s \in (4..13) \cup {16}
        \/ s \in {1, 2, 18, 19, 21, 22, 23}
    OBVIOUS
  <2>2. CASE s \in {0, 3, 14, 15, 17, 20}
    <3>1. s = 0 \/ s = 3 \/ s = 14 \/ s = 15 \/ s = 17 \/ s = 20
      BY <2>2
    <3> QED BY <1>4, <1>7, <1>8, <1>9, <1>10, <1>11, <1>12, <3>1
  <2>3. CASE s \in (4..13) \cup {16}
    BY <1>6, <1>12, <2>3
  <2>4. CASE s \in {1, 2, 18, 19, 21, 22, 23}
    BY <1>5, <1>12, <2>4
  <2> QED BY <2>1, <2>2, <2>3, <2>4
<1>14. Checksum(msg_ff) = (w[0] + w[1] + w[2] + w[3] + w[4] + w[5] + w[6] + w[7]
                              + w[8] + w[9] + w[10] + w[11] + w[12] + w[13] + w[14] + w[15]
                              + w[16] + w[17] + w[18] + w[19] + w[20] + w[21] + w[22] + w[23]
                              - 5) % 256
  <2>1. /\ Summed(msg_ff) \in [Index -> Int]
        /\ \A s \in 0..23 : Sum16(Row(Summed(msg_ff), s)) = w[s]
    BY <1>2, <1>13, Zenon DEF buf
  <2>2. w \in [0..23 -> Int]
    BY <1>12
  <2> QED BY <2>1, <2>2, ChecksumByRows
<1> QED BY <1>12, <1>14

(* The checksum of a message is a byte. *)
LEMMA ChecksumIsByte ==
    ASSUME NEW m \in Messages
    PROVE  Checksum(m) \in Bytes
<1>1. Summed(m) \in [Index -> Int]
  <2>1. m \in [Index -> Int] /\ 0 \in Int
    BY DEF Messages, Bytes
  <2> QED BY <2>1 DEF Summed
<1>2. Total(Summed(m)) \in Int
  <2>1. PICK v \in [0..24 -> Int] : Total(Summed(m)) = v[24]
    BY <1>1, TotalIsRows, Zenon
  <2> QED BY <2>1
<1>3. \A t \in Int : (t - 5) % 256 \in 0..255
  OBVIOUS
<1> QED BY <1>2, <1>3, Zenon DEF Checksum, Summed, Bytes

(* Templates are messages. *)
LEMMA TemplatesAreMessages ==
    ASSUME NEW mode \in [1..2 -> Bytes], NEW lit, NEW check \in Bytes
    PROVE  Template(mode, lit, check) \in Messages /\ Template(mode, lit, check)[chksum_i] = check
<1>1. \A i \in Index : HeadByte(mode, i) \in Bytes
  BY DEF HeadByte, Bytes, Index, MsgSize
<1>2. 3 \in Bytes /\ 255 \in Bytes /\ 0 \in Bytes
  BY DEF Bytes
<1>3. Template(mode, lit, check) \in Messages
  BY <1>1, <1>2 DEF Template, Messages
<1>4. Template(mode, lit, check)[chksum_i] = check
  BY DEF Template, chksum_i, Index, MsgSize
<1> QED BY <1>3, <1>4

(* The self-test messages and the template of a frame, and that checking   *)
(* the former leaves them as they are.                                     *)
LEMMA TemplatesStay ==
    /\ msg_ff \in Messages /\ Checksum(msg_ff) = msg_ff[chksum_i] /\ Checked(msg_ff) = msg_ff
    /\ msg_00 \in Messages /\ Checksum(msg_00) = msg_00[chksum_i] /\ Checked(msg_00) = msg_00
    /\ msg_xx \in Messages
<1>1. /\ <<0, 22>> \in [1..2 -> Bytes] /\ <<1, 1>> \in [1..2 -> Bytes]
      /\ 230 \in Bytes /\ 176 \in Bytes
  BY DEF Bytes
<1>2. msg_ff \in Messages /\ msg_ff[chksum_i] = 230
  BY <1>1, TemplatesAreMessages DEF msg_ff
<1>3. msg_00 \in Messages /\ msg_00[chksum_i] = 176
  BY <1>1, TemplatesAreMessages DEF msg_00
<1>4. msg_xx \in Messages
  BY <1>1, TemplatesAreMessages DEF msg_xx
<1>5. \A m \in Messages : [m EXCEPT ![chksum_i] = m[chksum_i]] = m
  BY DEF Messages
<1> QED BY <1>2, <1>3, <1>4, <1>5, FFChecks, ZeroChecks DEF Checked

--------------------------------------------------------------------------------
(* Types, and the static buffers hold what they held at the start: an      *)
(* invariant, as checking them writes what is there.                       *)
BuffersStay == TypeOK /\ ff = msg_ff /\ zero = msg_00

(* Setting a key keeps three bytes per key, whatever ints are given.       *)
LEMMA ColoursAreBytes ==
    ASSUME key_data \in KeyData, NEW key \in KeyIds, NEW rgb \in Rgbs, SetKeyColor(key, rgb)
    PROVE  key_data' \in KeyData
<1>1. \A c \in Int : Stored(c) \in Bytes
  BY DEF Stored, Bytes
<1>2. rgb.r \in Int /\ rgb.g \in Int /\ rgb.b \in Int
  BY RgbsAssumption
<1>3. Pixel(rgb)[1] \in Bytes /\ Pixel(rgb)[2] \in Bytes /\ Pixel(rgb)[3] \in Bytes
  BY <1>1, <1>2 DEF Pixel
<1> QED BY <1>3 DEF SetKeyColor, KeyData

(* A frame is a message. *)
LEMMA FramesAreMessages ==
    ASSUME key_data \in KeyData
    PROVE  CheckedFrame(Compose(key_data)) \in Messages
<1>1. Compose(key_data) \in Messages
  <2>1. \A i \in KeyStart..(KeyEnd - 1) : i - KeyStart \in 0..(3 * NumOfKeys - 1)
    BY DEF KeyStart, KeyEnd, NumOfKeys
  <2>2. \A i \in KeyStart..(KeyEnd - 1) : key_data[i - KeyStart] \in Bytes
    BY <2>1 DEF KeyData
  <2>3. \A i \in Index : msg_xx[i] \in Bytes
    BY TemplatesStay DEF Messages
  <2> QED BY <2>2, <2>3 DEF Compose, Messages
<1>2. Checksum(Compose(key_data)) \in Bytes /\ 0 \in Bytes
  BY <1>1, ChecksumIsByte DEF Bytes
<1> QED BY <1>1, <1>2 DEF CheckedFrame, Messages

(* Sending them leaves the self-test messages as they are. *)
THEOREM BuffersInvariance == Spec => []BuffersStay
<1>1. Init => BuffersStay
  <2> SUFFICES ASSUME Init PROVE BuffersStay
    OBVIOUS
  <2>1. 0 \in Bytes
    BY DEF Bytes
  <2>2. key_data \in KeyData /\ sent \in Messages
    BY <2>1 DEF Init, KeyData, Messages
  <2> QED BY <2>2, TemplatesStay DEF Init, BuffersStay, TypeOK
<1>2. BuffersStay /\ [Next]_vars => BuffersStay'
  <2> SUFFICES ASSUME BuffersStay, [Next]_vars PROVE BuffersStay'
    OBVIOUS
  <2> USE DEF BuffersStay, TypeOK
  <2>1. ASSUME NEW key \in KeyIds, NEW rgb \in Rgbs, SetKeyColor(key, rgb) PROVE BuffersStay'
    <3>1. key_data' \in KeyData
      BY <2>1, ColoursAreBytes
    <3> QED BY <2>1, <3>1 DEF SetKeyColor
  <2>2. CASE SendFF
    BY <2>2, TemplatesStay DEF SendFF
  <2>3. CASE Send00
    BY <2>3, TemplatesStay DEF Send00
  <2>4. CASE SendFrame
    BY <2>4, FramesAreMessages DEF SendFrame
  <2>5. CASE UNCHANGED vars
    BY <2>5 DEF vars
  <2> QED BY <2>1, <2>2, <2>3, <2>4, <2>5 DEF Next
<1> QED BY <1>1, <1>2, PTL DEF Spec

(* Types: what is in a message and in key_data are bytes, whatever was     *)
(* given as a colour.                                                      *)
THEOREM FrameTypeCorrect == Spec => []TypeOK
<1>1. BuffersStay => TypeOK
  BY DEF BuffersStay
<1> QED BY <1>1, BuffersInvariance, PTL

(* The asserts of luxeed_device_msg_checksum never fail: the sums that the *)
(* source writes into msg_ff and msg_00 are those of their bytes, and stay *)
(* so however often the messages are sent.                                 *)
THEOREM AssertsNeverFail == Spec => []AssertsHold
<1>1. BuffersStay => AssertsHold
  BY TemplatesStay DEF BuffersStay, AssertsHold
<1> QED BY <1>1, BuffersInvariance, PTL

--------------------------------------------------------------------------------
(* The lights of the keys. *)

Keys == 0..(NumOfKeys - 1)

(* The bytes of a key in key_data are those of no other key. *)
LEMMA PlacesOfKeys ==
    ASSUME NEW k \in Keys
    PROVE  /\ \A c \in 0..2 : 3 * k + c \in 0..(3 * NumOfKeys - 1)
           /\ \A l \in Keys, c, d \in 0..2 : 3 * k + c = 3 * l + d => k = l /\ c = d
BY DEF Keys, NumOfKeys

(* The bytes of a key in a message are colours, and not those that the     *)
(* checksum disturbs.                                                      *)
LEMMA PlacesInMessage ==
    ASSUME NEW k \in Keys, NEW c \in 0..2
    PROVE  /\ KeyStart + 3 * k + c \in KeyStart..(KeyEnd - 1)
           /\ KeyStart + 3 * k + c \in Index \ {chksum_i, chksum_i - 1, chksum_i + 1}
           /\ KeyStart + 3 * k + c >= 16
           /\ KeyStart + 3 * k + c - KeyStart = 3 * k + c
BY DEF Keys, NumOfKeys, KeyStart, KeyEnd, Index, MsgSize, chksum_i

(* What a frame asks of each key is what the key was given. *)
LEMMA FrameShowsKeys ==
    ASSUME NEW data, NEW k \in Keys, NEW c \in 0..2
    PROVE  CheckedFrame(Compose(data))[KeyStart + 3 * k + c] = data[3 * k + c]
<1> DEFINE i == KeyStart + 3 * k + c
<1>1. i \in KeyStart..(KeyEnd - 1) /\ i \in Index /\ i # chksum_i /\ i - KeyStart = 3 * k + c
  BY DEF Keys, NumOfKeys, KeyStart, KeyEnd, Index, MsgSize, chksum_i
<1> HIDE DEF i
<1>2. CheckedFrame(Compose(data)) = Checked(Compose(data))
  BY FrameIsChecked
<1>3. Checked(Compose(data))[i] = Compose(data)[i]
  BY <1>1, ClearedAlready DEF Checked, IsBuffer
<1>4. Compose(data)[i] = data[i - KeyStart]
  BY <1>1 DEF Compose
<1> QED BY <1>1, <1>2, <1>3, <1>4 DEF i

(* The self-test messages light keys up, or darken them all. *)
LEMMA SelfTestLights ==
    ASSUME NEW k \in Keys, NEW c \in 0..2
    PROVE  /\ msg_ff[KeyStart + 3 * k + c] \in {0, 255}
           /\ msg_00[KeyStart + 3 * k + c] = 0
<1> DEFINE i == KeyStart + 3 * k + c
<1>1. i \in Index /\ i # chksum_i /\ i # chksum_i + 1 /\ ~ (i < 16)
  BY PlacesInMessage DEF Index
<1> HIDE DEF i
<1>2. msg_ff[i] \in {0, 255}
  BY <1>1 DEF msg_ff, Template
<1>3. msg_00[i] = 0
  BY <1>1 DEF msg_00, Template
<1> QED BY <1>2, <1>3 DEF i

(* A message that is sent asks of each key what it should: a frame the     *)
(* red, green and blue that the key was given, whatever happened in        *)
(* between, and the self-test full light or none; colouring one key gives  *)
(* it the colour asked for, cut to bytes, and leaves all others.           *)
THEOREM FrameShowsPixels == Spec => PixelSpec
<1>1. Init => Pixels!Init
  <2> SUFFICES ASSUME Init PROVE Pixels!Init
    OBVIOUS
  <2>1. \A k \in Keys : /\ key_data[3 * k] = 0 /\ key_data[3 * k + 1] = 0
                        /\ key_data[3 * k + 2] = 0
    BY DEF Init, Keys, NumOfKeys
  <2>2. \A k \in Keys : /\ sent[KeyStart + 3 * k] = 0 /\ sent[KeyStart + 3 * k + 1] = 0
                        /\ sent[KeyStart + 3 * k + 2] = 0
    BY DEF Init, Keys, NumOfKeys, KeyStart, Index, MsgSize
  <2>3. [k \in Keys |-> [red |-> key_data[3 * k], green |-> key_data[3 * k + 1],
                        blue |-> key_data[3 * k + 2]]]
          = [k \in Keys |-> [red |-> 0, green |-> 0, blue |-> 0]]
    BY <2>1
  <2>4. [k \in Keys |-> [red |-> sent[KeyStart + 3 * k], green |-> sent[KeyStart + 3 * k + 1],
                        blue |-> sent[KeyStart + 3 * k + 2]]]
          = [k \in Keys |-> [red |-> 0, green |-> 0, blue |-> 0]]
    BY <2>2
  <2> QED BY <2>3, <2>4, Zenon DEF Pixels!Init, Pixels!AllDark, Keys, KeyStart
<1>2. BuffersStay /\ [Next]_vars => [Pixels!Next]_(Pixels!pixels)
  <2> SUFFICES ASSUME BuffersStay, [Next]_vars PROVE [Pixels!Next]_(Pixels!pixels)
    OBVIOUS
  <2>1. ASSUME NEW key \in KeyIds, NEW rgb \in Rgbs, SetKeyColor(key, rgb)
        PROVE  Pixels!Next
    <3>1. key \in Keys
      BY <2>1 DEF SetKeyColor, Keys
    <3>2. /\ 3 * key \in DOMAIN key_data /\ 3 * key + 1 \in DOMAIN key_data
          /\ 3 * key + 2 \in DOMAIN key_data
      BY <3>1 DEF BuffersStay, TypeOK, KeyData, Keys, NumOfKeys
    <3>3. /\ key_data'[3 * key] = rgb.r % 256
          /\ key_data'[3 * key + 1] = rgb.g % 256
          /\ key_data'[3 * key + 2] = rgb.b % 256
      <4>1. 3 * key # 3 * key + 1 /\ 3 * key # 3 * key + 2 /\ 3 * key + 1 # 3 * key + 2
        BY <3>1 DEF Keys
      <4> QED BY <2>1, <3>2, <4>1 DEF SetKeyColor, Pixel, Stored
    <3>4. ASSUME NEW k \in Keys, k # key
          PROVE  /\ key_data'[3 * k] = key_data[3 * k]
                 /\ key_data'[3 * k + 1] = key_data[3 * k + 1]
                 /\ key_data'[3 * k + 2] = key_data[3 * k + 2]
      <4>1. \A c, d \in 0..2 : 3 * k + c # 3 * key + d
        BY <3>1, <3>4 DEF Keys
      <4>2. /\ 3 * k \in DOMAIN key_data /\ 3 * k + 1 \in DOMAIN key_data
            /\ 3 * k + 2 \in DOMAIN key_data
        BY <3>4 DEF BuffersStay, TypeOK, KeyData, Keys, NumOfKeys
      <4>3. /\ 3 * k \notin {3 * key, 3 * key + 1, 3 * key + 2}
            /\ 3 * k + 1 \notin {3 * key, 3 * key + 1, 3 * key + 2}
            /\ 3 * k + 2 \notin {3 * key, 3 * key + 1, 3 * key + 2}
        BY <3>1, <3>4 DEF Keys
      <4> QED BY <2>1, <4>2, <4>3 DEF SetKeyColor
    <3>5. Pixels!Give(key, rgb)
      <4>1. sent' = sent
        BY <2>1 DEF SetKeyColor
      <4> DEFINE light == [k \in Keys |-> [red |-> key_data[3 * k],
                                           green |-> key_data[3 * k + 1],
                                           blue |-> key_data[3 * k + 2]]]
                 lit == [red |-> rgb.r % 256, green |-> rgb.g % 256, blue |-> rgb.b % 256]
      <4>2. ASSUME NEW k \in Keys
            PROVE  [light EXCEPT ![key] = lit][k]
                      = [red |-> key_data'[3 * k], green |-> key_data'[3 * k + 1],
                         blue |-> key_data'[3 * k + 2]]
        <5>1. CASE k = key
          BY <3>1, <3>3, <5>1
        <5>2. CASE k # key
          BY <3>4, <5>2
        <5> QED BY <5>1, <5>2
      <4>3. [light EXCEPT ![key] = lit]
              = [k \in Keys |-> [red |-> key_data'[3 * k], green |-> key_data'[3 * k + 1],
                                 blue |-> key_data'[3 * k + 2]]]
        BY <4>2
      <4> QED BY <4>1, <4>3, Zenon DEF Pixels!Give, Keys
    <3> QED BY <3>1, <3>5 DEF Pixels!Next, Keys
  <2>2. CASE SendFF
    <3>1. sent' = msg_ff /\ key_data' = key_data
      BY <2>2, TemplatesStay DEF SendFF, BuffersStay
    <3>2. ASSUME NEW k \in Keys
          PROVE  /\ sent'[KeyStart + 3 * k] \in {0, 255}
                 /\ sent'[KeyStart + 3 * k + 1] \in {0, 255}
                 /\ sent'[KeyStart + 3 * k + 2] \in {0, 255}
      <4>1. KeyStart + 3 * k + 0 = KeyStart + 3 * k
        BY DEF Keys, KeyStart
      <4>2. \A c \in 0..2 : msg_ff[KeyStart + 3 * k + c] \in {0, 255}
        BY SelfTestLights
      <4>3. 0 \in 0..2 /\ 1 \in 0..2 /\ 2 \in 0..2
        OBVIOUS
      <4> QED BY <3>1, <4>1, <4>2, <4>3
    <3>3. \A k \in Keys : [red |-> sent'[KeyStart + 3 * k],
                           green |-> sent'[KeyStart + 3 * k + 1],
                           blue |-> sent'[KeyStart + 3 * k + 2]]
                            \in [red : {0, 255}, green : {0, 255}, blue : {0, 255}]
      BY <3>2
    <3>4. Pixels!LightUp
      BY <3>1, <3>3 DEF Pixels!LightUp, Keys, KeyStart
    <3> QED BY <3>4 DEF Pixels!Next
  <2>3. CASE Send00
    <3>1. sent' = msg_00 /\ key_data' = key_data
      BY <2>3, TemplatesStay DEF Send00, BuffersStay
    <3>2. ASSUME NEW k \in Keys
          PROVE  /\ sent'[KeyStart + 3 * k] = 0 /\ sent'[KeyStart + 3 * k + 1] = 0
                 /\ sent'[KeyStart + 3 * k + 2] = 0
      <4>1. KeyStart + 3 * k + 0 = KeyStart + 3 * k
        BY DEF Keys, KeyStart
      <4>2. \A c \in 0..2 : msg_00[KeyStart + 3 * k + c] = 0
        BY SelfTestLights
      <4>3. 0 \in 0..2 /\ 1 \in 0..2 /\ 2 \in 0..2
        OBVIOUS
      <4> QED BY <3>1, <4>1, <4>2, <4>3
    <3>3. Pixels!Darken
      BY <3>1, <3>2, Zenon DEF Pixels!Darken, Pixels!AllDark, Keys, KeyStart
    <3> QED BY <3>3 DEF Pixels!Next
  <2>4. CASE SendFrame
    <3>1. sent' = CheckedFrame(Compose(key_data)) /\ key_data' = key_data
      BY <2>4 DEF SendFrame
    <3>2. ASSUME NEW k \in Keys
          PROVE  /\ sent'[KeyStart + 3 * k] = key_data[3 * k]
                 /\ sent'[KeyStart + 3 * k + 1] = key_data[3 * k + 1]
                 /\ sent'[KeyStart + 3 * k + 2] = key_data[3 * k + 2]
      <4>1. KeyStart + 3 * k + 0 = KeyStart + 3 * k /\ 3 * k + 0 = 3 * k
        BY DEF Keys, KeyStart
      <4>2. \A c \in 0..2 : sent'[KeyStart + 3 * k + c] = key_data[3 * k + c]
        BY <3>1, FrameShowsKeys
      <4>3. 0 \in 0..2 /\ 1 \in 0..2 /\ 2 \in 0..2
        OBVIOUS
      <4> QED BY <4>1, <4>2, <4>3
    <3>3. Pixels!Show
      BY <3>1, <3>2, Zenon DEF Pixels!Show, Keys, KeyStart
    <3> QED BY <3>3 DEF Pixels!Next
  <2>5. CASE UNCHANGED vars
    BY <2>5, Zenon DEF vars, Pixels!pixels
  <2> QED BY <2>1, <2>2, <2>3, <2>4, <2>5 DEF Next
<1> QED
  BY <1>1, <1>2, BuffersInvariance, PTL DEF Spec, PixelSpec, Pixels!Spec
================================================================================
