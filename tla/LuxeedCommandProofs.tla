--------------------------- MODULE LuxeedCommandProofs ---------------------------
(***************************************************************************)
(* Proofs about the key map and the commands: for every table for which    *)
(* TableAssumption holds, whatever strings are looked up, whatever lines   *)
(* the clients send, and any number of both.                               *)
(***************************************************************************)
EXTENDS LuxeedCommand, TLAPS, WellFoundedInduction

(* A set of naturals that is not empty has a least element. *)
LEMMA MinIsLeast ==
    ASSUME NEW S \in SUBSET Nat, S # {}
    PROVE  Min(S) \in S /\ \A x \in S : Min(S) =< x
<1>1. PICK m \in S : \A x \in S : <<x, m>> \notin OpToRel(<, Nat)
  BY WFMin, NatLessThanWellFounded, Zenon
<1>2. \A x \in S : ~(x < m)
  BY <1>1 DEF OpToRel
<1>3. \A x \in S : m =< x
  BY <1>2
<1> QED BY <1>3, Zenon DEF Min

(* The first key that matches is one, and no key before it matches. *)
LEMMA FirstMatches ==
    ASSUME NEW S \in SUBSET Ids
    PROVE  /\ First(S) \in Ids \cup {None}
           /\ \A k \in S : (\A l \in S : k =< l) => First(S) = k
<1>1. CASE S = {}
  BY <1>1 DEF First
<1>2. CASE S # {}
  <2>1. S \in SUBSET Nat
    BY DEF Ids
  <2>2. First(S) \in S /\ \A x \in S : First(S) =< x
    BY <1>2, <2>1, MinIsLeast DEF First
  <2>3. ASSUME NEW k \in S, \A l \in S : k =< l PROVE First(S) = k
    <3>1. k =< First(S) /\ First(S) =< k /\ k \in Nat /\ First(S) \in Nat
      BY <2>1, <2>2, <2>3
    <3> QED BY <3>1
  <2> QED BY <2>2, <2>3
<1> QED BY <1>1, <1>2
--------------------------------------------------------------------------------
(* luxeed_key_init *)

(* The record a step of the loop leaves of a key. *)
Filled(key, p, j) ==
    [mapped |-> 1, x |-> XAt(p), y |-> YAt(p),
     name |-> [key.name EXCEPT ![j] = NameAt(p)],
     code |-> [key.code EXCEPT ![j] = CodeAt(p)],
     shift |-> [key.shift EXCEPT ![j] = ShiftOf(CodeAt(p), key_maps[p[1]].shift)]]

(* Within the table, the loop is at one of its names, the next one. *)
LEMMA LoopAtEntry ==
    ASSUME KeyTypeOK, LoopFollows, line =< Len(key_maps)
    PROVE  /\ <<line, entry>> \in Entries
           /\ <<line, entry>> \notin Added
           /\ \A p \in Entries : p[1] \in Nat /\ p[2] \in Nat
           /\ \A p \in Entries : p[1] = line => p[2] =< Len(key_maps[line].map)
           /\ line \in Nat /\ entry \in Nat
<1>1. line \in DOMAIN key_maps
  BY TableAssumption DEF KeyTypeOK
<1>2. entry \in 1..Len(key_maps[line].map) /\ Len(key_maps[line].map) \in 1..LUXEED_NUM_OF_KEYS
  BY <1>1, TableAssumption DEF LoopFollows
<1>3. entry \in DOMAIN key_maps[line].map
  BY <1>1, <1>2, TableAssumption
<1>4. entry \in 1..LUXEED_NUM_OF_KEYS
  <2> DEFINE n == Len(key_maps[line].map)
  <2>1. entry \in 1..n /\ n \in 1..LUXEED_NUM_OF_KEYS
    BY <1>2
  <2> HIDE DEF n
  <2> QED BY <2>1 DEF LUXEED_NUM_OF_KEYS
<1>5. <<line, entry>> \in Entries
  BY <1>1, <1>3, <1>4 DEF Entries
<1>6. \A p \in Entries : p[1] \in DOMAIN key_maps /\ p[2] \in DOMAIN key_maps[p[1]].map
  BY DEF Entries
<1>7. \A i \in DOMAIN key_maps : DOMAIN key_maps[i].map = 1..Len(key_maps[i].map)
  BY TableAssumption
<1>8. DOMAIN key_maps \subseteq Nat /\ \A i \in DOMAIN key_maps : Len(key_maps[i].map) \in Nat
  BY TableAssumption DEF LUXEED_NUM_OF_KEYS
<1>9. line \in Nat /\ entry \in Nat
  BY <1>1, <1>2, <1>8
<1>10. ASSUME NEW p \in Entries PROVE p[1] \in Nat /\ p[2] \in 1..Len(key_maps[p[1]].map)
  BY <1>6, <1>7, <1>8
<1>11. ASSUME NEW p \in Entries PROVE p[2] \in Nat
  BY <1>6, <1>8, <1>10
<1>12. <<line, entry>> \notin Added
  BY <1>9 DEF Added
<1>13. ASSUME NEW p \in Entries, p[1] = line PROVE p[2] =< Len(key_maps[line].map)
  BY <1>1, <1>8, <1>10, <1>13
<1> QED
  BY <1>5, <1>9, <1>10, <1>11, <1>12, <1>13

(* The next name is read, and no other. *)
LEMMA AddedGrows ==
    ASSUME KeyTypeOK, LoopFollows, line =< Len(key_maps),
           IF entry < Len(key_maps[line].map)
           THEN entry' = entry + 1 /\ line' = line
           ELSE entry' = 1 /\ line' = line + 1
    PROVE  Added' = Added \cup {<<line, entry>>}
<1> DEFINE n == Len(key_maps[line].map)
<1>1. /\ <<line, entry>> \in Entries
      /\ \A p \in Entries : p[1] \in Nat /\ p[2] \in Nat
      /\ \A p \in Entries : p[1] = line => p[2] =< n
      /\ line \in Nat /\ entry \in Nat
  BY LoopAtEntry
<1>2. n \in Nat /\ entry \in 1..n
  <2>1. line \in DOMAIN key_maps
    BY TableAssumption DEF KeyTypeOK
  <2>2. n \in 1..LUXEED_NUM_OF_KEYS
    BY <2>1, TableAssumption
  <2>3. entry \in 1..n
    BY DEF LoopFollows
  <2> HIDE DEF n
  <2> QED BY <2>2, <2>3 DEF LUXEED_NUM_OF_KEYS
<1>3. \A p \in Entries : p[1] = line /\ p[2] = entry => p = <<line, entry>>
  BY DEF Entries
<1>4. IF entry < n THEN entry' = entry + 1 /\ line' = line ELSE entry' = 1 /\ line' = line + 1
  OBVIOUS
<1>5. \A p \in Entries : p[2] >= 1
  <2> SUFFICES ASSUME NEW p \in Entries PROVE p[2] >= 1
    OBVIOUS
  <2>1. p \in (DOMAIN key_maps) \X (1..LUXEED_NUM_OF_KEYS)
    BY DEF Entries
  <2>2. p[2] \in 1..LUXEED_NUM_OF_KEYS
    BY <2>1
  <2>3. \A m \in 1..LUXEED_NUM_OF_KEYS : m >= 1
    BY DEF LUXEED_NUM_OF_KEYS
  <2> QED BY <2>2, <2>3, Zenon
<1> HIDE DEF n
<1>6. ASSUME NEW p \in Entries
      PROVE  (p[1] < line' \/ (p[1] = line' /\ p[2] < entry'))
                <=> (p[1] < line \/ (p[1] = line /\ p[2] < entry)) \/ (p[1] = line /\ p[2] = entry)
  BY <1>1, <1>2, <1>4, <1>5
<1>7. Added' = {p \in Entries : p[1] < line' \/ (p[1] = line' /\ p[2] < entry')}
  BY DEF Added
<1> QED BY <1>1, <1>3, <1>6, <1>7 DEF Added

(* The slot the loop finds is a free one of the first two: no other line   *)
(* has the name, and no more than two names are for a key.                 *)
LEMMA SlotIsFree ==
    ASSUME KeyTypeOK, LoopFollows, KeysFollow, line =< Len(key_maps),
           NEW p, p = <<line, entry>>
    PROVE  /\ KeyAt(p) \in Ids
           /\ Slot(keys[KeyAt(p)], NameAt(p)) \in {0, 1}
           /\ keys[KeyAt(p)].name[Slot(keys[KeyAt(p)], NameAt(p))] = None
           /\ \A i \in Slots : i < Slot(keys[KeyAt(p)], NameAt(p)) => keys[KeyAt(p)].name[i] # None
           /\ \A i \in Slots : keys[KeyAt(p)].name[i] # NameAt(p)
<1> DEFINE k == KeyAt(p)
           name == keys[k].name
<1>1. p \in Entries /\ p \notin Added /\ Added \subseteq Entries
  BY LoopAtEntry DEF Added
<1>2. k \in Ids /\ NameAt(p) \in STRING
  BY <1>1, TableAssumption
<1>3. ASSUME NEW j \in Slots, name[j] # None
      PROVE  \E q \in Added : KeyAt(q) = k /\ name[j] = NameAt(q)
  BY <1>2, <1>3 DEF KeysFollow
<1>4. \A i \in Slots : name[i] # NameAt(p)
  <2> SUFFICES ASSUME NEW i \in Slots, name[i] = NameAt(p) PROVE FALSE
    OBVIOUS
  <2>1. name[i] # None
    BY <1>2, NoneAssumption
  <2>2. PICK q \in Added : name[i] = NameAt(q)
    BY <1>3, <2>1
  <2> QED BY <1>1, <2>2, TableAssumption
<1>5. name[1] = None /\ name[2] = None
  <2> SUFFICES ASSUME name[1] # None PROVE FALSE
    BY <1>2 DEF KeysFollow
  <2>1. name[0] # None /\ name[0] # name[1]
    BY <1>2 DEF KeysFollow
  <2>2. PICK q \in Added : KeyAt(q) = k /\ name[0] = NameAt(q)
    BY <1>3, <2>1 DEF Slots
  <2>3. PICK r \in Added : KeyAt(r) = k /\ name[1] = NameAt(r)
    BY <1>3 DEF Slots
  <2>4. q # r
    BY <2>1, <2>2, <2>3
  <2> QED BY <1>1, <2>2, <2>3, <2>4, TableAssumption
<1>6. Slot(keys[k], NameAt(p)) = Min({j \in Slots : name[j] \in {None, NameAt(p)}} \cup {3})
  BY DEF Slot
<1> HIDE DEF k, name
<1> DEFINE S == {j \in Slots : name[j] \in {None, NameAt(p)}} \cup {3}
<1>7. S \in SUBSET Nat /\ 1 \in S /\ S \subseteq 0..3
  <2>1. 1 \in Slots /\ Slots \subseteq 0..3
    BY DEF Slots
  <2>2. 1 \in S
    BY <1>5, <2>1
  <2>3. S \subseteq Slots \cup {3}
    BY Zenon
  <2> HIDE DEF S
  <2>4. S \subseteq 0..3
    BY <2>3 DEF Slots
  <2> QED BY <2>2, <2>4
<1>8. Min(S) \in S /\ \A x \in S : Min(S) =< x
  BY <1>7, MinIsLeast
<1>9. name[Min(S)] = None
  <2>1. Min(S) # 3 => name[Min(S)] \in {None, NameAt(p)} /\ Min(S) \in Slots
    BY <1>8
  <2>2. Min(S) =< 1
    BY <1>7, <1>8
  <2> QED BY <1>4, <2>1, <2>2
<1>10. ASSUME NEW i \in Slots, i < Min(S) PROVE name[i] # None
  <2> SUFFICES ASSUME name[i] = None PROVE FALSE
    OBVIOUS
  <2>1. i \in S
    OBVIOUS
  <2>2. Min(S) =< i /\ Min(S) \in 0..3 /\ i \in 0..2
    BY <1>7, <1>8, <2>1 DEF Slots
  <2> HIDE DEF S
  <2> QED BY <1>10, <2>2
<1> HIDE DEF S
<1>11. Min(S) \in {0, 1}
  <2>1. Min(S) \in 0..3 /\ Min(S) =< 1
    BY <1>7, <1>8, Zenon
  <2> QED BY <2>1
<1>12. Slot(keys[k], NameAt(p)) = Min(S)
  BY <1>6 DEF S
<1> QED BY <1>2, <1>4, <1>9, <1>10, <1>11, <1>12 DEF k, name

(* What a step of the loop leaves: its name in a slot that was free, and   *)
(* all else as it was.                                                     *)
LEMMA AddKeyFills ==
    ASSUME KeyTypeOK, LoopFollows, KeysFollow, AddKey,
           NEW p, p = <<line, entry>>, NEW k, k = KeyAt(p),
           NEW j, j = Slot(keys[k], NameAt(p))
    PROVE  /\ keys' = [keys EXCEPT ![k] = Filled(keys[k], p, j)]
           /\ Added' = Added \cup {p}
           /\ UNCHANGED pc
<1>1. line =< Len(key_maps)
  BY DEF AddKey
<1>2. k \in Ids /\ j \in {0, 1}
  BY <1>1, SlotIsFree
<1>3. k = KeyIndex(key_maps[line], entry) /\ NameAt(p) = key_maps[line].map[entry][1]
  BY DEF KeyAt, KeyIndex, NameAt
<1>4. /\ Place(key_maps[line], entry).x = XAt(p)
      /\ Place(key_maps[line], entry).y = YAt(p)
      /\ CodeAt(p) = CodeOf(NameAt(p), key_maps[line].map[entry][2])
  BY DEF Place, XAt, YAt, CodeAt, NameAt
<1>5. key_maps[p[1]] = key_maps[line]
  OBVIOUS
<1>6. j \in Slots
  BY <1>2 DEF Slots
<1>7. /\ keys' = [keys EXCEPT ![k] = Filled(keys[k], p, j)]
      /\ IF entry < Len(key_maps[line].map)
         THEN entry' = entry + 1 /\ line' = line
         ELSE entry' = 1 /\ line' = line + 1
      /\ UNCHANGED pc
  BY <1>3, <1>4, <1>5, <1>6, Zenon DEF AddKey, Filled
<1>8. Added' = Added \cup {p}
  BY <1>1, <1>7, AddedGrows
<1> QED BY <1>7, <1>8

(* The fields of the filled record. *)
LEMMA FilledFields ==
    ASSUME NEW key \in KeyType, NEW p \in Entries, NEW j \in {0, 1}
    PROVE  /\ Filled(key, p, j) \in KeyType
           /\ Filled(key, p, j).mapped = 1
           /\ Filled(key, p, j).x = XAt(p) /\ Filled(key, p, j).y = YAt(p)
           /\ Filled(key, p, j).name[j] = NameAt(p)
           /\ Filled(key, p, j).code[j] = CodeAt(p)
           /\ \A i \in Slots \ {j} : /\ Filled(key, p, j).name[i] = key.name[i]
                                     /\ Filled(key, p, j).code[i] = key.code[i]
<1> DEFINE s == ShiftOf(CodeAt(p), key_maps[p[1]].shift)
           n == [key.name EXCEPT ![j] = NameAt(p)]
           c == [key.code EXCEPT ![j] = CodeAt(p)]
           h == [key.shift EXCEPT ![j] = s]
           f == Filled(key, p, j)
<1>1. p[1] \in DOMAIN key_maps /\ p[2] \in DOMAIN key_maps[p[1]].map
  BY DEF Entries
<1>2. NameAt(p) \in Names
  <2> DEFINE L == {key_maps[i] : i \in DOMAIN key_maps}
             l == key_maps[p[1]]
  <2>1. l \in L
    BY <1>1
  <2>2. NameAt(p) \in {l.map[e][1] : e \in DOMAIN l.map}
    BY <1>1 DEF NameAt
  <2>3. {l.map[e][1] : e \in DOMAIN l.map} \in {{m.map[e][1] : e \in DOMAIN m.map} : m \in L}
    BY <2>1
  <2> HIDE DEF l
  <2> QED BY <2>2, <2>3 DEF Names
<1>3. XAt(p) \in 0..16 /\ YAt(p) \in 0..4 /\ CodeAt(p) \in 0..127
  BY TableAssumption
<1>4. s \in {0, 1}
  BY <1>1, TableAssumption DEF ShiftOf
<1>5. j \in Slots
  BY DEF Slots
<1>6. /\ key.name \in [Slots -> Names \cup {None}]
      /\ key.code \in [Slots -> 0..127]
      /\ key.shift \in [Slots -> {0, 1}]
  BY DEF KeyType
<1>7. n \in [Slots -> Names \cup {None}]
  BY <1>2, <1>6
<1>8. c \in [Slots -> 0..127]
  BY <1>3, <1>6
<1>9. h \in [Slots -> {0, 1}]
  BY <1>4, <1>6
<1>10. f = [mapped |-> 1, x |-> XAt(p), y |-> YAt(p), name |-> n, code |-> c, shift |-> h]
  BY DEF Filled
<1>11. /\ n[j] = NameAt(p) /\ c[j] = CodeAt(p)
       /\ \A i \in Slots \ {j} : n[i] = key.name[i] /\ c[i] = key.code[i]
  BY <1>5, <1>6
<1> HIDE DEF n, c, h, f
<1>12. f \in KeyType
  BY <1>3, <1>7, <1>8, <1>9, <1>10 DEF KeyType
<1>13. f.mapped = 1 /\ f.x = XAt(p) /\ f.y = YAt(p) /\ f.name = n /\ f.code = c
  BY <1>10
<1> QED BY <1>11, <1>12, <1>13 DEF f

(* The keys go on following the table. *)
LEMMA AddKeyFollows ==
    ASSUME KeyInv, AddKey
    PROVE  KeysFollow' /\ keys' \in [Ids -> KeyType]
<1> DEFINE p == <<line, entry>>
           k == KeyAt(p)
           j == Slot(keys[k], NameAt(p))
           f == Filled(keys[k], p, j)
<1> USE DEF KeyInv
<1>1. line =< Len(key_maps) /\ keys \in [Ids -> KeyType]
  BY DEF AddKey, KeyTypeOK
<1>2. p \in Entries /\ p \notin Added /\ Added \subseteq Entries
  BY <1>1, LoopAtEntry DEF Added
<1>3. /\ k \in Ids /\ j \in {0, 1}
      /\ \A i \in Slots : i < j => keys[k].name[i] # None
      /\ \A i \in Slots : keys[k].name[i] # NameAt(p)
  BY <1>1, SlotIsFree
<1>4. keys' = [keys EXCEPT ![k] = f] /\ Added' = Added \cup {p}
  BY AddKeyFills
<1>5. keys[k] \in KeyType
  BY <1>1, <1>3
<1>6. /\ f \in KeyType
      /\ f.mapped = 1 /\ f.x = XAt(p) /\ f.y = YAt(p)
      /\ f.name[j] = NameAt(p) /\ f.code[j] = CodeAt(p)
      /\ \A i \in Slots \ {j} : f.name[i] = keys[k].name[i] /\ f.code[i] = keys[k].code[i]
  BY <1>2, <1>3, <1>5, FilledFields, SMTT(30)
<1>7. NameAt(p) # None
  BY <1>2, TableAssumption, NoneAssumption
<1>8. k = KeyAt(p)
  OBVIOUS
<1> HIDE DEF p, k, j, f
<1>9. keys'[k] = f /\ \A l \in Ids \ {k} : keys'[l] = keys[l]
  BY <1>1, <1>3, <1>4
<1>10. keys' \in [Ids -> KeyType]
  BY <1>1, <1>3, <1>4, <1>6
<1>11. ASSUME NEW l \in Ids
       PROVE  /\ \A i \in Slots :
                    /\ keys'[l].name[i] # None =>
                          \E q \in Added' : /\ KeyAt(q) = l
                                            /\ keys'[l].name[i] = NameAt(q)
                                            /\ keys'[l].code[i] = CodeAt(q)
                    /\ keys'[l].name[i] = None => keys'[l].code[i] = 0
              /\ keys'[l].name[2] = None
              /\ keys'[l].name[0] = None => keys'[l].name[1] = None
              /\ keys'[l].name[0] # None => keys'[l].name[0] # keys'[l].name[1]
              /\ keys'[l].mapped = 1 => keys'[l].name[0] # None
              /\ keys'[l].mapped = 0 => keys'[l].x = 0 /\ keys'[l].y = 0
  <2>1. CASE l # k
    <3>1. keys'[l] = keys[l]
      BY <1>9, <2>1
    <3> QED BY <1>4, <3>1 DEF KeysFollow
  <2>2. CASE l = k
    <3>1. keys'[l] = f
      BY <1>9, <2>2
    <3>2. ASSUME NEW i \in Slots
          PROVE  /\ f.name[i] # None =>
                        \E q \in Added' : /\ KeyAt(q) = l
                                          /\ f.name[i] = NameAt(q)
                                          /\ f.code[i] = CodeAt(q)
                 /\ f.name[i] = None => f.code[i] = 0
      <4>1. CASE i = j
        BY <1>4, <1>6, <1>7, <1>8, <2>2, <4>1
      <4>2. CASE i # j
        <5>1. f.name[i] = keys[k].name[i] /\ f.code[i] = keys[k].code[i]
          BY <1>6, <4>2
        <5> QED BY <1>3, <1>4, <2>2, <5>1 DEF KeysFollow
      <4> QED BY <4>1, <4>2
    <3>3. /\ 0 \in Slots /\ 1 \in Slots /\ 2 \in Slots
          /\ f.name[2] = None
      BY <1>3, <1>6 DEF Slots, KeysFollow
    <3>4. f.name[0] # None
      BY <1>3, <1>6, <1>7, <3>3
    <3>5. f.name[0] # f.name[1]
      <4>1. CASE j = 0
        BY <1>3, <1>6, <3>3, <4>1
      <4>2. CASE j = 1
        BY <1>3, <1>6, <3>3, <4>2
      <4> QED BY <1>3, <4>1, <4>2
    <3> QED BY <1>6, <3>1, <3>2, <3>3, <3>4, <3>5
  <2> QED BY <2>1, <2>2
<1>12. ASSUME NEW q \in Added'
       PROVE  /\ keys'[KeyAt(q)].mapped = 1
              /\ keys'[KeyAt(q)].x = XAt(q) /\ keys'[KeyAt(q)].y = YAt(q)
  <2>1. q \in Entries /\ KeyAt(q) \in Ids
    BY <1>2, <1>4, TableAssumption
  <2>2. CASE KeyAt(q) = k
    <3>1. XAt(q) = XAt(p) /\ YAt(q) = YAt(p)
      BY <1>2, <1>8, <2>1, <2>2, TableAssumption
    <3> QED BY <1>6, <1>9, <2>2, <3>1
  <2>3. CASE KeyAt(q) # k
    <3>1. q \in Added
      BY <1>4, <1>8, <2>3
    <3> QED BY <1>9, <2>1, <2>3, <3>1 DEF KeysFollow
  <2> QED BY <2>2, <2>3
<1> QED BY <1>10, <1>11, <1>12 DEF KeysFollow

(* The keys are empty, and the loop before the table. *)
LEMMA KeyStart == KeyInit => KeyInv
<1> SUFFICES ASSUME KeyInit PROVE KeyInv
  OBVIOUS
<1>1. keys \in [Ids -> KeyType]
  <2> DEFINE r == [mapped |-> 0, x |-> 0, y |-> 0,
                   name |-> NoSlots(None), code |-> NoSlots(0), shift |-> NoSlots(0)]
  <2>1. /\ NoSlots(None) \in [Slots -> Names \cup {None}]
        /\ NoSlots(0) \in [Slots -> 0..127] /\ NoSlots(0) \in [Slots -> {0, 1}]
    BY DEF NoSlots
  <2>2. r \in KeyType
    BY <2>1 DEF KeyType
  <2> HIDE DEF r
  <2>3. keys = [k \in Ids |-> r]
    BY DEF KeyInit, r
  <2> QED BY <2>2, <2>3
<1>2. KeyTypeOK
  <2>1. \A n \in Nat : 1 \in 1..n + 1
    OBVIOUS
  <2>2. line \in 1..Len(key_maps) + 1
    BY <2>1, TableAssumption, Zenon DEF KeyInit
  <2>3. entry \in Nat
    BY DEF KeyInit
  <2> QED BY <1>1, <2>2, <2>3, Zenon DEF KeyInit, KeyTypeOK
<1>3. line =< Len(key_maps) => entry \in 1..Len(key_maps[line].map)
  <2> SUFFICES ASSUME line =< Len(key_maps) PROVE entry \in 1..Len(key_maps[line].map)
    OBVIOUS
  <2>1. line \in DOMAIN key_maps /\ entry = 1
    BY TableAssumption DEF KeyInit
  <2>2. Len(key_maps[line].map) \in 1..LUXEED_NUM_OF_KEYS
    BY <2>1, TableAssumption
  <2>3. \A n \in 1..LUXEED_NUM_OF_KEYS : 1 \in 1..n
    BY DEF LUXEED_NUM_OF_KEYS
  <2> QED BY <2>1, <2>2, <2>3, Zenon
<1>4. LoopFollows
  BY <1>3 DEF KeyInit, LoopFollows
<1>5. Added = {}
  <2> SUFFICES ASSUME NEW p \in Added PROVE FALSE
    OBVIOUS
  <2>1. p[1] \in DOMAIN key_maps /\ p[2] \in 1..LUXEED_NUM_OF_KEYS
    BY DEF Added, Entries
  <2>2. \A m \in 1..LUXEED_NUM_OF_KEYS : ~(m < 1)
    BY DEF LUXEED_NUM_OF_KEYS
  <2>3. \A m \in DOMAIN key_maps : ~(m < 1)
    BY TableAssumption
  <2> QED BY <2>1, <2>2, <2>3 DEF Added, KeyInit
<1>6. KeysFollow
  BY <1>5 DEF KeyInit, KeysFollow, NoSlots, Slots
<1> QED BY <1>2, <1>4, <1>6 DEF KeyInv

(* A step of the loop that builds the table. *)
LEMMA AddKeyKeeps ==
    ASSUME KeyInv, AddKey
    PROVE  KeyInv' /\ pc' = "build" /\ UNCHANGED <<initialized, call, answer>>
<1> USE DEF KeyInv
<1>1. KeysFollow' /\ keys' \in [Ids -> KeyType]
  BY AddKeyFollows
<1>2. /\ line =< Len(key_maps) /\ pc = "build"
      /\ UNCHANGED <<initialized, call, answer>>
  BY DEF AddKey
<1>3. Slot(keys[KeyAt(<<line, entry>>)], NameAt(<<line, entry>>)) \in Slots
  BY <1>2, SlotIsFree DEF Slots
<1>4. /\ IF entry < Len(key_maps[line].map)
         THEN entry' = entry + 1 /\ line' = line
         ELSE entry' = 1 /\ line' = line + 1
      /\ UNCHANGED pc
  BY <1>3, Zenon DEF AddKey, KeyAt, KeyIndex, NameAt
<1>5. \A i \in DOMAIN key_maps : Len(key_maps[i].map) \in Nat /\ 1 \in 1..Len(key_maps[i].map)
  <2>1. \A n \in 1..LUXEED_NUM_OF_KEYS : n \in Nat /\ 1 \in 1..n
    BY DEF LUXEED_NUM_OF_KEYS
  <2> QED BY <2>1, TableAssumption, Zenon
<1>6. /\ line \in 1..Len(key_maps) /\ Len(key_maps) \in Nat
      /\ DOMAIN key_maps = 1..Len(key_maps)
      /\ entry \in 1..Len(key_maps[line].map)
  BY <1>2, TableAssumption DEF KeyTypeOK, LoopFollows
<1>7. /\ line' \in 1..Len(key_maps) + 1 /\ entry' \in Nat
      /\ line' =< Len(key_maps) => entry' \in 1..Len(key_maps[line'].map)
      /\ line' > Len(key_maps) => entry' = 1
  <2> DEFINE n == Len(key_maps[line].map)
             m == Len(key_maps)
  <2>1. n \in Nat /\ entry \in 1..n /\ line \in 1..m /\ m \in Nat
    BY <1>5, <1>6
  <2>2. CASE entry < n
    <3>1. entry' = entry + 1 /\ line' = line
      BY <1>4, <2>2
    <3>2. entry + 1 \in 1..n
      <4> HIDE DEF n, m
      <4> QED BY <2>1, <2>2
    <3>3. entry + 1 \in Nat /\ line \in 1..m + 1 /\ ~(line > m)
      <4> HIDE DEF n, m
      <4> QED BY <2>1
    <3> QED BY <3>1, <3>2, <3>3
  <2>3. CASE ~(entry < n)
    <3>1. entry' = 1 /\ line' = line + 1
      BY <1>4, <2>3
    <3>2. line + 1 \in 1..m + 1 /\ (line + 1 =< m => line + 1 \in DOMAIN key_maps)
      BY <1>6
    <3> QED BY <1>5, <3>1, <3>2
  <2> QED BY <2>2, <2>3
<1>8. KeyTypeOK'
  BY <1>1, <1>2, <1>4, <1>7 DEF KeyTypeOK
<1>9. LoopFollows'
  BY <1>2, <1>4, <1>7 DEF LoopFollows
<1> QED BY <1>1, <1>2, <1>4, <1>8, <1>9

(* Whatever string is looked up, a key is found or none. *)
LEMMA ByStringFinds ==
    ASSUME NEW q \in Queries
    PROVE  ByString(q) \in Ids \cup {None}
<1>1. \/ q.form = "#" \/ q.form = "@" \/ q.form = "0x" \/ q.form = "name"
  BY QueriesAssumption DEF Query
<1>2. \A n : ById(n) \in Ids \cup {None}
  BY FirstMatches DEF ById
<1>3. \A x, y : ByPosition(x, y) \in Ids \cup {None}
  BY FirstMatches DEF ByPosition
<1>4. \A c : ByAscii(c) \in Ids \cup {None}
  BY FirstMatches DEF ByAscii
<1>5. \A n : ByName(n) \in Ids \cup {None}
  BY FirstMatches DEF ByName
<1>6. CASE q.form = "#"
  BY <1>2, <1>6 DEF ByString
<1>7. CASE q.form = "@"
  BY <1>3, <1>7 DEF ByString
<1>8. CASE q.form = "0x"
  BY <1>4, <1>8 DEF ByString
<1>9. CASE q.form = "name"
  BY <1>5, <1>9 DEF ByString
<1> QED BY <1>1, <1>6, <1>7, <1>8, <1>9

(* Nothing but the keys and where the loop is decides what the keys follow *)
(* and where strings are found.                                            *)
LEMMA KeysStay ==
    ASSUME UNCHANGED <<keys, line, entry>>
    PROVE  /\ Added' = Added
           /\ KeysFollow' <=> KeysFollow
           /\ \A q : ByString(q)' = ByString(q)
<1>1. Added' = Added
  BY DEF Added
<1>2. KeysFollow' <=> KeysFollow
  BY <1>1 DEF KeysFollow
<1>3. ASSUME NEW q PROVE ByString(q)' = ByString(q)
  BY DEF ByString, ById, ByPosition, ByAscii, ByName
<1> QED BY <1>1, <1>2, <1>3

(* A step that leaves the key map alone. *)
LEMMA IdleKeeps ==
    ASSUME KeyInv, UNCHANGED keyVars
    PROVE  KeyInv'
<1> USE DEF KeyInv, keyVars
<1>1. KeyTypeOK'
  BY DEF KeyTypeOK
<1>2. LoopFollows'
  BY DEF LoopFollows
<1>3. KeysFollow'
  BY KeysStay
<1> QED BY <1>1, <1>2, <1>3

(* A lookup that is asked for. *)
LEMMA AskKeeps ==
    ASSUME KeyInv, NEW q \in Queries, Ask(q)
    PROVE  KeyInv'
<1> USE DEF KeyInv, Ask
<1>1. KeyTypeOK'
  BY DEF KeyTypeOK
<1>2. LoopFollows'
  BY DEF LoopFollows
<1>3. KeysFollow'
  BY KeysStay
<1> QED BY <1>1, <1>2, <1>3

(* A step of a lookup. *)
LEMMA LookUpKeeps ==
    ASSUME KeyInv, LookUp
    PROVE  KeyInv'
<1> USE DEF KeyInv
<1>1. CASE InitBegins
  <2>1. KeyTypeOK'
    BY <1>1 DEF KeyTypeOK, InitBegins
  <2>2. LoopFollows'
    BY <1>1 DEF LoopFollows, InitBegins
  <2>3. KeysFollow'
    BY <1>1, KeysStay DEF InitBegins
  <2> QED BY <2>1, <2>2, <2>3
<1>2. CASE AddKey
  BY <1>2, AddKeyKeeps
<1>3. CASE InitEnds
  <2>1. KeyTypeOK'
    BY <1>3 DEF KeyTypeOK, InitEnds
  <2>2. LoopFollows'
    BY <1>3 DEF LoopFollows, InitEnds
  <2>3. KeysFollow'
    BY <1>3, KeysStay DEF InitEnds
  <2> QED BY <2>1, <2>2, <2>3
<1>4. CASE Search
  <2>1. call \in Queries
    BY <1>4 DEF Search, LoopFollows
  <2>2. KeyTypeOK'
    BY <1>4, <2>1, ByStringFinds DEF KeyTypeOK, Search
  <2>3. LoopFollows'
    BY <1>4 DEF LoopFollows, Search
  <2>4. KeysFollow'
    BY <1>4, KeysStay DEF Search
  <2> QED BY <2>2, <2>3, <2>4
<1> QED BY <1>1, <1>2, <1>3, <1>4 DEF LookUp

--------------------------------------------------------------------------------
(* luxeed_command.c *)

(* The word that is parsed next, and those that follow it. *)
LEMMA RestSplits ==
    ASSUME rest \in Seq(Words), rest # <<>>
    PROVE  /\ Head(rest) \in Words /\ Head(rest) = rest[1]
           /\ Tail(rest) \in Seq(Words)
           /\ Len(rest) \in Nat \ {0} /\ Len(Tail(rest)) = Len(rest) - 1
           /\ \A i \in 1..Len(Tail(rest)) : Tail(rest)[i] = rest[i + 1]
           /\ Sought \in Queries
<1>1. /\ Head(rest) \in Words /\ Head(rest) = rest[1]
      /\ Tail(rest) \in Seq(Words)
      /\ Len(rest) \in Nat \ {0} /\ Len(Tail(rest)) = Len(rest) - 1
      /\ \A i \in 1..Len(Tail(rest)) : Tail(rest)[i] = rest[i + 1]
  OBVIOUS
<1>2. Sought \in Queries
  BY <1>1, ClientsAssumption DEF Sought, Words
<1> QED BY <1>1, <1>2

(* The strings looked up are words. *)
LEMMA QueriesAreWords ==
    ASSUME NEW s \in Seq(Queries)
    PROVE  s \in Seq(Words)
<1>1. Len(s) \in Nat /\ \A i \in 1..Len(s) : s[i] \in Words
  BY DEF Words
<1>2. s = [i \in 1..Len(s) |-> s[i]]
  OBVIOUS
<1> QED BY <1>1, <1>2

(* The key map under a step of a command: a lookup is asked for, goes a    *)
(* step, or waits.                                                         *)
LEMMA KeyMapStep ==
    ASSUME IInv, [Next]_vars
    PROVE  KeyInv'
<1> USE DEF IInv
<1>1. CASE AskKey
  <2>1. Ask(Sought) /\ Sought \in Queries
    BY <1>1, RestSplits DEF AskKey, Sought, TypeOK
  <2> QED BY <2>1, AskKeeps
<1>2. CASE FindKey
  BY <1>2, LookUpKeeps DEF FindKey
<1>3. ASSUME NEW c \in Clients, Leave(c) PROVE UNCHANGED keyVars
  BY <1>3 DEF Leave
<1>4. ASSUME NEW c \in Clients, NEW l \in Lines, Begin(c, l) PROVE UNCHANGED keyVars
  BY <1>4 DEF Begin
<1>5. CASE RunSet \/ RunGet \/ RunVerbose \/ RunUpdate \/ RunQuiet \/ RunBad
  BY <1>5, IdleKeeps DEF RunSet, RunGet, RunVerbose, RunUpdate, RunQuiet, RunBad
<1>6. CASE SetAll \/ SetKey \/ GetKey \/ BadKey \/ WordsEnd \/ Reply
  BY <1>6, IdleKeeps DEF SetAll, SetKey, GetKey, BadKey, WordsEnd, Reply
<1>7. CASE UNCHANGED vars
  BY <1>7, IdleKeeps DEF vars
<1> QED BY <1>1, <1>2, <1>3, <1>4, <1>5, <1>6, <1>7, IdleKeeps DEF Next, Run

(* The pixel that is stored is one of bytes. *)
LEMMA PixelIsBytes ==
    ASSUME NEW rgb \in [1..3 -> Scans]
    PROVE  [i \in 1..3 |-> Byte(rgb[i])] \in [1..3 -> 0..255]
<1>1. \A v \in Scans : Byte(v) \in 0..255
  BY DEF Scans, Byte
<1> QED BY <1>1

(* Setting keys leaves a frame of bytes. *)
LEMMA SetKeysFills ==
    ASSUME TypeOK, NEW K, NEW rgb \in [1..3 -> Scans], SetKeys(K, rgb),
           NEW pixel, pixel = [i \in 1..3 |-> Byte(rgb[i])]
    PROVE  /\ key_data' = [k \in Ids |-> IF k \in K THEN pixel ELSE key_data[k]]
           /\ key_data' \in [Ids -> [1..3 -> 0..255]]
           /\ key_data_dirty' \in BOOLEAN
<1>1. pixel \in [1..3 -> 0..255]
  BY PixelIsBytes
<1>2. key_data' = [k \in Ids |-> IF k \in K THEN pixel ELSE key_data[k]]
  BY DEF SetKeys
<1>3. key_data \in [Ids -> [1..3 -> 0..255]]
  BY DEF TypeOK
<1>4. key_data' \in [Ids -> [1..3 -> 0..255]]
  <2> SUFFICES ASSUME NEW k \in Ids
               PROVE  (IF k \in K THEN pixel ELSE key_data[k]) \in [1..3 -> 0..255]
    BY <1>2, Zenon
  <2>1. key_data[k] \in [1..3 -> 0..255]
    BY <1>3, Zenon
  <2> QED BY <1>1, <2>1, Zenon
<1>5. key_data_dirty' \in BOOLEAN
  BY Zenon DEF SetKeys, TypeOK
<1> QED BY <1>2, <1>4, <1>5

(* So it does whatever the pixel is called. *)
LEMMA SetKeysTyped ==
    ASSUME TypeOK, who \in Clients, NEW K, SetKeys(K, color[who])
    PROVE  key_data' \in [Ids -> [1..3 -> 0..255]] /\ key_data_dirty' \in BOOLEAN
<1>1. color[who] \in [1..3 -> Scans]
  BY Zenon DEF TypeOK
<1> DEFINE pixel == [i \in 1..3 |-> Byte(color[who][i])]
<1>2. pixel = [i \in 1..3 |-> Byte(color[who][i])]
  OBVIOUS
<1> HIDE DEF pixel
<1> QED BY <1>1, <1>2, SetKeysFills, Zenon

(* A step that changes no more than a connection keeps the types. *)
LEMMA QuietTyped ==
    ASSUME TypeOK, KeyTypeOK', conn' \in [Clients -> {"here", "gone", "reset"}],
           UNCHANGED <<device, clients, running, rest, outcome, alive, count>>
    PROVE  TypeOK'
<1>1. /\ UNCHANGED <<key_data, key_data_dirty, color, verbose, who, cmd, at>>
      /\ UNCHANGED <<rest, error, error2, force_output, alive, count>>
  BY Zenon DEF device, clients, running, outcome
<1>2. /\ key_data' = key_data /\ key_data_dirty' = key_data_dirty
      /\ color' = color /\ verbose' = verbose /\ who' = who /\ cmd' = cmd /\ at' = at
      /\ rest' = rest /\ error' = error /\ error2' = error2 /\ force_output' = force_output
      /\ alive' = alive /\ count' = count
  BY <1>1, Zenon
<1>3. /\ key_data' \in [Ids -> [1..3 -> 0..255]] /\ key_data_dirty' \in BOOLEAN
      /\ color' \in [Clients -> [1..3 -> Scans]] /\ verbose' \in [Clients -> Int]
      /\ who' \in Clients \cup {Nobody} /\ cmd' \in Lines \cup {None}
  BY <1>2, Zenon DEF TypeOK
<1>4. /\ at' \in {"none", "command", "words", "lookup", "reply"} /\ rest' \in Seq(Words)
      /\ error' \in {None, "BAD KEY", "BAD COMMAND"} /\ error2' \in Queries \cup {None}
      /\ force_output' \in BOOLEAN /\ alive' \in BOOLEAN /\ count' \in 0..MaxLines
  BY <1>2, Zenon DEF TypeOK
<1> QED BY <1>3, <1>4, Zenon DEF TypeOK

(* Types. *)
LEMMA TypeStep ==
    ASSUME IInv, [Next]_vars
    PROVE  TypeOK'
<1>18. <<>> \in Seq(Words)
  OBVIOUS
<1>19. \A m \in Nat : \A n \in 0..m : n < m => n + 1 \in 0..m
  OBVIOUS
<1> USE DEF IInv, TypeOK
<1>0. KeyTypeOK'
  BY KeyMapStep DEF KeyInv
<1>1. ASSUME NEW c \in Clients, Leave(c) PROVE TypeOK'
  <2>1. conn' \in [Clients -> {"here", "gone", "reset"}]
    BY <1>1 DEF Leave
  <2>2. UNCHANGED <<device, clients, running, rest, outcome, alive, count>>
    BY <1>1, Zenon DEF Leave
  <2> QED BY <1>0, <2>1, <2>2, QuietTyped, Zenon
<1>2. ASSUME NEW c \in Clients, NEW l \in Lines, Begin(c, l) PROVE TypeOK'
  <2>1. rest' \in Seq(Words)
    <3>1. l.cmd = "s" => l.words \in Seq(Words)
      BY LinesAssumption DEF IsLine
    <3>2. l.cmd = "g" => l.words \in Seq(Words)
      BY QueriesAreWords, LinesAssumption, Zenon DEF IsLine
    <3>3. rest' = IF l.cmd \in {"s", "g"} THEN l.words ELSE <<>>
      BY <1>2 DEF Begin
    <3> QED BY <1>18, <3>1, <3>2, <3>3
  <2>2. count' \in 0..MaxLines
    BY <1>2, <1>19, ClientsAssumption, Zenon DEF Begin
  <2> QED BY <1>0, <1>2, <2>1, <2>2 DEF Begin, device, clients
<1>3. CASE RunSet
  <2>1. who \in Clients /\ cmd \in Lines /\ IsLine(cmd) /\ cmd.cmd = "s"
    BY <1>3, LinesAssumption DEF RunSet, Is, LineFollows
  <2>2. color' \in [Clients -> [1..3 -> Scans]]
    BY <1>3, <2>1 DEF RunSet, Scanned3, IsLine
  <2> QED BY <1>0, <1>3, <2>2 DEF RunSet, device, outcome, outside
<1>4. CASE RunGet
  BY <1>0, <1>4 DEF RunGet, device, clients, outcome, outside
<1>5. CASE RunVerbose
  <2>1. who \in Clients /\ cmd \in Lines /\ IsLine(cmd) /\ cmd.cmd = "v"
    BY <1>5, LinesAssumption DEF RunVerbose, Is, LineFollows
  <2> QED BY <1>0, <1>5, <2>1 DEF RunVerbose, IsLine, device, outcome, outside
<1>6. CASE RunUpdate
  BY <1>0, <1>6 DEF RunUpdate, clients, outcome, outside
<1>7. CASE RunQuiet
  BY <1>0, <1>7 DEF RunQuiet, device, clients, outcome, outside
<1>8. CASE RunBad
  BY <1>0, <1>8 DEF RunBad, device, clients, outside
<1>9. CASE SetAll
  <2>1. who \in Clients /\ rest' \in Seq(Words)
    BY <1>9, RestSplits DEF SetAll, Answered, NextWord, LineFollows
  <2>2. key_data' \in [Ids -> [1..3 -> 0..255]] /\ key_data_dirty' \in BOOLEAN
    BY <1>9, <2>1, SetKeysTyped, Zenon DEF SetAll
  <2> QED BY <1>0, <1>9, <2>1, <2>2 DEF SetAll, NextWord, clients, outcome, outside
<1>10. CASE AskKey
  BY <1>0, <1>10 DEF AskKey, device, clients, outcome, outside
<1>11. CASE FindKey
  BY <1>0, <1>11 DEF FindKey, device, clients, running, outcome, outside
<1>12. CASE SetKey
  <2>1. who \in Clients /\ rest' \in Seq(Words)
    BY <1>12, RestSplits DEF SetKey, KeyAnswered, Answered, NextWord, LineFollows
  <2>2. key_data' \in [Ids -> [1..3 -> 0..255]] /\ key_data_dirty' \in BOOLEAN
    BY <1>12, <2>1, SetKeysTyped, Zenon DEF SetKey
  <2> QED BY <1>0, <1>12, <2>1, <2>2 DEF SetKey, NextWord, clients, outside
<1>13. CASE GetKey
  <2>1. rest' \in Seq(Words)
    BY <1>13, RestSplits DEF GetKey, KeyAnswered, Answered, NextWord, LineFollows
  <2> QED BY <1>0, <1>13, <2>1 DEF GetKey, NextWord, device, clients, outside
<1>14. CASE BadKey
  <2>1. rest' \in Seq(Words) /\ Head(rest) \in Queries
    BY <1>14, RestSplits DEF BadKey, KeyAnswered, Answered, NextWord, LineFollows, Words
  <2> QED BY <1>0, <1>14, <2>1 DEF BadKey, NextWord, device, clients, outside
<1>15. CASE WordsEnd
  BY <1>0, <1>15 DEF WordsEnd, device, clients, outcome, outside
<1>16. CASE Reply
  BY <1>0, <1>16 DEF Reply, device, clients, outcome, outside
<1>17. CASE UNCHANGED vars
  <2>1. UNCHANGED <<device, clients, running, rest, outcome, conn, alive, count>>
    BY <1>17, Zenon DEF vars, outside
  <2>2. conn' \in [Clients -> {"here", "gone", "reset"}]
    BY <2>1, Zenon
  <2> QED BY <1>0, <2>1, <2>2, QuietTyped, Zenon
<1> QED
  BY <1>1, <1>2, <1>3, <1>4, <1>5, <1>6, <1>7, <1>8, <1>9, <1>10, <1>11, <1>12, <1>13, <1>14,
     <1>15, <1>16, <1>17 DEF Next, Run

(* While a line is executed it has words, and so many of them are done. *)
LEMMA DoneIsNat ==
    ASSUME IInv, Wordy
    PROVE  /\ who \in Clients /\ cmd \in Lines /\ cmd.words \in Seq(Words)
           /\ Len(cmd.words) \in Nat /\ Len(rest) \in Nat /\ Done \in Int
           /\ at \in {"words", "lookup", "reply"} => Done \in 0..Len(cmd.words)
<1> USE DEF IInv
<1>1. who \in Clients /\ cmd \in Lines
  BY DEF LineFollows, Wordy
<1>2. cmd.words \in Seq(Words)
  BY <1>1, LinesAssumption, QueriesAreWords, Zenon DEF IsLine, Wordy
<1>3. Len(cmd.words) \in Nat /\ Len(rest) \in Nat
  <2>1. \A s \in Seq(Words) : Len(s) \in Nat
    OBVIOUS
  <2> QED BY <1>2, <2>1, Zenon DEF TypeOK
<1>4. at \in {"words", "lookup", "reply"} => Done >= 0
  BY DEF LineFollows
<1> QED BY <1>1, <1>2, <1>3, <1>4 DEF Done

(* A word is done: it was the next one of the line. *)
LEMMA WordDone ==
    ASSUME IInv, at = "lookup", NextWord, UNCHANGED <<who, cmd>>
    PROVE  /\ LineFollows' /\ Wordy /\ Wordy'
           /\ Done' = Done + 1 /\ Done \in Nat
           /\ cmd.words[Done + 1] = Head(rest)
<1>1. Wordy /\ rest # <<>> /\ rest \in Seq(Words)
  BY DEF IInv, LineFollows, TypeOK
<1>2. /\ Head(rest) = rest[1]
      /\ Len(rest) \in Nat \ {0} /\ Len(rest') = Len(rest) - 1
      /\ \A i \in 1..Len(rest') : rest'[i] = rest[i + 1]
  BY <1>1, RestSplits DEF NextWord
<1>3. /\ who \in Clients /\ cmd \in Lines /\ Len(cmd.words) \in Nat
      /\ Done \in 0..Len(cmd.words)
  BY <1>1, DoneIsNat
<1>4. \A i \in 1..Len(rest) : rest[i] = cmd.words[Done + i]
  BY <1>1 DEF IInv, LineFollows
<1>5. Wordy' /\ at' = "words"
  BY <1>1 DEF Wordy, NextWord
<1>6. Done' = Done + 1
  BY <1>2, <1>3 DEF Done
<1>7. ASSUME NEW i \in 1..Len(rest') PROVE rest'[i] = cmd.words[Done' + i]
  <2>1. i + 1 \in 1..Len(rest) /\ Done' + i = Done + (i + 1)
    BY <1>2, <1>3, <1>6
  <2> QED BY <1>2, <1>4, <2>1
<1>8. cmd.words[Done + 1] = Head(rest)
  BY <1>2, <1>4
<1>9. Done' >= 0 /\ Done \in Nat
  BY <1>3, <1>6
<1>10. LineFollows'
  BY <1>3, <1>5, <1>7, <1>9 DEF LineFollows
<1> QED BY <1>1, <1>5, <1>6, <1>8, <1>9, <1>10

(* A line goes from its command over its words to its reply. *)
LEMMA LineStep ==
    ASSUME IInv, [Next]_vars
    PROVE  LineFollows'
<1> USE DEF IInv
<1>1. ASSUME NEW c \in Clients, Leave(c) PROVE LineFollows'
  BY <1>1 DEF Leave, running, LineFollows, Wordy, Done
<1>2. ASSUME NEW c \in Clients, NEW l \in Lines, Begin(c, l) PROVE LineFollows'
  BY <1>2 DEF Begin, LineFollows, Wordy, Done
<1>3. CASE RunSet \/ RunGet
  <2>1. /\ at = "command" /\ at' = "words" /\ Wordy /\ UNCHANGED <<who, cmd, rest>>
    BY <1>3 DEF RunSet, RunGet, Is, Wordy
  <2>2. who \in Clients /\ cmd \in Lines /\ Wordy' /\ rest = cmd.words /\ Len(rest) \in Nat
    BY <2>1, DoneIsNat DEF LineFollows, Wordy
  <2>3. Done' = 0 /\ \A i \in 1..Len(rest) : rest[i] = cmd.words[0 + i]
    BY <2>1, <2>2 DEF Done
  <2> QED BY <2>1, <2>2, <2>3 DEF LineFollows
<1>4. CASE RunVerbose \/ RunUpdate \/ RunQuiet \/ RunBad
  <2>1. /\ at = "command" /\ at' = "reply" /\ ~Wordy /\ UNCHANGED <<who, cmd, rest>>
    BY <1>4 DEF RunVerbose, RunUpdate, RunQuiet, RunBad, Is, Wordy
  <2>2. ~Wordy'
    BY <2>1 DEF Wordy
  <2> QED BY <2>1, <2>2 DEF LineFollows
<1>5. CASE SetAll \/ SetKey \/ GetKey \/ BadKey
  BY <1>5, WordDone DEF SetAll, SetKey, GetKey, BadKey, KeyAnswered, Answered
<1>6. CASE AskKey
  BY <1>6 DEF AskKey, LineFollows, Wordy, Done
<1>7. CASE FindKey
  BY <1>7 DEF FindKey, running, LineFollows, Wordy, Done
<1>8. CASE WordsEnd
  BY <1>8 DEF WordsEnd, LineFollows, Wordy, Done
<1>9. CASE Reply
  BY <1>9 DEF Reply, LineFollows, Wordy, Done
<1>10. CASE UNCHANGED vars
  BY <1>10 DEF vars, running, LineFollows, Wordy, Done
<1> QED
  BY <1>1, <1>2, <1>3, <1>4, <1>5, <1>6, <1>7, <1>8, <1>9, <1>10 DEF Next, Run

(* A lookup is of the next word of the line that is executed, and once the *)
(* first was answered the table stays.                                     *)
LEMMA LookupStep ==
    ASSUME IInv, [Next]_vars
    PROVE  LookupFollows'
<1> USE DEF IInv
<1>1. ASSUME at' # "lookup", UNCHANGED keyVars, at # "lookup",
             at' \in {"words", "reply"} /\ Wordy' /\ Done' > 0 =>
                at \in {"words", "reply"} /\ Wordy /\ Done > 0
      PROVE  LookupFollows'
  <2>1. pc = "idle" /\ pc' = pc /\ initialized' = initialized
    BY <1>1 DEF LookupFollows, keyVars
  <2> QED BY <1>1, <2>1 DEF LookupFollows
<1>2. ASSUME NEW c \in Clients, Leave(c) PROVE LookupFollows'
  BY <1>2, KeysStay DEF Leave, running, keyVars, LookupFollows, Sought, Wordy, Done
<1>3. ASSUME NEW c \in Clients, NEW l \in Lines, Begin(c, l) PROVE LookupFollows'
  <2>1. at = "none"
    BY <1>3, ClientsAssumption DEF Begin, LineFollows
  <2> QED BY <1>1, <1>3, <2>1 DEF Begin
<1>4. CASE RunSet \/ RunGet
  <2>1. /\ at = "command" /\ at' = "words" /\ Wordy /\ UNCHANGED <<who, cmd, rest>>
        /\ UNCHANGED keyVars
    BY <1>4 DEF RunSet, RunGet, Is, Wordy
  <2>2. rest = cmd.words /\ Len(rest) \in Nat
    BY <2>1, DoneIsNat DEF LineFollows
  <2>3. Done' = 0
    BY <2>1, <2>2 DEF Done
  <2> QED BY <1>1, <2>1, <2>3
<1>5. CASE RunVerbose \/ RunUpdate \/ RunQuiet \/ RunBad
  <2>1. /\ at = "command" /\ at' = "reply" /\ ~Wordy /\ UNCHANGED <<who, cmd, rest>>
        /\ UNCHANGED keyVars
    BY <1>5 DEF RunVerbose, RunUpdate, RunQuiet, RunBad, Is, Wordy
  <2>2. ~Wordy'
    BY <2>1 DEF Wordy
  <2> QED BY <1>1, <2>1, <2>2
<1>6. CASE SetAll \/ SetKey \/ GetKey \/ BadKey
  <2>1. /\ at = "lookup" /\ pc = "idle" /\ at' = "words" /\ UNCHANGED keyVars
    BY <1>6 DEF SetAll, SetKey, GetKey, BadKey, KeyAnswered, Answered, NextWord
  <2>2. initialized
    BY <2>1 DEF LookupFollows
  <2> QED BY <2>1, <2>2 DEF LookupFollows, keyVars
<1>7. CASE AskKey
  <2>1. /\ at = "words" /\ at' = "lookup" /\ rest # <<>> /\ Ask(Sought)
        /\ UNCHANGED <<who, cmd, rest>>
    BY <1>7 DEF AskKey, Sought
  <2>2. /\ pc' = "init" /\ call' = Sought /\ initialized' = initialized
        /\ Sought' = Sought /\ Done' = Done /\ (Wordy' => Wordy)
    BY <2>1 DEF Ask, Sought, Wordy, Done
  <2> QED BY <2>1, <2>2 DEF LookupFollows
<1>8. CASE FindKey
  <2>1. /\ at = "lookup" /\ at' = at /\ UNCHANGED <<who, cmd, rest>> /\ LookUp
        /\ Sought' = Sought /\ Done' = Done /\ Wordy' = Wordy
    BY <1>8 DEF FindKey, running, Sought, Wordy, Done
  <2>2. CASE InitBegins
    BY <2>1, <2>2 DEF InitBegins, LookupFollows
  <2>3. CASE AddKey
    <3>1. pc' = "build" /\ pc = "build" /\ UNCHANGED <<initialized, call>>
      BY <2>3, AddKeyKeeps DEF AddKey
    <3> QED BY <2>1, <3>1 DEF LookupFollows
  <2>4. CASE InitEnds
    BY <2>1, <2>4 DEF InitEnds, LookupFollows
  <2>5. CASE Search
    <3>1. initialized /\ call = Sought
      BY <2>5 DEF Search, KeyInv, LoopFollows, LookupFollows
    <3>2. ByString(Sought)' = ByString(Sought)
      <4>1. \A q : ByString(q)' = ByString(q)
        BY <2>5, KeysStay DEF Search
      <4> QED BY <2>1, <2>5 DEF Search, ByString, ById, ByPosition, ByAscii, ByName
    <3> QED BY <2>1, <2>5, <3>1, <3>2 DEF Search, LookupFollows
  <2> QED BY <2>1, <2>2, <2>3, <2>4, <2>5 DEF LookUp
<1>9. CASE WordsEnd
  <2>1. /\ at = "words" /\ at' = "reply" /\ UNCHANGED keyVars /\ Done' = Done /\ (Wordy' => Wordy)
    BY <1>9 DEF WordsEnd, Wordy, Done
  <2> QED BY <1>1, <2>1
<1>10. CASE Reply
  <2>1. at = "reply" /\ UNCHANGED <<keyVars, rest>>
    BY <1>10 DEF Reply
  <2>2. at' = "none" \/ (at' = at /\ UNCHANGED cmd)
    BY <1>10 DEF Reply
  <2> QED BY <1>1, <2>1, <2>2 DEF Wordy, Done
<1>11. CASE UNCHANGED vars
  BY <1>11, KeysStay DEF vars, running, keyVars, LookupFollows, Sought, Wordy, Done
<1> QED
  BY <1>2, <1>3, <1>4, <1>5, <1>6, <1>7, <1>8, <1>9, <1>10, <1>11 DEF Next, Run

(* What was done stays done, as long as the words are found where they     *)
(* were.                                                                   *)
LEMMA EffectsStay ==
    ASSUME IInv,
           at' \in {"words", "lookup", "reply"} => at \in {"words", "lookup", "reply"},
           UNCHANGED <<who, cmd, rest, color, key_data, error, error2>>,
           Wordy /\ Done > 0 => \A q : ByString(q)' = ByString(q)
    PROVE  EffectsFollow'
<1> SUFFICES ASSUME at' \in {"words", "lookup", "reply"}, Wordy'
             PROVE  EffectsFollow'
  BY DEF EffectsFollow
<1>1. Wordy /\ at \in {"words", "lookup", "reply"} /\ Done' = Done
  BY DEF Wordy, Done
<1>2. Done \in Nat
  BY <1>1, DoneIsNat
<1>3. ASSUME NEW i \in 1..Done
      PROVE  /\ IsSet(cmd.words[i])' = IsSet(cmd.words[i])
             /\ IsBad(cmd.words[i])' = IsBad(cmd.words[i])
  <2>1. \A q : ByString(q)' = ByString(q)
    BY <1>1, <1>2, <1>3
  <2>2. cmd.words[i]' = cmd.words[i]
    OBVIOUS
  <2> QED BY <2>1, <2>2 DEF IsSet, IsBad
<1> QED BY <1>1, <1>3 DEF IInv, EffectsFollow

(* The word that was looked up is done: what the step does to the keys and *)
(* to the error is what the words done so far ask for.                     *)
LEMMA WordStep ==
    ASSUME IInv, NEW pixel, pixel = [i \in 1..3 |-> Byte(color[who][i])],
           SetAll \/ SetKey \/ GetKey \/ BadKey
    PROVE  EffectsFollow'
<1> USE DEF IInv
<1> DEFINE n == Done + 1
           w == cmd.words[n]
<1>1. /\ at = "lookup" /\ pc = "idle" /\ at' = "words" /\ NextWord
      /\ UNCHANGED <<who, cmd, color, keyVars>>
  BY DEF SetAll, SetKey, GetKey, BadKey, KeyAnswered, Answered, NextWord, clients
<1>2. /\ Wordy /\ Wordy' /\ Done' = n /\ Done \in Nat /\ w = Head(rest)
  BY <1>1, WordDone
<1>3. /\ Len(cmd.words) \in Nat /\ cmd.words \in Seq(Words) /\ n \in 1..Len(cmd.words)
  <2>1. /\ Len(cmd.words) \in Nat /\ cmd.words \in Seq(Words) /\ Len(rest) \in Nat \ {0}
    BY <1>1, <1>2, DoneIsNat, RestSplits DEF TypeOK, LineFollows
  <2> QED BY <1>2, <2>1 DEF Done
<1>4. \A i \in 1..n : cmd.words[i] \in Words /\ (i # n => i \in 1..Done)
  BY <1>2, <1>3
<1>5. \A q : ByString(q)' = ByString(q)
  BY <1>1, KeysStay DEF keyVars
<1>6. answer = ByString(Sought)
  BY <1>1 DEF LookupFollows
<1>7. w # ALL => answer = ByString(w) /\ ByString(w) \in Ids \cup {None}
  BY <1>2, <1>3, <1>4, <1>6, ByStringFinds DEF Sought, Words
<1>8. /\ cmd.cmd = "s" => \A i \in 1..Done : IsSet(cmd.words[i])
      /\ LET bad == {i \in 1..Done : IsBad(cmd.words[i])}
         IN  \/ bad = {} /\ error = None
             \/ /\ error = "BAD KEY"
                /\ \E m \in bad : error2 = cmd.words[m] /\ \A i \in bad : i =< m
  BY <1>1, <1>2 DEF EffectsFollow
<1>9. key_data \in [Ids -> [1..3 -> 0..255]] /\ who \in Clients /\ color[who] \in [1..3 -> Scans]
  BY <1>1 DEF TypeOK, LineFollows
<1> HIDE DEF n, w
<1>10. cmd.cmd = "s" => \A i \in 1..n : IsSet(cmd.words[i])'
  <2> SUFFICES ASSUME cmd.cmd = "s", NEW i \in 1..n PROVE IsSet(cmd.words[i])'
    OBVIOUS
  <2> DEFINE v == cmd.words[i]
  <2>1. v \in Words /\ (i # n => IsSet(v)) /\ (i = n => v = w)
    BY <1>4, <1>8 DEF w
  <2>2. v # ALL => ByString(v) \in Ids \cup {None}
    BY <2>1, ByStringFinds DEF Words
  <2>3. SUFFICES IF v = ALL THEN \A k \in Ids : key_data'[k] = pixel
                 ELSE ByString(v) # None => key_data'[ByString(v)] = pixel
    BY <1>1, <1>5 DEF IsSet
  <2> HIDE DEF v
  <2>4. CASE SetAll
    <3>1. \A k \in Ids : key_data'[k] = pixel
      BY <1>9, <2>4, SetKeysFills DEF SetAll
    <3> QED BY <2>2, <3>1
  <2>5. CASE SetKey
    <3>1. /\ \A k \in Ids : key_data'[k] = IF k = answer THEN pixel ELSE key_data[k]
          /\ w # ALL
      BY <1>2, <1>9, <2>5, SetKeysFills DEF SetKey, KeyAnswered
    <3> QED BY <1>7, <2>1, <2>2, <3>1 DEF IsSet
  <2>6. CASE GetKey
    BY <2>6 DEF GetKey
  <2>7. CASE BadKey
    <3>1. key_data' = key_data /\ w # ALL /\ answer = None
      BY <1>2, <2>7 DEF BadKey, KeyAnswered, device
    <3> QED BY <1>7, <2>1, <3>1 DEF IsSet
  <2> QED BY <2>4, <2>5, <2>6, <2>7
<1>11. \A i \in 1..n : IsBad(cmd.words[i])' = IsBad(cmd.words[i])
  BY <1>1, <1>5 DEF IsBad
<1>12. /\ {i \in 1..n : IsBad(cmd.words[i])} =
             {i \in 1..Done : IsBad(cmd.words[i])} \cup (IF IsBad(w) THEN {n} ELSE {})
       /\ \A i \in 1..n : i =< n
       /\ n \in 1..n
  BY <1>2, <1>4 DEF w, n
<1>13. LET bad == {i \in 1..n : IsBad(cmd.words[i])}
       IN  \/ bad = {} /\ error' = None
           \/ /\ error' = "BAD KEY"
              /\ \E m \in bad : error2' = cmd.words[m] /\ \A i \in bad : i =< m
  <2>1. CASE BadKey
    <3>1. IsBad(w) /\ error' = "BAD KEY" /\ error2' = cmd.words[n]
      BY <1>2, <1>7, <2>1 DEF BadKey, KeyAnswered, IsBad, w
    <3> QED BY <1>12, <3>1, Zenon
  <2>2. CASE SetAll \/ SetKey \/ GetKey
    <3>1. ~IsBad(w) /\ UNCHANGED <<error, error2>>
      BY <1>2, <1>7, <2>2 DEF SetAll, SetKey, GetKey, KeyAnswered, Answered, IsBad, outcome
    <3> QED BY <1>8, <1>12, <3>1, Zenon
  <2> QED BY <2>1, <2>2
<1> QED BY <1>1, <1>2, <1>10, <1>11, <1>13 DEF EffectsFollow

(* The words done have had their effect, whatever the next step is. *)
LEMMA EffectsStep ==
    ASSUME IInv, [Next]_vars
    PROVE  EffectsFollow'
<1> USE DEF IInv
<1>1. ASSUME NEW c \in Clients, Leave(c) PROVE EffectsFollow'
  BY <1>1, EffectsStay, KeysStay DEF Leave, device, clients, running, outcome, keyVars
<1>2. ASSUME NEW c \in Clients, NEW l \in Lines, Begin(c, l) PROVE EffectsFollow'
  BY <1>2 DEF Begin, EffectsFollow
<1>3. CASE RunSet \/ RunGet
  <2>1. /\ at = "command" /\ at' = "words" /\ Wordy
        /\ UNCHANGED <<who, cmd, rest, error>>
    BY <1>3 DEF RunSet, RunGet, Is, Wordy, outcome
  <2>2. rest = cmd.words /\ Len(rest) \in Nat
    BY <2>1, DoneIsNat DEF LineFollows
  <2>3. error' = None
    BY <2>1, Zenon DEF RepliesFollow
  <2>4. Done' = 0
    BY <2>1, <2>2 DEF Done
  <2>5. 1..Done' = {}
    BY <2>4
  <2> QED BY <2>3, <2>5, Zenon DEF EffectsFollow
<1>4. CASE RunVerbose \/ RunUpdate \/ RunQuiet \/ RunBad
  BY <1>4 DEF RunVerbose, RunUpdate, RunQuiet, RunBad, Is, Wordy, EffectsFollow
<1>5. CASE SetAll \/ SetKey \/ GetKey \/ BadKey
  BY <1>5, WordStep
<1>6. CASE AskKey
  BY <1>6, EffectsStay, KeysStay DEF AskKey, Ask, device, clients, outcome
<1>7. CASE FindKey
  <2>1. /\ at = "lookup" /\ LookUp
        /\ UNCHANGED <<at, who, cmd, rest, color, key_data, error, error2>>
    BY <1>7 DEF FindKey, device, clients, running, outcome
  <2>2. Wordy /\ Done > 0 => ~AddKey
    BY <2>1 DEF LookupFollows, AddKey
  <2>3. ~AddKey => \A q : ByString(q)' = ByString(q)
    BY <2>1, KeysStay DEF LookUp, InitBegins, InitEnds, Search
  <2> QED BY <2>1, <2>2, <2>3, EffectsStay
<1>8. CASE WordsEnd
  BY <1>8, EffectsStay, KeysStay DEF WordsEnd, device, clients, outcome, keyVars
<1>9. CASE Reply
  <2>1. CASE at' = "none"
    BY <2>1 DEF EffectsFollow
  <2>2. CASE at' # "none"
    BY <1>9, <2>2, EffectsStay, KeysStay DEF Reply, device, clients, outcome, keyVars
  <2> QED BY <2>1, <2>2
<1>10. CASE UNCHANGED vars
  BY <1>10, EffectsStay, KeysStay DEF vars, device, clients, running, outcome, keyVars
<1> QED
  BY <1>1, <1>2, <1>3, <1>4, <1>5, <1>6, <1>7, <1>8, <1>9, <1>10 DEF Next, Run

(* An error and a forced output come from the command they are of, and the *)
(* server ends in a reply that is sent.                                    *)
LEMMA RepliesStep ==
    ASSUME IInv, [Next]_vars
    PROVE  RepliesFollow'
<1>1. RepliesFollow /\ (at = "lookup" => Wordy) /\ (at # "none" => who \in Clients)
  BY DEF IInv, LineFollows
<1>2. ASSUME at \in {"command", "words", "lookup"}, at' \in {"words", "lookup", "reply"},
             UNCHANGED <<cmd, error, force_output, alive>>
      PROVE  RepliesFollow'
  <2>1. at # "reply" /\ at # "none" /\ at' # "none" /\ at' # "command"
    BY <1>2
  <2>2. alive
    BY <1>1, <2>1, Zenon DEF RepliesFollow
  <2> QED BY <1>1, <1>2, <2>1, <2>2, Zenon DEF RepliesFollow
<1>3. ASSUME NEW c \in Clients, Leave(c) PROVE RepliesFollow'
  BY <1>1, <1>3, Zenon DEF Leave, clients, running, outcome, RepliesFollow, Speaks
<1>4. ASSUME NEW c \in Clients, NEW l \in Lines, Begin(c, l) PROVE RepliesFollow'
  <2>1. error' = None /\ alive' = alive /\ alive /\ force_output' = FALSE
    BY <1>4, Zenon DEF Begin
  <2>2. None # "BAD COMMAND" /\ None # "BAD KEY"
    BY ErrorsAssumption
  <2> QED BY <2>1, <2>2, Zenon DEF RepliesFollow
<1>5. CASE RunSet \/ RunGet \/ RunVerbose \/ RunUpdate \/ RunQuiet
  BY <1>1, <1>5, <1>2
     DEF RunSet, RunGet, RunVerbose, RunUpdate, RunQuiet, Is, outcome, outside
<1>6. CASE RunBad
  BY <1>1, <1>6 DEF RunBad, Is, outside, RepliesFollow
<1>7. CASE SetAll \/ SetKey
  BY <1>7, <1>2 DEF SetAll, SetKey, KeyAnswered, Answered, NextWord, outcome, outside
<1>8. CASE GetKey
  BY <1>1, <1>8 DEF GetKey, KeyAnswered, Answered, NextWord, outside, RepliesFollow
<1>9. CASE BadKey
  BY <1>1, <1>9 DEF BadKey, KeyAnswered, Answered, NextWord, outside, RepliesFollow, Wordy
<1>10. CASE AskKey \/ FindKey \/ WordsEnd
  BY <1>10, <1>2 DEF AskKey, FindKey, WordsEnd, running, outcome, outside
<1>11. CASE Reply
  BY <1>1, <1>11 DEF Reply, clients, outcome, RepliesFollow, Speaks
<1>12. CASE UNCHANGED vars
  BY <1>1, <1>12, Zenon DEF vars, clients, running, outcome, outside, RepliesFollow, Speaks
<1> QED
  BY <1>3, <1>4, <1>5, <1>6, <1>7, <1>8, <1>9, <1>10, <1>11, <1>12 DEF Next, Run

(* At the start nothing is under way. *)
LEMMA CommandStart == Init => IInv
<1> SUFFICES ASSUME Init PROVE IInv
  OBVIOUS
<1>1. KeyInv
  BY KeyStart DEF Init
<1>2. TypeOK
  <2>1. <<0, 0, 0>> \in [1..3 -> 0..255] /\ <<0, 0, 0>> \in [1..3 -> Scans]
    BY DEF Scans
  <2>2. <<>> \in Seq(Words)
    OBVIOUS
  <2>3. count \in 0..MaxLines
    BY ClientsAssumption DEF Init
  <2>4. /\ key_data \in [Ids -> [1..3 -> 0..255]] /\ color \in [Clients -> [1..3 -> Scans]]
        /\ verbose \in [Clients -> Int] /\ conn \in [Clients -> {"here", "gone", "reset"}]
    BY <2>1 DEF Init
  <2> QED BY <1>1, <2>2, <2>3, <2>4, Zenon DEF Init, TypeOK, KeyInv
<1>3. LineFollows
  BY DEF Init, LineFollows
<1>4. LookupFollows
  BY DEF Init, KeyInit, LookupFollows
<1>5. EffectsFollow
  BY DEF Init, EffectsFollow
<1>6. RepliesFollow
  BY Zenon DEF Init, RepliesFollow
<1> QED BY <1>1, <1>2, <1>3, <1>4, <1>5, <1>6 DEF IInv

(* The inductive invariant of the commands and the key map. *)
THEOREM CommandInvariance == Spec => []IInv
<1>1. Init => IInv
  BY CommandStart
<1>2. IInv /\ [Next]_vars => IInv'
  BY KeyMapStep, TypeStep, LineStep, LookupStep, EffectsStep, RepliesStep DEF IInv
<1> QED BY <1>1, <1>2, PTL DEF Spec

(* Types, those of the key map included: positions are on the keyboard,    *)
(* codes are ASCII, what is stored of a colour are bytes.                  *)
THEOREM CommandTypeCorrect == Spec => []TypeOK
<1>1. IInv => TypeOK
  BY DEF IInv
<1> QED BY <1>1, CommandInvariance, PTL
--------------------------------------------------------------------------------
(* The key map *)

(* The loop of luxeed_key_init never runs out of slots, and the loops over *)
(* name[3] and code[3] end within them, whoever reads them and when.       *)
THEOREM EveryArrayEnds == Spec => []ArraysEnd
<1>1. ASSUME IInv PROVE ArraysEnd
  <2>1. pc # "aborted"
    BY <1>1 DEF IInv, KeyInv, LoopFollows
  <2>2. ASSUME NEW k \in Ids
        PROVE  /\ keys[k].name[2] = None /\ keys[k].code[2] = 0
               /\ \A j \in Slots : keys[k].name[j] # None => j \in Before(keys[k].name, None)
    <3>1. /\ keys[k].name[2] = None /\ keys[k].code[2] = 0
          /\ keys[k].name[0] = None => keys[k].name[1] = None
      BY <1>1 DEF IInv, KeyInv, KeysFollow, Slots
    <3>2. ASSUME NEW j \in Slots, keys[k].name[j] # None
          PROVE  \A i \in 0..j : keys[k].name[i] # None
      BY <3>1, <3>2 DEF Slots
    <3> QED BY <3>1, <3>2 DEF Before
  <2> QED BY <2>1, <2>2 DEF ArraysEnd
<1> QED BY <1>1, CommandInvariance, PTL

(* At no time do two keys share a name or a code, or two that were read a  *)
(* place.                                                                  *)
LEMMA KeysDiffer ==
    ASSUME KeyInv, NEW k \in Ids, NEW l \in Ids, k # l
    PROVE  /\ \A i, j \in Slots :
                 /\ keys[k].name[i] # None => keys[k].name[i] # keys[l].name[j]
                 /\ keys[k].code[i] # 0 => keys[k].code[i] # keys[l].code[j]
           /\ keys[k].mapped = 1 /\ keys[l].mapped = 1 =>
                 keys[k].x # keys[l].x \/ keys[k].y # keys[l].y
<1>1. \A h \in Ids : \A i \in Slots :
         /\ keys[h].name[i] # None =>
               \E p \in Entries : /\ p \in Added /\ KeyAt(p) = h
                                  /\ keys[h].name[i] = NameAt(p)
                                  /\ keys[h].code[i] = CodeAt(p)
         /\ keys[h].name[i] = None => keys[h].code[i] = 0
  BY DEF KeyInv, KeysFollow, Added
<1>2. ASSUME NEW i \in Slots, NEW j \in Slots
      PROVE  /\ keys[k].name[i] # None => keys[k].name[i] # keys[l].name[j]
             /\ keys[k].code[i] # 0 => keys[k].code[i] # keys[l].code[j]
  BY <1>1, TableAssumption
<1>3. \A h \in Ids : keys[h].mapped = 1 =>
         \E p \in Entries : KeyAt(p) = h /\ keys[h].x = XAt(p) /\ keys[h].y = YAt(p)
  <2> SUFFICES ASSUME NEW h \in Ids, keys[h].mapped = 1
               PROVE  \E p \in Entries : KeyAt(p) = h /\ keys[h].x = XAt(p) /\ keys[h].y = YAt(p)
    OBVIOUS
  <2>1. keys[h].name[0] # None /\ 0 \in Slots
    BY DEF KeyInv, KeysFollow, Slots
  <2>2. PICK p \in Entries : p \in Added /\ KeyAt(p) = h
    BY <1>1, <2>1
  <2>3. keys[KeyAt(p)].x = XAt(p) /\ keys[KeyAt(p)].y = YAt(p)
    BY <2>2 DEF KeyInv, KeysFollow
  <2> QED BY <2>2, <2>3
<1>4. keys[k].mapped = 1 /\ keys[l].mapped = 1 =>
         keys[k].x # keys[l].x \/ keys[k].y # keys[l].y
  BY <1>3, TableAssumption
<1> QED BY <1>2, <1>4

(* Once the table is built no two keys share a name or a code, and no two  *)
(* that are in it a place.                                                 *)
THEOREM KeysAreUnambiguous == Spec => []Unambiguous
<1>1. IInv => Unambiguous
  BY KeysDiffer DEF IInv, Unambiguous
<1> QED BY <1>1, CommandInvariance, PTL

(* The place of a key finds it: another key there was never read, and is   *)
(* then behind the one of 0,0.                                             *)
LEMMA PlaceFinds ==
    ASSUME KeyInv, NEW k \in Ids, keys[k].mapped = 1,
           NEW q, q = [form |-> "@", x |-> keys[k].x, y |-> keys[k].y]
    PROVE  ByString(q) = k
<1> DEFINE x == keys[k].x
           y == keys[k].y
           S == {l \in Ids : keys[l].x = x /\ keys[l].y = y}
<1>1. \A l \in Ids : keys[l] \in KeyType
  BY DEF KeyInv, KeyTypeOK
<1>2. x \in 0..16 /\ y \in 0..4
  BY <1>1 DEF KeyType
<1>3. Scanned(x) = x /\ Scanned(y) = y
  BY <1>2, NoneAssumption DEF Scanned
<1>4. ByString(q) = First(S)
  <2>1. q.form = "@" /\ q.x = x /\ q.y = y
    OBVIOUS
  <2>2. ~(x < 0) /\ ~(y < 0)
    BY <1>2
  <2>3. ByPosition(x, y) = First(S)
    BY DEF ByPosition
  <2> HIDE DEF x, y, S
  <2> QED BY <1>3, <2>1, <2>2, <2>3 DEF ByString
<1>5. ASSUME x = 0, y = 0 PROVE k = 0
  <2>1. keys[k].name[0] # None /\ 0 \in Slots
    BY DEF KeyInv, KeysFollow, Slots
  <2>2. PICK p \in Added : KeyAt(p) = k
    BY <2>1 DEF KeyInv, KeysFollow
  <2>3. XAt(p) = 0 /\ YAt(p) = 0
    BY <1>5, <2>2 DEF KeyInv, KeysFollow
  <2> QED BY <2>2, <2>3, TableAssumption DEF Added
<1>6. ASSUME NEW l \in S PROVE k =< l
  <2>1. CASE keys[l].mapped = 1
    BY <2>1, KeysDiffer DEF Ids
  <2>2. CASE keys[l].mapped = 0
    <3>1. k = 0
      BY <1>5, <2>2 DEF KeyInv, KeysFollow
    <3> QED BY <3>1 DEF Ids
  <2>3. keys[l].mapped \in {0, 1}
    BY <1>1 DEF KeyType
  <2> QED BY <2>1, <2>2, <2>3
<1>7. k \in S /\ S \in SUBSET Ids
  OBVIOUS
<1> HIDE DEF S
<1> QED BY <1>4, <1>6, <1>7, FirstMatches

(* Its names find it. *)
LEMMA NameFinds ==
    ASSUME KeyInv, NEW k \in Ids, NEW j \in Before(keys[k].name, None),
           NEW q, q = [form |-> "name", name |-> keys[k].name[j]]
    PROVE  ByString(q) = k
<1> DEFINE S == {l \in Ids : \E i \in Before(keys[l].name, None) : keys[l].name[i] = keys[k].name[j]}
<1>1. ByString(q) = First(S)
  BY DEF ByString, ByName
<1>2. j \in Slots /\ keys[k].name[j] # None
  BY DEF Before, Slots
<1>3. ASSUME NEW l \in S PROVE k =< l
  <2>1. PICK i \in Slots : keys[l].name[i] = keys[k].name[j]
    BY DEF Before
  <2>2. k = l
    BY <1>2, <2>1, KeysDiffer
  <2> QED BY <2>2 DEF Ids
<1>4. k \in S /\ S \in SUBSET Ids
  OBVIOUS
<1> HIDE DEF S
<1> QED BY <1>1, <1>3, <1>4, FirstMatches

(* The codes of its names find it: a name without one has no other behind  *)
(* it, where the search would not get.                                     *)
LEMMA CodeFinds ==
    ASSUME KeyInv, NEW k \in Ids, NEW j \in Before(keys[k].name, None), keys[k].code[j] # 0,
           NEW q, q = [form |-> "0x", c |-> keys[k].code[j]]
    PROVE  ByString(q) = k
<1> DEFINE c == keys[k].code[j]
           S == {l \in Ids : \E i \in Before(keys[l].code, 0) : keys[l].code[i] = c}
<1>1. j \in Slots /\ \A i \in 0..j : keys[k].name[i] # None
  BY DEF Before
<1>2. c \in 0..127
  BY <1>1 DEF KeyInv, KeyTypeOK, KeyType
<1>3. Scanned(c) = c
  BY <1>2, NoneAssumption DEF Scanned
<1>4. ByString(q) = First(S)
  BY <1>2, <1>3 DEF ByString, ByAscii
<1>5. ASSUME NEW l \in S PROVE k =< l
  <2>1. PICK i \in Slots : keys[l].code[i] = c
    BY DEF Before
  <2>2. k = l
    BY <1>1, <2>1, KeysDiffer
  <2> QED BY <2>2 DEF Ids
<1>6. j \in {0, 1}
  BY <1>1 DEF KeyInv, KeysFollow, Slots
<1>7. j = 1 => keys[k].code[0] # 0
  <2> SUFFICES ASSUME j = 1 PROVE keys[k].code[0] # 0
    OBVIOUS
  <2>1. /\ 0 \in Slots /\ 1 \in Slots
        /\ keys[k].name[0] # None /\ keys[k].name[1] # None
        /\ keys[k].name[0] # keys[k].name[1]
    BY <1>1 DEF KeyInv, KeysFollow, Slots
  <2>2. PICK p \in Added : /\ KeyAt(p) = k /\ keys[k].name[0] = NameAt(p)
                           /\ keys[k].code[0] = CodeAt(p)
    BY <2>1 DEF KeyInv, KeysFollow
  <2>3. PICK r \in Added : KeyAt(r) = k /\ keys[k].name[1] = NameAt(r)
    BY <2>1 DEF KeyInv, KeysFollow
  <2>4. p # r /\ p \in Entries /\ r \in Entries
    BY <2>1, <2>2, <2>3 DEF Added
  <2> QED BY <2>2, <2>3, <2>4, TableAssumption
<1>8. \A i \in 0..j : keys[k].code[i] # 0
  BY <1>6, <1>7
<1>9. k \in S /\ S \in SUBSET Ids
  BY <1>1, <1>8 DEF Before
<1> HIDE DEF S
<1> QED BY <1>4, <1>5, <1>9, FirstMatches

(* What the map dump prints of a key finds this key, for every key and     *)
(* every string that is printed of it.                                     *)
THEOREM DumpFindsItsKey == Spec => []DumpFindsKey
<1>1. IInv => DumpFindsKey
  <2> SUFFICES ASSUME IInv, NEW k \in Ids, keys[k].mapped = 1, NEW q \in Dump(k)
               PROVE  ByString(q) = k
    BY DEF DumpFindsKey
  <2>1. KeyInv
    BY DEF IInv
  <2>2. CASE q = [form |-> "#", n |-> k]
    <3>1. Atoi(k) = k
      BY NoneAssumption DEF Atoi, Ids
    <3>2. ByString(q) = First({l \in Ids : l = k})
      BY <2>2, <3>1 DEF ByString, ById
    <3>3. \A l \in {i \in Ids : i = k} : k =< l
      BY DEF Ids
    <3> QED BY <3>2, <3>3, FirstMatches
  <2>3. CASE q = [form |-> "@", x |-> keys[k].x, y |-> keys[k].y]
    BY <2>1, <2>3, PlaceFinds
  <2>4. CASE \E j \in Before(keys[k].name, None) : q = [form |-> "name", name |-> keys[k].name[j]]
    BY <2>1, <2>4, NameFinds
  <2>5. CASE \E j \in Before(keys[k].name, None) :
                keys[k].code[j] # 0 /\ q = [form |-> "0x", c |-> keys[k].code[j]]
    BY <2>1, <2>5, CodeFinds
  <2> QED BY <2>2, <2>3, <2>4, <2>5 DEF Dump
<1> QED BY <1>1, CommandInvariance, PTL

(* The step of the loop that reads a second name of a key finds the key    *)
(* where the first one had it, and leaves the names it has.                *)
THEOREM KeysStayInPlace == Spec => StaysInPlace
<1>1. ASSUME IInv, [Next]_vars, keys' # keys, NEW k \in Ids, keys[k].mapped = 1
      PROVE  /\ keys'[k].x = keys[k].x /\ keys'[k].y = keys[k].y
             /\ \A j \in Before(keys[k].name, None) : keys'[k].name[j] = keys[k].name[j]
  <2> DEFINE p == <<line, entry>>
             h == KeyAt(p)
             i == Slot(keys[h], NameAt(p))
             f == Filled(keys[h], p, i)
  <2>1. AddKey
    <3>1. CASE FindKey
      BY <1>1, <3>1 DEF FindKey, LookUp, InitBegins, InitEnds, Search
    <3>2. CASE AskKey
      BY <1>1, <3>2 DEF AskKey, Ask
    <3>3. ASSUME NEW c \in Clients, Leave(c) PROVE FALSE
      BY <1>1, <3>3 DEF Leave, keyVars
    <3>4. ASSUME NEW c \in Clients, NEW l \in Lines, Begin(c, l) PROVE FALSE
      BY <1>1, <3>4 DEF Begin, keyVars
    <3>5. CASE \/ RunSet \/ RunGet \/ RunVerbose \/ RunUpdate \/ RunQuiet \/ RunBad
               \/ SetAll \/ SetKey \/ GetKey \/ BadKey \/ WordsEnd \/ Reply
      BY <1>1, <3>5 DEF RunSet, RunGet, RunVerbose, RunUpdate, RunQuiet, RunBad, SetAll, SetKey,
                        GetKey, BadKey, WordsEnd, Reply, keyVars
    <3>6. CASE UNCHANGED vars
      BY <1>1, <3>6 DEF vars, keyVars
    <3> QED BY <1>1, <3>1, <3>2, <3>3, <3>4, <3>5, <3>6 DEF Next, Run
  <2>2. KeyTypeOK /\ LoopFollows /\ KeysFollow /\ line =< Len(key_maps)
    BY <1>1, <2>1 DEF IInv, KeyInv, AddKey
  <2>3. p \in Entries /\ Added \subseteq Entries
    BY <2>2, LoopAtEntry DEF Added
  <2>4. h \in Ids /\ i \in {0, 1} /\ keys[h].name[i] = None
    BY <2>2, SlotIsFree
  <2>5. keys' = [keys EXCEPT ![h] = f]
    BY <2>1, <2>2, AddKeyFills
  <2>6. keys \in [Ids -> KeyType]
    BY <2>2 DEF KeyTypeOK
  <2>7. /\ f.x = XAt(p) /\ f.y = YAt(p)
        /\ \A j \in Slots \ {i} : f.name[j] = keys[h].name[j]
    BY <2>3, <2>4, <2>6, FilledFields
  <2>8. h = KeyAt(p)
    OBVIOUS
  <2> HIDE DEF p, h, i, f
  <2>9. CASE k # h
    BY <2>5, <2>6, <2>9
  <2>10. CASE k = h
    <3>1. keys'[k] = f
      BY <2>4, <2>5, <2>6, <2>10
    <3>2. keys[k].name[0] # None /\ 0 \in Slots
      BY <1>1, <2>2 DEF KeysFollow, Slots
    <3>3. PICK q \in Added : KeyAt(q) = k
      BY <2>2, <3>2 DEF KeysFollow
    <3>4. keys[k].x = XAt(q) /\ keys[k].y = YAt(q)
      BY <2>2, <3>3 DEF KeysFollow
    <3>5. XAt(q) = XAt(p) /\ YAt(q) = YAt(p)
      BY <2>3, <2>8, <2>10, <3>3, TableAssumption
    <3>6. ASSUME NEW j \in Before(keys[k].name, None) PROVE j \in Slots \ {i}
      <4>1. j \in Slots /\ \A m \in 0..j : keys[k].name[m] # None
        BY <3>6 DEF Before
      <4>2. j \in 0..j
        BY <4>1 DEF Slots
      <4> QED BY <2>4, <2>10, <4>1, <4>2
    <3> QED BY <2>7, <2>10, <3>1, <3>4, <3>5, <3>6
  <2> QED BY <2>9, <2>10
<1>2. IInv /\ [Next]_vars =>
         [\A k \in Ids : keys[k].mapped = 1 =>
             /\ keys'[k].x = keys[k].x /\ keys'[k].y = keys[k].y
             /\ \A j \in Before(keys[k].name, None) : keys'[k].name[j] = keys[k].name[j]]_keys
  BY <1>1
<1> QED BY <1>2, CommandInvariance, PTL DEF Spec, StaysInPlace
--------------------------------------------------------------------------------
(* The commands *)

(* A line that is answered has all of its words done. *)
LEMMA AllIsDone ==
    ASSUME IInv, Wordy, at = "reply"
    PROVE  /\ DOMAIN cmd.words = 1..Done
           /\ cmd.cmd = "s" => \A i \in DOMAIN cmd.words : IsSet(cmd.words[i])
           /\ LET bad == {i \in DOMAIN cmd.words : IsBad(cmd.words[i])}
              IN  \/ bad = {} /\ error = None
                  \/ /\ error = "BAD KEY"
                     /\ \E m \in bad : error2 = cmd.words[m] /\ \A i \in bad : i =< m
<1>1. cmd.words \in Seq(Words) /\ Len(cmd.words) \in Nat /\ rest = <<>>
  BY DoneIsNat DEF IInv, LineFollows
<1>2. Done = Len(cmd.words)
  <2>1. Len(rest) = 0
    BY <1>1
  <2> QED BY <1>1, <2>1 DEF Done
<1>3. DOMAIN cmd.words = 1..Done
  BY <1>1, <1>2
<1> QED BY <1>3 DEF IInv, EffectsFollow

(* The keys of an "s" that is answered have the colour of its client: all  *)
(* of them, for every line and whatever the other clients did before.      *)
THEOREM KeysGetTheirColour == Spec => []KeysAreSet
<1>1. IInv => KeysAreSet
  <2> SUFFICES ASSUME IInv, at = "reply", cmd.cmd = "s", NEW w \in WordsOf(cmd)
               PROVE  IsSet(w)
    BY DEF KeysAreSet
  <2>1. Wordy
    BY DEF Wordy
  <2> QED BY <2>1, AllIsDone DEF WordsOf
<1> QED BY <1>1, CommandInvariance, PTL

(* BAD KEY answers a line with a word that is no key, and no other one; it *)
(* names the last of these words.                                          *)
THEOREM LastBadKeyIsNamed == Spec => []BadKeyIsNamed
<1>1. IInv => BadKeyIsNamed
  <2> DEFINE bad == {i \in DOMAIN cmd.words : IsBad(cmd.words[i])}
  <2> SUFFICES ASSUME IInv, at = "reply", cmd.cmd \in {"s", "g"}
               PROVE  IF bad = {} THEN error = None
                      ELSE error = "BAD KEY" /\ error2 = cmd.words[Max(bad)]
    BY DEF BadKeyIsNamed
  <2>1. Wordy
    BY DEF Wordy
  <2>2. /\ \/ bad = {} /\ error = None
           \/ error = "BAD KEY" /\ \E m \in bad : error2 = cmd.words[m] /\ \A i \in bad : i =< m
        /\ bad \subseteq DOMAIN cmd.words /\ DOMAIN cmd.words = 1..Done
    BY <2>1, AllIsDone
  <2>3. bad \subseteq Int
    <3>1. Done \in Int
      BY <2>1, DoneIsNat
    <3>2. 1..Done \subseteq Int
      BY <3>1
    <3> HIDE DEF bad
    <3> QED BY <2>2, <3>2
  <2> HIDE DEF bad
  <2>4. ASSUME NEW m \in bad, \A i \in bad : i =< m PROVE Max(bad) = m
    <3>1. \A i \in bad : m >= i
      BY <2>3, <2>4
    <3>2. Max(bad) \in bad /\ \A i \in bad : Max(bad) >= i
      BY <3>1, Zenon DEF Max
    <3>3. Max(bad) >= m /\ m >= Max(bad) /\ m \in Int /\ Max(bad) \in Int
      BY <2>3, <2>4, <3>1, <3>2
    <3> QED BY <3>3
  <2> QED BY <2>2, <2>4
<1> QED BY <1>1, CommandInvariance, PTL

(* The server does not end for a client that left after lines that are not *)
(* answered: only for one that asked for replies, a "g" or an error.       *)
THEOREM QuietLinesAreSafe == Spec => []QuietIsSafe
<1>1. IInv => QuietIsSafe
  <2> SUFFICES ASSUME IInv, ~alive, ~(verbose[who] # 0), ~(cmd.cmd \in {"g", "bad"})
               PROVE  cmd.cmd = "s" /\ \E w \in WordsOf(cmd) : IsBad(w)
    BY DEF QuietIsSafe
  <2>1. at = "reply" /\ (error # None \/ force_output)
    BY DEF IInv, RepliesFollow, Speaks
  <2>2. at # "none"
    BY <2>1
  <2>3. ~force_output /\ error # "BAD COMMAND"
    BY <2>2, Zenon DEF IInv, RepliesFollow
  <2>4. error = "BAD KEY" /\ error # None
    BY <2>1, <2>3 DEF IInv, TypeOK
  <2>5. cmd.cmd \in {"s", "g"}
    BY <2>2, <2>4, Zenon DEF IInv, RepliesFollow
  <2>6. Wordy
    BY <2>2, <2>5 DEF Wordy
  <2>7. PICK m \in DOMAIN cmd.words : IsBad(cmd.words[m])
    BY <2>1, <2>4, <2>6, AllIsDone
  <2> QED BY <2>5, <2>7 DEF WordsOf
<1> QED BY <1>1, CommandInvariance, PTL

(* Setting keys marks the frame unless each has the colour already. *)
LEMMA SetKeysMarks ==
    ASSUME TypeOK, NEW K \in SUBSET Ids, NEW rgb \in [1..3 -> Scans], SetKeys(K, rgb)
    PROVE  /\ key_data' # key_data => key_data_dirty'
           /\ key_data_dirty => key_data_dirty'
<1> DEFINE pixel == [i \in 1..3 |-> Byte(rgb[i])]
<1>1. key_data_dirty' <=> (key_data_dirty \/ \E k \in K : \E i \in 1..3 : key_data[k][i] # rgb[i])
  BY Zenon DEF SetKeys
<1>2. ASSUME ~key_data_dirty' PROVE key_data' = key_data
  <2>1. \A k \in K : \A i \in 1..3 : key_data[k][i] = rgb[i]
    BY <1>1, <1>2, Zenon
  <2>2. key_data \in [Ids -> [1..3 -> 0..255]]
    BY DEF TypeOK
  <2>3. \A v \in 0..255 : Byte(v) = v
    BY DEF Byte
  <2>4. ASSUME NEW k \in K PROVE key_data[k] = pixel
    <3>1. \A i \in 1..3 : key_data[k][i] = pixel[i]
      <4>1. key_data[k] \in [1..3 -> 0..255]
        BY <2>2
      <4>2. \A i \in 1..3 : key_data[k][i] \in 0..255 /\ pixel[i] = Byte(rgb[i])
        BY <4>1
      <4> QED BY <2>1, <2>3, <4>2, SMTT(20)
    <3> QED BY <2>2, <3>1
  <2>5. key_data' = [k \in Ids |-> IF k \in K THEN pixel ELSE key_data[k]]
    BY DEF SetKeys
  <2> HIDE DEF pixel
  <2>6. \A k \in Ids : key_data'[k] = key_data[k]
    BY <2>4, <2>5
  <2> QED BY <2>2, <2>5, <2>6
<1> QED BY <1>1, <1>2, Zenon

(* No key changes and leaves the frame clean, whatever the colour scanned  *)
(* was, and only an update cleans it.                                      *)
THEOREM EveryChangeIsMarked == Spec => ChangeIsMarked
<1>1. ASSUME IInv, [Next]_vars
      PROVE  /\ key_data' # key_data => key_data_dirty'
             /\ key_data_dirty /\ ~key_data_dirty' => cmd.cmd = "u"
  <2>1. CASE SetAll \/ SetKey
    <3>1. TypeOK /\ who \in Clients /\ color[who] \in [1..3 -> Scans]
      BY <1>1, <2>1 DEF SetAll, SetKey, KeyAnswered, Answered, IInv, LineFollows, TypeOK
    <3>2. answer # None => {answer} \in SUBSET Ids
      BY <3>1 DEF TypeOK, KeyTypeOK
    <3> QED BY <2>1, <3>1, <3>2, SetKeysMarks, Zenon DEF SetAll, SetKey
  <2>2. CASE RunUpdate
    BY <2>2, Zenon DEF RunUpdate, Is
  <2>3. CASE \/ RunSet \/ RunGet \/ RunVerbose \/ RunQuiet \/ RunBad
             \/ AskKey \/ FindKey \/ GetKey \/ BadKey \/ WordsEnd \/ Reply
    <3>1. key_data' = key_data /\ key_data_dirty' = key_data_dirty
      BY <2>3 DEF RunSet, RunGet, RunVerbose, RunQuiet, RunBad, AskKey, FindKey, GetKey, BadKey,
                  WordsEnd, Reply, device
    <3> QED BY <3>1, Zenon
  <2>4. ASSUME NEW c \in Clients, Leave(c) \/ \E l \in Lines : Begin(c, l)
        PROVE  key_data' = key_data /\ key_data_dirty' = key_data_dirty
    BY <2>4 DEF Leave, Begin, device
  <2>5. CASE UNCHANGED vars
    <3>1. key_data' = key_data /\ key_data_dirty' = key_data_dirty
      BY <2>5 DEF vars, device
    <3> QED BY <3>1, Zenon
  <2> QED BY <1>1, <2>1, <2>2, <2>3, <2>4, <2>5, Zenon DEF Next, Run
<1>2. IInv /\ [Next]_vars =>
         [/\ key_data' # key_data => key_data_dirty'
          /\ key_data_dirty /\ ~key_data_dirty' => cmd.cmd = "u"]_device
  BY <1>1, Zenon
<1> QED BY <1>2, CommandInvariance, PTL DEF Spec, ChangeIsMarked
================================================================================
