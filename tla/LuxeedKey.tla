-------------------------------- MODULE LuxeedKey --------------------------------
(***************************************************************************)
(* The key map, luxeed_key.c: a table of lines of keys, from which the     *)
(* first lookup builds an array of keys with their names, ASCII codes and  *)
(* positions, and the lookups by id, position, code and name that search   *)
(* it.  Each iteration of the loop that builds it is a step.  The callers, *)
(* with the words they look up, are in LuxeedCommand.                      *)
(***************************************************************************)
EXTENDS Integers, Sequences, FiniteSetsExt

CONSTANTS
    Queries,    \* the strings looked up, as Query below has them
    None

LUXEED_NUM_OF_KEYS == 76
Ids == 0..LUXEED_NUM_OF_KEYS - 1
Slots == 0..2       \* name[3], code[3], shift[3]

(* The printable characters of ASCII from 33 on, two of them spelt out. *)
Printable ==
    <<"!", "\"", "#", "$", "%", "&", "apostrophe", "(", ")", "*", "+", ",", "-", ".", "/",
      "0", "1", "2", "3", "4", "5", "6", "7", "8", "9", ":", ";", "<", "=", ">", "?", "@",
      "A", "B", "C", "D", "E", "F", "G", "H", "I", "J", "K", "L", "M",
      "N", "O", "P", "Q", "R", "S", "T", "U", "V", "W", "X", "Y", "Z",
      "[", "\\", "]", "^", "_", "backquote",
      "a", "b", "c", "d", "e", "f", "g", "h", "i", "j", "k", "l", "m",
      "n", "o", "p", "q", "r", "s", "t", "u", "v", "w", "x", "y", "z",
      "{", "|", "}", "~">>

Ascii == [c \in {Printable[i] : i \in DOMAIN Printable} |->
             32 + CHOOSE i \in DOMAIN Printable : Printable[i] = c]

(* The code of a name: the one behind its colon, or that of the character. *)
CodeOf(name, code) ==
    IF code # 0 THEN code ELSE IF name \in DOMAIN Ascii THEN Ascii[name] ELSE 0

--------------------------------------------------------------------------------
(* struct key_map.  A line lists characters, or names with the code that   *)
(* follows their colon, 0 for those that have none.                        *)
Line(offset, row, col, map, shift) ==
    [offset |-> offset, row |-> row, col |-> col, map |-> map, shift |-> shift]

Chars(s) == [i \in DOMAIN s |-> <<s[i], 0>>]

key_maps == <<
    Line( 0, 0,  0, Chars(<<"backquote", "1", "2", "3", "4", "5", "6", "7", "8", "9", "0",
                            "-", "=">>), 0),
    Line( 0, 0,  0, Chars(<<"~", "!", "@", "#", "$", "%", "^", "&", "*", "(", ")", "_", "+">>), 1),
    Line(13, 0, 13, << <<"BACKSPACE", 8>> >>, 0),
    Line(14, 1,  0, << <<"TAB", 9>> >>, 0),
    Line(15, 1,  1, Chars(<<"q", "w", "e", "r", "t", "y", "u", "i", "o", "p", "[", "]", "\\">>), 0),
    Line(15, 1,  1, Chars(<<"Q", "W", "E", "R", "T", "Y", "U", "I", "O", "P", "{", "}", "|">>), 1),
    Line(28, 2,  0, << <<"CAPS", 0>> >>, 0),
    Line(29, 2,  1, Chars(<<"a", "s", "d", "f", "g", "h", "j", "k", "l", ";", "apostrophe" >>), 0),
    Line(29, 2,  1, Chars(<<"A", "S", "D", "F", "G", "H", "J", "K", "L", ":", "\"">>), 1),
    Line(40, 2, 12, << <<"ENTER", 10>> >>, 1),
    Line(41, 3,  0, << <<"LSHIFT", 0>> >>, 0),
    Line(42, 3,  1, Chars(<<"z", "x", "c", "v", "b", "n", "m", ",", ".", "/">>), 0),
    Line(42, 3,  1, Chars(<<"Z", "X", "C", "V", "B", "N", "M", "<", ">", "?">>), 1),
    Line(52, 3, 11, << <<"RSHIFT", 0>> >>, 0),
    Line(53, 4,  0, << <<"LCTRL", 0>>, <<"LSTART", 0>>, <<"LALT", 0>> >>, 0),
    Line(56, 4,  8, << <<"RCTRL", 0>> >>, 0),
    Line(58, 4, 11, << <<"RALT", 0>> >>, 0),
    Line(60, 4,  9, << <<"RSTART", 0>>, <<"MENU", 0>> >>, 0),
    Line(67, 0, 15, << <<"HOME", 0>>, <<"PUP", 0>> >>, 0),
    Line(69, 0, 14, << <<"DEL", 0>> >>, 0),
    Line(70, 1, 15, << <<"END", 0>>, <<"PDOWN", 0>> >>, 0),
    Line(72, 3, 15, << <<"UP", 0>> >>, 0),
    Line(73, 4, 13, << <<"LEFT", 0>>, <<"DOWN", 0>>, <<"RIGHT", 0>> >>, 0) >>

Names == UNION {{l.map[e][1] : e \in DOMAIN l.map} : l \in {key_maps[i] : i \in DOMAIN key_maps}}

(* The strings that are looked up: "#<n>", "@<x>,<y>", "0x<c>", or a name. *)
(* None stands for a number that is not one, or is missing.                *)
Query ==
    [form : {"#"}, n : Int \cup {None}]
        \cup [form : {"@"}, x : Int \cup {None}, y : Int \cup {None}]
        \cup [form : {"0x"}, c : Int \cup {None}]
        \cup [form : {"name"}, name : STRING]

ASSUME QueriesAssumption == Queries \subseteq Query

(* None is neither a number nor a name. *)
ASSUME NoneAssumption == None \notin Int /\ None \notin STRING

(* The names of the table, each by its line and its place there, with the  *)
(* key it is for, the key's place, and the code.                           *)
Entries ==
    {p \in (DOMAIN key_maps) \X (1..LUXEED_NUM_OF_KEYS) : p[2] \in DOMAIN key_maps[p[1]].map}

KeyAt(p) == key_maps[p[1]].offset + p[2] - 1
XAt(p) == key_maps[p[1]].col + p[2] - 1
YAt(p) == key_maps[p[1]].row
NameAt(p) == key_maps[p[1]].map[p[2]][1]
CodeAt(p) == CodeOf(NameAt(p), key_maps[p[1]].map[p[2]][2])

(* What the table has to be for the loop that reads it, and is.  The array *)
(* of a key has room for two names and a 0; a name without a code is the   *)
(* only one of its key; a key that is in no line would be at 0,0.          *)
ASSUME TableAssumption ==
    /\ Len(key_maps) \in Nat /\ DOMAIN key_maps = 1..Len(key_maps)
    /\ \A i \in DOMAIN key_maps :
          /\ Len(key_maps[i].map) \in 1..LUXEED_NUM_OF_KEYS
          /\ DOMAIN key_maps[i].map = 1..Len(key_maps[i].map)
          /\ key_maps[i].shift \in {0, 1}
    /\ \A p \in Entries :
          /\ KeyAt(p) \in Ids /\ XAt(p) \in 0..16 /\ YAt(p) \in 0..4
          /\ NameAt(p) \in STRING /\ CodeAt(p) \in 0..127
          /\ XAt(p) = 0 /\ YAt(p) = 0 => KeyAt(p) = 0
    /\ \A p, q \in Entries :
          /\ NameAt(p) = NameAt(q) => p = q
          /\ CodeAt(p) = CodeAt(q) /\ CodeAt(p) # 0 => KeyAt(p) = KeyAt(q)
          /\ KeyAt(p) = KeyAt(q) <=> XAt(p) = XAt(q) /\ YAt(p) = YAt(q)
          /\ KeyAt(p) = KeyAt(q) /\ p # q =>
                /\ CodeAt(p) # 0
                /\ \A r \in Entries : KeyAt(r) = KeyAt(p) => r \in {p, q}

VARIABLES
    keys,           \* _keys, by id
    initialized,
    line, entry,    \* what the loop that builds them is at
    call, answer,   \* the lookup that runs, or None, and what the last one returned
    pc

keyVars == <<keys, initialized, line, entry, call, answer, pc>>

NoSlots(v) == [j \in Slots |-> v]

KeyInit ==
    /\ keys = [k \in Ids |-> [mapped |-> 0, x |-> 0, y |-> 0,
                              name |-> NoSlots(None), code |-> NoSlots(0), shift |-> NoSlots(0)]]
    /\ initialized = FALSE
    /\ line = 1 /\ entry = 1
    /\ call = None
    /\ answer = None
    /\ pc = "idle"

--------------------------------------------------------------------------------
(* luxeed_key_init *)

(* Mutant: the index of the key stays at the offset of its line. *)
KeyIndexStays(l, e) == l.offset

KeyIndex(l, e) == l.offset + e - 1

(* Mutant: row and column change places. *)
PlaceSwapped(l, e) == [x |-> l.row, y |-> l.col + e - 1]

(* Mutant: the position of the line's first key is that of all. *)
PlaceOfLine(l, e) == [x |-> l.col, y |-> l.row]

Place(l, e) == [x |-> l.col + e - 1, y |-> l.row]

(* Mutant: the first slot always. *)
SlotFirst(key, name) == 0

(* The slot with that name, or else the first that is free; 3 if there is none. *)
Slot(key, name) ==
    Min({j \in Slots : key.name[j] \in {None, name}} \cup {3})

ShiftOf(code, shift) == IF code >= 32 THEN shift ELSE 0

(* One name of a line; the assertion on the slot ends the program. *)
AddKey ==
    LET l == key_maps[line]
        k == KeyIndex(l, entry)
        name == l.map[entry][1]
        code == CodeOf(name, l.map[entry][2])
        place == Place(l, entry)
        j == Slot(keys[k], name)
    IN  /\ pc = "build"
        /\ line =< Len(key_maps)
        /\ IF j \notin Slots
           THEN pc' = "aborted" /\ UNCHANGED <<keys, line, entry>>
           ELSE /\ keys' = [keys EXCEPT ![k] =
                      [mapped |-> 1, x |-> place.x, y |-> place.y,
                       name |-> [@.name EXCEPT ![j] = name],
                       code |-> [@.code EXCEPT ![j] = code],
                       shift |-> [@.shift EXCEPT ![j] = ShiftOf(code, l.shift)]]]
                /\ IF entry < Len(l.map)
                   THEN entry' = entry + 1 /\ line' = line
                   ELSE entry' = 1 /\ line' = line + 1
                /\ UNCHANGED pc
        /\ UNCHANGED <<initialized, call, answer>>

InitEnds ==
    /\ pc = "build"
    /\ line > Len(key_maps)
    /\ pc' = "search"
    /\ UNCHANGED <<keys, initialized, line, entry, call, answer>>

(* Built once, whatever calls it. *)
InitBegins ==
    /\ pc = "init"
    /\ initialized' = TRUE
    /\ pc' = IF initialized THEN "search" ELSE "build"
    /\ UNCHANGED <<keys, line, entry, call, answer>>

--------------------------------------------------------------------------------
(* The lookups: the first key that matches. *)

First(S) == IF S = {} THEN None ELSE Min(S)

(* The slots before the first 0, where a loop over an array ends. *)
Before(array, end) == {j \in Slots : \A i \in 0..j : array[i] # end}

ById(n) == First({k \in Ids : k = n})

(* Mutant: the row first. *)
ByRowAndColumn(x, y) == First({k \in Ids : keys[k].x = y /\ keys[k].y = x})

ByPosition(x, y) == First({k \in Ids : keys[k].x = x /\ keys[k].y = y})

ByAscii(c) == First({k \in Ids : \E j \in Before(keys[k].code, 0) : keys[k].code[j] = c})

ByName(name) == First({k \in Ids : \E j \in Before(keys[k].name, None) : keys[k].name[j] = name})

(* atoi makes 0 of what is no number, sscanf leaves the -1 it was given. *)
Atoi(n) == IF n = None THEN 0 ELSE n
Scanned(n) == IF n = None THEN -1 ELSE n

(* luxeed_key_by_string returns before luxeed_key_init for no string only: *)
(* the numbers out of range are refused after it.                          *)
ByString(q) ==
    CASE q.form = "#" -> ById(Atoi(q.n))
      [] q.form = "@" ->
            IF Scanned(q.x) < 0 \/ Scanned(q.y) < 0 THEN None
            ELSE ByPosition(Scanned(q.x), Scanned(q.y))
      [] q.form = "0x" -> IF Scanned(q.c) \notin 0..127 THEN None ELSE ByAscii(Scanned(q.c))
      [] q.form = "name" -> ByName(q.name)

(* What luxeed_key_map_dump prints of a key, as strings to look up. *)
Dump(k) ==
    LET named == Before(keys[k].name, None)
    IN  {[form |-> "#", n |-> k], [form |-> "@", x |-> keys[k].x, y |-> keys[k].y]}
        \cup {[form |-> "name", name |-> keys[k].name[j]] : j \in named}
        \cup {[form |-> "0x", c |-> keys[k].code[j]] : j \in {i \in named : keys[k].code[i] # 0}}

Ask(q) ==
    /\ pc = "idle"
    /\ call' = q
    /\ pc' = "init"
    /\ UNCHANGED <<keys, initialized, line, entry, answer>>

Search ==
    /\ pc = "search"
    /\ answer' = ByString(call)
    /\ call' = None
    /\ pc' = "idle"
    /\ UNCHANGED <<keys, initialized, line, entry>>

(* A lookup that was asked for, to its answer. *)
LookUp == InitBegins \/ AddKey \/ InitEnds \/ Search

--------------------------------------------------------------------------------
(* Properties *)

(* The table is complete; StaysInPlace keeps it so. *)
Built == pc = "build" /\ line > Len(key_maps)

(* A key: positions are on the keyboard, codes are ASCII. *)
KeyType ==
    [mapped : {0, 1}, x : 0..16, y : 0..4,
     name : [Slots -> Names \cup {None}], code : [Slots -> 0..127], shift : [Slots -> {0, 1}]]

(* Types, and how far the loop and the lookup can be. *)
KeyTypeOK ==
    /\ keys \in [Ids -> KeyType]
    /\ initialized \in BOOLEAN
    /\ line \in 1..Len(key_maps) + 1
    /\ entry \in Nat
    /\ call \in Queries \cup {None}
    /\ answer \in Ids \cup {None}
    /\ pc \in {"idle", "init", "build", "search", "aborted"}

(* The loops over name[3] and code[3] have no bound but a 0: while the     *)
(* table is built and after it, each array keeps one, after its last name, *)
(* and the assertion of luxeed_key_init holds.                             *)
ArraysEnd ==
    /\ pc # "aborted"
    /\ \A k \in Ids :
          /\ keys[k].name[2] = None /\ keys[k].code[2] = 0
          /\ \A j \in Slots : keys[k].name[j] # None => j \in Before(keys[k].name, None)

(* The searches return the first key that matches: that it is the only one *)
(* is a property of the table.  No two keys share a name or a code, and no *)
(* two that are mapped a place.                                            *)
Unambiguous ==
    Built => \A k, l \in Ids : k # l =>
        /\ \A i, j \in Slots :
              /\ keys[k].name[i] # None => keys[k].name[i] # keys[l].name[j]
              /\ keys[k].code[i] # 0 => keys[k].code[i] # keys[l].code[j]
        /\ keys[k].mapped = 1 /\ keys[l].mapped = 1 =>
              keys[k].x # keys[l].x \/ keys[k].y # keys[l].y

(* What luxeed_key_map_dump prints of a key, its id, its position, its     *)
(* names and their codes (not the 0 of those that have none), finds this   *)
(* key when a client sends it; position 0,0 finds the key there and none   *)
(* of those that were never given one.                                     *)
DumpFindsKey ==
    Built => \A k \in Ids : keys[k].mapped = 1 => \A q \in Dump(k) : ByString(q) = k

(* A second line about a key leaves it where the first one had it, and the *)
(* names it has stay.                                                      *)
StaysInPlace ==
    [][\A k \in Ids : keys[k].mapped = 1 =>
          /\ keys'[k].x = keys[k].x /\ keys'[k].y = keys[k].y
          /\ \A j \in Before(keys[k].name, None) : keys'[k].name[j] = keys[k].name[j]]_keys

(* What makes them inductive.  Where the loop is, that it runs once, and   *)
(* for a lookup.                                                           *)
LoopFollows ==
    /\ line =< Len(key_maps) => entry \in 1..Len(key_maps[line].map)
    /\ line > Len(key_maps) => entry = 1
    /\ ~initialized => line = 1 /\ entry = 1 /\ pc \in {"idle", "init"}
    /\ initialized /\ pc # "build" => line > Len(key_maps)
    /\ pc # "idle" => call \in Queries
    /\ pc # "aborted"

(* The names the loop has passed. *)
Added == {p \in Entries : p[1] < line \/ (p[1] = line /\ p[2] < entry)}

(* The array of keys is the table read so far: what is in a slot is from   *)
(* the table, what was read is in a slot, at most two of them are used,    *)
(* the first one first, and a key has the place its names have.            *)
KeysFollow ==
    /\ \A k \in Ids :
          /\ \A j \in Slots :
                /\ keys[k].name[j] # None =>
                      \E p \in Added : /\ KeyAt(p) = k
                                       /\ keys[k].name[j] = NameAt(p)
                                       /\ keys[k].code[j] = CodeAt(p)
                /\ keys[k].name[j] = None => keys[k].code[j] = 0
          /\ keys[k].name[2] = None
          /\ keys[k].name[0] = None => keys[k].name[1] = None
          /\ keys[k].name[0] # None => keys[k].name[0] # keys[k].name[1]
          /\ keys[k].mapped = 1 => keys[k].name[0] # None
          /\ keys[k].mapped = 0 => keys[k].x = 0 /\ keys[k].y = 0
    /\ \A p \in Added :
          /\ keys[KeyAt(p)].mapped = 1
          /\ keys[KeyAt(p)].x = XAt(p) /\ keys[KeyAt(p)].y = YAt(p)

KeyInv == KeyTypeOK /\ LoopFollows /\ KeysFollow
================================================================================
