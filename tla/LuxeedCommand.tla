------------------------------ MODULE LuxeedCommand ------------------------------
(***************************************************************************)
(* What a command does and what the client is told: luxeed_command.c with  *)
(* luxeed_client_read_command of luxeed_server.c, for clients that share   *)
(* the frame and have a colour each.  The words of a line are looked up in *)
(* LuxeedKey, one after the other; luxeed_device_update is atomic here,    *)
(* LuxeedDevice has its steps, and the waits are in LuxeedServer.          *)
(*                                                                         *)
(* A client that has left does not stop the commands it has sent.  The     *)
(* first reply to it is answered with a reset, the next one raises SIGPIPE, *)
(* that ends the server.                                                   *)
(***************************************************************************)
EXTENDS LuxeedKey

CONSTANTS
    Clients,
    Lines,      \* the lines clients send, as Command below has them
    MaxLines,   \* bound: the lines executed over a run
    Nobody

ALL == [form |-> "ALL"]
Words == Queries \cup {ALL}

(* What %2x reads: two characters, of which the first may be a sign. *)
Scans == -15..255
Byte(v) == v % 256

(* A line by its first letter: "s" with up to three words for its colour,  *)
(* None where one is no number, and the words that follow; "g" with its    *)
(* words; "v" with its number.  "q" stands for all that say nothing and    *)
(* change nothing here: blank lines, comments, h, d and D.                 *)
IsLine(l) ==
    /\ l.cmd \in {"s", "g", "v", "u", "q", "bad"}
    /\ l.cmd = "s" =>
          /\ Len(l.rgb) \in 0..3
          /\ \A i \in DOMAIN l.rgb : l.rgb[i] \in Scans \cup {None}
          /\ l.words \in Seq(Words)
          /\ l.words # <<>> => Len(l.rgb) = 3
    /\ l.cmd = "g" => l.words \in Seq(Queries)
    /\ l.cmd = "v" => l.n \in Int

(* What luxeed_device_set_key_color_all looks up first. *)
KeyZero == [form |-> "#", n |-> 0]

ASSUME LinesAssumption == \A l \in Lines : IsLine(l)
ASSUME ClientsAssumption == Nobody \notin Clients /\ MaxLines \in Nat /\ KeyZero \in Queries
ASSUME ErrorsAssumption == None \notin {"BAD KEY", "BAD COMMAND"}

VARIABLES
    (* struct luxeed_device *)
    key_data, key_data_dirty,
    (* struct luxeed_client *)
    color, verbose,
    (* luxeed_client_run_command *)
    who,            \* whose line is executed, or Nobody
    cmd,            \* the line
    at,             \* "none", "command", "words", "lookup", "reply"
    rest,           \* the words not parsed yet
    error, error2, out_buf, force_output,
    (* the clients' side *)
    conn,           \* "here", "gone", "reset"
    alive, count

device == <<key_data, key_data_dirty>>
clients == <<color, verbose>>
running == <<who, cmd, at>>
outcome == <<error, error2, out_buf, force_output>>
outside == <<conn, alive, count>>
vars == <<device, clients, running, rest, outcome, outside, keyVars>>

Init ==
    /\ key_data = [k \in Ids |-> <<0, 0, 0>>]
    /\ key_data_dirty = FALSE
    /\ color = [c \in Clients |-> <<0, 0, 0>>]
    /\ verbose = [c \in Clients |-> 0]
    /\ who = Nobody /\ cmd = None /\ at = "none"
    /\ rest = <<>>
    /\ error = None /\ error2 = None /\ out_buf = None /\ force_output = FALSE
    /\ conn = [c \in Clients |-> "here"]
    /\ alive = TRUE
    /\ count = 0
    /\ KeyInit

Leave(c) ==
    /\ conn[c] = "here"
    /\ conn' \in {[conn EXCEPT ![c] = "gone"], [conn EXCEPT ![c] = "reset"]}
    /\ UNCHANGED <<device, clients, running, rest, outcome, alive, count, keyVars>>

--------------------------------------------------------------------------------
(* A line of a client, whose first word is the command. *)
Begin(c, l) ==
    /\ alive /\ who = Nobody
    /\ count < MaxLines
    /\ who' = c
    /\ cmd' = l
    /\ at' = "command"
    /\ rest' = IF l.cmd \in {"s", "g"} THEN l.words ELSE <<>>
    /\ error' = None /\ error2' = None /\ out_buf' = None /\ force_output' = FALSE
    /\ count' = count + 1
    /\ UNCHANGED <<device, clients, conn, alive, keyVars>>

Is(name) == at = "command" /\ cmd.cmd = name

(* Three sscanf, each of which leaves the colour it had when it fails. *)
Scanned3(old, rgb) ==
    [i \in 1..3 |-> IF i \in DOMAIN rgb /\ rgb[i] # None THEN rgb[i] ELSE old[i]]

RunSet ==
    /\ Is("s")
    /\ color' = [color EXCEPT ![who] = Scanned3(@, cmd.rgb)]
    /\ at' = "words"
    /\ UNCHANGED <<device, verbose, who, cmd, rest, outcome, outside, keyVars>>

RunGet ==
    /\ Is("g")
    /\ at' = "words"
    /\ UNCHANGED <<device, clients, who, cmd, rest, outcome, outside, keyVars>>

RunVerbose ==
    /\ Is("v")
    /\ verbose' = [verbose EXCEPT ![who] = cmd.n]
    /\ at' = "reply"
    /\ UNCHANGED <<device, color, who, cmd, rest, outcome, outside, keyVars>>

(* luxeed_device_update sends the frame, or fails and returns 0. *)
RunUpdate ==
    /\ Is("u")
    /\ key_data_dirty' \in {FALSE, key_data_dirty}
    /\ at' = "reply"
    /\ UNCHANGED <<key_data, clients, who, cmd, rest, outcome, outside, keyVars>>

RunQuiet ==
    /\ Is("q")
    /\ at' = "reply"
    /\ UNCHANGED <<device, clients, who, cmd, rest, outcome, outside, keyVars>>

RunBad ==
    /\ Is("bad")
    /\ error' = "BAD COMMAND"
    /\ at' = "reply"
    /\ UNCHANGED <<device, clients, who, cmd, rest, error2, out_buf, force_output, outside, keyVars>>

--------------------------------------------------------------------------------
(* The words of "s" and "g" *)

(* Mutant: one of the three bytes is not compared. *)
SetKeysLess(K, rgb) ==
    LET pixel == [i \in 1..3 |-> Byte(rgb[i])]
    IN  /\ key_data' = [k \in Ids |-> IF k \in K THEN pixel ELSE key_data[k]]
        /\ key_data_dirty' = (key_data_dirty \/ \E k \in K : \E i \in 1..2 : key_data[k][i] # rgb[i])

(* luxeed_device_set_key_color: the ints are compared, their bytes stored. *)
SetKeys(K, rgb) ==
    LET pixel == [i \in 1..3 |-> Byte(rgb[i])]
    IN  /\ key_data' = [k \in Ids |-> IF k \in K THEN pixel ELSE key_data[k]]
        /\ key_data_dirty' = (key_data_dirty \/ \E k \in K : \E i \in 1..3 : key_data[k][i] # rgb[i])

NextWord ==
    /\ rest' = Tail(rest)
    /\ at' = "words"

(* ALL looks the keys up by their ids: the first of these lookups is the   *)
(* one that may have to build the table.                                   *)
AskKey ==
    /\ at = "words" /\ rest # <<>>
    /\ Ask(IF Head(rest) = ALL THEN KeyZero ELSE Head(rest))
    /\ at' = "lookup"
    /\ UNCHANGED <<device, clients, who, cmd, rest, outcome, outside>>

FindKey ==
    /\ at = "lookup"
    /\ LookUp
    /\ UNCHANGED <<device, clients, running, rest, outcome, outside>>

Answered == at = "lookup" /\ pc = "idle"
KeyAnswered == Answered /\ Head(rest) # ALL

SetAll ==
    /\ Answered /\ Head(rest) = ALL
    /\ SetKeys(Ids, color[who])
    /\ NextWord
    /\ UNCHANGED <<clients, who, cmd, outcome, outside, keyVars>>

SetKey ==
    /\ KeyAnswered
    /\ cmd.cmd = "s" /\ answer # None
    /\ SetKeys({answer}, color[who])
    /\ out_buf' = [key |-> answer, pixel |-> key_data'[answer]]
    /\ NextWord
    /\ UNCHANGED <<clients, who, cmd, error, error2, force_output, outside, keyVars>>

GetKey ==
    /\ KeyAnswered
    /\ cmd.cmd = "g" /\ answer # None
    /\ out_buf' = [key |-> answer, pixel |-> key_data[answer]]
    /\ force_output' = TRUE
    /\ NextWord
    /\ UNCHANGED <<device, clients, who, cmd, error, error2, outside, keyVars>>

(* Mutant: the words behind a bad key are not parsed. *)
BadKeyStops ==
    /\ KeyAnswered
    /\ answer = None
    /\ error' = "BAD KEY" /\ error2' = Head(rest)
    /\ rest' = <<>>
    /\ at' = "words"
    /\ UNCHANGED <<device, clients, who, cmd, out_buf, force_output, outside, keyVars>>

(* Mutant: the word named is the one that follows. *)
BadKeyNext ==
    /\ KeyAnswered
    /\ answer = None
    /\ error' = "BAD KEY" /\ error2' = IF Len(rest) > 1 THEN rest[2] ELSE rest[1]
    /\ NextWord
    /\ UNCHANGED <<device, clients, who, cmd, out_buf, force_output, outside, keyVars>>

(* The words that follow a bad key are parsed all the same. *)
BadKey ==
    /\ KeyAnswered
    /\ answer = None
    /\ error' = "BAD KEY" /\ error2' = Head(rest)
    /\ NextWord
    /\ UNCHANGED <<device, clients, who, cmd, out_buf, force_output, outside, keyVars>>

WordsEnd ==
    /\ at = "words" /\ rest = <<>>
    /\ at' = "reply"
    /\ UNCHANGED <<device, clients, who, cmd, rest, outcome, outside, keyVars>>

--------------------------------------------------------------------------------
(* The reply of luxeed_client_read_command *)

(* Mutant: every command is answered. *)
SpeaksAlways == TRUE

Speaks == error # None \/ verbose[who] # 0 \/ force_output

(* The flush of a reply to a client that was reset ends the process. *)
Reply ==
    /\ at = "reply" /\ alive
    /\ IF Speaks /\ conn[who] = "reset"
       THEN /\ alive' = FALSE
            /\ UNCHANGED <<who, cmd, at, conn>>
       ELSE /\ who' = Nobody /\ cmd' = None /\ at' = "none"
            /\ conn' = IF Speaks /\ conn[who] = "gone" THEN [conn EXCEPT ![who] = "reset"] ELSE conn
            /\ UNCHANGED alive
    /\ UNCHANGED <<device, clients, rest, outcome, count, keyVars>>

Run ==
    \/ RunSet \/ RunGet \/ RunVerbose \/ RunUpdate \/ RunQuiet \/ RunBad
    \/ SetAll \/ AskKey \/ FindKey \/ SetKey \/ GetKey \/ BadKey \/ WordsEnd
    \/ Reply

Next ==
    \/ \E c \in Clients : Leave(c) \/ \E l \in Lines : Begin(c, l)
    \/ Run

Spec == Init /\ [][Next]_vars

--------------------------------------------------------------------------------
(* Properties *)

(* Types, those of LuxeedKey included. *)
TypeOK ==
    /\ KeyTypeOK
    /\ key_data \in [Ids -> [1..3 -> 0..255]]
    /\ key_data_dirty \in BOOLEAN
    /\ color \in [Clients -> [1..3 -> Scans]]
    /\ verbose \in [Clients -> Int]
    /\ who \in Clients \cup {Nobody}
    /\ cmd \in Lines \cup {None}
    /\ at \in {"none", "command", "words", "lookup", "reply"}
    /\ rest \in Seq(Words)
    /\ error \in {None, "BAD KEY", "BAD COMMAND"}
    /\ error2 \in Queries \cup {None}
    /\ force_output \in BOOLEAN
    /\ conn \in [Clients -> {"here", "gone", "reset"}]
    /\ alive \in BOOLEAN
    /\ count \in 0..MaxLines

WordsOf(l) == {l.words[i] : i \in DOMAIN l.words}

(* The keys of a word have the colour of the client. *)
IsSet(w) ==
    LET pixel == [i \in 1..3 |-> Byte(color[who][i])]
    IN  IF w = ALL THEN \A k \in Ids : key_data[k] = pixel
        ELSE ByString(w) # None => key_data[ByString(w)] = pixel

IsBad(w) == w # ALL /\ ByString(w) = None

(* When an "s" is answered, with OK or an error, every word of it that is  *)
(* a key has the colour of the client that sent it, whatever the words     *)
(* around it are and whatever colour another client set before.            *)
KeysAreSet ==
    at = "reply" /\ cmd.cmd = "s" => \A w \in WordsOf(cmd) : IsSet(w)

(* A line is answered with BAD KEY exactly when one of its words is no     *)
(* key, and the word named is the last of those.                           *)
BadKeyIsNamed ==
    at = "reply" /\ cmd.cmd \in {"s", "g"} =>
        LET bad == {i \in DOMAIN cmd.words : IsBad(cmd.words[i])}
        IN  IF bad = {} THEN error = None
            ELSE error = "BAD KEY" /\ error2 = cmd.words[Max(bad)]

(* No key changes without marking the frame, that only an update cleans.   *)
ChangeIsMarked ==
    [][/\ key_data' # key_data => key_data_dirty'
       /\ key_data_dirty /\ ~key_data_dirty' => cmd.cmd = "u"]_device

(* A client that has left ends the server only with a line that is         *)
(* answered: never with the s, u and w of valid words that it sends before *)
(* it asked for verbose replies.                                           *)
QuietIsSafe ==
    ~alive =>
        \/ verbose[who] # 0
        \/ cmd.cmd \in {"g", "bad"}
        \/ cmd.cmd = "s" /\ \E w \in WordsOf(cmd) : IsBad(w)

(* What makes these inductive.  The words of the line that were done. *)
Done == Len(cmd.words) - Len(rest)

Wordy == at # "none" /\ cmd.cmd \in {"s", "g"}

(* The word that is looked up. *)
Sought == IF Head(rest) = ALL THEN KeyZero ELSE Head(rest)

(* A line is under way from its command to its reply, and what is left of  *)
(* it are its last words.                                                  *)
LineFollows ==
    /\ at = "none" => who = Nobody
    /\ at # "none" => who \in Clients /\ cmd \in Lines
    /\ at \in {"words", "lookup"} => Wordy
    /\ Wordy /\ at = "command" => rest = cmd.words
    /\ Wordy /\ at \in {"words", "lookup", "reply"} =>
          /\ Done >= 0
          /\ \A i \in 1..Len(rest) : rest[i] = cmd.words[Done + i]
    /\ Wordy /\ at = "reply" => rest = <<>>
    /\ at = "lookup" => rest # <<>>

(* A lookup is of the next word, and what it found it would find again:    *)
(* the table is not built under a line whose words have been looked up.    *)
LookupFollows ==
    /\ at # "lookup" => pc = "idle"
    /\ pc \in {"init", "build", "search"} => call = Sought
    /\ at = "lookup" /\ pc = "idle" => initialized /\ answer = ByString(Sought)
    /\ at \in {"words", "lookup", "reply"} /\ Wordy /\ Done > 0 => initialized /\ pc # "build"

(* The keys of the words done have the colour, and the last bad one among  *)
(* them is named.                                                          *)
EffectsFollow ==
    at \in {"words", "lookup", "reply"} /\ Wordy =>
        /\ cmd.cmd = "s" => \A i \in 1..Done : IsSet(cmd.words[i])
        /\ LET bad == {i \in 1..Done : IsBad(cmd.words[i])}
           IN  \/ bad = {} /\ error = None
               \/ /\ error = "BAD KEY"
                  /\ \E m \in bad : error2 = cmd.words[m] /\ \A i \in bad : i =< m

(* Only a command that is answered sets an error or forces its output, and *)
(* the server ends in a reply.                                             *)
RepliesFollow ==
    /\ at = "command" => error = None /\ ~force_output
    /\ at # "none" =>
          /\ error = "BAD COMMAND" => cmd.cmd = "bad"
          /\ error = "BAD KEY" => cmd.cmd \in {"s", "g"}
          /\ force_output => cmd.cmd = "g"
    /\ ~alive => at = "reply" /\ Speaks

IInv == TypeOK /\ KeyInv /\ LineFollows /\ LookupFollows /\ EffectsFollow /\ RepliesFollow
================================================================================
