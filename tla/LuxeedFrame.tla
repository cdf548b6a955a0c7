------------------------------- MODULE LuxeedFrame -------------------------------
(***************************************************************************)
(* The bytes of a message, luxeed_device.c: the two self-test messages,    *)
(* the template of a frame, the place of the key colours in it, and the    *)
(* checksum.  The self-test messages are static buffers, that              *)
(* luxeed_device_msg_checksum rewrites each time they are sent and asserts *)
(* to be unchanged.  Indices are those of the code, from 0.                *)
(***************************************************************************)
EXTENDS Integers

CONSTANTS
    KeyIds,     \* the keys that clients colour
    Rgbs        \* the colours they give: ints, that are stored as bytes

Bytes == 0..255

NumOfKeys == 76                 \* LUXEED_NUM_OF_KEYS
MsgSize == 384
KeyStart == 55                  \* 0x37
KeyEnd == KeyStart + 3 * NumOfKeys
chksum_i == 334                 \* 0x14e

ASSUME KeysAssumption == KeyIds \subseteq Int
ASSUME RgbsAssumption == Rgbs \subseteq [r : Int, g : Int, b : Int]

Index == 0..(MsgSize - 1)

Messages == [Index -> Bytes]

--------------------------------------------------------------------------------
(* The templates.  All have the same head, of which mode holds two bytes,  *)
(* and the same 0x03 behind the checksum.                                  *)

HeadByte(mode, i) ==
    CASE i = 0 -> 2
      [] i = 1 -> 1
      [] i = 2 -> 128
      [] i = 4 -> mode[1]
      [] i = 5 -> mode[2]
      [] i \in 7..15 -> i - 6
      [] OTHER -> 0

(* The last keys in the order of the message; a few have no LED. *)
LitKeys ==
    (55..225) \cup (229..231) \cup (235..243) \cup (247..249) \cup (256..282)

Template(mode, lit, check) ==
    [i \in Index |->
        CASE i < 16 -> HeadByte(mode, i)
          [] i = chksum_i -> check
          [] i = chksum_i + 1 -> 3
          [] OTHER -> IF i \in lit THEN 255 ELSE 0]

msg_00 == Template(<<1, 1>>, {}, 176)
msg_ff == Template(<<0, 22>>, LitKeys \cup (325..333), 230)

(* Mutant: a template with the tail of msg_ff. *)
msg_xx_tail == Template(<<0, 22>>, LitKeys \cup (325..333), 230)

msg_xx == Template(<<0, 22>>, LitKeys, 230)

--------------------------------------------------------------------------------
(* luxeed_device_msg_checksum *)

(* The sum of all bytes, by rows of sixteen. *)
Total(buf) ==
    LET upto[n \in 0..MsgSize] ==      \* of the row that ends before n
            IF n % 16 = 0 THEN 0 ELSE upto[n - 1] + buf[n - 1]
        rows[r \in 0..(MsgSize \div 16)] ==
            IF r = 0 THEN 0
            ELSE rows[r - 1] + upto[16 * r - 1] + buf[16 * r - 1]
    IN  rows[MsgSize \div 16]

Checksum(buf) == (Total([buf EXCEPT ![chksum_i] = 0]) - 5) % 256

(* Mutant: the static buffers are cleared like a frame. *)
CheckedCleared(buf) == [buf EXCEPT ![chksum_i] = Checksum(buf), ![chksum_i - 1] = 0]

(* For msg_ff and msg_00. *)
Checked(buf) == [buf EXCEPT ![chksum_i] = Checksum(buf)]

(* For all others: the byte before the sum is cleared after it was summed. *)
CheckedFrame(buf) == [buf EXCEPT ![chksum_i] = Checksum(buf), ![chksum_i - 1] = 0]

(* The frame of luxeed_device_update: the colours over the template. *)
Compose(key_data) ==
    [i \in Index |->
        IF i \in KeyStart..(KeyEnd - 1) THEN key_data[i - KeyStart] ELSE msg_xx[i]]

--------------------------------------------------------------------------------
VARIABLES
    key_data,           \* three bytes per key
    ff, zero,           \* the static buffers msg_ff and msg_00
    kind, sent          \* the message sent last, if any

vars == <<key_data, ff, zero, kind, sent>>

KeyData == [0..(3 * NumOfKeys - 1) -> Bytes]

TypeOK ==
    /\ key_data \in KeyData
    /\ ff \in Messages
    /\ zero \in Messages
    /\ kind \in {"none", "ff", "00", "frame"}
    /\ sent \in Messages

Init ==
    /\ key_data = [i \in 0..(3 * NumOfKeys - 1) |-> 0]
    /\ ff = msg_ff
    /\ zero = msg_00
    /\ kind = "none"
    /\ sent = [i \in Index |-> 0]

(* An int stored in an unsigned char. *)
Stored(c) == c % 256

(* Mutant: in the order blue, green, red, as screens have it. *)
PixelBGR(rgb) == <<Stored(rgb.b), Stored(rgb.g), Stored(rgb.r)>>

(* The three bytes of a key. *)
Pixel(rgb) == <<Stored(rgb.r), Stored(rgb.g), Stored(rgb.b)>>

(* luxeed_device_set_key_color, and luxeed_device_pixel, that turns away a *)
(* key that is none.                                                       *)
SetKeyColor(key, rgb) ==
    /\ key \in 0..(NumOfKeys - 1)
    /\ key_data' = [key_data EXCEPT ![3 * key] = Pixel(rgb)[1],
                                    ![3 * key + 1] = Pixel(rgb)[2],
                                    ![3 * key + 2] = Pixel(rgb)[3]]
    /\ UNCHANGED <<ff, zero, kind, sent>>

(* luxeed_send of the static buffers, the assert included, which ends the  *)
(* program.                                                                *)
SendFF ==
    /\ Checksum(ff) = ff[chksum_i]
    /\ ff' = Checked(ff)
    /\ kind' = "ff"
    /\ sent' = ff'
    /\ UNCHANGED <<key_data, zero>>

Send00 ==
    /\ Checksum(zero) = zero[chksum_i]
    /\ zero' = Checked(zero)
    /\ kind' = "00"
    /\ sent' = zero'
    /\ UNCHANGED <<key_data, ff>>

SendFrame ==
    /\ kind' = "frame"
    /\ sent' = CheckedFrame(Compose(key_data))
    /\ UNCHANGED <<key_data, ff, zero>>

Next ==
    \/ \E key \in KeyIds, rgb \in Rgbs : SetKeyColor(key, rgb)
    \/ SendFF
    \/ Send00
    \/ SendFrame

Spec == Init /\ [][Next]_vars

--------------------------------------------------------------------------------
(* Safety *)

(* The byte at 0x14e is the sum of all the others, less 5: of the message  *)
(* as it is sent, after the byte before it was cleared.                    *)
SentVerifies == kind # "none" => sent[chksum_i] = Checksum(sent)

(* The asserts of luxeed_device_msg_checksum hold however often a buffer   *)
(* was sent and whatever was sent in between.                              *)
AssertsHold ==
    /\ Checksum(ff) = ff[chksum_i]
    /\ Checksum(zero) = zero[chksum_i]

--------------------------------------------------------------------------------
(* What it is all for *)

(* The keyboard takes the red light of key k from byte 0x37 + 3k of a      *)
(* message, the green one from the next and the blue one from the next:    *)
(* the place is the one lib/python/luxeed/keyboard.py:81 gives a key, the  *)
(* order the one luxeed_device.h:33 names.  The driver's own constants are *)
(* not used here, for they are what is checked.                            *)
Pixels == INSTANCE LuxeedPixels WITH
    Keys <- 0..(NumOfKeys - 1),
    Asked <- KeyIds,
    colour <- [key \in 0..(NumOfKeys - 1) |->
                  [red |-> key_data[3 * key], green |-> key_data[3 * key + 1],
                   blue |-> key_data[3 * key + 2]]],
    shown <- [key \in 0..(NumOfKeys - 1) |->
                  [red |-> sent[55 + 3 * key], green |-> sent[55 + 3 * key + 1],
                   blue |-> sent[55 + 3 * key + 2]]]

(* Colouring a key touches no other, stores what a byte holds of each      *)
(* colour, and a frame asks for the red, green and blue that each key was  *)
(* given: the place of a colour in key_data, the copy of key_data into the *)
(* message, the template around it and the bytes written for the checksum  *)
(* go together.                                                            *)
PixelSpec == Pixels!Spec
================================================================================
