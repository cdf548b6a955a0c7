----------------------------- MODULE MCLuxeedDevice -----------------------------
(* Values for TLC: two bytes of key_data, carried by the first and by the  *)
(* last transfer of a message, so that every cut falls between them or     *)
(* around them.  Like the code's, msg_ff does not light every byte.        *)
EXTENDS LuxeedDevice

MCKeys == {"first", "last"}
MCColors == {0, 1, 255}
MCMsgFF == [k \in MCKeys |-> IF k = "first" THEN 255 ELSE 0]
MCTwoColors == {0, 255}
MCChunkOf == [k \in MCKeys |-> IF k = "first" THEN 1 ELSE NChunks]
================================================================================
