----------------------------- MODULE MCLuxeedCommand -----------------------------
(* Values for TLC: lines with words that are keys, that are none, and that *)
(* are the same key by another name; colours a word leaves out or spoils.  *)
EXTENDS LuxeedCommand

Id(i) == [form |-> "#", n |-> i]
At(i, j) == [form |-> "@", x |-> i, y |-> j]
Hex(i) == [form |-> "0x", c |-> i]
Named(s) == [form |-> "name", name |-> s]

MCQueries ==
    {Id(None), Id(0), Id(76), At(15, 4), At(4, None), Hex(10), Hex(128),
     Named("ENTER"), Named("SPACE"), Named("#")}

MCLines ==
    {[cmd |-> "s", rgb |-> <<255, 0, 0>>, words |-> <<Hex(10), At(15, 4)>>],
     [cmd |-> "s", rgb |-> <<None, -1, 0>>, words |-> <<Named("SPACE"), Named("ENTER"), At(4, None)>>],
     [cmd |-> "s", rgb |-> <<0, 0, 7>>, words |-> <<Id(None), ALL, Named("#")>>],
     [cmd |-> "s", rgb |-> <<16>>, words |-> <<>>],
     [cmd |-> "g", words |-> <<Named("ENTER"), Hex(128)>>],
     [cmd |-> "g", words |-> <<Id(76), Hex(10)>>],
     [cmd |-> "v", n |-> 1],
     [cmd |-> "u"], [cmd |-> "q"], [cmd |-> "bad"]}
================================================================================
