------------------------------ MODULE MCLuxeedMain ------------------------------
(* Values for TLC: command lines of three arguments.                       *)
EXTENDS LuxeedMain

MCArguments ==
    {<<"s", Unset>>, <<"k", Unset>>, <<"h", "127.0.0.1">>, <<"h", "nowhere">>,
     <<"p", 0>>, <<"p", 7>>, <<"p", 65535>>, <<"p", 65536>>, <<"p", -1>>, <<"f", "path">>, <<"c", "command">>}
MCAllArguments ==
    {<<"s", Unset>>, <<"f", "path">>, <<"d", Unset>>, <<"D", Unset>>, <<"v", Unset>>,
     <<"c", "command">>, <<"ARG", "another">>, <<"h", "nowhere">>, <<"p", 7>>}
MCLogLevels == {Unset, 0, 6}
MCHosts == {"127.0.0.1"}
================================================================================
