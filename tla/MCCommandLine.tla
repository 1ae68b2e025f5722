---------------------------- MODULE MCCommandLine -----------------------------
(* Lines and stores for TLC. *)
EXTENDS CommandLine

\* Around the limits of both types (15 and 12), and answers that begin where
\* a choice ends.
MCTypedLines ==
    {<<>>, <<"blank">>, <<"1">>, <<"2">>, <<"3">>, <<"4">>, <<"5">>, <<"0">>, <<"0", "3">>,
     <<"1", "5">>, <<"1", "6">>, <<"9", "blank", "5">>, <<"4", "y">>, <<"1", "blank", "2">>,
     <<"+", "3">>, <<"-", "1">>, <<"blank", "3">>, <<"x">>, <<"y">>, <<"+">>}

MCStores == {<<>>, << <<1, 9>> >>, << <<1, 9>>, <<15, 10>> >>}

\* Characters that mean nothing, or only to a prompt.
MCOthers == MessageWords \cup {"x", "y"}
=============================================================================
