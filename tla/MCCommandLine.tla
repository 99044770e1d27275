--------------------------- MODULE MCCommandLine ---------------------------
(***************************************************************************)
(* An instance of CommandLine for TLC.  Texts: every list of up to two     *)
(* words of up to three atoms, in CL.  Command lines: up to four words     *)
(* after /c, with options of each kind, sources, and a response file.      *)
(***************************************************************************)
EXTENDS CommandLine

Words(atoms, n) == UNION {[1 .. k -> atoms] : k \in 0 .. n}

Request(cl, args, file, all, direct) ==
    [CL |-> cl, args |-> args, _CL_ |-> <<>>, file |-> file, all |-> all, direct |-> direct]

Raw == Words({"x", Blank, Mark, Backslash}, 3)

TextRequests ==
    {Request(ws, <<>>, <<>>, all, TRUE) : ws \in Words(Raw, 1) \cup (Raw \X {<<"x">>, <<>>, <<Backslash>>}),
                                          all \in BOOLEAN}

A == <<"a">>  B == <<"b">>  C == <<"d">>

Plain == {A, B, <<"/", "D">>, <<"/", "Tp">>, <<"-", "Tc", "b">>, <<"/", "MP">>}
Odd   == {<<"/", "Zi">>, <<"/", "Yu">>, <<"/", "Y-">>, <<"/", "Ob">>, <<"/", "E">>,
          <<"-", "D", "x">>, <<"/", "MP", "2">>, <<"/", "MP", "0">>, <<"/", "link">>, <<"@", "f">>}

ArgLists == Words(Plain, 4) \cup {<<o, v, w>> : o \in Odd, v \in Plain, w \in {A, B}}

Compile == <<"/", "c">>

ArgRequests ==
    {Request(<<>>, <<Compile>> \o ws, <<B, <<"/", "D">>>>, FALSE, TRUE) : ws \in ArgLists}
    \cup {[Request(cl, ws, <<>>, FALSE, direct) EXCEPT !._CL_ = app] :
             cl \in {<<Compile>>, <<<<"/", "D">>, <<"x">>, Compile>>, <<B, Compile>>,
                     <<Compile, <<"/", "D">>, <<"@", "f">>, Compile>>},
             app \in {<<>>, <<<<"/", "D">>, <<"y">>>>, <<<<"/", "D", "y">>>>},
             ws \in Words({A, B, <<"/", "D">>, <<"/", "MP">>}, 2), direct \in BOOLEAN}
    \cup {Request(<<>>, <<Compile, A, B, C, <<"/", "MP", n>>>>, <<>>, FALSE, TRUE) : n \in {"1", "2"}}
    \cup {Request(<<>>, <<A, <<"/", "D", "x">>>>, <<>>, FALSE, TRUE)}

MCRequests == TextRequests \cup ArgRequests
=============================================================================
