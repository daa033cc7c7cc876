----------------------------- MODULE MCFseProgram -----------------------------
(* Blocks of 64 bytes (the default of 32 KB, with a KB of two).  Some sessions *)
(* code a file, with each codec, and decode it; others are single runs with    *)
(* any three arguments, on files too small to code.                            *)
EXTENDS FseProgram

Skewed ==
    <<0, 0, 0, 0, 0, 0, 0, 7, 0, 9, 7, 0, 0, 7, 0, 9, 0, 0, 0, 0, 0, 0, 0, 9, 0, 0, 0, 0, 0, 7, 0, 0, 0, 0, 0,
      0, 0, 0, 0, 0, 0, 9, 7, 0, 7, 0, 0, 7, 0, 0, 30, 0, 0, 0, 0, 0, 0, 0, 0, 0, 0, 0, 0, 9, 9, 9, 9, 9, 9,
      9, 9, 9, 9, 9, 9, 9, 9, 9, 9, 9, 9, 9, 9, 9, 9, 9, 9, 9, 9, 9, 9, 9, 9, 9, 9, 9, 9, 9, 9, 9, 9, 9, 9, 9,
      9, 9, 9, 9, 9, 9, 9, 9, 9, 9, 9, 9, 9, 9, 9, 9, 9, 9, 9, 9, 9, 9, 9, 9, 19, 22, 34, 7, 6, 36, 32, 9, 7,
      29, 37, 7, 38, 35, 24, 16, 4, 1, 38, 9, 28, 10, 32, 23, 11, 7, 28, 2, 9, 22, 34, 24, 11, 36, 8, 0, 10,
      17, 2, 7, 14, 22, 5, 14, 35, 39, 26, 27, 23, 5, 1, 0, 36, 28, 38, 0, 25, 19, 29, 12, 39, 3, 21, 29, 2,
      1, 1, 2, 2, 1, 1, 2, 2, 1, 2, 2, 1, 1, 1, 1, 1, 1, 1, 3, 2, 1, 1, 1, 1, 1, 2, 1, 2, 1, 1, 1, 1>>
Even ==
    <<4, 2, 3, 5, 1, 0, 1, 4, 1, 1, 5, 3, 2, 5, 1, 3, 1, 2, 4, 5, 5, 2, 3, 1, 0, 2, 5, 5, 4, 5, 1, 1, 2, 1, 1,
      2, 3, 2, 1, 5, 5, 2, 0, 0, 5, 0, 4, 3, 1, 4, 0, 0, 2, 0, 4, 1, 0, 0, 3, 2, 3, 3, 4, 5, 0, 0, 0, 0, 0, 0,
      0, 0, 0, 0, 0, 0, 0, 0, 0, 0, 0, 0, 0, 0, 0, 0, 0, 0, 0, 0, 0, 0, 0, 0, 0, 0, 0, 0, 0, 0, 0, 0, 1, 1, 0,
      0, 0, 0, 0, 0, 0, 0, 0, 0, 0, 0, 0, 0, 0, 0, 0, 0, 0, 0, 0, 0, 0, 0>>
Steps ==
    <<15, 21, 18, 18, 15, 21, 18, 15, 21, 9, 21, 12, 6, 21, 15, 12, 15, 18, 12, 21, 18, 3, 21, 15, 0, 18, 21,
      21, 21, 18, 18, 21, 18, 6, 21, 9, 12, 15, 21, 9, 21, 21, 21, 18, 21, 12, 15, 21, 18, 21, 18, 21, 21, 18,
      8, 2, 8, 2, 2, 4, 2, 4, 4, 4, 6, 4, 2, 2, 6, 6, 2, 6, 8, 4, 4, 2, 4, 4, 4, 2, 8, 4, 2, 6, 4, 2, 4, 2, 4,
      2, 8, 6, 2, 2, 2>>
Binary ==
    <<0, 1, 1, 0, 0, 0, 0, 1, 0, 1, 0, 0, 0, 0, 0, 0, 0, 0, 1, 0, 0, 0, 0, 0, 0, 0, 0, 0, 0, 0, 0, 0, 0, 1, 0,
      1, 0, 1, 1, 1, 0, 0, 1, 0, 1, 1, 0, 0, 0, 0, 0, 1, 0, 1, 0, 0, 0, 0, 0, 0, 1, 1, 0, 0, 5, 5, 5, 5, 5, 5,
      5, 5, 5, 5, 5, 5, 5, 5, 5, 5, 5, 5, 5, 5>>
Short ==
    <<4, 3, 3, 3, 3, 3, 3, 3, 3>>

Opt(letters) == [options |-> letters]
Cmd(args) == [args |-> args, consoleIn |-> TRUE, consoleOut |-> TRUE]
a == File("a", 0)
b == File("b", 0)

\* Code the file a with a codec, decode what came of it
Sessions ==
    {<<Cmd(<<Opt(<<c, "q">>), a>>), Cmd(<<Opt(<<"d", "q">>), fse(a), b>>)>> : c \in {"e", "h", "z"}}

\* An ending that is missing, or another byte in the checksum or in a block kept as it is
Lost(bytes) ==
    {SubSeq(bytes, 1, n) : n \in {m \in {0, 5, 7, 40, Len(bytes) - 4, Len(bytes) - 2, Len(bytes) - 1} : m <= Len(bytes)}}
    \cup {[bytes EXCEPT ![Len(bytes)] = (@ + 1) % 256]}
    \cup (IF Len(bytes) > 8 /\ BlockType(bytes[6]) = bt_raw /\ ~IsFull(bytes[6]) THEN {[bytes EXCEPT ![9] = (@ + 1) % 256]} ELSE {})

\* Single runs: any few arguments
Words_ == {Opt(<<>>), Opt(<<"d">>), Opt(<<"f">>), Opt(<<"q">>), Opt(<<"t", "z">>), Opt(<<"b", "k">>),
           Opt(<<"v", "x">>), a, fse(a), File("c", 0)}
Lines == UNION {[1 .. n -> Words_] : n \in 0 .. 3} \cup {<<Opt(<<"H">>), Opt(<<"x">>)>>}
Distinct(args) == \A i, j \in DOMAIN args : i # j /\ args[i] = args[j] => IsOption(args[i]) /\ args[i].options # <<>>
Single ==
    {<<[args |-> l, consoleIn |-> i, consoleOut |-> o]>> :
        l \in {m \in Lines : Distinct(m) /\ Cardinality({i \in DOMAIN m : m[i] = Opt(<<>>)}) <= 1},
        i \in BOOLEAN, o \in BOOLEAN}

MCInit ==
    /\ \/ /\ disk \in {a :> content : content \in {Skewed, Even, Steps, Binary, Short, <<>>}}
          /\ session \in Sessions
       \/ /\ disk = (a :> <<1, 2, 3, 4>>) @@ (fse(a) :> <<9, 35, 62, 24, 7, 192>>) @@ (stdinmark :> <<4>>)
          /\ session \in Single
    /\ InitRun
MCSpec == MCInit /\ [][Next]_vars
===============================================================================
