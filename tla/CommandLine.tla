---------------------------- MODULE CommandLine -----------------------------
(***************************************************************************)
(* chia_plot from its command line on: the options of main() in            *)
(* src/chia_plot.cpp, read by Cxxopts and checked, and what Plotter does   *)
(* with them.                                                              *)
(*                                                                         *)
(* A command line is a sequence of words, and a word what somebody wanted  *)
(* to say, together with the way it is written; argv is made of that.      *)
(***************************************************************************)
EXTENDS Plotter, Cxxopts
LOCAL Seqs == INSTANCE SequencesExt

CONSTANTS
    Lines,              \* command lines, sequences of Word
    Keys, Contracts, PlotIds,   \* texts of the right size
    KMAX                \* 32, or 34

VARIABLE line           \* history: the command line as it was meant
all == <<vars, cxxopts, line>>

-----------------------------------------------------------------------------
(* main(), up to where it says what it is going to do *)

Text(text) == [form |-> "word", text |-> text]
Empty == Text("")
Number(n) == [form |-> "number", negative |-> n < 0, hex |-> FALSE,
              digits |-> LET f[m \in Nat] == IF m < 10 THEN <<m>> ELSE Append(f[m \div 10], m % 10)
                         IN  f[IF n < 0 THEN -n ELSE n]]

Opt(short, long, type, default) == [short |-> short, long |-> long, type |-> type, default |-> default]
ChiaPlotOptions ==
    <<Opt("k", "size", "int", 32), Opt("x", "port", "int", 8444), Opt("i", "id", "string", Empty),
      Opt("n", "count", "int", 1), Opt("r", "threads", "int", 4), Opt("u", "buckets", "int", 256),
      Opt("v", "buckets3", "int", 0), Opt("t", "tmpdir", "string", Empty), Opt("2", "tmpdir2", "string", Empty),
      Opt("d", "finaldir", "string", Empty), Opt("s", "stagedir", "string", Empty),
      Opt("w", "waitforcopy", "bool", FALSE), Opt("p", "poolkey", "string", Empty),
      Opt("c", "contract", "string", Empty), Opt("f", "farmerkey", "string", Empty),
      Opt("G", "tmptoggle", "bool", FALSE), Opt("D", "directout", "bool", FALSE), Opt("Z", "unique", "bool", FALSE),
      Opt("K", "rmulti2", "int", 1), Opt("", "version", "bool", FALSE), Opt("", "help", "bool", FALSE)>>

IsText(value, texts) == value.form = "word" /\ value.text \in texts
LogBuckets(n) == IF n < 16 THEN n ELSE CHOOSE l \in 4 .. IntBits : 2 ^ l <= n /\ n < 2 ^ (l + 1)
buckets_3 == IF Value("buckets3") <= 0 THEN Value("buckets") ELSE Value("buckets3")

\* Everything that is asked for before main() does anything
Valid ==
    /\ Value("size") \in 16 .. KMAX
    /\ IF Value("contract") = Empty THEN IsText(Value("poolkey"), Keys)
       ELSE Value("poolkey") = Empty /\ IsText(Value("contract"), Contracts)
    /\ IsText(Value("farmerkey"), Keys)
    /\ Value("id") = Empty \/ IsText(Value("id"), PlotIds)
    /\ IsText(Value("tmpdir"), Dir)
    /\ \A dir \in {"tmpdir2", "finaldir", "stagedir"} : Value(dir) = Empty \/ IsText(Value(dir), Dir)
    /\ Value("stagedir") = Empty \/ ~Value("tmptoggle")
    /\ Value("threads") \in 1 .. 1024
    /\ LogBuckets(Value("buckets")) \in 4 .. 16 /\ LogBuckets(buckets_3) \in 4 .. 16

Chosen ==
    [num_plots |-> Value("count"), tmp |-> Value("tmpdir").text, tmp2 |-> Value("tmpdir2").text,
     final |-> Value("finaldir").text, stage |-> Value("stagedir").text,
     waitforcopy |-> Value("waitforcopy"), tmptoggle |-> Value("tmptoggle"), directout |-> Value("directout")]

\* Without arguments, help is printed before any parsing.
NoArguments ==
    /\ pc = "options" /\ parser = "parse" /\ argc = 0
    /\ Refuse("done") /\ UNCHANGED <<faults, cxxopts, line>>

\* Nobody catches what cxxopts throws.
Terminate ==
    /\ pc = "options" /\ parser = "threw"
    /\ Refuse("exited") /\ UNCHANGED <<faults, cxxopts, line>>

\* A file that cannot be opened in one of the directories, or not as many of them as
\* the sorts are going to need, is the last thing that is asked for.
Check ==
    /\ pc = "options" /\ parser = "done"
    /\ IF Count("help") + Count("version") > 0 THEN Refuse("done") /\ UNCHANGED faults
       ELSE IF ~Valid THEN Refuse("refused") /\ UNCHANGED faults
       ELSE \/ Start(Chosen)
            \/ MayFail("test file") /\ Refuse("refused")
    /\ UNCHANGED <<cxxopts, line>>

ReadOptions == (argc > 0 /\ Parse /\ UNCHANGED <<vars, line>>) \/ NoArguments \/ Terminate \/ Check

-----------------------------------------------------------------------------
(* What a command line says *)

\* To set an option: by its letter, its name, or its name and '='.
Says(name, how, value) == [say |-> "option", option |-> name, how |-> how, value |-> value]
\* Several switches in one argument, the last letter perhaps an option with a value
Together(switches, last) == [say |-> "group", options |-> switches, last |-> last]
\* Something that says nothing
Noise(arg) == [say |-> "noise", arg |-> arg]

Short(name) == Specs[Find(name)].short
Type(name) == Specs[Find(name)].type
Written(word) ==
    CASE word.say = "noise" -> <<word.arg>>
      [] word.say = "group" ->
            <<[form |-> "short", letters |-> [n \in DOMAIN word.options |-> Short(word.options[n])]
                                             \o [n \in DOMAIN word.last |-> Short(word.last[n].option)]]>>
            \o [n \in DOMAIN word.last |-> word.last[n].value]
      [] word.how = "equals" -> <<[form |-> "equals", name |-> word.option, value |-> word.value]>>
      [] OTHER ->
            <<IF word.how = "short" THEN [form |-> "short", letters |-> <<Short(word.option)>>]
              ELSE [form |-> "long", name |-> word.option]>>
            \o IF Type(word.option) = "bool" THEN <<>> ELSE <<word.value>>

\* A line stops being heard at "--".
Heard(words) ==
    LET ends == {n \in DOMAIN words : words[n] = Noise([form |-> "end"])} IN
    IF ends = {} THEN words ELSE SubSeq(words, 1, (CHOOSE n \in ends : \A m \in ends : n <= m) - 1)

Sets(word, name) ==
    \/ word.say = "option" /\ word.option = name
    \/ word.say = "group" /\ (name \in Seqs!ToSet(word.options) \/ \E n \in DOMAIN word.last : word.last[n].option = name)
ValueIn(word, name) ==
    IF word.say = "group" THEN IF word.last # <<>> /\ word.last[1].option = name THEN word.last[1].value ELSE Text("true")
    ELSE IF Type(name) = "bool" /\ word.how # "equals" THEN Text("true")
    ELSE word.value

\* The number that a text of digits stands for, and what a text means for an option
NumberOf(text) ==
    LET base == IF text.hex THEN 16 ELSE 10
        n == Seqs!FoldLeft(LAMBDA m, d : m * base + d, 0, text.digits)
    IN  IF text.negative THEN -n ELSE n
Fits(type, text) ==
    CASE type = "int" -> /\ text.form = "number"
                         /\ \A n \in DOMAIN text.digits : text.hex \/ text.digits[n] < 10
                         /\ NumberOf(text) \in -(2 ^ (IntBits - 1)) .. 2 ^ (IntBits - 1) - 1
      [] type = "bool" -> text.form = "word" /\ text.text \in Truthy \cup Falsy
      [] type = "string" -> TRUE
Meaning(type, text) ==
    CASE type = "int" -> NumberOf(text) [] type = "bool" -> text.text \in Truthy [] type = "string" -> text

\* Whether a line can be understood: what it gives its options are values of their
\* types, and nothing begins like a flag that is none.
Sensible(words) ==
    \A n \in DOMAIN words :
        /\ \A s \in DOMAIN Specs : Sets(words[n], Specs[s].long) => Fits(Specs[s].type, ValueIn(words[n], Specs[s].long))
        /\ words[n].say = "noise" => words[n].arg.form # "dash"

\* The last word that sets an option decides.
Meant(words, name) ==
    LET said == {n \in DOMAIN words : Sets(words[n], name)} IN
    IF said = {} THEN Specs[Find(name)].default
    ELSE Meaning(Type(name), ValueIn(words[CHOOSE n \in said : \A m \in said : m <= n], name))

-----------------------------------------------------------------------------
InitLine ==
    /\ line \in Lines
    /\ Init
    /\ InitParse(Seqs!FlattenSeq([n \in DOMAIN line |-> Written(line[n])]))

NextStep == ReadOptions \/ (Next /\ UNCHANGED <<cxxopts, line>>)

\* The threads of the process go on; nobody has to press Ctrl-C.
Spec == InitLine /\ [][NextStep]_all
        /\ WF_all(ReadOptions)
        /\ WF_all(Main /\ UNCHANGED <<cxxopts, line>>) /\ WF_all(Copy /\ UNCHANGED <<cxxopts, line>>)

\* Every option is what the last word about it says, however it is written, and its
\* default when there is none, whatever stands around it, although parse() writes
\* what it keeps into the array it reads from; a line with a value that is none of
\* its option's type is refused (cxxopts.hpp:1690-1868).  Numbers that an unsigned
\* int cannot hold are not among the lines: integer_parser() may take them for others.
OptionsAreHeard ==
    pc = "options" /\ parser # "parse" =>
        LET words == Heard(line) IN
        IF Sensible(words)
        THEN parser = "done" /\ \A s \in DOMAIN Specs : results[s].value = Meant(words, Specs[s].long)
        ELSE parser = "threw"
=============================================================================
