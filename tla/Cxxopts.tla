------------------------------ MODULE Cxxopts -------------------------------
(***************************************************************************)
(* Reading a command line: ParseResult::parse() of include/cxxopts.hpp.    *)
(*                                                                         *)
(* An argument is a record of what option_matcher sees in it:              *)
(*   [form |-> "end"]                       --                             *)
(*   [form |-> "long", name]                --name                         *)
(*   [form |-> "equals", name, value]       --name=value                   *)
(*   [form |-> "short", letters]            -abc                           *)
(*   [form |-> "number", negative, hex, digits]                            *)
(*   [form |-> "word", text]                anything that has no dash, or  *)
(*                                          a dash alone                   *)
(*   [form |-> "dash", text]                a dash that makes no flag      *)
(* Each of them is also a text that an option can have as its value.       *)
(* argv is rearranged while it is read, as in the code: what is kept moves *)
(* to its front.  Arguments are counted from 1; the name of the program,   *)
(* argv[0], is left out.  Positional options, of which chia_plot has none, *)
(* are not modelled: consume_positional() finds nothing to do.             *)
(***************************************************************************)
EXTENDS Integers, Sequences
LOCAL Folding == INSTANCE SequencesExt

CONSTANTS
    Specs,          \* the options: [short, long, type, default]
    Unrecognised,   \* whether allow_unrecognised_options() was called
    IntBits         \* width of int: 32 in the code

\* add_one_option() throws for a name that is there already.
NamesOf(s) == {Specs[s].short, Specs[s].long} \ {""}
ASSUME NamesAssumption ==
    \A s, t \in DOMAIN Specs : s # t => NamesOf(s) \cap NamesOf(t) = {}
ASSUME WidthAssumption == IntBits \in Nat \ {0} /\ Unrecognised \in BOOLEAN

VARIABLES
    argv, argc,     \* the arguments, and how many there are
    current,        \* the one to be read
    nextKeep,       \* where the next one that is kept goes
    results,        \* for every option: how often it was given, and the variable it is bound to
    parser          \* "parse", "done", or "threw"
cxxopts == <<argv, argc, current, nextKeep, results, parser>>

Known(name) == \E s \in DOMAIN Specs : name \in NamesOf(s)
Find(name) == CHOOSE s \in DOMAIN Specs : name \in NamesOf(s)
HasImplicit(s) == Specs[s].type = "bool"        \* "true"; and they have a default, "false"
Value(name) == results[Find(name)].value
Count(name) == results[Find(name)].count

-----------------------------------------------------------------------------
(* Values *)

Good(value) == [good |-> TRUE, value |-> value]
Refused == [good |-> FALSE]                     \* argument_incorrect_type

\* integer_parser(): whether the next digit still fits is asked of a product that has
\* been cut to its width.  (-INT_MIN is what the hardware makes of it.)
UMax == 2 ^ IntBits - 1
Wrapped(n) == n % 2 ^ IntBits
\* SignedCheck, and checked_negate() after it
InRange(negative, result) == result <= IF negative THEN 2 ^ (IntBits - 1) ELSE 2 ^ (IntBits - 1) - 1
integer_parser(text) ==
    LET base == IF text.hex THEN 16 ELSE 10
        Digit(result, d) ==
            IF result < 0 \/ d >= base \/ UMax - d < Wrapped(result * base) THEN -1
            ELSE Wrapped(result * base) + d
        result == Folding!FoldLeft(Digit, 0, text.digits)
    IN  IF result < 0 \/ ~InRange(text.negative, result) THEN Refused
        ELSE Good(IF text.negative THEN -result ELSE result)

Truthy == {"t", "T", "true", "True"}
Falsy == {"", "f", "F", "false", "False"}

\* parse_value(), for each of the types an option of chia_plot has
parse_value(type, text) ==
    CASE type = "int" -> IF text.form = "number" THEN integer_parser(text) ELSE Refused
      [] type = "bool" -> IF text.form # "word" \/ text.text \notin Truthy \cup Falsy THEN Refused
                          ELSE Good(text.text \in Truthy)
      [] type = "string" -> Good(text)

-----------------------------------------------------------------------------
(* parse().  A turn of the loop works on [current, results, threw]. *)

Implicit == [form |-> "word", text |-> "true"]
Threw(turn) == [turn EXCEPT !.threw = TRUE]

parse_option(turn, s, text) ==
    LET parsed == parse_value(Specs[s].type, text) IN
    IF ~parsed.good THEN Threw(turn)
    ELSE [turn EXCEPT !.results[s] = [count |-> @.count + 1, value |-> parsed.value]]

\* (Defect: the value of an option is read again, as an argument.)
ValueReadTwice(turn, s) ==
    IF HasImplicit(s) THEN parse_option(turn, s, Implicit)
    ELSE IF turn.current = argc THEN Threw(turn)
    ELSE parse_option(turn, s, argv[turn.current + 1])

\* An option without an implicit value takes the next argument, whatever it is.
checked_parse_arg(turn, s) ==
    IF HasImplicit(s) THEN parse_option(turn, s, Implicit)
    ELSE IF turn.current = argc THEN Threw(turn)
    ELSE parse_option([turn EXCEPT !.current = @ + 1], s, argv[turn.current + 1])

\* -abc: one letter after the other, and only the last may take an argument.
Digits == <<"0", "1", "2", "3", "4", "5", "6", "7", "8", "9", "a", "b", "c", "d", "e", "f">>
Letters(arg) ==
    IF arg.form = "short" THEN arg.letters
    ELSE (IF arg.hex THEN <<"0", "x">> ELSE <<>>) \o [d \in DOMAIN arg.digits |-> Digits[arg.digits[d] + 1]]
IsGroup(arg) == arg.form = "short" \/ (arg.form = "number" /\ arg.negative)

Group(turn, letters) ==
    LET Letter(t, n) ==
            IF t.threw THEN t
            ELSE IF ~Known(letters[n]) THEN IF Unrecognised THEN t ELSE Threw(t)
            ELSE IF n = Len(letters) THEN checked_parse_arg(t, Find(letters[n]))
            ELSE IF HasImplicit(Find(letters[n])) THEN parse_option(t, Find(letters[n]), Implicit)
            ELSE Threw(t)
    IN  Folding!FoldLeft(Letter, turn, [n \in DOMAIN letters |-> n])

Long(turn, arg) ==
    IF arg.form = "equals" THEN parse_option(turn, Find(arg.name), arg.value)
    ELSE checked_parse_arg(turn, Find(arg.name))

Keep(arg) ==
    /\ argv' = [argv EXCEPT ![nextKeep] = arg]
    /\ nextKeep' = nextKeep + 1

AtEnd == IF current > argc THEN TRUE ELSE argv[current].form = "end"

Turn ==
    /\ parser = "parse" /\ ~AtEnd
    /\ LET arg == argv[current]
           turn == [current |-> current, results |-> results, threw |-> FALSE]
           unknown == arg.form \in {"long", "equals"} /\ ~Known(arg.name)
           read == IF IsGroup(arg) THEN Group(turn, Letters(arg))
                   ELSE IF arg.form \in {"long", "equals"} /\ ~unknown THEN Long(turn, arg)
                   ELSE IF arg.form = "dash" \/ (unknown /\ ~Unrecognised) THEN Threw(turn)
                   ELSE turn
       IN  /\ results' = read.results
           /\ current' = read.current + 1
           /\ parser' = IF read.threw THEN "threw" ELSE "parse"
           /\ IF ~read.threw /\ (unknown \/ arg.form = "word" \/ (arg.form = "number" /\ ~arg.negative))
              THEN Keep(arg)
              ELSE UNCHANGED <<argv, nextKeep>>
    /\ UNCHANGED argc

\* The defaults of what was not given; what follows "--" is kept.
EndParse ==
    /\ parser = "parse" /\ AtEnd
    /\ LET rest == SubSeq(argv, current + 1, argc) IN
       /\ argv' = SubSeq(argv, 1, nextKeep - 1) \o rest
       /\ argc' = nextKeep - 1 + Len(rest)
    /\ results' = [s \in DOMAIN Specs |->
                     IF results[s].count = 0 /\ HasImplicit(s) THEN [results[s] EXCEPT !.value = FALSE] ELSE results[s]]
    /\ parser' = "done"
    /\ UNCHANGED <<current, nextKeep>>

Parse == Turn \/ EndParse

InitParse(arguments) ==
    /\ argv = arguments /\ argc = Len(arguments)
    /\ current = 1 /\ nextKeep = 1
    /\ results = [s \in DOMAIN Specs |-> [count |-> 0, value |-> Specs[s].default]]
    /\ parser = "parse"
=============================================================================
