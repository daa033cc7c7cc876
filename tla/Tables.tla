------------------------------- MODULE Tables -------------------------------
(***************************************************************************)
(* Phases 1 and 2 together: the tables of a plot are made, see module      *)
(* Phase1, handed over, and rewritten without their unused entries, see    *)
(* module Phase2, as create_plot() in src/chia_plot.cpp calls them.        *)
(***************************************************************************)
EXTENDS Phase2

CONSTANTS
    ByteBits, LongBits, ChaChaWord, sigma, tau, k, kExtraBits, kVectorLens, LogBatch, Hash(_, _),
    kB, kC, PMAX, Ids, M, BlockSpans, Matchers

VARIABLES
    id, span, R_index_1, f1, R_sort, table, blocks, L_index, L_offset, L_bucket, heap, pending,
    L_queue, L_tmp, matching, given_1, Fx, evaluating, R_tmp, matches, num_found, num_written_1, closed

\* The words of a string of bits are not those of a bitfield.
F == INSTANCE Phase1 WITH WordBits <- LongBits,
        R_index <- R_index_1, given <- given_1, num_written <- num_written_1

ASSUME ParametersFit == F!ParametersFit
ASSUME TargetsDiffer == F!TargetsDiffer

phase_1 == <<id, span, R_index_1, f1, R_sort, table, blocks, L_index, L_offset, L_bucket, heap, pending,
             L_queue, L_tmp, matching, given_1, Fx, evaluating, R_tmp, matches, num_found, num_written_1, closed>>
both == <<vars, phase_1>>

Forward == F!Next /\ UNCHANGED vars

\* The number of entries of table 1, and the positions in the others
Output == [i \in 1 .. LastTable |-> IF i = LastTable THEN R_tmp ELSE L_tmp[i]]
Handover ==
    /\ R_index_1 > LastTable
    /\ Start(Output)
    /\ UNCHANGED phase_1

Backward == Next /\ UNCHANGED phase_1

TablesInit == Init /\ F!Init
TablesNext == Forward \/ Handover \/ Backward

Spec == TablesInit /\ [][TablesNext]_both

-----------------------------------------------------------------------------
(* Properties *)

\* See module Phase1; and what phase 2 is given are tables it can go back through.
MatchesAreReal == F!MatchesAreReal /\ (stage # "waiting" => Linked(input))

\* See module Phase1.
NoMatchLost == F!NoMatchLost
EntriesEvaluate == stage = "waiting" => F!EntriesEvaluate

\* The values of x below an entry of a rewritten table, by its positions there:
\* fewer than all where a position leads nowhere
Rewritten_1 == {p \in 0 .. Len(input[1]) - 1 : p \in next_bitfield}
At(i, key) ==
    IF i = 1 THEN {input[1][1 + p].x : p \in {q \in Rewritten_1 : Cardinality({r \in Rewritten_1 : r < q}) = key}}
    ELSE IF i = LastTable THEN {table_7.file[n] : n \in {key + 1} \cap DOMAIN table_7.file}
    ELSE {d \in sort[i] : d.key = key}
NewLeaves(n) ==
    LET f[i \in 1 .. LastTable, key \in Nat] ==
            LET entries == At(i, key) IN
            IF entries = {} THEN <<>>
            ELSE LET e == CHOOSE d \in entries : TRUE IN
                 IF i = 1 THEN <<e>> ELSE f[i - 1, e.pos] \o f[i - 1, e.pos + e.off]
    IN  f[LastTable, n]

\* Every entry of the last table is still a proof of space when all tables were
\* rewritten: the 64 values of x that its positions lead to match pairwise at all
\* heights, as a verifier would check it, and give its value.
ProofsSurvive ==
    stage = "done" =>
        /\ Len(table_7.file) = Len(R_tmp)
        /\ \A n \in 1 .. Len(table_7.file) :
            LET leaves == NewLeaves(n - 1)
                v == F!Evaluation(leaves)
            IN  /\ Len(leaves) = 2 ^ (LastTable - 1)
                /\ v.ok /\ v.y = R_tmp[table_7.file[n].at + 1].y
=============================================================================
