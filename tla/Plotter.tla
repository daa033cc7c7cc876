------------------------------ MODULE Plotter ------------------------------
(***************************************************************************)
(* The main program, src/chia_plot.cpp: the loop that crafts plots, the    *)
(* thread that copies finished ones to the final directory while the next  *)
(* is crafted (with final_copy() of include/chia/copy.h), and the Ctrl-C   *)
(* handler.                                                                *)
(*                                                                         *)
(* A plot file is as long as it has chunks that copy_file() reads and      *)
(* writes; what the four phases do to craft it is one step to a partial    *)
(* and one to the complete file.  The copy thread is a Thread, with the    *)
(* slot and the waits that module Thread has in detail.                    *)
(***************************************************************************)
EXTENDS Integers, Sequences, FiniteSets

CONSTANTS
    Dir,            \* directories
    Device,         \* the file system that holds each of them
    MaxPlots,       \* bound on the plots of a run; an unlimited number ends there
    Size,           \* chunks of a complete plot
    Faults,         \* the calls that may fail, by the names they have below
    MaxFaults       \* bound on the number of failures

ASSUME DeviceAssumption == DOMAIN Device = Dir
ASSUME BoundsAssumption == MaxPlots \in Nat \ {0} /\ Size \in Nat \ {0} /\ MaxFaults \in Nat

Default == ""       \* a directory that is not given
Option ==
    [num_plots : Int, tmp : Dir, tmp2 : Dir \cup {Default}, final : Dir \cup {Default}, stage : Dir \cup {Default},
     waitforcopy : BOOLEAN, tmptoggle : BOOLEAN, directout : BOOLEAN]

Plot == 1 .. MaxPlots
Absent == -1
Path == [dir : Dir, plot : Plot, ext : {".plot", ".plot.tmp"}]
NoJob == [from |-> "none"]

VARIABLES
    option,
    tmp_dir, tmp_dir2, final_dir, stage_dir,
    pc,             \* where main() is
    i,              \* plots begun
    target,         \* plot_dir of create_plot()
    out,            \* history: the directories each plot was crafted with and goes to
    gracefully_exit,
    limit,          \* history: plots begun when it was set
    file,           \* chunks in each plot file, or Absent
    input, job,     \* the copy thread: what is in its slot and what it works on
    cpc,            \* where it is
    pos,            \* chunks copied
    reported,       \* history: the files reported as copied or renamed
    ignored,        \* history: calls that failed and were not checked, with the plot
    faults          \* failures so far

dirs == <<option, tmp_dir, tmp_dir2, final_dir, stage_dir, out>>
main == <<pc, i, target>>
signal == <<gracefully_exit, limit>>
copying == <<job, cpc, pos, reported, ignored>>
vars == <<option, tmp_dir, tmp_dir2, final_dir, stage_dir, out, pc, i, target,
          gracefully_exit, limit, file, input, job, cpc, pos, reported,
          ignored, faults>>

Running == pc \notin {"options", "refused", "done", "exited"}
At(d, p, x) == [dir |-> d, plot |-> p, ext |-> x]
Or(d, e) == IF d = Default THEN e ELSE d
MayFail(call) == call \in Faults /\ faults < MaxFaults /\ faults' = faults + 1
Ignore(p, call) == MayFail(call) /\ ignored' = ignored \cup {<<p, call>>}

-----------------------------------------------------------------------------
(* main() *)

CopyWanted == final_dir # stage_dir /\ ~option.directout

\* (Defects, here and below: a definition in the form a plausible slip in that
\* code would give it, just before the definition itself.)
AllCrafted == i = MaxPlots \/ (option.num_plots >= 0 /\ i >= option.num_plots)
StopAtEnd == AllCrafted
Stop == gracefully_exit \/ AllCrafted

\* main() from where the options are known to be good: what is not given is the tmpdir.
Start(o) ==
    /\ pc = "options"
    /\ option' = o
    /\ tmp_dir' = o.tmp
    /\ tmp_dir2' = Or(o.tmp2, o.tmp)
    /\ final_dir' = Or(o.final, o.tmp)
    /\ stage_dir' = Or(o.stage, o.tmp)
    /\ pc' = "loop"
    /\ UNCHANGED <<out, i, target, signal, file, input, copying, faults>>

\* It returns before that: with an error, or because only help was asked for.
Refuse(result) == pc' = result /\ UNCHANGED <<dirs, i, target, signal, file, input, copying>>

\* The loop, up to where phase 3 has opened the plot file.
Begin ==
    /\ pc = "loop"
    /\ IF Stop
       THEN pc' = "close" /\ UNCHANGED <<i, target, out, file>>
       ELSE LET d == IF option.directout THEN final_dir ELSE stage_dir IN
            /\ i' = i + 1
            /\ target' = d
            /\ file' = [file EXCEPT ![At(d, i + 1, ".plot.tmp")] = 0]
            /\ out' = Append(out, [tmp |-> tmp_dir, stage |-> d, final |-> IF CopyWanted THEN final_dir ELSE d])
            /\ pc' = "craft"
    /\ UNCHANGED <<option, tmp_dir, tmp_dir2, final_dir, stage_dir, signal, input, copying, faults>>

\* The phases up to the fclose() of phase 4, whose result is ignored: then the last
\* chunk may be missing.  Or a phase throws, which ends the process.
Craft ==
    /\ pc = "craft"
    /\ \/ /\ file' = [file EXCEPT ![At(target, i, ".plot.tmp")] = Size]
          /\ pc' = "name"
          /\ UNCHANGED <<ignored, faults>>
       \/ /\ Ignore(i, "plot fclose")
          /\ file' = [file EXCEPT ![At(target, i, ".plot.tmp")] = Size - 1]
          /\ pc' = "name"
       \/ /\ MayFail("craft")
          /\ pc' = "exited"
          /\ UNCHANGED <<file, ignored>>
    /\ UNCHANGED <<dirs, i, target, signal, input, job, cpc, pos, reported>>

Renamed(from, to) == [file EXCEPT ![from] = Absent, ![to] = file[from]]

\* The rename() at its end, whose result is ignored too.
Name ==
    /\ pc = "name"
    /\ \/ /\ file' = Renamed(At(target, i, ".plot.tmp"), At(target, i, ".plot"))
          /\ UNCHANGED <<ignored, faults>>
       \/ Ignore(i, "plot rename") /\ UNCHANGED file
    /\ pc' = "after"
    /\ UNCHANGED <<dirs, i, target, signal, input, job, cpc, pos, reported>>

Toggled(on) ==
    /\ tmp_dir' = IF on THEN tmp_dir2 ELSE tmp_dir
    /\ tmp_dir2' = IF on THEN tmp_dir ELSE tmp_dir2

SlotEmpty == input = NoJob

\* The plot is given to the copy thread (Thread::take(), up to its second wait) ...
Give ==
    /\ pc = "after" /\ CopyWanted
    /\ SlotEmpty
    /\ input' = [from |-> At(target, i, ".plot"), to |-> At(final_dir, i, ".plot")]
    /\ pc' = "handoff"
    /\ UNCHANGED <<dirs, i, target, signal, file, copying, faults>>

HandoffPending == input # NoJob /\ job # NoJob

\* ... which goes on when a busy thread has taken it, and with -w when it is done.
Handoff ==
    /\ pc = "handoff" /\ ~HandoffPending
    /\ pc' = IF option.waitforcopy THEN "wait" ELSE "toggle"
    /\ UNCHANGED <<dirs, i, target, signal, file, input, copying, faults>>

SlotEmptyOnly == input = NoJob
Idle == input = NoJob /\ job = NoJob

Wait ==
    /\ pc = "wait" /\ Idle
    /\ pc' = "toggle"
    /\ UNCHANGED <<dirs, i, target, signal, file, input, copying, faults>>

\* No copy is needed, or it was started.
Toggle ==
    /\ pc = "toggle" \/ (pc = "after" /\ ~CopyWanted)
    /\ final_dir' = IF final_dir = stage_dir /\ option.tmptoggle THEN tmp_dir2 ELSE final_dir
    /\ Toggled(option.tmptoggle)
    /\ pc' = "loop"
    /\ UNCHANGED <<option, stage_dir, out, i, target, signal, file, input, copying, faults>>

Close ==
    /\ pc = "close" /\ Idle
    /\ pc' = "done"
    /\ UNCHANGED <<dirs, i, target, signal, file, input, copying, faults>>

\* Ctrl-C; again within a second, it ends the process wherever it is, and so
\* does the first one when the handler is not installed.
Interrupt ==
    /\ Running
    /\ IF gracefully_exit \/ option.num_plots \in {0, 1}
       THEN pc' = "exited" /\ UNCHANGED signal
       ELSE gracefully_exit' = TRUE /\ limit' = i /\ UNCHANGED pc
    /\ UNCHANGED <<dirs, i, target, file, input, copying, faults>>

-----------------------------------------------------------------------------
(* The copy thread *)

DirectTo(path) == path
TmpOf(path) == [path EXCEPT !.ext = ".plot.tmp"]

TakeJob ==
    /\ Running /\ cpc = "idle" /\ input # NoJob
    /\ job' = input /\ input' = NoJob
    /\ cpc' = "rename"
    /\ UNCHANGED <<dirs, main, signal, file, pos, reported, ignored, faults>>

\* An exception is reported and, five minutes later, the copy starts again.
Retry == "rename"
Fail(call) == MayFail(call) /\ cpc' = Retry

\* rename() works within a file system, and if there is something to rename.
Renameable == Device[job.from.dir] = Device[job.to.dir] /\ file[job.from] # Absent

Rename ==
    /\ Running /\ cpc = "rename"
    /\ \/ /\ Renameable
          /\ file' = Renamed(job.from, TmpOf(job.to))
          /\ cpc' = "remove"
          /\ UNCHANGED faults
       \/ /\ IF Renameable THEN MayFail("rename") ELSE UNCHANGED faults
          /\ cpc' = "open"
          /\ UNCHANGED file
    /\ UNCHANGED <<dirs, main, signal, input, job, pos, reported, ignored>>

\* copy_file(): fopen() of both files empties the second.
Open ==
    /\ Running /\ cpc = "open"
    /\ \/ /\ file[job.from] # Absent
          /\ file' = [file EXCEPT ![TmpOf(job.to)] = 0]
          /\ pos' = 0
          /\ cpc' = "copy"
          /\ UNCHANGED faults
       \/ /\ IF file[job.from] # Absent THEN Fail("fopen") ELSE cpc' = Retry /\ UNCHANGED faults
          /\ UNCHANGED <<file, pos>>
    /\ UNCHANGED <<dirs, main, signal, input, job, reported, ignored>>

\* fread() and fwrite() of a chunk; what was written last may still be in the
\* buffer of the FILE.
CopyChunk ==
    /\ Running /\ cpc = "copy" /\ pos < file[job.from]
    /\ \/ /\ file' = [file EXCEPT ![TmpOf(job.to)] = pos]
          /\ pos' = pos + 1
          /\ UNCHANGED <<cpc, faults>>
       \/ Fail("fwrite") /\ UNCHANGED <<file, pos>>
    /\ UNCHANGED <<dirs, main, signal, input, job, reported, ignored>>

\* Fewer bytes than asked for, also when fread() failed, are the end of the file.
EndCopy ==
    /\ Running /\ cpc = "copy"
    /\ IF pos < file[job.from] THEN Ignore(job.from.plot, "fread") ELSE UNCHANGED <<ignored, faults>>
    /\ cpc' = "fclose"
    /\ UNCHANGED <<dirs, main, signal, file, input, job, pos, reported>>

UncheckedClose == MayFail("fclose") /\ cpc' = "remove"
CloseFailed == Fail("fclose")

CloseCopy ==
    /\ Running /\ cpc = "fclose"
    /\ \/ /\ file' = [file EXCEPT ![TmpOf(job.to)] = pos]
          /\ cpc' = "remove"
          /\ UNCHANGED faults
       \/ CloseFailed /\ UNCHANGED file
    /\ UNCHANGED <<dirs, main, signal, input, job, pos, reported, ignored>>

\* remove() of the source, which a rename has moved away already
Remove ==
    /\ Running /\ cpc = "remove"
    /\ \/ file' = [file EXCEPT ![job.from] = Absent] /\ UNCHANGED <<ignored, faults>>
       \/ file[job.from] # Absent /\ Ignore(job.from.plot, "remove") /\ UNCHANGED file
    /\ cpc' = "final"
    /\ UNCHANGED <<dirs, main, signal, input, job, pos, reported>>

FinalRename ==
    /\ Running /\ cpc = "final"
    /\ \/ /\ file' = [q \in Path |-> IF q = job.to THEN file[TmpOf(job.to)]
                                     ELSE IF q = TmpOf(job.to) THEN Absent ELSE file[q]]
          /\ UNCHANGED <<ignored, faults>>
       \/ Ignore(job.from.plot, "final rename") /\ UNCHANGED file
    /\ reported' = reported \cup {job.to}
    /\ job' = NoJob /\ cpc' = "idle"
    /\ UNCHANGED <<dirs, main, signal, input, pos>>

-----------------------------------------------------------------------------
Init ==
    /\ option = [num_plots |-> 0, tmp |-> Default, tmp2 |-> Default, final |-> Default, stage |-> Default,
                 waitforcopy |-> FALSE, tmptoggle |-> FALSE, directout |-> FALSE]
    /\ tmp_dir = Default /\ tmp_dir2 = Default /\ final_dir = Default /\ stage_dir = Default
    /\ pc = "options" /\ i = 0 /\ target = Default
    /\ out = <<>>
    /\ gracefully_exit = FALSE /\ limit = MaxPlots
    /\ file = [q \in Path |-> Absent]
    /\ input = NoJob /\ job = NoJob /\ cpc = "idle" /\ pos = 0
    /\ reported = {} /\ ignored = {}
    /\ faults = 0

Main == Begin \/ Craft \/ Name \/ Give \/ Handoff \/ Wait \/ Toggle \/ Close
Copy == TakeJob \/ Rename \/ Open \/ CopyChunk \/ EndCopy \/ CloseCopy \/ Remove \/ FinalRename

Next == Main \/ Interrupt \/ Copy

-----------------------------------------------------------------------------
(* Properties *)

Job == [from : Path, to : Path] \cup {NoJob}

\* The type of every variable.
TypeOK ==
    /\ Running => option \in Option /\ {tmp_dir, tmp_dir2, final_dir, stage_dir} \subseteq Dir
    /\ pc \in {"options", "refused", "loop", "craft", "name", "after", "handoff", "wait", "toggle", "close", "done", "exited"}
    /\ i \in 0 .. MaxPlots /\ target \in Dir \cup {Default}
    /\ out \in Seq([tmp : Dir, stage : Dir, final : Dir]) /\ Len(out) = i
    /\ gracefully_exit \in BOOLEAN /\ limit \in 0 .. MaxPlots
    /\ file \in [Path -> 0 .. Size \cup {Absent}]
    /\ input \in Job /\ job \in Job
    /\ cpc \in {"idle", "rename", "open", "copy", "fclose", "remove", "final"}
    /\ (cpc = "idle") = (job = NoJob)
    /\ pos \in 0 .. Size
    /\ reported \subseteq Path /\ ignored \subseteq Plot \X Faults /\ faults \in 0 .. MaxFaults

Crafted == 1 .. IF pc \in {"craft", "exited"} THEN i - 1 ELSE i
Complete(p) == \E d \in Dir, x \in {".plot", ".plot.tmp"} : file[At(d, p, x)] = Size

Ignored(p, call) == <<p, call>> \in ignored
Truncated(p) == Ignored(p, "fread") \/ Ignored(p, "plot fclose")

\* A crafted plot is complete in some directory at every moment, through every
\* failed and repeated copy, and also when the process ends in the middle of one.
\* Of the failures the code does not check only two can destroy a plot, that of the
\* fread() of the copy and of the fclose() of phase 4.
PlotNeverLost == \A p \in Crafted : Complete(p) \/ Truncated(p)

\* A farmer that watches the directories never finds part of a plot under the
\* name of a plot, whatever fails (but those two) and wherever the process ends.
NamedPlotsAreComplete ==
    \A q \in Path : q.ext = ".plot" => file[q] \in {Absent, Size} \/ Truncated(q.plot)

\* When main() returns, every plot is complete where it belongs, and nowhere
\* else, unless a call failed whose result is ignored.
NothingLeftBehind ==
    pc = "done" => \A p \in 1 .. i, d \in Dir, x \in {".plot", ".plot.tmp"} :
        \/ file[At(d, p, x)] = IF d = out[p].final /\ x = ".plot" THEN Size ELSE Absent
        \/ \E call \in Faults : Ignored(p, call)

\* "The crafting of plots will stop after the creation and copy of the current
\* plot": no other plot is begun, and main() comes to its end with all of the
\* copies done, or is ended by a second Ctrl-C or by a plot that fails.  Only when
\* phase 4 failed to name a plot, it is looked for again and again, for ever.
GracefulExit ==
    gracefully_exit ~>
        \/ i <= limit /\ (pc = "exited" \/ (pc = "done" /\ Idle))
        \/ \E p \in Plot : Ignored(p, "plot rename")

\* "Copy to <file> finished" and "Renamed final plot to <file>" are true.
ReportIsTrue == \A q \in reported : file[q] = Size

\* "Final directory (default = <tmpdir>)": without -d, a plot ends in the
\* directory of option -t or in the one that was the tmpdir when it was crafted.
FinalDirDefault ==
    option.final = Default => \A p \in 1 .. i : out[p].final \in {option.tmp, out[p].tmp}
=============================================================================
