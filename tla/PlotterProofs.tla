--------------------------- MODULE PlotterProofs ----------------------------
(***************************************************************************)
(* Proofs about the main loop and its copy thread, for any command line,   *)
(* any directories on any file systems, any number of plots of any size,   *)
(* and any calls that fail.                                                *)
(***************************************************************************)
EXTENDS CommandLine, TLAPS

-----------------------------------------------------------------------------
(* Types *)

\* The plot that main() works on: it has begun it and not yet given it away.
InHand == pc \in {"craft", "name", "after"}

\* A copy is from one directory to another, and between the names of plots.
IsCopy(j) ==
    /\ j \in [from : Path, to : Path]
    /\ j.from.ext = ".plot" /\ j.to.ext = ".plot"
    /\ j.from.plot = j.to.plot
    /\ j.from.dir # j.to.dir

TypeInv ==
    /\ pc \in {"options", "refused", "loop", "craft", "name", "after", "handoff", "wait", "toggle", "close",
               "done", "exited"}
    /\ i \in 0 .. MaxPlots
    /\ Running => {tmp_dir, tmp_dir2, final_dir, stage_dir} \subseteq Dir
    /\ InHand => i >= 1 /\ target \in Dir /\ target = IF option.directout THEN final_dir ELSE stage_dir
    /\ file \in [Path -> 0 .. Size \cup {Absent}]
    /\ cpc \in {"idle", "rename", "open", "copy", "fclose", "remove", "final"}
    /\ cpc = "idle" <=> job = NoJob
    /\ pos \in 0 .. Size

\* The slot and the copy thread have different plots, and none that main() has.
Given(p) == p <= i /\ (InHand => p < i)
Apart ==
    /\ input # NoJob => IsCopy(input) /\ Given(input.from.plot)
    /\ job # NoJob => IsCopy(job) /\ Given(job.from.plot)
    /\ input # NoJob /\ job # NoJob => input.from.plot # job.from.plot
    /\ pc = "options" => i = 0 /\ input = NoJob /\ job = NoJob
    /\ pc = "done" => input = NoJob /\ job = NoJob


\* What becomes of a command line: an end before the first plot, or a start.
Refusal ==
    /\ pc = "options" /\ pc' \in {"done", "refused", "exited"}
    /\ UNCHANGED <<dirs, i, target, signal, file, input, copying>>
Acceptance ==
    /\ pc = "options" /\ pc' = "loop"
    /\ {tmp_dir', tmp_dir2', final_dir', stage_dir'} \subseteq Dir
    /\ UNCHANGED <<out, i, target, signal, file, input, copying, faults>>

\* What is read from the command line names directories.
LEMMA CheckDecides == Check => Refusal \/ Acceptance
<1> SUFFICES ASSUME Check PROVE Refusal \/ Acceptance
  OBVIOUS
<1>0. pc = "options"
  BY DEF Check
<1>1. CASE \E r \in {"done", "refused"} : Refuse(r)
  BY <1>0, <1>1 DEF Refuse, Refusal
<1>2. CASE Valid /\ Start(Chosen)
  <2>1. Value("tmpdir").text \in Dir
    BY <1>2 DEF Valid, IsText
  <2>2. ASSUME NEW name \in {"tmpdir2", "finaldir", "stagedir"}
        PROVE  Or(Value(name).text, Value("tmpdir").text) \in Dir
    <3>1. Value(name) = Empty \/ IsText(Value(name), Dir)
      BY <1>2 DEF Valid
    <3>2. Value(name).text = Default \/ Value(name).text \in Dir
      <4>1. CASE Value(name) = Empty
        <5>1. Value(name).text = Empty.text
          BY <4>1
        <5>2. Empty.text = Default
          BY DEF Empty, Text, Default
        <5>3. QED
          BY <5>1, <5>2
      <4>2. CASE IsText(Value(name), Dir)
        BY <4>2 DEF IsText
      <4>3. QED
        BY <3>1, <4>1, <4>2
    <3>3. QED
      BY <2>1, <3>2 DEF Or
  <2>3. /\ Chosen.tmp = Value("tmpdir").text /\ Chosen.tmp2 = Value("tmpdir2").text
        /\ Chosen.final = Value("finaldir").text /\ Chosen.stage = Value("stagedir").text
    BY DEF Chosen
  <2>4. QED
    BY <1>0, <1>2, <2>1, <2>2, <2>3 DEF Start, Acceptance
<1>3. QED
  BY <1>1, <1>2 DEF Check

\* The steps there are, and what those before the first plot do to the rest.
LEMMA NextCases ==
    ASSUME [NextStep]_all
    PROVE  \/ Main \/ Interrupt \/ Copy
           \/ UNCHANGED vars \/ Refusal \/ Acceptance
<1>1. CASE UNCHANGED all
  BY <1>1 DEF all
<1>2. CASE Next
  BY <1>2 DEF Next
<1>3. CASE argc > 0 /\ Parse /\ UNCHANGED <<vars, line>>
  BY <1>3
<1>4. CASE NoArguments \/ Terminate
  BY <1>4 DEF NoArguments, Terminate, Refuse, Refusal
<1>5. CASE Check
  BY <1>5, CheckDecides
<1>6. QED
  BY <1>1, <1>2, <1>3, <1>4, <1>5 DEF NextStep, ReadOptions
-----------------------------------------------------------------------------
(* Paths *)

LEMMA AtPath ==
    ASSUME NEW d \in Dir, NEW p \in Plot, NEW x \in {".plot", ".plot.tmp"}
    PROVE  At(d, p, x) \in Path /\ At(d, p, x).dir = d /\ At(d, p, x).plot = p /\ At(d, p, x).ext = x
BY DEF At, Path

LEMMA PathAt ==
    ASSUME NEW q \in Path
    PROVE  /\ q.dir \in Dir /\ q.plot \in Plot /\ q.ext \in {".plot", ".plot.tmp"}
           /\ q = At(q.dir, q.plot, q.ext)
           /\ TmpOf(q) = At(q.dir, q.plot, ".plot.tmp")
BY DEF At, Path, TmpOf

LEMMA CopyPaths ==
    ASSUME NEW j, IsCopy(j)
    PROVE  /\ j.from \in Path /\ j.to \in Path
           /\ TmpOf(j.from) \in Path /\ TmpOf(j.to) \in Path
           /\ j.from.plot \in Plot
           /\ j.to.plot = j.from.plot /\ TmpOf(j.to).plot = j.from.plot /\ TmpOf(j.from).plot = j.from.plot
           /\ j.from.ext = ".plot" /\ j.to.ext = ".plot"
           /\ TmpOf(j.to).ext = ".plot.tmp" /\ TmpOf(j.from).ext = ".plot.tmp"
           /\ j.from # j.to /\ TmpOf(j.from) # TmpOf(j.to)
           /\ j.from # TmpOf(j.to) /\ j.from # TmpOf(j.from) /\ j.to # TmpOf(j.to)
<1>1. j.from \in Path /\ j.to \in Path /\ j.from.plot = j.to.plot /\ j.from.dir # j.to.dir
      /\ j.from.ext = ".plot" /\ j.to.ext = ".plot"
  BY DEF IsCopy
<1>2. \A q \in Path : TmpOf(q) \in Path /\ TmpOf(q).plot = q.plot /\ TmpOf(q).dir = q.dir /\ TmpOf(q).ext = ".plot.tmp"
  BY PathAt, AtPath
<1>3. QED
  BY <1>1, <1>2, PathAt

-----------------------------------------------------------------------------
(* Types are kept *)

Types == TypeInv /\ Apart

LEMMA FileUpdate ==
    ASSUME TypeInv, NEW q \in Path, NEW n \in 0 .. Size \cup {Absent}
    PROVE  [file EXCEPT ![q] = n] \in [Path -> 0 .. Size \cup {Absent}]
BY DEF TypeInv

LEMMA InitTypes == Init => Types
<1> SUFFICES ASSUME Init PROVE Types
  OBVIOUS
<1> USE BoundsAssumption DEF Init
<1>1. file \in [Path -> 0 .. Size \cup {Absent}]
  OBVIOUS
<1>2. TypeInv
  BY <1>1 DEF TypeInv, Running, InHand
<1>3. Apart
  BY DEF Apart
<1>4. QED
  BY <1>2, <1>3 DEF Types

LEMMA Working ==
    ASSUME Types
    PROVE  /\ Size \in Nat \ {0} /\ Size \in 0 .. Size \cup {Absent} /\ Size - 1 \in 0 .. Size \cup {Absent}
           /\ 0 \in 0 .. Size \cup {Absent} /\ Absent \in 0 .. Size \cup {Absent} /\ pos \in 0 .. Size \cup {Absent}
           /\ i \in Nat /\ i <= MaxPlots /\ MaxPlots \in Nat
           /\ InHand => /\ i \in Plot /\ i \in 1 .. i
                        /\ At(target, i, ".plot.tmp") \in Path /\ At(target, i, ".plot") \in Path
                        /\ At(target, i, ".plot.tmp") # At(target, i, ".plot")
           /\ cpc # "idle" => job # NoJob
           /\ job # NoJob => IsCopy(job) /\ job.from \in Path /\ job.to \in Path /\ TmpOf(job.to) \in Path
           /\ \A q \in Path : file[q] \in 0 .. Size \cup {Absent}
<1>1. InHand => i \in Plot /\ target \in Dir
  BY BoundsAssumption DEF Types, TypeInv, Plot
<1>2. InHand => /\ At(target, i, ".plot.tmp") \in Path /\ At(target, i, ".plot") \in Path
                /\ At(target, i, ".plot.tmp") # At(target, i, ".plot")
  BY <1>1, AtPath
<1>3. job # NoJob => IsCopy(job)
  BY DEF Types, Apart
<1>4. job # NoJob => job.from \in Path /\ job.to \in Path /\ TmpOf(job.to) \in Path
  BY <1>3, CopyPaths
<1>5. QED
  BY <1>1, <1>2, <1>3, <1>4, BoundsAssumption DEF Types, TypeInv, Plot

LEMMA NextFile == Types /\ [NextStep]_all => file' \in [Path -> 0 .. Size \cup {Absent}] /\ pos' \in 0 .. Size
<1> SUFFICES ASSUME Types, [NextStep]_all
             PROVE  file' \in [Path -> 0 .. Size \cup {Absent}] /\ pos' \in 0 .. Size
  OBVIOUS
<1>0. file \in [Path -> 0 .. Size \cup {Absent}] /\ pos \in 0 .. Size /\ TypeInv
  BY DEF Types, TypeInv
<1>1. ASSUME file' = file, pos' = pos
      PROVE  file' \in [Path -> 0 .. Size \cup {Absent}] /\ pos' \in 0 .. Size
  BY <1>0, <1>1
<1>2. ASSUME pos' \in 0 .. Size,
             NEW q \in Path, NEW n \in 0 .. Size \cup {Absent}, file' = [file EXCEPT ![q] = n]
      PROVE  file' \in [Path -> 0 .. Size \cup {Absent}] /\ pos' \in 0 .. Size
  BY <1>2, <1>0
<1>3. ASSUME pos' = pos, NEW q \in Path, NEW r \in Path, file' = Renamed(q, r)
      PROVE  file' \in [Path -> 0 .. Size \cup {Absent}] /\ pos' \in 0 .. Size
  BY <1>3, <1>0 DEF Renamed
<1>4. CASE Begin
  <2>1. CASE Stop
    BY <1>1, <1>4, <2>1 DEF Begin, copying
  <2>2. CASE ~Stop
    <3>1. i + 1 \in Plot
      BY <2>2, Working DEF Stop, AllCrafted, Plot
    <3> DEFINE d == IF option.directout THEN final_dir ELSE stage_dir
    <3>2. d \in Dir
      BY <1>4 DEF Begin, Types, TypeInv, Running
    <3>3. At(d, i + 1, ".plot.tmp") \in Path
      BY <3>1, <3>2, AtPath
    <3>4. file' = [file EXCEPT ![At(d, i + 1, ".plot.tmp")] = 0] /\ pos' = pos
      BY <1>4, <2>2 DEF Begin, copying
    <3>5. QED
      BY <1>0, <1>2, <3>3, <3>4, Working
  <2>3. QED
    BY <2>1, <2>2
<1>5. CASE Craft
  BY <1>0, <1>1, <1>2, <1>5, Working DEF Craft, InHand
<1>6. CASE Name
  BY <1>0, <1>1, <1>3, <1>6, Working DEF Name, InHand
<1>7. CASE Give \/ Handoff \/ Wait \/ Toggle \/ Close \/ Interrupt
  BY <1>1, <1>7 DEF Give, Handoff, Wait, Toggle, Close, Interrupt, copying
<1>8. CASE TakeJob \/ EndCopy
  BY <1>1, <1>8 DEF TakeJob, EndCopy
<1>9. CASE Rename
  BY <1>0, <1>1, <1>3, <1>9, Working DEF Rename
<1>10. CASE Open
  BY <1>0, <1>1, <1>2, <1>10, Working DEF Open
<1>11. CASE CopyChunk
  <2>1. file[job.from] \in 0 .. Size \cup {Absent} /\ pos < file[job.from]
    BY <1>11, Working DEF CopyChunk
  <2>2. pos + 1 \in 0 .. Size
    BY <1>0, <2>1, Working DEF Absent
  <2>3. QED
    BY <1>0, <1>1, <1>2, <1>11, <2>2, Working DEF CopyChunk
<1>12. CASE CloseCopy
  BY <1>0, <1>1, <1>2, <1>12, Working DEF CloseCopy
<1>13. CASE Remove
  BY <1>0, <1>1, <1>2, <1>13, Working DEF Remove
<1>14. CASE FinalRename
  <2>1. job.to \in Path /\ TmpOf(job.to) \in Path
    BY <1>14, Working DEF FinalRename
  <2>2. QED
    BY <1>0, <1>14, <2>1 DEF FinalRename
<1>15. CASE UNCHANGED vars \/ Refusal \/ Acceptance
  BY <1>1, <1>15 DEF vars, Refusal, Acceptance, copying
<1>16. QED
  BY <1>4, <1>5, <1>6, <1>7, <1>8, <1>9, <1>10, <1>11, <1>12, <1>13, <1>14, <1>15, NextCases
     DEF Main, Copy

LEMMA NextTypes == Types /\ [NextStep]_all => Types'
<1> SUFFICES ASSUME Types, [NextStep]_all PROVE Types'
  OBVIOUS
<1>0. file' \in [Path -> 0 .. Size \cup {Absent}] /\ pos' \in 0 .. Size
  BY NextFile
<1> USE <1>0, BoundsAssumption
    DEF Types, TypeInv, Apart, Running, InHand, Given, dirs, main, signal, copying
<1>1. CASE Begin
  <2>1. CASE Stop
    BY <1>1, <2>1 DEF Begin
  <2>2. CASE ~Stop
    <3>1. i + 1 \in 1 .. MaxPlots
      BY <2>2 DEF Stop, AllCrafted
    <3>2. target' = (IF option.directout THEN final_dir ELSE stage_dir) /\ target' \in Dir
      BY <1>1, <2>2 DEF Begin
    <3>3. /\ pc = "loop" /\ pc' = "craft" /\ i' = i + 1
          /\ UNCHANGED <<option, tmp_dir, tmp_dir2, final_dir, stage_dir, input, job, cpc>>
      BY <1>1, <2>2 DEF Begin
    <3>4. TypeInv'
      BY <3>1, <3>2, <3>3
    <3>5. Apart'
      <4>1. /\ input # NoJob => input.from.plot \in Nat
            /\ job # NoJob => job.from.plot \in Nat
        BY CopyPaths DEF Plot
      <4>2. QED
        BY <3>3, <4>1
    <3>6. QED
      BY <3>4, <3>5
  <2>3. QED
    BY <2>1, <2>2
<1>2. CASE Craft
  BY <1>2 DEF Craft
<1>3. CASE Name
  BY <1>3 DEF Name
<1>4. CASE Give
  <2>1. IsCopy(input') /\ input'.from.plot = i
    <3>1. i \in Plot /\ target \in Dir /\ final_dir \in Dir /\ target # final_dir
      BY <1>4 DEF Give, CopyWanted, Plot
    <3>2. QED
      BY <1>4, <3>1, AtPath DEF Give, IsCopy
  <2>2. QED
    BY <1>4, <2>1 DEF Give
<1>5. CASE Handoff \/ Wait \/ Close
  BY <1>5 DEF Handoff, Wait, Close, Idle
<1>6. CASE Toggle
  BY <1>6 DEF Toggle, Toggled
<1>7. CASE Interrupt
  BY <1>7 DEF Interrupt
<1>8. CASE TakeJob
  BY <1>8 DEF TakeJob
<1>9. CASE Rename \/ Remove
  BY <1>9 DEF Rename, Remove
<1>10. CASE Open \/ CopyChunk
  BY <1>10 DEF Open, CopyChunk, Fail, Retry
<1>11. CASE EndCopy \/ CloseCopy
  BY <1>11 DEF EndCopy, CloseCopy, CloseFailed, Fail, Retry
<1>12. CASE FinalRename
  BY <1>12 DEF FinalRename
<1>13. CASE UNCHANGED vars \/ Refusal \/ Acceptance
  BY <1>13 DEF vars, Refusal, Acceptance
<1> HIDE <1>0, BoundsAssumption
    DEF Types, TypeInv, Apart, Running, InHand, Given, dirs, main, signal, copying
<1>14. QED
  BY <1>1, <1>2, <1>3, <1>4, <1>5, <1>6, <1>7, <1>8, <1>9, <1>10, <1>11, <1>12, <1>13, NextCases
     DEF Main, Copy

-----------------------------------------------------------------------------
(* Where a plot is safe *)

Whole(q) == file[q] = Size \/ Truncated(q.plot)

\* The source of a copy, or what phase 4 could not name, is whole.
HasSource(q) == Whole(q) \/ Whole(TmpOf(q))

CraftSafe ==
    /\ pc = "name" => Whole(At(target, i, ".plot.tmp"))
    /\ pc = "after" => HasSource(At(target, i, ".plot"))

InputSafe == input # NoJob => HasSource(input.from)

JobSafe ==
    /\ cpc \in {"rename", "open"} => HasSource(job.from)
    /\ cpc \in {"copy", "fclose"} => Whole(job.from)
    /\ cpc = "fclose" => pos = Size \/ Truncated(job.from.plot)
    /\ cpc \in {"remove", "final"} => Whole(TmpOf(job.to))

Safe == CraftSafe /\ InputSafe /\ JobSafe /\ NamedPlotsAreComplete /\ PlotNeverLost

-----------------------------------------------------------------------------
(* No step loses a plot *)

LEMMA InitSafe == Init => Safe
<1> SUFFICES ASSUME Init PROVE Safe
  OBVIOUS
<1>1. /\ pc = "options" /\ i = 0 /\ cpc = "idle" /\ input = NoJob
      /\ \A q \in Path : file[q] = Absent
  BY DEF Init
<1>2. CraftSafe /\ InputSafe /\ JobSafe
  BY <1>1 DEF CraftSafe, InputSafe, JobSafe
<1>3. NamedPlotsAreComplete
  BY <1>1 DEF NamedPlotsAreComplete
<1>4. PlotNeverLost
  BY <1>1 DEF PlotNeverLost, Crafted
<1>5. QED
  BY <1>2, <1>3, <1>4 DEF Safe

LEMMA IgnoredStays == [NextStep]_all => ignored \subseteq ignored'
<1> SUFFICES ASSUME [NextStep]_all PROVE ignored \subseteq ignored'
  OBVIOUS
<1>1. CASE Main
  BY <1>1 DEF Main, Begin, Craft, Name, Give, Handoff, Wait, Toggle, Close, Ignore, copying
<1>2. CASE Copy
  BY <1>2 DEF Copy, TakeJob, Rename, Open, CopyChunk, EndCopy, CloseCopy, Remove, FinalRename, Ignore
<1>3. CASE Interrupt \/ UNCHANGED vars \/ Refusal \/ Acceptance
  BY <1>3 DEF Interrupt, vars, Refusal, Acceptance, copying
<1>4. QED
  BY <1>1, <1>2, <1>3, NextCases

\* What a step that only touches files of one plot leaves as it was.
Touches(p) == \A q \in Path : q.plot # p => file'[q] = file[q]

LEMMA Frame ==
    ASSUME Types, Safe, ignored \subseteq ignored', NEW p0, Touches(p0)
    PROVE  /\ UNCHANGED <<pc, i, target>> /\ (InHand => p0 # i) => CraftSafe'
           /\ input' = input /\ (input # NoJob => input.from.plot # p0) => InputSafe'
           /\ UNCHANGED <<job, cpc, pos>> /\ (job # NoJob => job.from.plot # p0) => JobSafe'
           /\ \A p \in Crafted \cap Plot : p # p0 => Complete(p)' \/ Truncated(p)'
           /\ \A q \in Path : q.ext = ".plot" /\ q.plot # p0 => file'[q] \in {Absent, Size} \/ Truncated(q.plot)'
<1>0. \A p : Truncated(p) => Truncated(p)'
  BY DEF Truncated, Ignored
<1>1. ASSUME UNCHANGED <<pc, i, target>>, InHand => p0 # i PROVE CraftSafe'
  <2>1. InHand => /\ file'[At(target, i, ".plot")] = file[At(target, i, ".plot")]
                  /\ file'[At(target, i, ".plot.tmp")] = file[At(target, i, ".plot.tmp")]
                  /\ TmpOf(At(target, i, ".plot")) = At(target, i, ".plot.tmp")
                  /\ At(target, i, ".plot").plot = i /\ At(target, i, ".plot.tmp").plot = i
    BY <1>1, Working, AtPath, PathAt DEF Touches, Types, TypeInv
  <2>2. QED
    BY <1>0, <1>1, <2>1 DEF CraftSafe, Safe, HasSource, Whole, InHand
<1>2. ASSUME input' = input, input # NoJob => input.from.plot # p0 PROVE InputSafe'
  <2>1. input # NoJob => /\ file'[input.from] = file[input.from]
                         /\ file'[TmpOf(input.from)] = file[TmpOf(input.from)]
    BY <1>2, CopyPaths DEF Touches, Types, Apart
  <2>2. QED
    BY <1>0, <1>2, <2>1 DEF InputSafe, Safe, HasSource, Whole
<1>3. ASSUME UNCHANGED <<job, cpc, pos>>, job # NoJob => job.from.plot # p0 PROVE JobSafe'
  <2>1. job # NoJob => /\ file'[job.from] = file[job.from]
                       /\ file'[TmpOf(job.from)] = file[TmpOf(job.from)]
                       /\ file'[TmpOf(job.to)] = file[TmpOf(job.to)]
    BY <1>3, CopyPaths DEF Touches, Types, Apart
  <2>2. QED
    BY <1>0, <1>3, <2>1, Working DEF JobSafe, Safe, HasSource, Whole
<1>4. ASSUME NEW p \in Crafted \cap Plot, p # p0 PROVE Complete(p)' \/ Truncated(p)'
  <2>1. CASE Truncated(p)
    BY <1>0, <2>1
  <2>2. CASE Complete(p)
    <3>1. PICK d \in Dir, x \in {".plot", ".plot.tmp"} : file[At(d, p, x)] = Size
      BY <2>2 DEF Complete
    <3>2. file'[At(d, p, x)] = Size
      BY <1>4, <3>1, AtPath DEF Touches
    <3>3. QED
      BY <3>2 DEF Complete
  <2>3. QED
    BY <1>4, <2>1, <2>2 DEF Safe, PlotNeverLost
<1>5. ASSUME NEW q \in Path, q.ext = ".plot", q.plot # p0
      PROVE  file'[q] \in {Absent, Size} \/ Truncated(q.plot)'
  BY <1>0, <1>5 DEF Safe, NamedPlotsAreComplete, Touches
<1>6. QED
  BY <1>1, <1>2, <1>3, <1>4, <1>5

\* What is left to show of a step that touches plot p0.
LEMMA Rest ==
    ASSUME Types, Safe, ignored \subseteq ignored', NEW p0, Touches(p0),
           i' \in 0 .. MaxPlots, Crafted' \subseteq Crafted \cup {p0},
           CraftSafe', InputSafe', JobSafe',
           p0 \in Crafted' => Complete(p0)' \/ Truncated(p0)',
           \A q \in Path : q.ext = ".plot" /\ q.plot = p0 => file'[q] \in {Absent, Size} \/ Truncated(p0)'
    PROVE  Safe'
<1>1. NamedPlotsAreComplete'
  BY Frame DEF NamedPlotsAreComplete
<1>2. Crafted' \subseteq Plot
  BY BoundsAssumption DEF Crafted, Plot
<1>3. PlotNeverLost'
  BY <1>2, Frame DEF PlotNeverLost
<1>4. QED
  BY <1>1, <1>3 DEF Safe

\* A step that touches no file.
LEMMA QuietStep ==
    ASSUME Types, Types', Safe, ignored \subseteq ignored', file' = file,
           Crafted' \subseteq Crafted, CraftSafe', InputSafe', JobSafe'
    PROVE  Safe'
<1>1. PICK p0 : p0 \notin Plot
  <2>1. MaxPlots + 1 \notin Plot
    BY BoundsAssumption DEF Plot
  <2>2. QED
    BY <2>1
<1>2. Touches(p0) /\ i' \in 0 .. MaxPlots /\ Crafted' \subseteq Plot
  <2>1. i \in 0 .. MaxPlots /\ i' \in 0 .. MaxPlots
    BY DEF Types, TypeInv
  <2>2. Crafted \subseteq Plot
    BY <2>1, BoundsAssumption DEF Crafted, Plot
  <2>3. QED
    BY <2>1, <2>2 DEF Touches
<1>3. \A q \in Path : q.plot # p0
  BY <1>1, PathAt
<1>4. QED
  BY <1>1, <1>2, <1>3, Rest

LEMMA NothingTouched ==
    ASSUME Types, Safe, ignored \subseteq ignored', file' = file
    PROVE  /\ UNCHANGED <<pc, i, target>> => CraftSafe'
           /\ input' = input => InputSafe'
           /\ UNCHANGED <<job, cpc, pos>> => JobSafe'
<1>1. PICK p0 : p0 \notin Plot
  <2>1. MaxPlots + 1 \notin Plot
    BY BoundsAssumption DEF Plot
  <2>2. QED
    BY <2>1
<1>2. /\ Touches(p0)
      /\ InHand => p0 # i
      /\ input # NoJob => input.from.plot # p0
      /\ job # NoJob => job.from.plot # p0
  BY <1>1, Working, CopyPaths DEF Touches, Types, Apart
<1>3. QED
  BY <1>2, Frame

\* main() works on files of the plot it has in hand.
LEMMA MainSafe ==
    ASSUME Types, Types', Safe, ignored \subseteq ignored', Main \/ Interrupt
    PROVE  Safe'
<1> USE DEF copying, main, signal, dirs
<1>1. ASSUME file' = file, input' = input, UNCHANGED <<job, cpc, pos>>, Crafted' \subseteq Crafted, CraftSafe'
      PROVE  Safe'
  BY <1>1, NothingTouched, QuietStep
<1>2. ASSUME Touches(i'), InHand', UNCHANGED <<input, job, cpc, pos>>,
             Crafted' \subseteq Crafted \cup {i'}, CraftSafe',
             i' \in Crafted' => Complete(i)' \/ Truncated(i)',
             \A q \in Path : q.ext = ".plot" /\ q.plot = i' => file'[q] \in {Absent, Size} \/ Truncated(i)'
      PROVE  Safe'
  <2>1. PICK p0 : p0 = i'
    OBVIOUS
  <2>2. /\ input # NoJob => input.from.plot # p0
        /\ job # NoJob => job.from.plot # p0
        /\ i' \in 0 .. MaxPlots
    BY <1>2, <2>1, CopyPaths DEF Types, TypeInv, Apart, Given, Plot
  <2>3. InputSafe' /\ JobSafe'
    BY <1>2, <2>1, <2>2, Frame
  <2>4. (Complete(i)' => Complete(p0)') /\ (Truncated(i)' => Truncated(p0)')
    BY <2>1 DEF Complete, Truncated, Ignored
  <2>5. QED
    BY <1>2, <2>1, <2>2, <2>3, <2>4, Rest
<1>3. CASE Begin
  <2>1. CASE Stop
    BY <1>1, <1>3, <2>1 DEF Begin, Crafted, CraftSafe
  <2>2. CASE ~Stop
    <3> DEFINE d == IF option.directout THEN final_dir ELSE stage_dir
    <3>1. /\ pc = "loop" /\ pc' = "craft" /\ i' = i + 1 /\ UNCHANGED <<input, job, cpc, pos>>
          /\ file' = [file EXCEPT ![At(d, i + 1, ".plot.tmp")] = 0]
      BY <1>3, <2>2 DEF Begin
    <3>2. /\ d \in Dir /\ i + 1 \in Plot /\ file \in [Path -> 0 .. Size \cup {Absent}]
          /\ i \in Nat
      BY <1>3, <3>1, BoundsAssumption DEF Begin, Types, TypeInv, Running, InHand, Plot
    <3> HIDE DEF d
    <3>3. /\ At(d, i + 1, ".plot.tmp") \in Path /\ At(d, i + 1, ".plot.tmp").plot = i + 1
          /\ At(d, i + 1, ".plot.tmp").ext = ".plot.tmp"
      BY <3>2, AtPath
    <3>4. /\ Touches(i')
          /\ \A q \in Path : q.ext = ".plot" => file'[q] = file[q]
      BY <3>1, <3>2, <3>3 DEF Touches
    <3>5. \A q \in Path : q.ext = ".plot" /\ q.plot = i' => file'[q] \in {Absent, Size} \/ Truncated(i)'
      <4> SUFFICES ASSUME NEW q \in Path, q.ext = ".plot", q.plot = i'
                   PROVE  file'[q] \in {Absent, Size} \/ Truncated(i)'
        OBVIOUS
      <4>1. CASE file[q] \in {Absent, Size}
        BY <3>4, <4>1
      <4>2. CASE Truncated(q.plot)
        BY <4>2 DEF Truncated, Ignored
      <4>3. QED
        BY <4>1, <4>2 DEF Safe, NamedPlotsAreComplete
    <3>6. /\ InHand' /\ CraftSafe' /\ Crafted' \subseteq Crafted \cup {i'} /\ ~(i' \in Crafted')
      BY <3>1, <3>2 DEF InHand, CraftSafe, Crafted
    <3>7. QED
      BY <1>2, <3>1, <3>4, <3>5, <3>6
  <2>3. QED
    BY <2>1, <2>2
<1>4. CASE Craft
  <2>0. pc = "craft" /\ i' = i /\ target' = target /\ UNCHANGED <<input, job, cpc, pos>>
    BY <1>4 DEF Craft
  <2>1. CASE pc' = "exited" /\ file' = file
    BY <1>1, <2>0, <2>1 DEF Crafted, CraftSafe
  <2>2. ASSUME pc' = "name", NEW n \in {Size, Size - 1}, file' = [file EXCEPT ![At(target, i, ".plot.tmp")] = n],
               n = Size \/ Truncated(i)'
        PROVE  Safe'
    <3>1. /\ At(target, i, ".plot.tmp") \in Path /\ At(target, i, ".plot.tmp").plot = i
          /\ At(target, i, ".plot.tmp").ext = ".plot.tmp"
          /\ target \in Dir /\ file \in [Path -> 0 .. Size \cup {Absent}]
      BY <2>0, Working, AtPath DEF Types, TypeInv, InHand
    <3>2. /\ Touches(i')
          /\ \A q \in Path : q.ext = ".plot" => file'[q] = file[q]
          /\ file'[At(target, i, ".plot.tmp")] = n
      BY <2>0, <2>2, <3>1 DEF Touches
    <3>3. CraftSafe' /\ (Complete(i)' \/ Truncated(i)')
      BY <2>0, <2>2, <3>1, <3>2 DEF CraftSafe, Whole, Complete
    <3>4. \A q \in Path : q.ext = ".plot" /\ q.plot = i' => file'[q] \in {Absent, Size} \/ Truncated(i)'
      BY <2>0, <3>2 DEF Safe, NamedPlotsAreComplete, Truncated, Ignored
    <3>5. /\ InHand' /\ Crafted' \subseteq Crafted \cup {i'}
      BY <2>0, <2>2, Working DEF InHand, Crafted, Types, TypeInv
    <3>6. QED
      BY <1>2, <2>0, <3>2, <3>3, <3>4, <3>5
  <2>3. CASE pc' = "name" /\ file' = [file EXCEPT ![At(target, i, ".plot.tmp")] = Size]
    BY <2>2, <2>3
  <2>4. CASE /\ pc' = "name" /\ Ignore(i, "plot fclose")
             /\ file' = [file EXCEPT ![At(target, i, ".plot.tmp")] = Size - 1]
    <3>1. Truncated(i)'
      BY <2>0, <2>4 DEF Ignore, Truncated, Ignored
    <3>2. QED
      BY <2>2, <2>4, <3>1
  <2>5. QED
    BY <1>4, <2>1, <2>3, <2>4 DEF Craft
<1>5. CASE Name
  <2> DEFINE from == At(target, i, ".plot.tmp")
             to == At(target, i, ".plot")
  <2>0. /\ pc = "name" /\ pc' = "after" /\ i' = i /\ target' = target
        /\ UNCHANGED <<input, job, cpc, pos>>
    BY <1>5 DEF Name
  <2>1. /\ from \in Path /\ from.plot = i /\ from.ext = ".plot.tmp"
        /\ to \in Path /\ to.plot = i /\ to.ext = ".plot" /\ TmpOf(to) = from /\ from # to
        /\ target \in Dir /\ file \in [Path -> 0 .. Size \cup {Absent}]
    BY <2>0, Working, AtPath, PathAt DEF Types, TypeInv, InHand
  <2>2. file[from] = Size \/ Truncated(i)
    BY <2>0, <2>1 DEF Safe, CraftSafe, Whole
  <2>3. Truncated(i) => Truncated(i)'
    BY <2>0 DEF Truncated, Ignored
  <2>4. Crafted' \subseteq Crafted
    BY <2>0 DEF Crafted
  <2>5. CASE file' = file
    <3>1. CraftSafe'
      BY <2>0, <2>1, <2>2, <2>3, <2>5 DEF CraftSafe, HasSource, Whole
    <3>2. QED
      BY <1>1, <2>0, <2>4, <2>5, <3>1
  <2>6. CASE file' = Renamed(from, to)
    <3> HIDE DEF from, to
    <3>1. /\ Touches(i')
          /\ file'[to] = file[from]
          /\ \A q \in Path : q.ext = ".plot" /\ q # to => file'[q] = file[q]
      BY <2>0, <2>1, <2>6 DEF Touches, Renamed
    <3>2. CraftSafe' /\ (Complete(i)' \/ Truncated(i)')
      BY <2>0, <2>1, <2>2, <2>3, <3>1 DEF CraftSafe, HasSource, Whole, Complete, to
    <3>3. \A q \in Path : q.ext = ".plot" /\ q.plot = i' => file'[q] \in {Absent, Size} \/ Truncated(i)'
      BY <2>0, <2>2, <2>3, <3>1 DEF Safe, NamedPlotsAreComplete
    <3>4. QED
      BY <1>2, <2>0, <2>4, <3>1, <3>2, <3>3 DEF InHand
  <2>7. QED
    BY <1>5, <2>5, <2>6 DEF Name
<1>6. CASE Give
  <2>1. /\ pc = "after" /\ input'.from = At(target, i, ".plot")
        /\ pc' = "handoff" /\ i' = i /\ file' = file /\ UNCHANGED <<job, cpc, pos>>
    BY <1>6 DEF Give
  <2>2. InputSafe'
    <3>1. HasSource(At(target, i, ".plot"))
      BY <1>6 DEF Give, Safe, CraftSafe
    <3>2. QED
      BY <1>6, <2>1, <3>1 DEF Give, InputSafe, HasSource, Whole, Truncated, Ignored
  <2>3. CraftSafe' /\ Crafted' \subseteq Crafted
    BY <2>1, <1>6 DEF Give, CraftSafe, Crafted
  <2>4. JobSafe'
    BY <2>1, NothingTouched
  <2>5. QED
    BY <2>1, <2>2, <2>3, <2>4, QuietStep
<1>7. CASE Handoff \/ Wait \/ Toggle \/ Close \/ Interrupt
  <2>1. file' = file /\ i' = i /\ UNCHANGED <<input, job, cpc, pos>>
    BY <1>7 DEF Handoff, Wait, Toggle, Close, Interrupt
  <2>2. Crafted' \subseteq Crafted
    BY <1>7, <2>1 DEF Handoff, Wait, Toggle, Close, Interrupt, Crafted, Types, TypeInv
  <2>3. CraftSafe'
    <3>1. pc' \notin {"name", "after"} \/ UNCHANGED <<pc, i, target>>
      BY <1>7 DEF Handoff, Wait, Toggle, Close, Interrupt
    <3>2. QED
      BY <2>1, <3>1, NothingTouched DEF CraftSafe
  <2>4. QED
    BY <1>1, <2>1, <2>2, <2>3
<1>8. QED
  BY <1>3, <1>4, <1>5, <1>6, <1>7 DEF Main

\* The copy thread works on files of the plot it has.
LEMMA CopySafe ==
    ASSUME Types, Types', Safe, ignored \subseteq ignored', Copy
    PROVE  Safe'
<1> USE DEF main, signal, dirs
<1>0. ASSUME NEW p0, TRUE
      PROVE  Truncated(p0) => Truncated(p0)'
  BY DEF Truncated, Ignored
<1>1. CASE TakeJob
  <2>1. /\ file' = file /\ input # NoJob /\ job' = input /\ input' = NoJob /\ cpc' = "rename"
        /\ UNCHANGED <<pc, i, target, ignored>>
    BY <1>1 DEF TakeJob
  <2>2. CraftSafe' /\ Crafted' \subseteq Crafted
    BY <2>1, NothingTouched DEF Crafted
  <2>3. InputSafe'
    BY <2>1 DEF InputSafe
  <2>4. JobSafe'
    BY <2>1 DEF JobSafe, Safe, InputSafe, HasSource, Whole, Truncated, Ignored
  <2>5. QED
    BY <2>1, <2>2, <2>3, <2>4, QuietStep
<1> SUFFICES ASSUME ~TakeJob PROVE Safe'
  BY <1>1
<1>2. PICK j : j = job
  OBVIOUS
<1> DEFINE from == j.from
           to == j.to
           p == j.from.plot
<1>3. /\ j # NoJob /\ UNCHANGED <<pc, i, target, input>>
      /\ IsCopy(j) /\ file \in [Path -> 0 .. Size \cup {Absent}]
      /\ Size \in Nat \ {0}
  BY <1>2, Working DEF Copy, Rename, Open, CopyChunk, EndCopy, CloseCopy, Remove, FinalRename, Types, TypeInv
<1>4. /\ from \in Path /\ to \in Path /\ TmpOf(to) \in Path /\ TmpOf(from) \in Path
      /\ from.plot = p /\ to.plot = p /\ TmpOf(to).plot = p /\ TmpOf(from).plot = p /\ p \in Plot
      /\ from.ext = ".plot" /\ to.ext = ".plot" /\ TmpOf(to).ext = ".plot.tmp" /\ TmpOf(from).ext = ".plot.tmp"
      /\ from # to /\ from # TmpOf(to) /\ to # TmpOf(to) /\ from # TmpOf(from) /\ TmpOf(from) # TmpOf(to)
      /\ to # TmpOf(from)
  BY <1>3, CopyPaths
<1>5. /\ file[from] \in {Absent, Size} \/ Truncated(p)
      /\ InHand => p # i
      /\ input # NoJob => input.from.plot # p
  BY <1>2, <1>3, <1>4, Working DEF Safe, NamedPlotsAreComplete, Types, Apart, Given, Plot
<1> HIDE DEF from, to, p
\* What is left to show: the plot is safe where the copy thread is, and in some file.
<1>6. ASSUME Touches(p), JobSafe',
             \E q \in Path : q.plot = p /\ (file'[q] = Size \/ Truncated(p)'),
             \A q \in Path : q.ext = ".plot" /\ q.plot = p =>
                 file'[q] \in {Absent, Size, file[q]} \/ Truncated(p)'
      PROVE  Safe'
  <2>1. CraftSafe' /\ InputSafe'
    BY <1>3, <1>5, <1>6, Frame
  <2>2. Complete(p)' \/ Truncated(p)'
    <3>1. PICK q \in Path : q.plot = p /\ (file'[q] = Size \/ Truncated(p)')
      BY <1>6
    <3>2. q = At(q.dir, p, q.ext) /\ q.dir \in Dir /\ q.ext \in {".plot", ".plot.tmp"}
      BY <3>1, PathAt
    <3>3. QED
      BY <3>1, <3>2 DEF Complete
  <2>3. ASSUME NEW q \in Path, q.ext = ".plot", q.plot = p
        PROVE  file'[q] \in {Absent, Size} \/ Truncated(p)'
    BY <1>0, <1>6, <2>3 DEF Safe, NamedPlotsAreComplete
  <2>4. Crafted' \subseteq Crafted \cup {p} /\ i' \in 0 .. MaxPlots
    BY <1>3 DEF Crafted, Types, TypeInv
  <2>5. QED
    BY <1>6, <2>1, <2>2, <2>3, <2>4, Rest
\* As long as the source is safe, whatever becomes of the copy that is being made.
<1>7. ASSUME HasSource(from), file'[from] = file[from], file'[TmpOf(from)] = file[TmpOf(from)],
             Touches(p), JobSafe',
             \A q \in Path : q.ext = ".plot" => file'[q] = file[q]
      PROVE  Safe'
  <2>1. \E q \in Path : q.plot = p /\ (file'[q] = Size \/ Truncated(p)')
    BY <1>0, <1>4, <1>7 DEF HasSource, Whole
  <2>2. QED
    BY <1>6, <1>7, <2>1
<1>8. CASE Rename
  <2>1. cpc = "rename" /\ HasSource(from) /\ job' = job /\ pos' = pos /\ UNCHANGED ignored
    BY <1>2, <1>8 DEF Rename, Safe, JobSafe, from
  <2>2. CASE Renameable /\ file' = Renamed(from, TmpOf(to)) /\ cpc' = "remove"
    <3>1. /\ Touches(p)
          /\ file'[TmpOf(to)] = file[from]
          /\ \A q \in Path : q.ext = ".plot" => file'[q] \in {Absent, file[q]}
      BY <1>3, <1>4, <2>2 DEF Touches, Renamed
    <3>2. file[from] = Size \/ Truncated(p)
      BY <1>2, <1>5, <2>2 DEF Renameable, from
    <3>3. JobSafe'
      BY <1>0, <1>2, <1>4, <2>1, <2>2, <3>1, <3>2 DEF JobSafe, Whole, to, p
    <3>4. QED
      BY <1>0, <1>4, <1>6, <3>1, <3>2, <3>3
  <2>3. CASE file' = file /\ cpc' = "open"
    <3>1. JobSafe'
      BY <1>2, <2>1, <2>3 DEF JobSafe, HasSource, Whole, from, Truncated, Ignored
    <3>2. QED
      BY <1>7, <2>1, <2>3, <3>1 DEF Touches
  <2>4. QED
    BY <1>2, <1>8, <2>2, <2>3 DEF Rename, from, to
<1>9. ASSUME cpc' = "rename", HasSource(from), file' = file, job' = job PROVE Safe'
  <2>1. JobSafe'
    BY <1>0, <1>2, <1>4, <1>9 DEF JobSafe, HasSource, Whole, from
  <2>2. QED
    BY <1>7, <1>9, <2>1 DEF Touches
<1>10. CASE Open
  <2>1. cpc = "open" /\ HasSource(from) /\ job' = job
    BY <1>2, <1>10 DEF Open, Safe, JobSafe, from
  <2>2. CASE file[from] # Absent /\ file' = [file EXCEPT ![TmpOf(to)] = 0] /\ cpc' = "copy"
    <3>1. /\ Touches(p) /\ file'[from] = file[from] /\ file'[TmpOf(from)] = file[TmpOf(from)]
          /\ \A q \in Path : q.ext = ".plot" => file'[q] = file[q]
      BY <1>3, <1>4, <2>2 DEF Touches
    <3>2. file[from] = Size \/ Truncated(p)
      BY <1>5, <2>2
    <3>3. JobSafe'
      BY <1>0, <1>2, <1>4, <2>1, <2>2, <3>1, <3>2 DEF JobSafe, Whole, from
    <3>4. QED
      BY <1>7, <2>1, <3>1, <3>3
  <2>3. CASE file' = file /\ cpc' = "rename"
    BY <1>9, <2>1, <2>3
  <2>4. QED
    BY <1>2, <1>10, <2>2, <2>3 DEF Open, Fail, Retry, from, to
<1>11. CASE CopyChunk
  <2>1. cpc = "copy" /\ Whole(from) /\ job' = job
    BY <1>2, <1>11 DEF CopyChunk, Safe, JobSafe, from
  <2>2. CASE file' = [file EXCEPT ![TmpOf(to)] = pos] /\ cpc' = "copy"
    <3>1. /\ Touches(p) /\ file'[from] = file[from] /\ file'[TmpOf(from)] = file[TmpOf(from)]
          /\ \A q \in Path : q.ext = ".plot" => file'[q] = file[q]
      BY <1>3, <1>4, <2>2 DEF Touches
    <3>2. JobSafe'
      BY <1>0, <1>2, <1>4, <2>1, <2>2, <3>1 DEF JobSafe, Whole, from
    <3>3. QED
      BY <1>7, <2>1, <3>1, <3>2 DEF HasSource
  <2>3. CASE file' = file /\ cpc' = "rename"
    BY <1>9, <2>1, <2>3 DEF HasSource
  <2>4. QED
    BY <1>2, <1>11, <2>1, <2>2, <2>3 DEF CopyChunk, Fail, Retry, to
<1>12. CASE EndCopy
  <2>1. cpc = "copy" /\ Whole(from) /\ job' = job /\ cpc' = "fclose" /\ file' = file /\ pos' = pos
    BY <1>2, <1>12 DEF EndCopy, Safe, JobSafe, from
  <2>2. pos = Size \/ Truncated(p)'
    <3>1. CASE pos < file[from]
      BY <1>2, <1>4, <1>12, <3>1 DEF EndCopy, Ignore, Truncated, Ignored, from
    <3>2. CASE ~(pos < file[from]) /\ ~Truncated(p)
      <4>1. file[from] = Size /\ pos \in 0 .. Size
        BY <1>4, <2>1, <3>2 DEF Whole, Types, TypeInv
      <4>2. QED
        BY <1>3, <3>2, <4>1
    <3>3. QED
      BY <1>0, <3>1, <3>2
  <2>3. JobSafe'
    BY <1>0, <1>2, <1>4, <2>1, <2>2 DEF JobSafe, Whole, from, p
  <2>4. QED
    BY <1>7, <2>1, <2>3 DEF HasSource, Touches
<1>13. CASE CloseCopy
  <2>1. /\ cpc = "fclose" /\ Whole(from) /\ (pos = Size \/ Truncated(p)) /\ job' = job
    BY <1>2, <1>13 DEF CloseCopy, Safe, JobSafe, from, p
  <2>2. CASE file' = [file EXCEPT ![TmpOf(to)] = pos] /\ cpc' = "remove"
    <3>1. /\ Touches(p) /\ file'[from] = file[from] /\ file'[TmpOf(from)] = file[TmpOf(from)]
          /\ file'[TmpOf(to)] = pos
          /\ \A q \in Path : q.ext = ".plot" => file'[q] = file[q]
      BY <1>3, <1>4, <2>2 DEF Touches
    <3>2. JobSafe'
      BY <1>0, <1>2, <1>4, <2>1, <2>2, <3>1 DEF JobSafe, Whole, to
    <3>3. QED
      BY <1>7, <2>1, <3>1, <3>2 DEF HasSource
  <2>3. CASE file' = file /\ cpc' = "rename"
    BY <1>9, <2>1, <2>3 DEF HasSource
  <2>4. QED
    BY <1>2, <1>13, <2>1, <2>2, <2>3 DEF CloseCopy, CloseFailed, Fail, Retry, to
<1>14. CASE Remove
  <2>1. /\ cpc = "remove" /\ Whole(TmpOf(to)) /\ job' = job /\ cpc' = "final"
        /\ file' = [file EXCEPT ![from] = Absent] \/ file' = file
    BY <1>2, <1>14 DEF Remove, Safe, JobSafe, from, to
  <2>2. /\ Touches(p) /\ file'[TmpOf(to)] = file[TmpOf(to)]
        /\ \A q \in Path : q.ext = ".plot" => file'[q] \in {Absent, file[q]}
    BY <1>3, <1>4, <2>1 DEF Touches
  <2>3. JobSafe'
    BY <1>0, <1>2, <1>4, <2>1, <2>2 DEF JobSafe, Whole, to
  <2>4. QED
    BY <1>0, <1>4, <1>6, <2>1, <2>2, <2>3 DEF Whole
<1>15. CASE FinalRename
  <2>1. cpc = "final" /\ Whole(TmpOf(to)) /\ cpc' = "idle"
    BY <1>2, <1>15 DEF FinalRename, Safe, JobSafe, to
  <2>2. JobSafe'
    BY <2>1 DEF JobSafe
  <2>3. CASE file' = [q \in Path |-> IF q = to THEN file[TmpOf(to)]
                                     ELSE IF q = TmpOf(to) THEN Absent ELSE file[q]]
    <3>1. /\ Touches(p) /\ file'[to] = file[TmpOf(to)]
          /\ \A q \in Path : q.ext = ".plot" /\ q # to => file'[q] = file[q]
      BY <1>3, <1>4, <2>3 DEF Touches
    <3>2. file'[to] = Size \/ Truncated(p)'
      BY <1>0, <1>4, <2>1, <3>1 DEF Whole
    <3>3. QED
      BY <1>4, <1>6, <2>2, <3>1, <3>2
  <2>4. CASE file' = file
    <3>1. file'[TmpOf(to)] = Size \/ Truncated(p)'
      BY <1>0, <1>4, <2>1, <2>4 DEF Whole
    <3>2. QED
      BY <1>4, <1>6, <2>2, <2>4, <3>1 DEF Touches
  <2>5. QED
    BY <1>2, <1>15, <2>3, <2>4 DEF FinalRename, to
<1>16. QED
  BY <1>8, <1>10, <1>11, <1>12, <1>13, <1>14, <1>15 DEF Copy

LEMMA SafeInvariant == Spec => [](Types /\ Safe)
<1>1. InitLine => Types /\ Safe
  BY InitTypes, InitSafe DEF InitLine
<1>2. Types /\ Safe /\ [NextStep]_all => Types' /\ Safe'
  <2> SUFFICES ASSUME Types, Safe, [NextStep]_all PROVE Types' /\ Safe'
    OBVIOUS
  <2>1. Types' /\ ignored \subseteq ignored'
    BY NextTypes, IgnoredStays
  <2>2. CASE Main \/ Interrupt
    BY <2>1, <2>2, MainSafe
  <2>3. CASE Copy
    BY <2>1, <2>3, CopySafe
  <2>4. CASE UNCHANGED vars \/ Refusal \/ Acceptance
    <3>1. file' = file /\ UNCHANGED <<i, target, input, job, cpc, pos>>
      BY <2>4 DEF vars, Refusal, Acceptance, copying
    <3>2. CraftSafe' /\ Crafted' \subseteq Crafted
      <4>1. CASE UNCHANGED pc
        BY <2>1, <3>1, <4>1, NothingTouched DEF Crafted
      <4>2. CASE Refusal \/ Acceptance
        BY <3>1, <4>2 DEF Refusal, Acceptance, CraftSafe, Crafted, Types, Apart
      <4>3. QED
        BY <2>4, <4>1, <4>2 DEF vars
    <3>3. QED
      BY <2>1, <3>1, <3>2, NothingTouched, QuietStep
  <2>5. QED
    BY <2>2, <2>3, <2>4, NextCases
<1>3. QED
  BY <1>1, <1>2, PTL DEF Spec

\* A plot that was crafted is complete in some directory, whatever calls fail and
\* wherever the process ends, but for the two failures that are not noticed: the
\* fread() of the copy and the fclose() of phase 4.
THEOREM PlotIsNeverLost == Spec => []PlotNeverLost
<1>1. Types /\ Safe => PlotNeverLost
  BY DEF Safe
<1>2. QED
  BY <1>1, SafeInvariant, PTL

\* What has the name of a plot is a complete plot, for any sequence of copies,
\* failures and repetitions.
THEOREM PlotNamesAreTrue == Spec => []NamedPlotsAreComplete
<1>1. Types /\ Safe => NamedPlotsAreComplete
  BY DEF Safe
<1>2. QED
  BY <1>1, SafeInvariant, PTL

-----------------------------------------------------------------------------
(* Where a plot ends *)

\* No call whose result is ignored has failed for plot p.
Clean(p) == \A call \in Faults : ~Ignored(p, call)

\* There is nothing of plot p but what is named.
Only(p, paths) == \A q \in Path : q.plot = p /\ q \notin paths => file[q] = Absent
Alone(q) == file[q] = Size /\ Only(q.plot, {q})

Underway(p) ==
    \/ InHand /\ p = i
    \/ input # NoJob /\ p = input.from.plot
    \/ job # NoJob /\ p = job.from.plot

Planned ==
    /\ out \in Seq([tmp : Dir, stage : Dir, final : Dir]) /\ Len(out) = i
    /\ InHand => out[i].final = IF CopyWanted THEN final_dir ELSE target
    /\ input # NoJob => out[input.from.plot].final = input.to.dir
    /\ job # NoJob => out[job.from.plot].final = job.to.dir

CraftPlaced ==
    /\ \A q \in Path : q.plot > i => file[q] = Absent
    /\ pc = "craft" => Only(i, {At(target, i, ".plot.tmp")})
    /\ pc = "name" /\ Clean(i) => Alone(At(target, i, ".plot.tmp"))
    /\ pc = "after" /\ Clean(i) => Alone(At(target, i, ".plot"))

InputPlaced == input # NoJob /\ Clean(input.from.plot) => Alone(input.from)

JobPlaced ==
    job # NoJob /\ Clean(job.from.plot) =>
        /\ Only(job.from.plot, {job.from, TmpOf(job.to)})
        /\ cpc \in {"rename", "open", "copy", "fclose"} => file[job.from] = Size
        /\ cpc = "fclose" => pos = Size
        /\ cpc \in {"remove", "final"} => file[TmpOf(job.to)] = Size
        /\ cpc = "final" => file[job.from] = Absent

RestPlaced ==
    pc # "exited" =>
        \A p \in 1 .. i : ~Underway(p) /\ Clean(p) => Alone(At(out[p].final, p, ".plot"))

Placed == Planned /\ CraftPlaced /\ InputPlaced /\ JobPlaced /\ RestPlaced
-----------------------------------------------------------------------------
(* No step leaves anything behind *)

LEMMA InitPlaced == Init => Placed
<1> SUFFICES ASSUME Init PROVE Placed
  OBVIOUS
<1>1. /\ pc = "options" /\ i = 0 /\ cpc = "idle" /\ input = NoJob /\ job = NoJob
      /\ \A q \in Path : file[q] = Absent
      /\ out = <<>>
  BY DEF Init
<1>2. Planned
  BY <1>1 DEF Planned, InHand
<1>3. CraftPlaced /\ InputPlaced /\ JobPlaced /\ RestPlaced
  BY <1>1 DEF CraftPlaced, InputPlaced, JobPlaced, RestPlaced
<1>4. QED
  BY <1>2, <1>3 DEF Placed

LEMMA NextPlanned ==
    ASSUME Types, Types', Planned, [NextStep]_all
    PROVE  Planned'
<1> USE DEF main, dirs, signal, copying
<1>1. CASE Begin
  <2>1. CASE Stop
    BY <1>1, <2>1 DEF Begin, Planned, InHand
  <2>2. CASE ~Stop
    <3> DEFINE d == IF option.directout THEN final_dir ELSE stage_dir
               e == [tmp |-> tmp_dir, stage |-> d, final |-> IF CopyWanted THEN final_dir ELSE d]
    <3>1. /\ i' = i + 1 /\ target' = d /\ out' = Append(out, e)
          /\ UNCHANGED <<option, tmp_dir, tmp_dir2, final_dir, stage_dir, input, job>>
          /\ i \in Nat /\ pc = "loop"
      BY <1>1, <2>2, Working DEF Begin
    <3>2. e \in [tmp : Dir, stage : Dir, final : Dir] /\ e.final = IF CopyWanted THEN final_dir ELSE d
      BY <3>1 DEF Types, TypeInv, Running
    <3>3. /\ out' \in Seq([tmp : Dir, stage : Dir, final : Dir]) /\ Len(out') = i'
          /\ (\A p \in 1 .. i : out'[p] = out[p]) /\ out'[i'] = e
      <4> HIDE DEF e, d
      <4>1. QED
        BY <3>1, <3>2 DEF Planned
    <3>4. CopyWanted' = CopyWanted
      BY <3>1 DEF CopyWanted
    <3>5. /\ input # NoJob => input.from.plot \in 1 .. i
          /\ job # NoJob => job.from.plot \in 1 .. i
      BY <3>1, CopyPaths DEF Types, Apart, Given, Plot
    <3> HIDE DEF e, d
    <3>6. QED
      BY <3>1, <3>2, <3>3, <3>4, <3>5 DEF Planned
  <2>3. QED
    BY <2>1, <2>2
<1>2. CASE Give
  BY <1>2 DEF Give, Planned, InHand, At
<1>3. CASE TakeJob
  BY <1>3 DEF TakeJob, Planned, InHand, CopyWanted
<1>4. CASE FinalRename
  BY <1>4 DEF FinalRename, Planned, InHand, CopyWanted
<1>5. ASSUME UNCHANGED <<out, i, input, job>>,
             InHand' => InHand /\ UNCHANGED <<option, final_dir, stage_dir, target>>
      PROVE  Planned'
  BY <1>5 DEF Planned, CopyWanted
<1>6. CASE Craft \/ Name
  BY <1>5, <1>6 DEF Craft, Name, InHand
<1>7. CASE Handoff \/ Wait \/ Toggle \/ Close \/ Interrupt
  BY <1>5, <1>7 DEF Handoff, Wait, Toggle, Close, Interrupt, InHand
<1>8. CASE Rename \/ Open \/ CopyChunk \/ EndCopy \/ CloseCopy \/ Remove
  BY <1>5, <1>8 DEF Rename, Open, CopyChunk, EndCopy, CloseCopy, Remove, InHand
<1>9. CASE UNCHANGED vars \/ Refusal \/ Acceptance
  BY <1>5, <1>9 DEF vars, Refusal, Acceptance, InHand
<1>10. QED
  BY <1>1, <1>2, <1>3, <1>4, <1>6, <1>7, <1>8, <1>9, NextCases DEF Main, Copy

\* What a step that only touches files of plot p0 leaves in its place.
LEMMA PlacedFrame ==
    ASSUME Types, Placed, ignored \subseteq ignored', NEW p0, Touches(p0)
    PROVE  /\ UNCHANGED <<pc, i, target>> /\ (InHand => p0 # i) /\ p0 \in 1 .. i => CraftPlaced'
           /\ input' = input /\ (input # NoJob => input.from.plot # p0) => InputPlaced'
           /\ UNCHANGED <<job, cpc, pos>> /\ (job # NoJob => job.from.plot # p0) => JobPlaced'
           /\ \A q \in Path : q.plot # p0 /\ Alone(q) => Alone(q)'
           /\ \A p : Clean(p)' => Clean(p)
<1>0. \A p : Clean(p)' => Clean(p)
  BY DEF Clean, Ignored
<1>1. ASSUME UNCHANGED <<pc, i, target>>, InHand => p0 # i, p0 \in 1 .. i PROVE CraftPlaced'
  <2>1. \A q \in Path : q.plot > i => file'[q] = Absent
    BY <1>1, Working DEF Touches, Placed, CraftPlaced
  <2>2. InHand => \A q \in Path : q.plot = i => file'[q] = file[q]
    BY <1>1 DEF Touches
  <2>3. InHand => /\ At(target, i, ".plot") \in Path /\ At(target, i, ".plot.tmp") \in Path
                  /\ At(target, i, ".plot").plot = i /\ At(target, i, ".plot.tmp").plot = i
    BY <1>1, Working, AtPath DEF Types, TypeInv
  <2>4. QED
    BY <1>0, <1>1, <2>1, <2>2, <2>3 DEF CraftPlaced, Placed, Alone, Only, InHand
<1>2. ASSUME input' = input, input # NoJob => input.from.plot # p0 PROVE InputPlaced'
  <2>1. input # NoJob => input.from \in Path
    BY <1>2, CopyPaths DEF Types, Apart
  <2>2. input # NoJob => \A q \in Path : q.plot = input.from.plot => file'[q] = file[q]
    BY <1>2 DEF Touches
  <2>3. QED
    BY <1>0, <1>2, <2>1, <2>2 DEF InputPlaced, Placed, Alone, Only
<1>3. ASSUME UNCHANGED <<job, cpc, pos>>, job # NoJob => job.from.plot # p0 PROVE JobPlaced'
  <2>1. job # NoJob => /\ job.from \in Path /\ TmpOf(job.to) \in Path /\ TmpOf(job.to).plot = job.from.plot
    BY <1>3, CopyPaths DEF Types, Apart
  <2>2. job # NoJob => \A q \in Path : q.plot = job.from.plot => file'[q] = file[q]
    BY <1>3 DEF Touches
  <2>3. QED
    BY <1>0, <1>3, <2>1, <2>2 DEF JobPlaced, Placed, Only
<1>4. ASSUME NEW q \in Path, q.plot # p0, Alone(q) PROVE Alone(q)'
  BY <1>4 DEF Alone, Only, Touches
<1>5. QED
  BY <1>0, <1>1, <1>2, <1>3, <1>4

LEMMA SeqElement ==
    ASSUME NEW S, NEW s \in Seq(S), NEW n \in 1 .. Len(s)
    PROVE  s[n] \in S
OBVIOUS

\* The plots a step of the others leaves where they belong.
LEMMA RestFrame ==
    ASSUME Types, Placed, ignored \subseteq ignored', NEW p0, Touches(p0),
           pc # "exited", \A p \in 1 .. i : out'[p] = out[p],
           \A p \in 1 .. i' : p # p0 /\ ~Underway(p)' => p \in 1 .. i /\ ~Underway(p),
           p0 \in 1 .. i' /\ ~Underway(p0)' /\ Clean(p0)' => Alone(At(out[p0].final, p0, ".plot"))'
    PROVE  RestPlaced'
<1> SUFFICES ASSUME NEW p \in 1 .. i', ~Underway(p)', Clean(p)' PROVE Alone(At(out[p].final, p, ".plot"))'
  BY DEF RestPlaced
<1>1. CASE p = p0
  BY <1>1
<1>2. CASE p # p0
  <2>1. p \in 1 .. i /\ ~Underway(p) /\ Clean(p) /\ out'[p] = out[p]
    BY <1>2, PlacedFrame
  <2>2. PICK d \in Dir : d = out[p].final
    <3>1. out \in Seq([tmp : Dir, stage : Dir, final : Dir]) /\ p \in 1 .. Len(out)
      BY <2>1 DEF Placed, Planned
    <3>2. out[p] \in [tmp : Dir, stage : Dir, final : Dir]
      BY <3>1, SeqElement
    <3>3. QED
      BY <3>2
  <2>3. p \in Plot
    BY <2>1, BoundsAssumption DEF Types, TypeInv, Plot
  <2>4. Alone(At(d, p, ".plot")) /\ At(d, p, ".plot") \in Path /\ At(d, p, ".plot").plot = p
    BY <2>1, <2>2, <2>3, AtPath DEF Placed, RestPlaced
  <2>5. Alone(At(d, p, ".plot"))'
    BY <1>2, <2>4, PlacedFrame
  <2>6. QED
    BY <2>1, <2>2, <2>5
<1>3. QED
  BY <1>1, <1>2
LEMMA MainPlaced ==
    ASSUME Types, Types', Placed, Planned', ignored \subseteq ignored', Main \/ Interrupt
    PROVE  CraftPlaced' /\ InputPlaced' /\ JobPlaced' /\ RestPlaced'
<1> USE DEF copying, main, signal, dirs
<1>0. /\ i \in Nat /\ i' \in Nat /\ MaxPlots \in Nat
      /\ input # NoJob => input.from.plot \in 1 .. i
      /\ job # NoJob => job.from.plot \in 1 .. i
      /\ input' # NoJob => input'.from.plot \in Nat
      /\ job' # NoJob => job'.from.plot \in Nat
      /\ file \in [Path -> 0 .. Size \cup {Absent}]
  BY CopyPaths, BoundsAssumption DEF Types, TypeInv, Apart, Given, Plot
\* Where it touches files, the copy thread and its slot have other plots.
<1>1. ASSUME Touches(i'), InHand', pc # "exited", UNCHANGED <<input, job, cpc, pos>>,
             InHand \/ i' = i + 1, i' \in {i, i + 1}, InHand => i' = i,
             \A p \in 1 .. i : out'[p] = out[p], CraftPlaced'
      PROVE  CraftPlaced' /\ InputPlaced' /\ JobPlaced' /\ RestPlaced'
  <2>1. PICK p0 : p0 = i'
    OBVIOUS
  <2>2. /\ input # NoJob => input.from.plot # p0
        /\ job # NoJob => job.from.plot # p0
    BY <1>0, <1>1, <2>1 DEF Types, Apart, Given
  <2>3. InputPlaced' /\ JobPlaced'
    BY <1>1, <2>1, <2>2, PlacedFrame
  <2>4. \A p \in 1 .. i' : p # p0 /\ ~Underway(p)' => p \in 1 .. i /\ ~Underway(p)
    BY <1>0, <1>1, <2>1 DEF Underway
  <2>5. Underway(p0)'
    BY <1>1, <2>1 DEF Underway
  <2>6. RestPlaced'
    BY <1>1, <2>1, <2>4, <2>5, RestFrame
  <2>7. QED
    BY <1>1, <2>3, <2>6
\* Where it touches none, CraftPlaced and the plots underway are what can change.
<1>2. ASSUME file' = file, pc # "exited", i' = i, out' = out, UNCHANGED <<job, cpc, pos>>,
             CraftPlaced', InputPlaced',
             \A p \in 1 .. i : ~Underway(p)' /\ Underway(p) /\ Clean(p)' => Alone(At(out[p].final, p, ".plot"))
      PROVE  CraftPlaced' /\ InputPlaced' /\ JobPlaced' /\ RestPlaced'
  <2>1. PICK p0 : p0 = MaxPlots + 1
    OBVIOUS
  <2>2. /\ Touches(p0) /\ p0 \notin Plot /\ p0 \notin 1 .. i'
        /\ job # NoJob => job.from.plot # p0
    BY <1>0, <1>2, <2>1 DEF Touches, Plot, Types, TypeInv
  <2>3. JobPlaced'
    BY <1>2, <2>2, PlacedFrame
  <2>4. RestPlaced'
    <3> SUFFICES ASSUME NEW p \in 1 .. i, ~Underway(p)', Clean(p)' PROVE Alone(At(out[p].final, p, ".plot"))'
      BY <1>2 DEF RestPlaced
    <3>1. Alone(At(out[p].final, p, ".plot"))
      BY <1>2, PlacedFrame, <2>2 DEF Placed, RestPlaced
    <3>2. QED
      BY <1>2, <3>1 DEF Alone, Only
  <2>5. QED
    BY <1>2, <2>3, <2>4
<1>3. CASE Begin
  <2>1. CASE Stop
    <3>1. /\ file' = file /\ pc = "loop" /\ pc' = "close" /\ i' = i /\ out' = out
          /\ UNCHANGED <<input, ignored, job, cpc, pos>>
      BY <1>3, <2>1 DEF Begin
    <3>2. CraftPlaced' /\ InputPlaced'
      BY <3>1 DEF Placed, CraftPlaced, InputPlaced, Alone, Only, Clean, Ignored
    <3>3. \A p \in 1 .. i : ~Underway(p)' => ~Underway(p)
      BY <3>1 DEF Underway, InHand
    <3>4. QED
      BY <1>2, <3>1, <3>2, <3>3
  <2>2. CASE ~Stop
    <3> DEFINE d == IF option.directout THEN final_dir ELSE stage_dir
    <3>1. /\ pc = "loop" /\ pc' = "craft" /\ i' = i + 1 /\ target' = d
          /\ UNCHANGED <<input, job, cpc, pos>>
          /\ file' = [file EXCEPT ![At(d, i + 1, ".plot.tmp")] = 0]
      BY <1>3, <2>2 DEF Begin
    <3>2. d \in Dir /\ i + 1 \in Plot
      BY <3>1, <1>0 DEF Types, TypeInv, Running, InHand, Plot
    <3>3. \A p \in 1 .. i : out'[p] = out[p]
      BY SMTT(40), <1>3, <2>2, <3>1 DEF Begin, Placed, Planned
    <3> HIDE DEF d
    <3>4. At(d, i + 1, ".plot.tmp") \in Path /\ At(d, i + 1, ".plot.tmp").plot = i + 1
      BY <3>2, AtPath
    <3>5. Touches(i')
      BY <1>0, <3>1, <3>4 DEF Touches
    <3>6. CraftPlaced'
      <4>1. \A q \in Path : q.plot > i' => file'[q] = Absent
        BY <1>0, <3>1, <3>4, <3>5, PathAt DEF Touches, Placed, CraftPlaced, Plot
      <4>2. \A q \in Path : q.plot = i' /\ q # At(d, i + 1, ".plot.tmp") => file'[q] = Absent
        BY <1>0, <3>1, <3>4 DEF Placed, CraftPlaced
      <4>3. QED
        BY <3>1, <4>1, <4>2 DEF CraftPlaced, Only
    <3>7. QED
      BY <1>0, <1>1, <3>1, <3>3, <3>5, <3>6 DEF InHand
  <2>3. QED
    BY <2>1, <2>2
<1> DEFINE tmp == At(target, i, ".plot.tmp")
           named == At(target, i, ".plot")
<1>4. InHand => /\ tmp \in Path /\ tmp.plot = i /\ named \in Path /\ named.plot = i /\ tmp # named
                /\ i \in Plot
  BY Working, AtPath DEF Types, TypeInv
<1>5. CASE Craft
  <2>0. /\ pc = "craft" /\ i' = i /\ target' = target /\ UNCHANGED <<input, job, cpc, pos, out>>
        /\ tmp \in Path /\ tmp.plot = i
    BY <1>4, <1>5 DEF Craft, InHand
  <2>1. CASE pc' = "exited" /\ file' = file /\ ignored' = ignored
    <3>1. CraftPlaced' /\ InputPlaced'
      BY <2>0, <2>1 DEF Placed, CraftPlaced, InputPlaced, Alone, Only, Clean, Ignored
    <3>2. RestPlaced'
      BY <2>1 DEF RestPlaced
    <3>3. JobPlaced'
      BY <2>0, <2>1 DEF Placed, JobPlaced, Only, Clean, Ignored
    <3>4. QED
      BY <3>1, <3>2, <3>3
  <2>2. ASSUME pc' = "name", NEW n \in {Size, Size - 1}, file' = [file EXCEPT ![tmp] = n], n = Size \/ ~Clean(i)'
        PROVE  CraftPlaced' /\ InputPlaced' /\ JobPlaced' /\ RestPlaced'
    <3> HIDE DEF tmp
    <3>1. Touches(i') /\ file'[tmp] = n /\ \A q \in Path : q # tmp => file'[q] = file[q]
      BY <1>0, <2>0, <2>2 DEF Touches
    <3>2. CraftPlaced'
      <4>1. Only(i, {tmp}) /\ \A q \in Path : q.plot > i => file[q] = Absent
        BY <2>0 DEF Placed, CraftPlaced, tmp
      <4>2. \A q \in Path : q.plot > i' => file'[q] = Absent
        BY <1>0, <2>0, <3>1, <4>1
      <4>3. Clean(i)' => Alone(tmp)'
        BY <2>0, <2>2, <3>1, <4>1 DEF Alone, Only, tmp
      <4>4. QED
        BY <2>0, <2>2, <4>2, <4>3 DEF CraftPlaced, tmp
    <3>3. QED
      BY <1>0, <1>1, <2>0, <2>2, <3>1, <3>2 DEF InHand
  <2>3. CASE pc' = "name" /\ file' = [file EXCEPT ![tmp] = Size]
    BY <2>2, <2>3
  <2>4. CASE pc' = "name" /\ Ignore(i, "plot fclose") /\ file' = [file EXCEPT ![tmp] = Size - 1]
    <3>1. ~Clean(i)'
      BY <2>0, <2>4 DEF Ignore, MayFail, Clean, Ignored
    <3>2. QED
      BY <2>2, <2>4, <3>1
  <2>5. QED
    BY <1>5, <2>1, <2>3, <2>4 DEF Craft
<1>6. CASE Name
  <2>0. /\ pc = "name" /\ pc' = "after" /\ i' = i /\ target' = target
        /\ UNCHANGED <<input, job, cpc, pos, out>>
        /\ tmp \in Path /\ tmp.plot = i /\ named \in Path /\ named.plot = i /\ tmp # named
    BY <1>4, <1>6 DEF Name, InHand
  <2>1. CASE file' = file /\ ~Clean(i)'
    <3>1. CraftPlaced'
      BY <2>0, <2>1 DEF Placed, CraftPlaced
    <3>2. Touches(i')
      BY <2>1 DEF Touches
    <3>3. QED
      BY <1>1, <2>0, <3>1, <3>2 DEF InHand
  <2>2. CASE file' = Renamed(tmp, named)
    <3> HIDE DEF tmp, named
    <3>1. /\ Touches(i') /\ file'[named] = file[tmp] /\ file'[tmp] = Absent
          /\ \A q \in Path : q \notin {tmp, named} => file'[q] = file[q]
      BY <1>0, <2>0, <2>2 DEF Touches, Renamed
    <3>2. CraftPlaced'
      <4>1. Clean(i)' => Alone(tmp)
        BY <2>0, PlacedFrame, <3>1 DEF Placed, CraftPlaced, tmp
      <4>2. \A q \in Path : q.plot > i' => file'[q] = Absent
        BY <1>0, <2>0, <3>1 DEF Placed, CraftPlaced
      <4>3. Clean(i)' => Alone(named)'
        BY <2>0, <3>1, <4>1 DEF Alone, Only, named
      <4>4. QED
        BY <2>0, <4>2, <4>3 DEF CraftPlaced, named
    <3>3. QED
      BY <1>0, <1>1, <2>0, <3>1, <3>2 DEF InHand
  <2>3. CASE Ignore(i, "plot rename") /\ file' = file
    <3>1. ~Clean(i)'
      BY <2>0, <2>3 DEF Ignore, MayFail, Clean, Ignored
    <3>2. QED
      BY <2>1, <2>3, <3>1
  <2>4. QED
    BY <1>6, <2>2, <2>3 DEF Name
<1>7. CASE Give
  <2>1. /\ pc = "after" /\ pc' = "handoff" /\ i' = i /\ file' = file /\ input = NoJob
        /\ UNCHANGED <<job, cpc, pos, out, ignored>>
        /\ input' = [from |-> named, to |-> At(final_dir, i, ".plot")]
    BY <1>7 DEF Give, SlotEmpty
  <2>2. named.plot = i /\ input'.from = named /\ input' # NoJob
    <3>1. input'.from = named
      BY <2>1
    <3>2. "to" \in DOMAIN input' /\ "to" \notin DOMAIN NoJob
      BY <2>1 DEF NoJob
    <3>3. QED
      BY <1>4, <2>1, <3>1, <3>2 DEF InHand
  <2>3. InputPlaced' /\ CraftPlaced'
    BY <2>1, <2>2 DEF InputPlaced, Placed, CraftPlaced, Alone, Only, Clean, Ignored
  <2>4. \A p \in 1 .. i : ~Underway(p)' => ~Underway(p)
    BY <2>1, <2>2 DEF Underway, InHand
  <2>5. QED
    BY <1>2, <2>1, <2>3, <2>4
<1>8. CASE Toggle
  <2>1. /\ pc' = "loop" /\ i' = i /\ file' = file
        /\ pc = "toggle" \/ (pc = "after" /\ ~CopyWanted)
        /\ UNCHANGED <<input, job, cpc, pos, out, ignored>>
    BY <1>8 DEF Toggle
  <2>2. CraftPlaced' /\ InputPlaced'
    BY <2>1 DEF Placed, CraftPlaced, InputPlaced, Alone, Only, Clean, Ignored
  <2>3. ASSUME NEW p \in 1 .. i, ~Underway(p)', Underway(p), Clean(p)'
        PROVE  Alone(At(out[p].final, p, ".plot"))
    <3>1. pc = "after" /\ ~CopyWanted /\ p = i
      BY <2>1, <2>3 DEF Underway, InHand
    <3>2. out[i].final = target
      BY <3>1 DEF Placed, Planned, InHand
    <3>3. Clean(i)
      BY <2>1, <2>3, <3>1 DEF Clean, Ignored
    <3>4. QED
      BY <3>1, <3>2, <3>3 DEF Placed, CraftPlaced
  <2>4. QED
    BY <1>2, <2>1, <2>2, <2>3
<1>9. CASE Handoff \/ Wait \/ Close
  <2>1. /\ file' = file /\ i' = i /\ pc # "exited" /\ pc' \notin {"craft", "name", "after"}
        /\ pc \notin {"craft", "name", "after"}
        /\ UNCHANGED <<input, job, cpc, pos, out, ignored>>
    BY <1>9 DEF Handoff, Wait, Close
  <2>2. CraftPlaced' /\ InputPlaced'
    BY <2>1 DEF Placed, CraftPlaced, InputPlaced, Alone, Only, Clean, Ignored
  <2>3. \A p \in 1 .. i : ~Underway(p)' => ~Underway(p)
    BY <2>1 DEF Underway, InHand
  <2>4. QED
    BY <1>2, <2>1, <2>2, <2>3
<1>10. CASE Interrupt
  <2>1. /\ file' = file /\ i' = i /\ target' = target /\ pc # "exited" /\ pc' \in {pc, "exited"}
        /\ UNCHANGED <<input, job, cpc, pos, out, ignored>>
    BY <1>10 DEF Interrupt, Running
  <2>2. CraftPlaced' /\ InputPlaced'
    BY <2>1 DEF Placed, CraftPlaced, InputPlaced, Alone, Only, Clean, Ignored
  <2>3. CASE pc' = pc
    BY <1>2, <2>1, <2>2, <2>3 DEF Underway, InHand
  <2>4. CASE pc' = "exited"
    <3>1. RestPlaced'
      BY <2>4 DEF RestPlaced
    <3>2. JobPlaced'
      BY <2>1 DEF Placed, JobPlaced, Only, Clean, Ignored
    <3>3. QED
      BY <2>2, <3>1, <3>2
  <2>5. QED
    BY <2>1, <2>3, <2>4
<1>11. QED
  BY <1>3, <1>5, <1>6, <1>7, <1>8, <1>9, <1>10 DEF Main

LEMMA CopyPlaced ==
    ASSUME Types, Types', Placed, Planned', ignored \subseteq ignored', Copy
    PROVE  CraftPlaced' /\ InputPlaced' /\ JobPlaced' /\ RestPlaced'
<1> USE DEF main, signal, dirs
<1>1. CASE TakeJob
  <2>1. /\ file' = file /\ input # NoJob /\ job' = input /\ input' = NoJob /\ cpc' = "rename" /\ job = NoJob
        /\ UNCHANGED <<pc, i, target, ignored, out>>
    BY <1>1 DEF TakeJob, Types, TypeInv
  <2>2. CraftPlaced' /\ InputPlaced'
    BY <2>1 DEF Placed, CraftPlaced, InputPlaced, Alone, Only, Clean, Ignored
  <2>3. JobPlaced'
    BY <2>1 DEF JobPlaced, Placed, InputPlaced, Alone, Only, Clean, Ignored
  <2>4. RestPlaced'
    BY <2>1 DEF RestPlaced, Placed, Underway, InHand, Alone, Only, Clean, Ignored
  <2>5. QED
    BY <2>2, <2>3, <2>4
<1> SUFFICES ASSUME ~TakeJob PROVE CraftPlaced' /\ InputPlaced' /\ JobPlaced' /\ RestPlaced'
  BY <1>1
<1>2. PICK j : j = job
  OBVIOUS
<1> DEFINE from == j.from
           to == j.to
           p == j.from.plot
<1>3. /\ j # NoJob /\ UNCHANGED <<pc, i, target, input, out>> /\ pc # "exited"
      /\ IsCopy(j) /\ file \in [Path -> 0 .. Size \cup {Absent}]
      /\ Size \in Nat \ {0}
  BY <1>2, Working DEF Copy, Rename, Open, CopyChunk, EndCopy, CloseCopy, Remove, FinalRename, Types, TypeInv, Running
<1>4. /\ from \in Path /\ to \in Path /\ TmpOf(to) \in Path
      /\ from.plot = p /\ to.plot = p /\ TmpOf(to).plot = p /\ p \in Plot
      /\ from # to /\ from # TmpOf(to) /\ to # TmpOf(to)
  BY <1>3, CopyPaths
<1>5. /\ InHand => p # i
      /\ input # NoJob => input.from.plot # p
      /\ p \in 1 .. i
  BY <1>2, <1>3, <1>4, Working DEF Types, Apart, Given, Plot
<1>6. /\ Clean(p)' => Clean(p)
      /\ Clean(p) => Only(p, {from, TmpOf(to)})
      /\ Clean(p) /\ cpc \in {"rename", "open", "copy", "fclose"} => file[from] = Size
      /\ Clean(p) /\ cpc = "fclose" => pos = Size
      /\ Clean(p) /\ cpc \in {"remove", "final"} => file[TmpOf(to)] = Size
      /\ Clean(p) /\ cpc = "final" => file[from] = Absent
  <2>1. Clean(p)' => Clean(p)
    BY DEF Clean, Ignored
  <2>2. QED
    BY <1>2, <1>3, <2>1 DEF Placed, JobPlaced
<1>7. Size # Absent
  BY <1>3 DEF Absent
<1> HIDE DEF from, to, p
\* The copy goes on: what is left to show is JobPlaced.
<1>8. ASSUME Touches(p), job' = job, JobPlaced' PROVE CraftPlaced' /\ InputPlaced' /\ RestPlaced'
  <2>1. CraftPlaced' /\ InputPlaced'
    BY <1>3, <1>5, <1>8, PlacedFrame
  <2>2. Underway(p)' /\ \A q : Underway(q)' = Underway(q)
    BY <1>2, <1>3, <1>8 DEF Underway, InHand, p
  <2>3. RestPlaced'
    BY <1>3, <1>8, <2>2, RestFrame
  <2>4. QED
    BY <2>1, <2>3
\* A step within the copy, from what it does to the two files.
<1>9. ASSUME Touches(p), job' = job,
             Only(p, {from, TmpOf(to)}) => Only(p, {from, TmpOf(to)})',
             Clean(p)' => /\ cpc' \in {"rename", "open", "copy", "fclose"} => file'[from] = Size
                          /\ cpc' = "fclose" => pos' = Size
                          /\ cpc' \in {"remove", "final"} => file'[TmpOf(to)] = Size
                          /\ cpc' = "final" => file'[from] = Absent
      PROVE  CraftPlaced' /\ InputPlaced' /\ JobPlaced' /\ RestPlaced'
  <2>1. Clean(p)' => Only(p, {from, TmpOf(to)})'
    BY <1>6, <1>9
  <2>2. JobPlaced'
    BY <1>2, <1>9, <2>1 DEF JobPlaced, Only, Clean, Ignored, from, to, p
  <2>3. QED
    BY <1>8, <1>9, <2>2
<1>10. ASSUME file' = file PROVE Touches(p) /\ (Only(p, {from, TmpOf(to)}) => Only(p, {from, TmpOf(to)})')
  BY <1>10 DEF Touches, Only
<1>11. ASSUME NEW q \in {from, TmpOf(to)}, NEW n, file' = [file EXCEPT ![q] = n]
       PROVE  /\ Touches(p) /\ (Only(p, {from, TmpOf(to)}) => Only(p, {from, TmpOf(to)})')
              /\ file'[q] = n
              /\ q = TmpOf(to) => file'[from] = file[from]
              /\ q = from => file'[TmpOf(to)] = file[TmpOf(to)]
  BY <1>3, <1>4, <1>11 DEF Touches, Only
<1>12. CASE Rename
  <2>1. cpc = "rename" /\ job' = job
    BY <1>12 DEF Rename
  <2>2. CASE file' = Renamed(from, TmpOf(to)) /\ cpc' = "remove"
    <3>1. /\ Touches(p) /\ (Only(p, {from, TmpOf(to)}) => Only(p, {from, TmpOf(to)})')
          /\ file'[TmpOf(to)] = file[from]
      BY <1>3, <1>4, <2>2 DEF Touches, Only, Renamed
    <3>2. QED
      BY <1>6, <1>9, <2>1, <2>2, <3>1
  <2>3. CASE file' = file /\ cpc' = "open"
    BY <1>6, <1>9, <1>10, <2>1, <2>3
  <2>4. QED
    BY <1>2, <1>12, <2>2, <2>3 DEF Rename, from, to
<1>13. CASE Open
  <2>1. cpc = "open" /\ job' = job
    BY <1>13 DEF Open
  <2>2. CASE file' = [file EXCEPT ![TmpOf(to)] = 0] /\ cpc' = "copy"
    BY <1>6, <1>9, <1>11, <2>1, <2>2
  <2>3. CASE file' = file /\ cpc' = "rename"
    BY <1>6, <1>9, <1>10, <2>1, <2>3
  <2>4. QED
    BY <1>2, <1>13, <2>2, <2>3 DEF Open, Fail, Retry, to
<1>14. CASE CopyChunk
  <2>1. cpc = "copy" /\ job' = job
    BY <1>14 DEF CopyChunk
  <2>2. CASE file' = [file EXCEPT ![TmpOf(to)] = pos] /\ cpc' = "copy"
    BY <1>6, <1>9, <1>11, <2>1, <2>2
  <2>3. CASE file' = file /\ cpc' = "rename"
    BY <1>6, <1>9, <1>10, <2>1, <2>3
  <2>4. QED
    BY <1>2, <1>14, <2>1, <2>2, <2>3 DEF CopyChunk, Fail, Retry, to
<1>15. CASE EndCopy
  <2>1. cpc = "copy" /\ job' = job /\ file' = file /\ cpc' = "fclose" /\ pos' = pos
    BY <1>15 DEF EndCopy
  <2>2. Clean(p)' => pos = Size
    <3>1. CASE pos < file[from]
      BY <1>2, <1>4, <1>15, <3>1 DEF EndCopy, Ignore, MayFail, Clean, Ignored, from
    <3>2. CASE ~(pos < file[from]) /\ Clean(p)
      <4>1. file[from] = Size /\ pos \in 0 .. Size
        BY <1>6, <2>1, <3>2 DEF Types, TypeInv
      <4>2. QED
        BY <1>3, <3>2, <4>1
    <3>3. QED
      BY <1>6, <3>1, <3>2
  <2>3. QED
    BY <1>6, <1>9, <1>10, <2>1, <2>2
<1>16. CASE CloseCopy
  <2>1. cpc = "fclose" /\ job' = job
    BY <1>16 DEF CloseCopy
  <2>2. CASE file' = [file EXCEPT ![TmpOf(to)] = pos] /\ cpc' = "remove"
    BY <1>6, <1>9, <1>11, <2>1, <2>2
  <2>3. CASE file' = file /\ cpc' = "rename"
    BY <1>6, <1>9, <1>10, <2>1, <2>3
  <2>4. QED
    BY <1>2, <1>16, <2>1, <2>2, <2>3 DEF CloseCopy, CloseFailed, Fail, Retry, to
<1>17. CASE Remove
  <2>1. cpc = "remove" /\ job' = job /\ cpc' = "final"
    BY <1>17 DEF Remove
  <2>2. CASE file' = [file EXCEPT ![from] = Absent]
    BY <1>6, <1>9, <1>11, <2>1, <2>2
  <2>3. CASE Ignore(p, "remove") /\ file' = file
    <3>1. ~Clean(p)'
      BY <1>4, <2>3 DEF Ignore, MayFail, Clean, Ignored
    <3>2. QED
      BY <1>9, <1>10, <2>1, <2>3, <3>1
  <2>4. QED
    BY <1>2, <1>17, <2>2, <2>3 DEF Remove, from, p
<1>18. CASE FinalRename
  <2>1. cpc = "final" /\ job' = NoJob /\ cpc' = "idle"
    BY <1>18 DEF FinalRename
  <2>2. JobPlaced'
    BY <2>1 DEF JobPlaced
  <2>3. Touches(p) /\ (Clean(p)' => Alone(to)')
    <3>1. CASE file' = [q \in Path |-> IF q = to THEN file[TmpOf(to)]
                                       ELSE IF q = TmpOf(to) THEN Absent ELSE file[q]]
      BY <1>3, <1>4, <1>6, <2>1, <3>1 DEF Touches, Alone, Only
    <3>2. CASE Ignore(p, "final rename") /\ file' = file
      BY <3>2 DEF Ignore, MayFail, Clean, Ignored, Touches
    <3>3. QED
      BY <1>2, <1>18, <3>1, <3>2 DEF FinalRename, to, p
  <2>4. CraftPlaced' /\ InputPlaced'
    BY <1>3, <1>5, <2>3, PlacedFrame
  <2>5. to = At(out[p].final, p, ".plot") /\ out' = out
    <3>1. out[p].final = to.dir
      BY <1>2, <1>3 DEF Placed, Planned, to, p
    <3>2. to = At(to.dir, p, ".plot")
      BY <1>3, <1>4, PathAt DEF IsCopy, to
    <3>3. QED
      BY <1>3, <3>1, <3>2
  <2>6. \A q : q # p /\ ~Underway(q)' => ~Underway(q)
    BY <1>2, <1>3, <2>1 DEF Underway, InHand, p
  <2>7. Clean(p)' => Alone(At(out[p].final, p, ".plot"))'
    BY <2>3, <2>5
  <2>8. RestPlaced'
    BY <1>3, <2>3, <2>6, <2>7, RestFrame
  <2>9. QED
    BY <2>2, <2>4, <2>8
<1>19. QED
  BY <1>12, <1>13, <1>14, <1>15, <1>16, <1>17, <1>18 DEF Copy

LEMMA PlacedInvariant == Spec => [](Types /\ Placed)
<1>1. InitLine => Types /\ Placed
  BY InitTypes, InitPlaced DEF InitLine
<1>2. Types /\ Placed /\ [NextStep]_all => Types' /\ Placed'
  <2> SUFFICES ASSUME Types, Placed, [NextStep]_all PROVE Types' /\ Placed'
    OBVIOUS
  <2>1. Types' /\ ignored \subseteq ignored' /\ Planned'
    BY NextTypes, IgnoredStays, NextPlanned DEF Placed
  <2>2. CASE Main \/ Interrupt
    BY <2>1, <2>2, MainPlaced DEF Placed
  <2>3. CASE Copy
    BY <2>1, <2>3, CopyPlaced DEF Placed
  <2>4. CASE UNCHANGED vars
    BY <2>1, <2>4 DEF vars, Placed, CraftPlaced, InputPlaced, JobPlaced, RestPlaced, Underway, InHand,
                      Alone, Only, Clean, Ignored
  <2>5. CASE Refusal \/ Acceptance
    <3>1. /\ file' = file /\ i = 0 /\ i' = i /\ input = NoJob /\ job = NoJob /\ input' = input /\ job' = job
          /\ pc' \notin {"craft", "name", "after"}
      BY <2>5 DEF Refusal, Acceptance, copying, Types, Apart
    <3>2. CraftPlaced' /\ InputPlaced' /\ JobPlaced' /\ RestPlaced'
      BY <3>1 DEF Placed, CraftPlaced, InputPlaced, JobPlaced, RestPlaced
    <3>3. QED
      BY <2>1, <3>2 DEF Placed
  <2>6. QED
    BY <2>2, <2>3, <2>4, <2>5, NextCases
<1>3. QED
  BY <1>1, <1>2, PTL DEF Spec

\* When main() returns, every plot is complete in the directory it was meant for,
\* and no other file of it is left, unless a call failed whose result is ignored.
THEOREM PlotsEndWhereTheyBelong == Spec => []NothingLeftBehind
<1>1. Types /\ Placed => NothingLeftBehind
  <2> SUFFICES ASSUME Types, Placed, pc = "done", NEW p \in 1 .. i, NEW d \in Dir, NEW x \in {".plot", ".plot.tmp"},
                      Clean(p)
               PROVE  file[At(d, p, x)] = IF d = out[p].final /\ x = ".plot" THEN Size ELSE Absent
    BY DEF NothingLeftBehind, Clean
  <2>1. ~Underway(p)
    BY DEF Underway, InHand, Types, Apart
  <2>2. Alone(At(out[p].final, p, ".plot"))
    BY <2>1 DEF Placed, RestPlaced
  <2>3. At(d, p, x) \in Path /\ At(d, p, x).plot = p /\ At(d, p, x).dir = d /\ At(d, p, x).ext = x
    BY AtPath, BoundsAssumption DEF Types, TypeInv, Plot
  <2>4. CASE d = out[p].final /\ x = ".plot"
    BY <2>2, <2>4 DEF Alone
  <2>5. CASE ~(d = out[p].final /\ x = ".plot")
    <3>1. At(d, p, x) # At(out[p].final, p, ".plot")
      BY <2>3, <2>5 DEF At
    <3>2. QED
      BY <2>2, <2>3, <2>5, <3>1 DEF Alone, Only, At
  <2>6. QED
    BY <2>4, <2>5
<1>2. QED
  BY <1>1, PlacedInvariant, PTL
=============================================================================
