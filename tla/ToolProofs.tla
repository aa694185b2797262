----------------------------- MODULE ToolProofs -----------------------------
(***************************************************************************)
(* Proofs about the Python tools Benchmark and VkexGenerator.              *)
(*                                                                         *)
(* Benchmark, for any commits, branches and number of runs.  While a       *)
(* commit is configured, built and measured the tree is at that commit,    *)
(* and between two commits it is where it was when the script was started: *)
(* the refs that are still to be resolved then name what they named at the *)
(* start.  Every way out of that is an end of the script, which is clean   *)
(* only if the tree was switched back.                                     *)
(*                                                                         *)
(* VkexGenerator, for any interfaces.  The section and the temporary file  *)
(* hold what the first types and the first features gave; genType and      *)
(* endFeature go on by one.  The counts of map() rest on an induction over *)
(* the members of a struct: an array is among the arrays of one length     *)
(* only, so that the first one of its length is well defined.              *)
(***************************************************************************)
EXTENDS Benchmark, VkexGenerator, TLAPS, WellFoundedInduction

(***************************************************************************)
(* Benchmark                                                               *)
(***************************************************************************)

Switching == Inside \cup {"enter", "exit"}

\* Where the tree is
TreeInv ==
    /\ pc \in {"resolve", "enter"} => head = first.head
    /\ pc \in Inside => head = commit
    /\ pc \in {"run", "running"} => binary = commit
    /\ pc # "idle" => ~unclean

\* What GitSwitcher remembers, and which of the refs is measured
SwitchInv ==
    pc \in Switching =>
        /\ commit \in Commits
        /\ saved \in Branches => saved = first.head
        /\ first.head \in Branches => saved = first.head
        /\ Len(files) < Len(refs) /\ commit = first.commits[Len(files) + 1]

\* The results that were found so far are those of the first refs.
FilesInv ==
    pc # "idle" =>
        /\ Len(first.commits) = Len(refs) /\ Len(files) <= Len(refs)
        /\ \A i \in 1 .. Len(refs) : first.commits[i] = Resolved(refs[i], first.head)
        /\ \A i \in 1 .. Len(files) : files[i] = first.commits[i]

\* While the benchmark runs, the file it writes is already of the commit.
ResultsInv ==
    /\ \A c \in Commits : results[c].state # "none" => results[c].of = c
    /\ pc = "running" => results[commit].of = commit

ReportInv ==
    report # <<>> => /\ pc = "idle" /\ report = first.commits
                     /\ \A i \in 1 .. Len(report) : results[report[i]].state = "whole"

Inv == TypeOK /\ TreeInv /\ SwitchInv /\ FilesInv /\ ResultsInv /\ ReportInv /\ BackOnTheBranch

-----------------------------------------------------------------------------

\* A ref names a commit, whatever HEAD is.
LEMMA ResolvedType == ASSUME NEW r \in Refs, NEW h \in Branches \cup Commits
                      PROVE  Resolved(r, h) \in Commits
  BY BenchmarkAssumption DEF BenchmarkAssumption, Resolved, At, Refs

LEMMA InvInit == Init => Inv
  <1> SUFFICES ASSUME Init PROVE Inv
    OBVIOUS
  <1>1. TypeOK
    <2>1. <<>> \in Seq(Commits) /\ <<>> \in Seq(Refs)
      OBVIOUS
    <2>2. first \in [head : Branches \cup Commits, commits : Seq(Commits)]
      BY <2>1 DEF Init
    <2>3. results \in [Commits -> [state : {"none", "part", "whole"}, of : Commits \cup {None}]]
      BY DEF Init
    <2> QED
      BY <2>1, <2>2, <2>3 DEF Init, TypeOK
  <1>2. TreeInv /\ SwitchInv /\ FilesInv
    BY DEF Init, Inside, Switching, TreeInv, SwitchInv, FilesInv
  <1>3. ResultsInv /\ ReportInv /\ BackOnTheBranch
    BY DEF Init, ResultsInv, ReportInv, BackOnTheBranch
  <1> QED
    BY <1>1, <1>2, <1>3 DEF Inv

\* Each step keeps the invariant.
LEMMA StartKeepsInv == ASSUME Inv, NEW a \in Refs, NEW b \in Refs, NEW rs \in {<<a>>, <<a, b>>}, Start(rs)
                       PROVE  Inv'
  <1>1. rs \in Seq(Refs) /\ [i \in DOMAIN rs |-> RevParse(rs[i])] \in Seq(Commits)
    <2>1. head \in Branches \cup Commits
      BY DEF Inv, TypeOK
    <2>2. Len(rs) \in Nat /\ DOMAIN rs = 1 .. Len(rs) /\ \A i \in 1 .. Len(rs) : rs[i] \in Refs
      <3>1. CASE rs = <<a>>
        BY <3>1
      <3>2. CASE rs = <<a, b>>
        BY <3>2
      <3> QED
        BY <3>1, <3>2
    <2>3. \A i \in 1 .. Len(rs) : RevParse(rs[i]) \in Commits
      BY <2>1, <2>2, ResolvedType DEF RevParse
    <2>4. rs \in Seq(Refs)
      <3>1. CASE rs = <<a>>
        BY <3>1
      <3>2. CASE rs = <<a, b>>
        BY <3>2
      <3> QED
        BY <3>1, <3>2
    <2> QED
      BY <2>2, <2>3, <2>4
  <1>2. TypeOK'
    <2>1. /\ head' = head /\ binary' = binary /\ results' = results /\ commit' = commit /\ saved' = saved
          /\ commands' = commands + 1 /\ pc' = "resolve" /\ refs' = rs /\ files' = <<>> /\ report' = <<>>
          /\ raised' = FALSE /\ unclean' = FALSE
      BY DEF Start
    <2>2. first' \in [head : Branches \cup Commits, commits : Seq(Commits)]
      BY <1>1 DEF Inv, TypeOK, Start
    <2>3. commands' \in Nat /\ <<>> \in Seq(Commits) /\ rs \in Seq(Refs)
      BY <1>1, <2>1 DEF Inv, TypeOK
    <2> QED
      BY <2>1, <2>2, <2>3 DEF Inv, TypeOK
  <1>3. FilesInv'
    BY <1>1 DEF Inv, TypeOK, Start, FilesInv, RevParse, Resolved, At
  <1>4. TreeInv' /\ SwitchInv' /\ ResultsInv' /\ ReportInv' /\ BackOnTheBranch'
    BY DEF Inv, TypeOK, Start, Inside, Switching, TreeInv, SwitchInv, ResultsInv, ReportInv, BackOnTheBranch
  <1> QED
    BY <1>2, <1>3, <1>4 DEF Inv

LEMMA ResolveKeepsInv == ASSUME Inv, Resolve PROVE Inv'
  <1> DEFINE c == RevParse(refs[Len(files) + 1])
  <1>1. Len(files) + 1 \in 1 .. Len(refs) /\ refs[Len(files) + 1] \in Refs
    BY DEF Inv, TypeOK, FilesInv, Resolve
  <1>2. c \in Commits /\ c = first.commits[Len(files) + 1]
    BY <1>1, ResolvedType DEF Inv, TypeOK, TreeInv, FilesInv, Resolve, RevParse
  <1> HIDE DEF c
  <1>3. CASE results[c].state # "none"
    <2>1. /\ files' = Append(files, c) /\ pc' = "resolve" /\ commit' = c
          /\ UNCHANGED <<saved, head, binary, results, raised, unclean, report, commands, refs, first>>
      BY <1>3 DEF Resolve, c, script
    <2>2. TypeOK'
      BY <1>2, <2>1 DEF Inv, TypeOK, Resolve, Inside
    <2>3. FilesInv'
      BY <1>1, <1>2, <2>1 DEF Inv, TypeOK, FilesInv, Resolve
    <2>4. TreeInv' /\ SwitchInv' /\ ResultsInv' /\ ReportInv' /\ BackOnTheBranch'
      BY <2>1 DEF Inv, TypeOK, Resolve, Inside, Switching, TreeInv, SwitchInv, ResultsInv, ReportInv, BackOnTheBranch
    <2> QED
      BY <2>2, <2>3, <2>4 DEF Inv
  <1>4. CASE ~(results[c].state # "none")
    <2>1. /\ saved' = (IF head \in Branches THEN head ELSE "HEAD") /\ pc' = "enter" /\ commit' = c
          /\ UNCHANGED <<files, head, binary, results, raised, unclean, report, commands, refs, first>>
      BY <1>4 DEF Resolve, c, script
    <2>2. TypeOK'
      BY <1>2, <2>1 DEF Inv, TypeOK, Resolve, Inside
    <2>3. SwitchInv'
      BY <1>1, <1>2, <2>1, BenchmarkAssumption
      DEF BenchmarkAssumption, Inv, TypeOK, TreeInv, SwitchInv, Resolve
    <2>4. TreeInv' /\ FilesInv' /\ ResultsInv' /\ ReportInv' /\ BackOnTheBranch'
      BY <2>1 DEF Inv, TypeOK, Resolve, Inside, TreeInv, FilesInv, ResultsInv, ReportInv, BackOnTheBranch
    <2> QED
      BY <2>2, <2>3, <2>4 DEF Inv
  <1> QED
    BY <1>3, <1>4

LEMMA EnterKeepsInv == ASSUME Inv, NEW ok \in BOOLEAN, Enter(ok) PROVE Inv'
  BY SMTT(30) DEF Inv, TypeOK, Enter, script, Inside, Switching, TreeInv, SwitchInv, FilesInv, ResultsInv, ReportInv, BackOnTheBranch

LEMMA ConfigureKeepsInv == ASSUME Inv, NEW ok \in BOOLEAN, Configure(ok) PROVE Inv'
  BY SMTT(30) DEF Inv, TypeOK, Configure, script, Inside, Switching, TreeInv, SwitchInv, FilesInv, ResultsInv, ReportInv, BackOnTheBranch

LEMMA BuildKeepsInv == ASSUME Inv, NEW ok \in BOOLEAN, Build(ok) PROVE Inv'
  <1>1. At(head) = commit /\ commit \in Commits
    BY BenchmarkAssumption DEF BenchmarkAssumption, Inv, TreeInv, SwitchInv, Build, At, Inside, Switching
  <1> QED
    BY <1>1, SMTT(30) DEF Inv, TypeOK, Build, script, Inside, Switching, TreeInv, SwitchInv, FilesInv, ResultsInv, ReportInv, BackOnTheBranch

LEMMA StartBenchmarkKeepsInv == ASSUME Inv, StartBenchmark PROVE Inv'
  <1>1. commit \in Commits /\ binary = commit /\ report = <<>>
    BY DEF Inv, TreeInv, SwitchInv, ReportInv, StartBenchmark, Inside, Switching
  <1>2. TypeOK' /\ ResultsInv'
    BY <1>1 DEF Inv, TypeOK, StartBenchmark, script, Inside, ResultsInv
  <1>3. TreeInv' /\ SwitchInv' /\ FilesInv' /\ ReportInv' /\ BackOnTheBranch'
    BY <1>1 DEF Inv, TypeOK, StartBenchmark, script, Inside, Switching, TreeInv, SwitchInv, FilesInv, ReportInv, BackOnTheBranch
  <1> QED
    BY <1>2, <1>3 DEF Inv

LEMMA EndBenchmarkKeepsInv == ASSUME Inv, NEW ok \in BOOLEAN, EndBenchmark(ok) PROVE Inv'
  <1>1. commit \in Commits /\ report = <<>>
    BY DEF Inv, SwitchInv, ReportInv, EndBenchmark, Inside, Switching
  <1>2. TypeOK'
    BY <1>1, SMTT(30) DEF Inv, TypeOK, EndBenchmark, script, Inside
  <1>3. ResultsInv'
    <2>1. results[commit].of = commit /\ pc' = "exit"
      BY DEF Inv, ResultsInv, EndBenchmark
    <2>2. CASE ok
      BY <1>1, <2>1, <2>2 DEF Inv, TypeOK, EndBenchmark, ResultsInv
    <2>3. CASE ~ok
      BY <2>1, <2>3 DEF Inv, EndBenchmark, ResultsInv
    <2> QED
      BY <2>2, <2>3
  <1>4. TreeInv' /\ SwitchInv' /\ FilesInv' /\ ReportInv' /\ BackOnTheBranch'
    BY <1>1 DEF Inv, TypeOK, EndBenchmark, script, Inside, Switching, TreeInv, SwitchInv, FilesInv, ReportInv, BackOnTheBranch
  <1> QED
    BY <1>2, <1>3, <1>4 DEF Inv

LEMMA ExitKeepsInv == ASSUME Inv, NEW ok \in BOOLEAN, Exit(ok) PROVE Inv'
  <1>1. commit \in Commits /\ report = <<>> /\ Len(files) < Len(refs)
    BY DEF Inv, SwitchInv, ReportInv, Exit, Inside, Switching
  <1>2. TypeOK' /\ ResultsInv'
    BY <1>1 DEF Inv, TypeOK, Exit, Switched, script, Inside, ResultsInv
  <1>3. FilesInv'
    BY <1>1 DEF Inv, TypeOK, Exit, script, Inside, Switching, SwitchInv, FilesInv
  <1>4. TreeInv' /\ SwitchInv' /\ ReportInv' /\ BackOnTheBranch'
    BY <1>1 DEF Inv, TypeOK, Exit, Switched, script, Inside, Switching, TreeInv, SwitchInv, ReportInv, BackOnTheBranch
  <1> QED
    BY <1>2, <1>3, <1>4 DEF Inv

LEMMA CompareKeepsInv == ASSUME Inv, NEW ok \in BOOLEAN, Compare(ok) PROVE Inv'
  <1>1. files = first.commits
    <2>1. Len(first.commits) = Len(files) /\ \A i \in 1 .. Len(files) : files[i] = first.commits[i]
      BY DEF Inv, FilesInv, Compare
    <2>2. files \in Seq(Commits) /\ first.commits \in Seq(Commits)
      BY DEF Inv, TypeOK
    <2> QED
      BY <2>1, <2>2
  <1>2. \A i \in 1 .. Len(files) : files[i] \in ToSet(files)
    BY DEF ToSet, Inv, TypeOK
  <1>3. ReportInv'
    BY <1>1, <1>2 DEF Inv, TypeOK, Compare, script, ReportInv
  <1>4. TypeOK'
    BY SMTT(30) DEF Inv, TypeOK, Compare, script
  <1>5. TreeInv' /\ SwitchInv' /\ FilesInv' /\ ResultsInv' /\ BackOnTheBranch'
    BY SMTT(30) DEF Inv, Compare, script, Inside, Switching, TreeInv, SwitchInv, FilesInv, ResultsInv, BackOnTheBranch
  <1> QED
    BY <1>3, <1>4, <1>5 DEF Inv

LEMMA InterruptKeepsInv == ASSUME Inv, Interrupt PROVE Inv'
  <1>1. CASE pc \in Inside
    <2>1. /\ pc' = "exit" /\ raised' = TRUE /\ UNCHANGED <<head, unclean>>
          /\ UNCHANGED <<binary, results, files, commit, saved, report, commands, refs, first>>
      BY <1>1 DEF Interrupt, script, Inside
    <2>2. TypeOK'
      BY <2>1 DEF Inv, TypeOK
    <2>3. TreeInv' /\ SwitchInv' /\ FilesInv' /\ ResultsInv' /\ ReportInv' /\ BackOnTheBranch'
      BY <1>1, <2>1, SMTT(30) DEF Inv, Inside, Switching, TreeInv, SwitchInv, FilesInv, ResultsInv, ReportInv, BackOnTheBranch
    <2> QED
      BY <2>2, <2>3 DEF Inv
  <1>2. CASE pc \in {"enter", "exit"}
    <2>1. /\ head' \in Branches \cup Commits /\ pc' = "idle" /\ unclean' = TRUE /\ raised' = raised
          /\ UNCHANGED <<binary, results, files, commit, saved, report, commands, refs, first>>
      <3>1. head \in Branches \cup Commits /\ commit \in Commits
        BY <1>2 DEF Inv, TypeOK, SwitchInv, Switching
      <3>2. CASE pc = "enter"
        BY <3>1, <3>2 DEF Interrupt, script, Inside
      <3>3. CASE pc = "exit"
        BY <3>1, <3>3 DEF Interrupt, script, Inside
      <3> QED
        BY <1>2, <3>2, <3>3
    <2> QED
      BY <2>1, <1>2, SMTT(30) DEF Inv, TypeOK, Inside, Switching, TreeInv, SwitchInv, FilesInv, ResultsInv, ReportInv, BackOnTheBranch
  <1>3. CASE pc = "resolve"
    BY <1>3, SMTT(30) DEF Inv, TypeOK, Interrupt, script, Inside, Switching, TreeInv, SwitchInv, FilesInv, ResultsInv, ReportInv, BackOnTheBranch
  <1> QED
    BY <1>1, <1>2, <1>3 DEF Inv, TypeOK, Interrupt

LEMMA OthersKeepInv == ASSUME Inv, Kill \/ Checkout PROVE Inv'
  <1>1. CASE Kill
    BY <1>1, SMTT(30) DEF Inv, TypeOK, Kill, script, Inside, Switching, TreeInv, SwitchInv, FilesInv, ResultsInv, ReportInv, BackOnTheBranch
  <1>2. CASE Checkout
    <2>1. TypeOK'
      <3>1. head' \in Branches /\ <<>> \in Seq(Commits)
        BY <1>2 DEF Checkout
      <3>2. first' \in [head : Branches \cup Commits, commits : Seq(Commits)] /\ report' \in Seq(Commits)
        BY <1>2, <3>1 DEF Checkout
      <3> QED
        BY <1>2, <3>1, <3>2 DEF Inv, TypeOK, Checkout, Inside
    <2>2. TreeInv' /\ SwitchInv' /\ FilesInv' /\ ResultsInv' /\ ReportInv' /\ BackOnTheBranch'
      BY <1>2 DEF Inv, Checkout, Inside, Switching, TreeInv, SwitchInv, FilesInv, ResultsInv, ReportInv, BackOnTheBranch
    <2> QED
      BY <2>1, <2>2 DEF Inv
  <1> QED
    BY <1>1, <1>2

LEMMA InvNext == Inv /\ [Next]_vars => Inv'
  <1> SUFFICES ASSUME Inv, [Next]_vars PROVE Inv'
    OBVIOUS
  <1>1. CASE \E a, b \in Refs : Start(<<a>>) \/ Start(<<a, b>>)
    BY <1>1, StartKeepsInv
  <1>2. CASE Resolve
    BY <1>2, ResolveKeepsInv
  <1>3. CASE \E ok \in BOOLEAN : Enter(ok) \/ Configure(ok) \/ Build(ok)
    BY <1>3, EnterKeepsInv, ConfigureKeepsInv, BuildKeepsInv
  <1>4. CASE \E ok \in BOOLEAN : EndBenchmark(ok) \/ Exit(ok) \/ Compare(ok)
    BY <1>4, EndBenchmarkKeepsInv, ExitKeepsInv, CompareKeepsInv
  <1>5. CASE StartBenchmark \/ Interrupt
    BY <1>5, StartBenchmarkKeepsInv, InterruptKeepsInv
  <1>6. CASE Kill \/ Checkout
    BY <1>6, OthersKeepInv
  <1>7. CASE UNCHANGED vars
    BY <1>7, SMTT(30) DEF vars, Inv, TypeOK, Inside, Switching, TreeInv, SwitchInv, FilesInv, ResultsInv, ReportInv, BackOnTheBranch
  <1> QED
    BY <1>1, <1>2, <1>3, <1>4, <1>5, <1>6, <1>7 DEF Next

LEMMA Invariance == Spec => []Inv
  BY InvInit, InvNext, PTL DEF Spec

\* The variables have the types TypeOK gives them.
THEOREM TypeCorrect == Spec => []TypeOK
  <1>1. Inv => TypeOK
    BY DEF Inv
  <1> QED
    BY <1>1, Invariance, PTL

\* benchmark_commit and benchmark_compare, for any number of commits, branches
\* and runs and any failures: a results file holds measurements of its commit,
\* and a comparison is of the commits that were asked for.
THEOREM Measurements == Spec => []MeasurementsAreOfTheirCommit
  <1>1. Inv => MeasurementsAreOfTheirCommit
    BY DEF Inv, ResultsInv, ReportInv, TypeOK, MeasurementsAreOfTheirCommit, ToSet
  <1> QED
    BY <1>1, Invariance, PTL

\* GitSwitcher: a script that was started on a branch leaves the tree there.
THEOREM Restored == Spec => []BackOnTheBranch
  <1>1. Inv => BackOnTheBranch
    BY DEF Inv
  <1> QED
    BY <1>1, Invariance, PTL

(***************************************************************************)
(* VkexGenerator                                                           *)
(***************************************************************************)

\* While a feature is open, its section holds what its first types gave.
SectionInv ==
    phase = "feature" =>
        /\ pos <= Len(interface) /\ featureName = interface[pos].name
        /\ interface[pos].emit => done <= Len(interface[pos].types) /\ AreStructsOf(sections, interface[pos], done)

\* The temporary file holds the features that are closed; the header is old
\* until the whole text is there.
FileInv ==
    /\ phase \in {"file", "feature", "copy"} => tempExists
    /\ phase \in {"file", "feature"} => HasFeatures(outFile, interface, pos - 1)
    /\ phase = "start" => pos = 1
    /\ phase = "copy" => IsWholeHeader(outFile)
    /\ phase \notin {"copy", "done", "killed"} => target.state = "old"
    /\ target.state = "part" => IsWholeHeader(outFile) /\ tempExists
    /\ target.state = "new" => phase = "done" /\ IsWholeHeader(target.text) /\ ~tempExists

\* A body in the section is that of a struct of the interface that was not skipped.
BodiesInv ==
    \A i \in DOMAIN sections :
        \E f \in ToSet(interface) : \E s \in ToSet(f.types) : ~Skips(s) /\ sections[i] = Body(s)

IsSeq(s) == s \in Seq(ToSet(s))

HeaderTypes ==
    /\ interface \in Interfaces
    /\ pos \in 1 .. Len(interface) + 1 /\ done \in Nat
    /\ phase \in {"start", "file", "feature", "copy", "done", "failed", "killed"}
    /\ IsSeq(sections) /\ IsSeq(outFile)

HeaderInv == HeaderTypes /\ SectionInv /\ FileInv /\ BodiesInv


-----------------------------------------------------------------------------
(* Sequences *)

\* What is in some set is a sequence of its own elements, and the other way round.
LEMMA SeqIsSeq == ASSUME NEW S, NEW s \in Seq(S) PROVE IsSeq(s)
  <1>1. Len(s) \in Nat /\ DOMAIN s = 1 .. Len(s)
    OBVIOUS
  <1>2. \A i \in 1 .. Len(s) : s[i] \in ToSet(s)
    BY <1>1 DEF ToSet
  <1>3. s = [i \in 1 .. Len(s) |-> s[i]]
    BY <1>1
  <1> QED
    BY <1>1, <1>2, <1>3 DEF IsSeq

\* A sequence and one more element
LEMMA AppendToSeq ==
    ASSUME NEW s, NEW e, IsSeq(s)
    PROVE  /\ IsSeq(Append(s, e)) /\ Len(s) \in Nat /\ DOMAIN s = 1 .. Len(s)
           /\ Len(Append(s, e)) = Len(s) + 1 /\ DOMAIN Append(s, e) = 1 .. Len(s) + 1
           /\ \A i \in 1 .. Len(s) : Append(s, e)[i] = s[i]
           /\ Append(s, e)[Len(s) + 1] = e
           /\ Front(Append(s, e)) = s /\ Last(Append(s, e)) = e
           /\ s \o <<e>> = Append(s, e) /\ s \o <<>> = s
  <1> DEFINE S == ToSet(s) \cup {e}
  <1>1. s \in Seq(S) /\ e \in S
    <2>1. ToSet(s) \subseteq S
      OBVIOUS
    <2>2. s \in Seq(ToSet(s))
      BY DEF IsSeq
    <2>3. Len(s) \in Nat /\ s = [i \in 1 .. Len(s) |-> s[i]] /\ \A i \in 1 .. Len(s) : s[i] \in ToSet(s)
      BY <2>2
    <2> HIDE DEF S
    <2>4. \A i \in 1 .. Len(s) : s[i] \in S
      BY <2>1, <2>3
    <2>5. e \in S
      BY DEF S
    <2> QED
      BY <2>3, <2>4, <2>5
  <1> HIDE DEF S
  <1>2. Append(s, e) \in Seq(S) /\ Len(s) \in Nat /\ DOMAIN s = 1 .. Len(s)
        /\ Len(Append(s, e)) = Len(s) + 1 /\ DOMAIN Append(s, e) = 1 .. Len(s) + 1
        /\ \A i \in 1 .. Len(s) : Append(s, e)[i] = s[i]
        /\ Append(s, e)[Len(s) + 1] = e
    BY <1>1
  <1>3. IsSeq(Append(s, e))
    BY <1>2, SeqIsSeq
  <1>4. Front(Append(s, e)) = s
    <2>1. Front(Append(s, e)) = SubSeq(Append(s, e), 1, Len(s))
      BY <1>2 DEF Front
    <2>2. SubSeq(Append(s, e), 1, Len(s)) = [i \in 1 .. Len(s) |-> Append(s, e)[i]]
      BY <1>2
    <2> QED
      BY <1>1, <1>2, <2>1, <2>2
  <1>5. Last(Append(s, e)) = e
    BY <1>2 DEF Last
  <1>6. s \o <<e>> = Append(s, e) /\ s \o <<>> = s
    BY <1>1
  <1> QED
    BY <1>2, <1>3, <1>4, <1>5, <1>6

\* Positions that go through a set in order, and a greater one
LEMMA EnumeratesMore ==
    ASSUME NEW n \in Nat, NEW S \in SUBSET (1 .. n), NEW ks \in Seq(1 .. n), Enumerates(ks, S)
    PROVE  Append(ks, n + 1) \in Seq(1 .. n + 1) /\ Enumerates(Append(ks, n + 1), S \cup {n + 1})
  <1> DEFINE more == Append(ks, n + 1)
  <1>0. ks \in Seq(1 .. n + 1) /\ IsSeq(ks)
    BY SeqIsSeq
  <1>1. Len(ks) \in Nat /\ DOMAIN ks = 1 .. Len(ks) /\ DOMAIN more = 1 .. Len(ks) + 1
        /\ (\A i \in 1 .. Len(ks) : more[i] = ks[i]) /\ more[Len(ks) + 1] = n + 1
    BY <1>0, AppendToSeq
  <1>2. more \in Seq(1 .. n + 1)
    BY <1>0
  <1> HIDE DEF more
  <1>3. \A i \in 1 .. Len(ks) : ks[i] \in 1 .. n
    OBVIOUS
  <1>4. ASSUME NEW i \in DOMAIN more, NEW j \in DOMAIN more, i < j PROVE more[i] < more[j]
    <2>1. i \in 1 .. Len(ks)
      BY <1>1, <1>4
    <2>2. CASE j \in 1 .. Len(ks)
      BY <1>1, <1>4, <2>1, <2>2 DEF Enumerates
    <2>3. CASE j = Len(ks) + 1
      BY <1>1, <1>3, <2>1, <2>3
    <2> QED
      BY <1>1, <2>2, <2>3
  <1>5. ToSet(more) = ToSet(ks) \cup {n + 1}
    <2>1. ASSUME NEW x \in ToSet(more) PROVE x \in ToSet(ks) \cup {n + 1}
      <3>1. PICK i \in DOMAIN more : x = more[i]
        BY DEF ToSet
      <3> QED
        BY <1>1, <3>1 DEF ToSet
    <2>2. ASSUME NEW x \in ToSet(ks) PROVE x \in ToSet(more)
      <3>1. PICK i \in DOMAIN ks : x = ks[i]
        BY DEF ToSet
      <3> QED
        BY <1>1, <3>1 DEF ToSet
    <2>3. n + 1 \in ToSet(more)
      BY <1>1 DEF ToSet
    <2> QED
      BY <2>1, <2>2, <2>3
  <1> QED
    BY <1>2, <1>4, <1>5 DEF Enumerates, more

-----------------------------------------------------------------------------
(* The text of the header *)

\* A struct gives one body or none.
LEMMA AppendedCases ==
    ASSUME NEW s
    PROVE  IF IsEmitted(s) THEN Appended(s) = <<Body(s)>> /\ ~Skips(s) ELSE Appended(s) = <<>>
  BY DEF Appended, IsEmitted

\* What genType does to a section
LEMMA StructsMore ==
    ASSUME NEW f, NEW n \in Nat, NEW bodies, IsSeq(bodies), AreStructsOf(bodies, f, n)
    PROVE  AreStructsOf(bodies \o Appended(f.types[n + 1]), f, n + 1)
  <1> DEFINE S(k) == {j \in 1 .. k : IsEmitted(f.types[j])}
  <1>1. PICK ks \in [DOMAIN bodies -> 1 .. n] :
               Enumerates(ks, S(n)) /\ \A i \in DOMAIN bodies : bodies[i] = Body(f.types[ks[i]])
    BY DEF AreStructsOf
  <1>2. Len(bodies) \in Nat /\ DOMAIN bodies = 1 .. Len(bodies)
    BY AppendToSeq
  <1>3. ks \in Seq(1 .. n) /\ Len(ks) = Len(bodies) /\ IsSeq(ks)
    <2>1. ks \in Seq(1 .. n) /\ Len(ks) = Len(bodies)
      BY <1>1, <1>2
    <2> QED
      BY <2>1, SeqIsSeq
  <1>4. CASE IsEmitted(f.types[n + 1])
    <2> DEFINE more == Append(ks, n + 1)
               all == Append(bodies, Body(f.types[n + 1]))
    <2>1. bodies \o Appended(f.types[n + 1]) = all
      <3>1. Appended(f.types[n + 1]) = <<Body(f.types[n + 1])>>
        BY <1>4, AppendedCases
      <3> QED
        BY <3>1, AppendToSeq
    <2>2. S(n + 1) = S(n) \cup {n + 1} /\ S(n) \subseteq 1 .. n
      <3>1. S(n + 1) \subseteq S(n) \cup {n + 1}
        OBVIOUS
      <3>2. S(n) \cup {n + 1} \subseteq S(n + 1)
        BY <1>4
      <3> QED
        BY <3>1, <3>2
    <2>3. more \in Seq(1 .. n + 1) /\ Enumerates(more, S(n + 1))
      <3> HIDE DEF S
      <3>1. S(n) \in SUBSET (1 .. n)
        BY <2>2
      <3> QED
        BY <1>1, <1>3, <2>2, <3>1, EnumeratesMore
    <2>4. /\ DOMAIN more = 1 .. Len(bodies) + 1 /\ DOMAIN all = 1 .. Len(bodies) + 1
          /\ \A i \in 1 .. Len(bodies) : more[i] = ks[i] /\ all[i] = bodies[i]
          /\ more[Len(bodies) + 1] = n + 1 /\ all[Len(bodies) + 1] = Body(f.types[n + 1])
      BY <1>3, AppendToSeq
    <2> HIDE DEF more, all, S
    <2>5. more \in [DOMAIN all -> 1 .. n + 1]
      BY <2>3, <2>4
    <2>6. \A i \in DOMAIN all : all[i] = Body(f.types[more[i]])
      BY <1>1, <1>2, <2>4
    <2> QED
      BY <2>1, <2>3, <2>5, <2>6 DEF AreStructsOf, S
  <1>5. CASE ~IsEmitted(f.types[n + 1])
    <2>1. bodies \o Appended(f.types[n + 1]) = bodies
      BY <1>5, AppendedCases, AppendToSeq
    <2>2. S(n + 1) = S(n)
      BY <1>5
    <2>3. ks \in [DOMAIN bodies -> 1 .. n + 1]
      BY <1>1
    <2> HIDE DEF S
    <2>4. Enumerates(ks, S(n + 1))
      BY <1>1, <2>2
    <2> QED
      BY <1>1, <2>1, <2>3, <2>4 DEF AreStructsOf, S
  <1> QED
    BY <1>4, <1>5

\* At the start of a feature nothing is in its section.
LEMMA NoStructs == ASSUME NEW f PROVE AreStructsOf(<<>>, f, 0)
  <1> DEFINE ks == [i \in {} |-> 0]
  <1>1. ks \in [DOMAIN <<>> -> 1 .. 0] /\ DOMAIN ks = {}
    OBVIOUS
  <1>2. Enumerates(ks, {j \in 1 .. 0 : IsEmitted(f.types[j])})
    BY DEF Enumerates, ToSet
  <1> QED
    BY <1>1, <1>2 DEF AreStructsOf

\* A section is empty if and only if no struct of the feature is emitted.
LEMMA SectionEmpty ==
    ASSUME NEW f, IsSeq(f.types), NEW bodies, IsSeq(bodies), AreStructsOf(bodies, f, Len(f.types))
    PROVE  bodies # <<>> <=> \E s \in ToSet(f.types) : IsEmitted(s)
  <1> DEFINE n == Len(f.types)
  <1>1. n \in Nat /\ DOMAIN f.types = 1 .. n /\ Len(bodies) \in Nat /\ DOMAIN bodies = 1 .. Len(bodies)
    BY AppendToSeq
  <1>2. PICK ks \in [DOMAIN bodies -> 1 .. n] : Enumerates(ks, {j \in 1 .. n : IsEmitted(f.types[j])})
    BY DEF AreStructsOf
  <1>3. bodies # <<>> <=> DOMAIN bodies # {}
    BY <1>1 DEF IsSeq
  <1>4. ASSUME NEW i \in DOMAIN bodies PROVE \E s \in ToSet(f.types) : IsEmitted(s)
    <2>1. ks[i] \in {j \in 1 .. n : IsEmitted(f.types[j])}
      BY <1>2 DEF Enumerates, ToSet
    <2> QED
      BY <1>1, <2>1 DEF ToSet
  <1>5. ASSUME NEW s \in ToSet(f.types), IsEmitted(s) PROVE DOMAIN bodies # {}
    <2>1. PICK j \in 1 .. n : s = f.types[j]
      BY <1>1 DEF ToSet
    <2>2. j \in ToSet(ks)
      BY <1>2, <1>5, <2>1 DEF Enumerates
    <2> QED
      BY <2>2 DEF ToSet
  <1> QED
    BY <1>3, <1>4, <1>5

\* The header before any feature
LEMMA NoFeatures == ASSUME NEW fs PROVE HasFeatures(<<"begin">>, fs, 0)
  <1> DEFINE ks == [i \in {} |-> 0]
  <1>1. Len(<<"begin">>) = 1 /\ <<"begin">>[1] = "begin" /\ <<"begin">> # <<>>
    OBVIOUS
  <1>2. ks \in [1 .. 0 -> 1 .. 0] /\ DOMAIN ks = {}
    OBVIOUS
  <1>3. ASSUME NEW S, S = {} PROVE Enumerates(ks, S)
    BY <1>3 DEF Enumerates, ToSet
  <1>4. {k \in 1 .. 0 : fs[k].emit /\ \E s \in ToSet(fs[k].types) : IsEmitted(s)} = {}
    OBVIOUS
  <1>5. Len(<<"begin">>) - 1 = 0
    BY <1>1
  <1> HIDE DEF ks
  <1> QED
    BY <1>1, <1>2, <1>3, <1>4, <1>5 DEF HasFeatures

\* A feature without structs, or one that is not emitted, leaves no trace.
LEMMA FeaturesSame ==
    ASSUME NEW fs, NEW n \in Nat, NEW text, HasFeatures(text, fs, n),
           ~(fs[n + 1].emit /\ \E s \in ToSet(fs[n + 1].types) : IsEmitted(s))
    PROVE  HasFeatures(text, fs, n + 1)
  <1> DEFINE S(m) == {k \in 1 .. m : fs[k].emit /\ \E s \in ToSet(fs[k].types) : IsEmitted(s)}
  <1>1. S(n + 1) = S(n)
    OBVIOUS
  <1> HIDE DEF S
  <1>2. PICK ks \in [1 .. Len(text) - 1 -> 1 .. n] :
            /\ Enumerates(ks, S(n))
            /\ \A i \in DOMAIN ks : /\ text[i + 1][1] = fs[ks[i]].name
                                    /\ AreStructsOf(text[i + 1][2], fs[ks[i]], Len(fs[ks[i]].types))
    BY DEF HasFeatures, S
  <1>3. ks \in [1 .. Len(text) - 1 -> 1 .. n + 1]
    BY <1>2
  <1>4. text # <<>> /\ text[1] = "begin"
    BY DEF HasFeatures
  <1> QED
    BY <1>1, <1>2, <1>3, <1>4 DEF HasFeatures, S

\* endFeature: any other is appended with its structs.
LEMMA FeaturesMore ==
    ASSUME NEW fs, NEW n \in Nat, NEW text, IsSeq(text), HasFeatures(text, fs, n),
           fs[n + 1].emit, \E s \in ToSet(fs[n + 1].types) : IsEmitted(s),
           NEW bodies, AreStructsOf(bodies, fs[n + 1], Len(fs[n + 1].types))
    PROVE  HasFeatures(Append(text, <<fs[n + 1].name, bodies>>), fs, n + 1)
  <1> DEFINE S(m) == {k \in 1 .. m : fs[k].emit /\ \E s \in ToSet(fs[k].types) : IsEmitted(s)}
             entry == <<fs[n + 1].name, bodies>>
             all == Append(text, entry)
  <1>1. S(n + 1) = S(n) \cup {n + 1} /\ S(n) \subseteq 1 .. n
    <2>1. S(n + 1) \subseteq S(n) \cup {n + 1}
      OBVIOUS
    <2>2. S(n) \cup {n + 1} \subseteq S(n + 1)
      OBVIOUS
    <2> QED
      BY <2>1, <2>2
  <1>2. entry[1] = fs[n + 1].name /\ entry[2] = bodies
    OBVIOUS
  <1> HIDE DEF S, entry
  <1>3. PICK ks \in [1 .. Len(text) - 1 -> 1 .. n] :
            /\ Enumerates(ks, S(n))
            /\ \A i \in DOMAIN ks : /\ text[i + 1][1] = fs[ks[i]].name
                                    /\ AreStructsOf(text[i + 1][2], fs[ks[i]], Len(fs[ks[i]].types))
    BY DEF HasFeatures, S
  <1>4. /\ Len(text) \in Nat \ {0} /\ text[1] = "begin"
        /\ Len(all) = Len(text) + 1 /\ all # <<>>
        /\ \A i \in 1 .. Len(text) : all[i] = text[i]
        /\ all[Len(text) + 1] = entry
    <2>1. text # <<>> /\ text[1] = "begin"
      BY DEF HasFeatures
    <2>2. Len(text) # 0
      BY <2>1 DEF IsSeq
    <2>3. Len(all) = Len(text) + 1 /\ Len(text) \in Nat /\ all[Len(text) + 1] = entry
          /\ \A i \in 1 .. Len(text) : all[i] = text[i]
      BY AppendToSeq
    <2> HIDE DEF all
    <2>4. all # <<>>
      BY <2>3
    <2> QED
      BY <2>1, <2>2, <2>3, <2>4
  <1>5. ks \in Seq(1 .. n) /\ Len(ks) = Len(text) - 1 /\ IsSeq(ks)
    <2>1. PICK m \in Nat : m = Len(text) - 1
      BY <1>4
    <2>2. ks \in [1 .. m -> 1 .. n]
      BY <1>3, <2>1
    <2>3. ks \in Seq(1 .. n) /\ Len(ks) = Len(text) - 1
      BY <2>1, <2>2
    <2> QED
      BY <2>3, SeqIsSeq
  <1> DEFINE more == Append(ks, n + 1)
  <1>6. more \in Seq(1 .. n + 1) /\ Enumerates(more, S(n + 1))
    <2>1. S(n) \in SUBSET (1 .. n)
      BY <1>1
    <2> QED
      BY <1>1, <1>3, <1>5, <2>1, EnumeratesMore
  <1>7. /\ DOMAIN more = 1 .. Len(text)
        /\ \A i \in 1 .. Len(text) - 1 : more[i] = ks[i]
        /\ more[Len(text)] = n + 1
    <2>1. /\ DOMAIN more = 1 .. Len(ks) + 1
          /\ \A i \in 1 .. Len(ks) : more[i] = ks[i]
          /\ more[Len(ks) + 1] = n + 1
      BY <1>5, AppendToSeq
    <2> HIDE DEF more
    <2> QED
      BY <1>4, <1>5, <2>1
  <1> HIDE DEF more, all
  <1>8. more \in [1 .. Len(all) - 1 -> 1 .. n + 1]
    BY <1>4, <1>6, <1>7
  <1>9. ASSUME NEW i \in DOMAIN more
        PROVE  all[i + 1][1] = fs[more[i]].name /\ AreStructsOf(all[i + 1][2], fs[more[i]], Len(fs[more[i]].types))
    <2>1. CASE i \in 1 .. Len(text) - 1
      <3>1. all[i + 1] = text[i + 1] /\ more[i] = ks[i] /\ i \in DOMAIN ks
        BY <1>3, <1>4, <1>7, <2>1
      <3> QED
        BY <1>3, <3>1
    <2>2. CASE i = Len(text)
      BY <1>2, <1>4, <1>7, <2>2
    <2> QED
      BY <1>4, <1>7, <2>1, <2>2
  <1>10. all # <<>> /\ all[1] = "begin"
    BY <1>4
  <1> QED
    BY <1>6, <1>8, <1>9, <1>10 DEF HasFeatures, S, all, entry

-----------------------------------------------------------------------------
(* The invariant *)

\* What apiGen gives a generator: features with lists of types.
LEMMA InterfaceType ==
    ASSUME NEW x \in Interfaces
    PROVE  /\ Len(x) \in Nat /\ DOMAIN x = 1 .. Len(x)
           /\ \A i \in 1 .. Len(x) : /\ x[i] \in ToSet(x) /\ x[i].emit \in BOOLEAN
                                     /\ IsSeq(x[i].types) /\ Len(x[i].types) \in Nat
                                     /\ \A j \in 1 .. Len(x[i].types) : x[i].types[j] \in ToSet(x[i].types)
  <1>1. IsSeq(x) /\ \A f \in ToSet(x) : f.emit \in BOOLEAN /\ IsSeq(f.types)
    BY VkexAssumption DEF VkexAssumption, IsSeq
  <1>2. Len(x) \in Nat /\ DOMAIN x = 1 .. Len(x)
    BY <1>1, AppendToSeq
  <1>3. ASSUME NEW i \in 1 .. Len(x)
        PROVE  /\ x[i] \in ToSet(x) /\ x[i].emit \in BOOLEAN
               /\ IsSeq(x[i].types) /\ Len(x[i].types) \in Nat
               /\ \A j \in 1 .. Len(x[i].types) : x[i].types[j] \in ToSet(x[i].types)
    <2>1. x[i] \in ToSet(x)
      BY <1>2 DEF ToSet
    <2>2. x[i].emit \in BOOLEAN /\ IsSeq(x[i].types)
      BY <1>1, <2>1
    <2>3. Len(x[i].types) \in Nat /\ DOMAIN x[i].types = 1 .. Len(x[i].types)
      BY <2>2, AppendToSeq
    <2> QED
      BY <2>1, <2>2, <2>3 DEF ToSet
  <1> QED
    BY <1>2, <1>3

\* There is no text and no section at the start.
LEMMA HeaderInvInit == HeaderInit => HeaderInv
  <1> SUFFICES ASSUME HeaderInit PROVE HeaderInv
    OBVIOUS
  <1>1. IsSeq(<<>>) /\ DOMAIN <<>> = {}
    BY DEF IsSeq
  <1>2. HeaderTypes
    BY <1>1, InterfaceType DEF HeaderInit, HeaderTypes
  <1>3. SectionInv /\ FileInv /\ BodiesInv
    BY <1>1 DEF HeaderInit, SectionInv, FileInv, BodiesInv
  <1> QED
    BY <1>2, <1>3 DEF HeaderInv

\* Each step keeps the invariant.
LEMMA BeginFileKeepsHeaderInv == ASSUME HeaderInv, BeginFile PROVE HeaderInv'
  <1> USE DEF HeaderInv
  <1>0. phase = "start" /\ phase' = "file" /\ tempExists' /\ outFile' = <<"begin">>
        /\ UNCHANGED <<interface, pos, done, featureName, sections, target>>
    BY DEF BeginFile
  <1>1. IsSeq(outFile')
    <2>1. <<"begin">> \in Seq({"begin"})
      OBVIOUS
    <2> QED
      BY <1>0, <2>1, SeqIsSeq
  <1>2. HeaderTypes'
    BY <1>0, <1>1 DEF HeaderTypes
  <1>3. SectionInv' /\ BodiesInv'
    BY <1>0 DEF SectionInv, BodiesInv
  <1>4. pos = 1
    BY <1>0 DEF FileInv
  <1>5. FileInv'
    BY <1>0, <1>4, NoFeatures DEF FileInv
  <1> QED
    BY <1>2, <1>3, <1>5

LEMMA BeginFeatureKeepsHeaderInv == ASSUME HeaderInv, BeginFeature PROVE HeaderInv'
  <1> USE DEF HeaderInv
  <1>0. /\ phase = "file" /\ pos <= Len(interface) /\ phase' = "feature" /\ done' = 0
        /\ featureName' = interface[pos].name /\ sections' = <<>>
        /\ UNCHANGED <<interface, pos, outFile, tempExists, target>>
    BY DEF BeginFeature
  <1>1. IsSeq(sections') /\ DOMAIN sections' = {}
    BY <1>0 DEF IsSeq
  <1>2. HeaderTypes'
    BY <1>0, <1>1 DEF HeaderTypes
  <1>3. BodiesInv'
    BY <1>1 DEF BodiesInv
  <1>4. Len(interface[pos].types) \in Nat
    <2>1. interface \in Interfaces /\ pos \in 1 .. Len(interface)
      BY <1>0, InterfaceType DEF HeaderTypes
    <2> QED
      BY <2>1, InterfaceType
  <1>5. AreStructsOf(sections', interface[pos], 0)
    BY <1>0, NoStructs
  <1>6. SectionInv'
    BY <1>0, <1>4, <1>5 DEF SectionInv
  <1>7. FileInv'
    BY <1>0 DEF FileInv
  <1> QED
    BY <1>2, <1>3, <1>6, <1>7

LEMMA GenTypeKeepsHeaderInv == ASSUME HeaderInv, GenType PROVE HeaderInv'
  <1> USE DEF HeaderInv
  <1> DEFINE f == interface[pos]
             s == f.types[done + 1]
  <1>0. /\ phase = "feature" /\ f.emit /\ done < Len(f.types) /\ done' = done + 1
        /\ \/ sections' = sections /\ phase' = "failed"
           \/ sections' = sections \o Appended(s) /\ phase' = "feature"
        /\ UNCHANGED <<interface, pos, featureName, outFile, tempExists, target>>
    BY DEF GenType
  <1>1. /\ pos \in 1 .. Len(interface) /\ Len(interface) \in Nat /\ f \in ToSet(interface)
        /\ Len(f.types) \in Nat /\ s \in ToSet(f.types) /\ done \in Nat
    <2>1. interface \in Interfaces /\ pos \in 1 .. Len(interface) /\ done \in Nat
      BY <1>0, InterfaceType DEF HeaderTypes, SectionInv
    <2>2. Len(f.types) \in Nat
      BY <2>1, InterfaceType
    <2>3. done + 1 \in 1 .. Len(f.types)
      BY <1>0, <2>1, <2>2
    <2> QED
      BY <2>1, <2>2, <2>3, InterfaceType
  <1> HIDE DEF f, s
  <1>2. IsSeq(sections)
    BY DEF HeaderTypes
  <1>3. /\ IsSeq(sections \o Appended(s))
        /\ \A i \in DOMAIN (sections \o Appended(s)) :
              \/ i \in DOMAIN sections /\ (sections \o Appended(s))[i] = sections[i]
              \/ ~Skips(s) /\ (sections \o Appended(s))[i] = Body(s)
    <2>1. CASE IsEmitted(s)
      <3>1. Appended(s) = <<Body(s)>> /\ ~Skips(s)
        BY <2>1, AppendedCases
      <3>2. sections \o Appended(s) = Append(sections, Body(s))
        BY <1>2, <3>1, AppendToSeq
      <3>3. /\ IsSeq(Append(sections, Body(s))) /\ Len(sections) \in Nat /\ DOMAIN sections = 1 .. Len(sections)
            /\ DOMAIN Append(sections, Body(s)) = 1 .. Len(sections) + 1
            /\ \A i \in 1 .. Len(sections) : Append(sections, Body(s))[i] = sections[i]
            /\ Append(sections, Body(s))[Len(sections) + 1] = Body(s)
        BY <1>2, AppendToSeq
      <3> DEFINE more == Append(sections, Body(s))
      <3> HIDE DEF more
      <3>4. \A i \in 1 .. Len(sections) + 1 : i \in 1 .. Len(sections) \/ i = Len(sections) + 1
        BY <3>3
      <3>5. \A i \in DOMAIN more : \/ i \in DOMAIN sections /\ more[i] = sections[i]
                                   \/ more[i] = Body(s)
        BY <3>3, <3>4 DEF more
      <3> QED
        BY <3>1, <3>2, <3>3, <3>5 DEF more
    <2>2. CASE ~IsEmitted(s)
      <3>1. sections \o Appended(s) = sections
        BY <1>2, <2>2, AppendedCases, AppendToSeq
      <3> QED
        BY <1>2, <3>1
    <2> QED
      BY <2>1, <2>2
  <1>4. HeaderTypes'
    <2>1. IsSeq(sections')
      BY <1>0, <1>2, <1>3
    <2>2. IsSeq(outFile') /\ done' \in Nat
      BY <1>0, <1>1 DEF HeaderTypes
    <2>3. interface' \in Interfaces /\ pos' \in 1 .. Len(interface') + 1
      BY <1>0 DEF HeaderTypes
    <2> QED
      BY <1>0, <2>1, <2>2, <2>3 DEF HeaderTypes
  <1>5. FileInv'
    BY <1>0 DEF FileInv
  <1>6. BodiesInv'
    <2>1. CASE sections' = sections
      BY <1>0, <2>1 DEF BodiesInv
    <2>2. CASE sections' = sections \o Appended(s)
      <3> SUFFICES ASSUME NEW i \in DOMAIN sections'
                   PROVE  \E g \in ToSet(interface) : \E t \in ToSet(g.types) : ~Skips(t) /\ sections'[i] = Body(t)
        BY <1>0 DEF BodiesInv
      <3>1. CASE i \in DOMAIN sections /\ sections'[i] = sections[i]
        BY <3>1 DEF BodiesInv
      <3>2. CASE ~Skips(s) /\ sections'[i] = Body(s)
        BY <1>1, <3>2
      <3> QED
        BY <1>3, <2>2, <3>1, <3>2
    <2> QED
      BY <1>0, <2>1, <2>2
  <1>7. SectionInv'
    <2>1. CASE phase' = "failed"
      BY <2>1 DEF SectionInv
    <2>2. CASE phase' = "feature" /\ sections' = sections \o Appended(s)
      <3>1. AreStructsOf(sections, f, done)
        BY <1>0 DEF SectionInv, f
      <3>2. AreStructsOf(sections', f, done')
        BY <1>0, <1>1, <1>2, <2>2, <3>1, StructsMore DEF s
      <3>3. pos <= Len(interface) /\ featureName = f.name /\ done' <= Len(f.types)
        BY <1>0, <1>1 DEF SectionInv, f
      <3> QED
        BY <1>0, <3>2, <3>3 DEF SectionInv, f
    <2> QED
      BY <1>0, <2>1, <2>2
  <1> QED
    BY <1>4, <1>5, <1>6, <1>7

LEMMA EndFeatureKeepsHeaderInv == ASSUME HeaderInv, EndFeature PROVE HeaderInv'
  <1> USE DEF HeaderInv
  <1> DEFINE f == interface[pos]
             all == Append(outFile, <<featureName, sections>>)
  <1>0. /\ phase = "feature" /\ (f.emit => done = Len(f.types))
        /\ IF f.emit /\ sections # <<>> THEN outFile' = all ELSE outFile' = outFile
        /\ phase' = "file" /\ pos' = pos + 1
        /\ UNCHANGED <<interface, done, sections, tempExists, target>>
    BY DEF EndFeature
  <1>1. /\ pos \in 1 .. Len(interface) /\ Len(interface) \in Nat /\ IsSeq(f.types) /\ pos - 1 \in Nat
        /\ featureName = f.name /\ f.emit \in BOOLEAN
    <2>1. interface \in Interfaces /\ pos \in 1 .. Len(interface) /\ Len(interface) \in Nat /\ featureName = f.name
      BY <1>0, InterfaceType DEF HeaderTypes, SectionInv
    <2>2. IsSeq(f.types) /\ f.emit \in BOOLEAN
      BY <2>1, InterfaceType
    <2> QED
      BY <2>1, <2>2
  <1>2. IsSeq(sections) /\ IsSeq(outFile)
    BY DEF HeaderTypes
  <1>3. HasFeatures(outFile, interface, pos - 1) /\ f = interface[pos - 1 + 1] /\ pos - 1 + 1 = pos
    BY <1>0, <1>1 DEF FileInv
  <1>4. HasFeatures(outFile', interface, pos) /\ IsSeq(outFile')
    <2>1. CASE f.emit /\ sections # <<>>
      <3>1. AreStructsOf(sections, f, Len(f.types))
        BY <1>0, <2>1 DEF SectionInv
      <3>2. \E s \in ToSet(f.types) : IsEmitted(s)
        BY <1>1, <1>2, <2>1, <3>1, SectionEmpty
      <3>3. IsSeq(all)
        BY <1>2, AppendToSeq
      <3>4. outFile' = all
        BY <1>0, <2>1
      <3> HIDE DEF f
      <3>5. \A m \in Nat : m = pos - 1 => HasFeatures(Append(outFile, <<f.name, sections>>), interface, m + 1)
        <4> SUFFICES ASSUME NEW m \in Nat, m = pos - 1
                     PROVE  HasFeatures(Append(outFile, <<f.name, sections>>), interface, m + 1)
          OBVIOUS
        <4>1. f = interface[m + 1] /\ HasFeatures(outFile, interface, m)
          BY <1>3
        <4> QED
          BY <1>2, <2>1, <3>1, <3>2, <4>1, FeaturesMore
      <3> QED
        BY <1>1, <1>3, <3>3, <3>4, <3>5
    <2>2. CASE ~(f.emit /\ sections # <<>>)
      <3>1. ~(f.emit /\ \E s \in ToSet(f.types) : IsEmitted(s))
        <4>1. CASE f.emit
          <5>1. AreStructsOf(sections, f, Len(f.types))
            BY <1>0, <4>1 DEF SectionInv
          <5> QED
            BY <1>1, <1>2, <2>2, <4>1, <5>1, SectionEmpty
        <4>2. CASE ~f.emit
          BY <4>2
        <4> QED
          BY <4>1, <4>2
      <3>2. outFile' = outFile
        BY <1>0, <2>2
      <3> HIDE DEF f
      <3>3. \A m \in Nat : m = pos - 1 => HasFeatures(outFile, interface, m + 1)
        <4> SUFFICES ASSUME NEW m \in Nat, m = pos - 1 PROVE HasFeatures(outFile, interface, m + 1)
          OBVIOUS
        <4>1. f = interface[m + 1] /\ HasFeatures(outFile, interface, m)
          BY <1>3
        <4> QED
          BY <3>1, <4>1, FeaturesSame
      <3> QED
        BY <1>1, <1>2, <1>3, <3>2, <3>3
    <2> QED
      BY <2>1, <2>2
  <1>5. HeaderTypes'
    BY <1>0, <1>1, <1>4 DEF HeaderTypes
  <1>6. SectionInv' /\ BodiesInv'
    BY <1>0 DEF SectionInv, BodiesInv
  <1>7. FileInv'
    <2>1. HasFeatures(outFile', interface', pos' - 1) /\ target'.state = "old" /\ tempExists'
      BY <1>0, <1>1, <1>4 DEF FileInv
    <2> QED
      BY <1>0, <2>1 DEF FileInv
  <1> QED
    BY <1>5, <1>6, <1>7

LEMMA EndFileKeepsHeaderInv == ASSUME HeaderInv, EndFile PROVE HeaderInv'
  <1> USE DEF HeaderInv
  <1>0. /\ phase = "file" /\ pos > Len(interface) /\ phase' = "copy" /\ outFile' = Append(outFile, "end")
        /\ target' = [state |-> "part", text |-> <<>>]
        /\ UNCHANGED <<interface, pos, done, featureName, sections, tempExists>>
    BY DEF EndFile
  <1>1. IsSeq(outFile') /\ Front(outFile') = outFile /\ Last(outFile') = "end"
    BY <1>0, AppendToSeq DEF HeaderTypes
  <1>2. pos - 1 = Len(interface)
    BY <1>0, InterfaceType DEF HeaderTypes
  <1>3. IsWholeHeader(outFile)'
    BY <1>0, <1>1, <1>2 DEF FileInv, IsWholeHeader
  <1>4. HeaderTypes'
    BY <1>0, <1>1 DEF HeaderTypes
  <1>5. SectionInv' /\ BodiesInv'
    BY <1>0 DEF SectionInv, BodiesInv
  <1>6. FileInv'
    <2>1. target'.state = "part" /\ tempExists'
      BY <1>0 DEF FileInv
    <2> QED
      BY <1>0, <1>3, <2>1 DEF FileInv
  <1> QED
    BY <1>4, <1>5, <1>6

LEMMA CopiedKeepsHeaderInv == ASSUME HeaderInv, Copied PROVE HeaderInv'
  <1> USE DEF HeaderInv
  <1>0. /\ phase = "copy" /\ phase' = "done" /\ ~tempExists' /\ target' = [state |-> "new", text |-> outFile]
        /\ UNCHANGED <<interface, pos, done, featureName, sections, outFile>>
    BY DEF Copied
  <1>1. HeaderTypes' /\ SectionInv' /\ BodiesInv'
    BY <1>0 DEF HeaderTypes, SectionInv, BodiesInv
  <1>2. target'.state = "new" /\ target'.text = outFile
    BY <1>0
  <1>3. IsWholeHeader(target.text)'
    BY <1>0, <1>2 DEF FileInv, IsWholeHeader
  <1>4. FileInv'
    BY <1>0, <1>2, <1>3 DEF FileInv
  <1> QED
    BY <1>1, <1>4

LEMMA InterruptKeepsHeaderInv == ASSUME HeaderInv, InterruptGenerator PROVE HeaderInv'
  <1> USE DEF HeaderInv
  <1>0. /\ phase \notin {"done", "failed", "killed", "start"} /\ phase' = "killed"
        /\ UNCHANGED <<interface, pos, done, featureName, sections, outFile, tempExists, target>>
    BY DEF InterruptGenerator
  <1>1. HeaderTypes' /\ SectionInv' /\ BodiesInv'
    BY <1>0 DEF HeaderTypes, SectionInv, BodiesInv
  <1>2. IsWholeHeader(outFile)' <=> IsWholeHeader(outFile)
    BY <1>0 DEF IsWholeHeader
  <1>3. FileInv'
    BY <1>0, <1>2 DEF FileInv
  <1> QED
    BY <1>1, <1>3

LEMMA HeaderInvNext == HeaderInv /\ [HeaderNext]_headerVars => HeaderInv'
  <1> SUFFICES ASSUME HeaderInv, [HeaderNext]_headerVars PROVE HeaderInv'
    OBVIOUS
  <1>1. CASE UNCHANGED headerVars
    <2>1. UNCHANGED <<interface, phase, pos, done, featureName, sections, outFile, tempExists, target>>
      BY <1>1 DEF headerVars
    <2>2. IsWholeHeader(outFile)' <=> IsWholeHeader(outFile)
      BY <2>1 DEF IsWholeHeader
    <2>3. IsWholeHeader(target.text)' <=> IsWholeHeader(target.text)
      BY <2>1 DEF IsWholeHeader
    <2>4. HeaderTypes' /\ SectionInv' /\ BodiesInv'
      BY <2>1 DEF HeaderInv, HeaderTypes, SectionInv, BodiesInv
    <2>5. FileInv'
      BY <2>1, <2>2, <2>3 DEF HeaderInv, FileInv
    <2> QED
      BY <2>4, <2>5 DEF HeaderInv
  <1> QED
    BY <1>1, BeginFileKeepsHeaderInv, BeginFeatureKeepsHeaderInv, GenTypeKeepsHeaderInv, EndFeatureKeepsHeaderInv,
       EndFileKeepsHeaderInv, CopiedKeepsHeaderInv, InterruptKeepsHeaderInv DEF HeaderNext

\* The invariant above holds in every state of the generator.
THEOREM HeaderInvariance == HeaderSpec => []HeaderInv
  BY HeaderInvInit, HeaderInvNext, PTL DEF HeaderSpec

\* endFile: whatever the features and their types, and wherever the generation
\* fails or is interrupted, vkex.hpp is the old one or being replaced by the
\* whole text, and a new one has every emitted feature once, in order, with its
\* own structs.
THEOREM HeaderStaysOldOrWhole == HeaderSpec => []HeaderIsOldOrWhole
  <1>1. HeaderInv => HeaderIsOldOrWhole
    BY DEF HeaderInv, FileInv, HeaderIsOldOrWhole
  <1> QED
    BY <1>1, HeaderInvariance, PTL

-----------------------------------------------------------------------------
(* The pass over the members of a struct *)

ScansTo(g, s, k) == g = [n \in 0 .. k |-> IF n = 0 THEN NoMembers ELSE ScanMember(s, g[n - 1], s.members[n])]

\* The pass is defined for any number of members.
LEMMA ScanExists == ASSUME NEW s, NEW k \in Nat PROVE \E g : ScansTo(g, s, k)
  <1> DEFINE T == {n \in Nat : ~ \E g : ScansTo(g, s, n)}
             R == OpToRel(<, Nat)
  <1> SUFFICES ASSUME T # {} PROVE FALSE
    OBVIOUS
  <1>1. PICK m \in T : \A n \in T : <<n, m>> \notin R
    <2>1. IsWellFoundedOn(R, Nat) /\ T \subseteq Nat
      BY NatLessThanWellFounded
    <2> HIDE DEF R, T
    <2> QED
      BY <2>1, WFMin
  <1>2. m \in Nat /\ ~ \E g : ScansTo(g, s, m)
    OBVIOUS
  <1>3. m # 0
    <2>1. ScansTo([n \in 0 .. 0 |-> NoMembers], s, 0)
      BY DEF ScansTo
    <2> QED
      BY <1>2, <2>1
  <1>4. m - 1 \in Nat /\ <<m - 1, m>> \in R
    BY <1>2, <1>3 DEF OpToRel
  <1>5. m - 1 \notin T
    <2> HIDE DEF R, T
    <2> QED
      BY <1>1, <1>4
  <1>6. PICK g : ScansTo(g, s, m - 1)
    BY <1>4, <1>5
  <1> HIDE DEF T, R
  <1> DEFINE h == [n \in 0 .. m |-> IF n = m THEN ScanMember(s, g[m - 1], s.members[m]) ELSE g[n]]
  <1>7. ASSUME NEW n \in 0 .. m PROVE h[n] = IF n = 0 THEN NoMembers ELSE ScanMember(s, h[n - 1], s.members[n])
    <2>1. CASE n = m
      <3>1. h[n - 1] = g[m - 1] /\ h[n] = ScanMember(s, g[m - 1], s.members[m])
        BY <1>2, <1>3, <2>1
      <3> QED
        BY <1>3, <2>1, <3>1
    <2>2. CASE n # m
      <3>1. n \in 0 .. m - 1 /\ h[n] = g[n] /\ (n # 0 => h[n - 1] = g[n - 1])
        BY <1>2, <2>2
      <3>2. g[n] = IF n = 0 THEN NoMembers ELSE ScanMember(s, g[n - 1], s.members[n])
        BY <1>6, <3>1 DEF ScansTo
      <3> HIDE DEF h
      <3> QED
        BY <3>1, <3>2
    <2> QED
      BY <2>1, <2>2
  <1>8. ScansTo(h, s, m)
    <2>1. h = [n \in 0 .. m |-> h[n]]
      OBVIOUS
    <2> HIDE DEF h
    <2> QED
      BY <1>7, <2>1 DEF ScansTo
  <1> QED
    BY <1>2, <1>8

\* genStruct begins with no members and goes from one to the next.
LEMMA ScannedStep ==
    ASSUME NEW s, Len(s.members) \in Nat
    PROVE  /\ Scanned(s)[0] = NoMembers
           /\ \A k \in 1 .. Len(s.members) : Scanned(s)[k] = ScanMember(s, Scanned(s)[k - 1], s.members[k])
  <1>1. ScansTo(Scanned(s), s, Len(s.members))
    BY ScanExists DEF Scanned, ScansTo
  <1> QED
    BY <1>1 DEF ScansTo

IsScan(acc) == acc = [kind |-> acc.kind, names |-> acc.names, lengthOf |-> acc.lengthOf,
                      arrays |-> acc.arrays, const |-> acc.const]

\* What holds after the first k members: each array is among the arrays of one
\* length only.
ScanInv(s, k, acc) ==
    /\ IsScan(acc)
    /\ IsSeq(acc.names)
    /\ \A a \in ToSet(acc.names) : \E i \in 1 .. k : s.members[i].name = a
    /\ DOMAIN acc.lengthOf = ToSet(acc.names) /\ acc.lengthOf = [n \in DOMAIN acc.lengthOf |-> acc.lengthOf[n]]
    /\ acc.arrays \subseteq ToSet(acc.names)
    /\ \A n \in ToSet(acc.names) : IsSeq(acc.lengthOf[n]) /\ ToSet(acc.lengthOf[n]) \subseteq acc.arrays
    /\ \A n1, n2 \in ToSet(acc.names) : n1 # n2 => ToSet(acc.lengthOf[n1]) \cap ToSet(acc.lengthOf[n2]) = {}

\* The elements of a sequence that gets one more
LEMMA AppendedElements ==
    ASSUME NEW s, NEW e, IsSeq(s)
    PROVE  ToSet(Append(s, e)) = ToSet(s) \cup {e}
  <1>1. /\ Len(s) \in Nat /\ DOMAIN s = 1 .. Len(s) /\ DOMAIN Append(s, e) = 1 .. Len(s) + 1
        /\ \A i \in 1 .. Len(s) : Append(s, e)[i] = s[i]
        /\ Append(s, e)[Len(s) + 1] = e
    BY AppendToSeq
  <1> DEFINE more == Append(s, e)
  <1> HIDE DEF more
  <1>2. ASSUME NEW x \in ToSet(more) PROVE x \in ToSet(s) \cup {e}
    <2>1. PICK i \in DOMAIN more : x = more[i]
      BY DEF ToSet
    <2>2. i \in 1 .. Len(s) \/ i = Len(s) + 1
      BY <1>1 DEF more
    <2> QED
      BY <1>1, <2>1, <2>2 DEF ToSet, more
  <1>3. ASSUME NEW x \in ToSet(s) PROVE x \in ToSet(more)
    <2>1. PICK i \in DOMAIN s : x = s[i]
      BY DEF ToSet
    <2>2. i \in DOMAIN more /\ more[i] = x
      BY <1>1, <2>1 DEF more
    <2> QED
      BY <2>2 DEF ToSet
  <1>4. e \in ToSet(more)
    <2>1. Len(s) + 1 \in DOMAIN more /\ more[Len(s) + 1] = e
      BY <1>1 DEF more
    <2> QED
      BY <2>1 DEF ToSet
  <1> QED
    BY <1>2, <1>3, <1>4 DEF more

\* A member of a new name keeps what holds of those before.
LEMMA ScanMemberKeeps ==
    ASSUME NEW s, NEW k \in Nat, NEW acc, ScanInv(s, k, acc), NEW m, m = s.members[k + 1],
           m.name \notin ToSet(acc.names)
    PROVE  ScanInv(s, k + 1, ScanMember(s, acc, m))
  <1> DEFINE known == Known(s, acc, m)
             lengths == known.lengthOf
  <1>1. /\ known.names = Append(acc.names, m.name) /\ known.arrays = acc.arrays
        /\ known.lengthOf = [n \in DOMAIN acc.lengthOf \cup {m.name} |-> IF n = m.name THEN <<>> ELSE acc.lengthOf[n]]
        /\ IsScan(known)
    <2>1. PICK kind, names, lists, arrays, const :
              acc = [kind |-> kind, names |-> names, lengthOf |-> lists, arrays |-> arrays, const |-> const]
      BY DEF ScanInv, IsScan
    <2>2. PICK worse : worse = IF m.altlen \/ m.fixed \/ (m.len # Absent /\ m.noautovalidity
                                                         /\ s.name \notin AutoGenerateableStructs)
                               THEN "complex" ELSE acc.kind
      OBVIOUS
    <2>3. PICK more : more = [n \in DOMAIN acc.lengthOf \cup {m.name} |-> IF n = m.name THEN <<>> ELSE acc.lengthOf[n]]
      OBVIOUS
    <2>4. known = [acc EXCEPT !.names = Append(@, m.name), !.lengthOf = more, !.kind = worse]
      BY <2>2, <2>3 DEF Known
    <2>5. known = [kind |-> worse, names |-> Append(names, m.name), lengthOf |-> more,
                   arrays |-> arrays, const |-> const]
      BY <2>1, <2>4
    <2> HIDE DEF known
    <2> QED
      BY <2>1, <2>3, <2>5 DEF IsScan
  <1>2. /\ DOMAIN lengths = DOMAIN acc.lengthOf \cup {m.name} /\ lengths[m.name] = <<>>
        /\ \A n \in DOMAIN acc.lengthOf : lengths[n] = acc.lengthOf[n]
        /\ lengths = [n \in DOMAIN lengths |-> lengths[n]]
    <2>1. m.name \notin DOMAIN acc.lengthOf
      BY DEF ScanInv
    <2> HIDE DEF known
    <2> QED
      BY <1>1, <2>1
  <1>3. IsSeq(known.names) /\ ToSet(known.names) = ToSet(acc.names) \cup {m.name}
    <2> HIDE DEF known
    <2> QED
      BY <1>1, AppendToSeq, AppendedElements DEF ScanInv
  <1>4. IsSeq(<<>>) /\ ToSet(<<>>) = {}
    BY DEF IsSeq, ToSet
  <1>5. \/ ScanMember(s, acc, m) = acc \/ ScanMember(s, acc, m) = known
        \/ ScanMember(s, acc, m) = [known EXCEPT !.kind = "complex"]
        \/ m.len \in ToSet(known.names) /\ ScanMember(s, acc, m) = CountedBy(known, m)
    BY DEF ScanMember
  <1> HIDE DEF known
  <1>6. ScanInv(s, k + 1, known)
    <2>1. \A a \in ToSet(known.names) : \E i \in 1 .. k + 1 : s.members[i].name = a
      <3>1. \A a \in ToSet(acc.names) : \E i \in 1 .. k : s.members[i].name = a
        BY DEF ScanInv
      <3>2. k + 1 \in 1 .. k + 1 /\ \A i \in 1 .. k : i \in 1 .. k + 1
        OBVIOUS
      <3> QED
        BY <1>3, <3>1, <3>2
    <2>2. DOMAIN known.lengthOf = ToSet(known.names) /\ known.arrays \subseteq ToSet(known.names)
      BY <1>1, <1>2, <1>3 DEF ScanInv
    <2>3. ASSUME NEW n \in ToSet(known.names)
          PROVE  \/ n = m.name /\ lengths[n] = <<>>
                 \/ n \in ToSet(acc.names) /\ lengths[n] = acc.lengthOf[n]
      BY <1>2, <1>3, <2>3 DEF ScanInv
    <2>4. \A n \in ToSet(known.names) : IsSeq(lengths[n]) /\ ToSet(lengths[n]) \subseteq known.arrays
      BY <1>1, <1>4, <2>3 DEF ScanInv
    <2>5. \A n1, n2 \in ToSet(known.names) : n1 # n2 => ToSet(lengths[n1]) \cap ToSet(lengths[n2]) = {}
      BY <1>4, <2>3 DEF ScanInv
    <2> QED
      BY <1>1, <1>2, <1>3, <2>1, <2>2, <2>4, <2>5 DEF ScanInv
  <1>7. ScanInv(s, k + 1, acc)
    <2>1. \A i \in 1 .. k : i \in 1 .. k + 1
      OBVIOUS
    <2> QED
      BY <2>1 DEF ScanInv
  <1>8. ScanInv(s, k + 1, [known EXCEPT !.kind = "complex"])
    <2> DEFINE complex == [known EXCEPT !.kind = "complex"]
    <2>1. /\ complex.names = known.names /\ complex.lengthOf = known.lengthOf
          /\ complex.arrays = known.arrays /\ complex.const = known.const
          /\ IsScan(complex)
      BY <1>1 DEF IsScan
    <2> HIDE DEF complex
    <2>2. ScanInv(s, k + 1, complex)
      BY <1>6, <2>1 DEF ScanInv
    <2> QED
      BY <2>2 DEF complex
  <1>9. ASSUME m.len \in ToSet(known.names) PROVE ScanInv(s, k + 1, CountedBy(known, m))
    <2> DEFINE counted == CountedBy(known, m)
               list == Append(lengths[m.len], m.name)
    <2>1. /\ counted.names = known.names /\ counted.arrays = known.arrays \cup {m.name}
          /\ counted.lengthOf = [lengths EXCEPT ![m.len] = Append(@, m.name)]
          /\ IsScan(counted)
      <3>1. PICK kind, names, lists, arrays, const :
              known = [kind |-> kind, names |-> names, lengthOf |-> lists, arrays |-> arrays, const |-> const]
        BY <1>1 DEF IsScan
      <3>2. PICK nowConst : nowConst = IF m.const THEN const \cup {m.name} ELSE const
        OBVIOUS
      <3>3. PICK more : more = [lists EXCEPT ![m.len] = Append(@, m.name)]
        OBVIOUS
      <3>4. counted = [kind |-> Worse(kind), names |-> names, lengthOf |-> more,
                       arrays |-> arrays \cup {m.name}, const |-> nowConst]
        <4>1. PICK worse : worse = Worse(kind)
          OBVIOUS
        <4>2. known.kind = kind /\ known.lengthOf = lists /\ known.arrays = arrays /\ known.const = const
          BY <3>1
        <4>3. counted = [known EXCEPT !.kind = worse, !.lengthOf = more, !.arrays = arrays \cup {m.name},
                                      !.const = nowConst]
          BY <3>2, <3>3, <4>1, <4>2, Zenon DEF CountedBy
        <4> HIDE DEF counted
        <4>4. counted = [kind |-> worse, names |-> names, lengthOf |-> more,
                         arrays |-> arrays \cup {m.name}, const |-> nowConst]
          BY <3>1, <4>3
        <4> QED
          BY <4>1, <4>4
      <3> HIDE DEF counted
      <3> QED
        BY <3>1, <3>3, <3>4 DEF IsScan
    <2>2. DOMAIN lengths = ToSet(known.names)
      BY <1>6 DEF ScanInv
    <2>3. IsSeq(list) /\ ToSet(list) = ToSet(lengths[m.len]) \cup {m.name}
      BY <1>6, <1>9, AppendToSeq, AppendedElements DEF ScanInv
    <2> HIDE DEF counted
    <2>4. /\ DOMAIN counted.lengthOf = DOMAIN lengths
          /\ counted.lengthOf = [n \in DOMAIN counted.lengthOf |-> counted.lengthOf[n]]
          /\ counted.lengthOf[m.len] = list
          /\ \A n \in ToSet(known.names) \ {m.len} : counted.lengthOf[n] = lengths[n]
      BY <1>9, <2>1, <2>2
    <2> HIDE DEF list
    <2>5. m.name \notin known.arrays
      BY <1>1 DEF ScanInv
    <2>6. ASSUME NEW n \in ToSet(known.names)
          PROVE  /\ IsSeq(counted.lengthOf[n])
                 /\ ToSet(counted.lengthOf[n]) \subseteq ToSet(lengths[n]) \cup (IF n = m.len THEN {m.name} ELSE {})
                 /\ ToSet(lengths[n]) \subseteq known.arrays
      BY <1>6, <2>3, <2>4 DEF ScanInv
    <2>7. ASSUME NEW n1 \in ToSet(known.names), NEW n2 \in ToSet(known.names), n1 # n2
          PROVE  ToSet(counted.lengthOf[n1]) \cap ToSet(counted.lengthOf[n2]) = {}
      <3>1. ToSet(lengths[n1]) \cap ToSet(lengths[n2]) = {}
        BY <1>6, <2>7 DEF ScanInv
      <3> QED
        BY <2>5, <2>6, <2>7, <3>1
    <2>8. counted.arrays \subseteq ToSet(counted.names)
      BY <1>3, <1>6, <2>1 DEF ScanInv
    <2>9. \A n \in ToSet(known.names) : ToSet(counted.lengthOf[n]) \subseteq counted.arrays
      BY <2>1, <2>6
    <2>10. ScanInv(s, k + 1, counted)
      BY <1>6, <2>1, <2>2, <2>4, <2>6, <2>7, <2>8, <2>9 DEF ScanInv
    <2> QED
      BY <2>10 DEF counted
  <1> QED
    BY <1>5, <1>6, <1>7, <1>8, <1>9

\* So it is after all the members.
LEMMA ScanHasInv ==
    ASSUME NEW s, IsSeq(s.members),
           \A i, j \in DOMAIN s.members : s.members[i].name = s.members[j].name => i = j
    PROVE  ScanInv(s, Len(s.members), Scan(s))
  <1> DEFINE last == Len(s.members)
             T == {k \in 0 .. last : ~ScanInv(s, k, Scanned(s)[k])}
             R == OpToRel(<, Nat)
  <1>1. last \in Nat /\ DOMAIN s.members = 1 .. last
    BY AppendToSeq
  <1>2. Scanned(s)[0] = NoMembers
        /\ \A k \in 1 .. last : Scanned(s)[k] = ScanMember(s, Scanned(s)[k - 1], s.members[k])
    BY <1>1, ScannedStep
  <1>3. T = {}
    <2> SUFFICES ASSUME T # {} PROVE FALSE
      OBVIOUS
    <2>1. PICK k \in T : \A n \in T : <<n, k>> \notin R
      <3>1. T \subseteq Nat
        BY <1>1
      <3>2. IsWellFoundedOn(R, Nat)
        BY NatLessThanWellFounded
      <3> HIDE DEF R, T
      <3> QED
        BY <3>1, <3>2, WFMin
    <2>2. k \in 0 .. last /\ ~ScanInv(s, k, Scanned(s)[k])
      OBVIOUS
    <2>3. CASE k = 0
      <3>1. IsSeq(<<>>) /\ ToSet(<<>>) = {} /\ DOMAIN <<>> = {} /\ <<>> = [n \in DOMAIN <<>> |-> <<>>[n]]
        BY DEF IsSeq, ToSet
      <3>2. NoMembers.names = <<>> /\ NoMembers.lengthOf = <<>> /\ NoMembers.arrays = {} /\ IsScan(NoMembers)
        BY DEF NoMembers, IsScan
      <3>3. ScanInv(s, 0, NoMembers)
        BY <3>1, <3>2 DEF ScanInv
      <3> QED
        BY <1>2, <2>2, <2>3, <3>3
    <2>4. CASE k # 0
      <3>1. k \in 1 .. last /\ k - 1 \in 0 .. last /\ k - 1 \in Nat /\ k - 1 + 1 = k
        BY <1>1, <2>2, <2>4
      <3>2. <<k - 1, k>> \in R
        BY <2>2, <3>1 DEF OpToRel
      <3>3. k - 1 \notin T
        <4> HIDE DEF R, T
        <4> QED
          BY <2>1, <3>2
      <3> HIDE DEF R
      <3>4. PICK acc : acc = Scanned(s)[k - 1]
        OBVIOUS
      <3>5. ScanInv(s, k - 1, acc)
        BY <3>1, <3>3, <3>4
      <3>6. s.members[k].name \notin ToSet(acc.names)
        <4> SUFFICES ASSUME s.members[k].name \in ToSet(acc.names) PROVE FALSE
          OBVIOUS
        <4>1. PICK i \in 1 .. k - 1 : s.members[i].name = s.members[k].name
          BY <3>5 DEF ScanInv
        <4>2. i \in DOMAIN s.members /\ k \in DOMAIN s.members /\ i # k
          BY <1>1, <3>1, <4>1
        <4> QED
          BY <4>1, <4>2
      <3>7. ScanInv(s, k, ScanMember(s, acc, s.members[k]))
        BY <3>1, <3>5, <3>6, ScanMemberKeeps
      <3> QED
        BY <1>2, <2>2, <3>1, <3>4, <3>7
    <2> QED
      BY <2>3, <2>4
  <1>4. ScanInv(s, last, Scanned(s)[last])
    BY <1>1, <1>3
  <1> QED
    BY <1>4 DEF Scan

\* The first array of the same length is the head of the list that the array is in.
LEMMA FirstIsHead ==
    ASSUME NEW s, NEW k, NEW scan, ScanInv(s, k, scan),
           NEW n \in ToSet(scan.names), NEW a \in ToSet(scan.lengthOf[n])
    PROVE  /\ FirstOf(scan, a) = Head(scan.lengthOf[n])
           /\ a \in Firsts(scan) => a = Head(scan.lengthOf[n])
           /\ a \in scan.arrays
  <1>1. ASSUME NEW l, IsSeq(l) PROVE l # <<>> => Head(l) \in ToSet(l)
    <2>1. Len(l) \in Nat /\ DOMAIN l = 1 .. Len(l)
      BY <1>1, AppendToSeq
    <2>2. l # <<>> => Len(l) # 0
      BY <1>1 DEF IsSeq
    <2>3. l # <<>> => 1 \in DOMAIN l /\ Head(l) = l[1]
      BY <1>1, <2>1, <2>2 DEF IsSeq
    <2> QED
      BY <2>3 DEF ToSet
  <1>2. \A m \in ToSet(scan.names) : /\ IsSeq(scan.lengthOf[m])
                                     /\ ToSet(scan.lengthOf[m]) \subseteq scan.arrays
                                     /\ a \in ToSet(scan.lengthOf[m]) => m = n
    BY DEF ScanInv
  <1>3. scan.lengthOf[n] # <<>>
    BY DEF ToSet
  <1>4. Head(scan.lengthOf[n]) \in Firsts(scan)
    BY <1>3 DEF Firsts
  <1>5. ASSUME NEW f, f \in Firsts(scan), NEW m \in ToSet(scan.names), scan.lengthOf[m] # <<>>,
               Head(scan.lengthOf[m]) = f, a \in ToSet(scan.lengthOf[m])
        PROVE  f = Head(scan.lengthOf[n])
    BY <1>2, <1>5
  <1>6. FirstOf(scan, a) = Head(scan.lengthOf[n])
    BY <1>3, <1>4, <1>5 DEF FirstOf
  <1>7. a \in Firsts(scan) => a = Head(scan.lengthOf[n])
    <2> SUFFICES ASSUME a \in Firsts(scan) PROVE a = Head(scan.lengthOf[n])
      OBVIOUS
    <2>1. PICK m \in ToSet(scan.names) : scan.lengthOf[m] # <<>> /\ a = Head(scan.lengthOf[m])
      BY DEF Firsts
    <2>2. a \in ToSet(scan.lengthOf[m])
      BY <1>1, <1>2, <2>1
    <2> QED
      BY <1>2, <2>1, <2>2
  <1> QED
    BY <1>2, <1>6, <1>7

\* map(): an array that is there has as many elements as its count says, for
\* arrays of any sizes for which the assertions hold.
LEMMA CountsOfAnySize ==
    ASSUME NEW s, NEW k, NEW scan, ScanInv(s, k, scan),
           NEW size, \A a \in scan.const : size[a] # Absent, AssertsHold(scan, size),
           NEW n \in ToSet(scan.names), NEW a \in ToSet(scan.lengthOf[n])
    PROVE  SizesAfter(scan, size)[a] \in {Absent, MappedCount(scan, size, n)}
  <1> DEFINE start == Head(scan.lengthOf[n])
             after == SizesAfter(scan, size)[a]
  <1>1. FirstOf(scan, a) = start /\ (a \in Firsts(scan) => a = start) /\ a \in scan.arrays
    BY FirstIsHead
  <1>2. after = IF a \in Others(scan) \ scan.const /\ size[a] # Absent THEN size[start] ELSE size[a]
    BY <1>1 DEF SizesAfter
  <1>3. MappedCount(scan, size, n) = IF size[start] = Absent THEN 0 ELSE size[start]
    BY DEF MappedCount
  <1>4. a \in Others(scan) /\ a \in scan.const => size[a] = size[start] /\ size[a] # Absent
    BY <1>1 DEF AssertsHold
  <1>5. a \notin Others(scan) => a = start
    BY <1>1 DEF Others
  <1> HIDE DEF start, after
  <1>6. CASE a = start
    BY <1>2, <1>3, <1>6 DEF after, start
  <1>7. CASE a \in Others(scan) \ scan.const
    BY <1>2, <1>3, <1>7 DEF after, start
  <1>8. CASE a \in Others(scan) /\ a \in scan.const
    BY <1>2, <1>3, <1>4, <1>8 DEF after, start
  <1> QED
    BY <1>5, <1>6, <1>7, <1>8

\* genStruct: in any interface whose structs have members of distinct names, the
\* map() of every struct that is emitted is well-formed and returns true counts.
THEOREM MappedCountsHold == HeaderSpec => []MappedCountsAreTrue
  <1>1. HeaderInv => MappedCountsAreTrue
    <2> SUFFICES ASSUME HeaderInv, NEW i \in DOMAIN sections, sections[i].live
                 PROVE  /\ Compiles(sections[i].scan)
                        /\ \A size : (/\ \A a \in sections[i].scan.const : size[a] # Absent
                                      /\ AssertsHold(sections[i].scan, size)) =>
                              \A n \in ToSet(sections[i].scan.names) : \A a \in ToSet(sections[i].scan.lengthOf[n]) :
                                 SizesAfter(sections[i].scan, size)[a] \in {Absent, MappedCount(sections[i].scan, size, n)}
      BY DEF MappedCountsAreTrue
    <2>0. PICK f \in ToSet(interface) : \E s \in ToSet(f.types) : ~Skips(s) /\ sections[i] = Body(s)
      BY DEF HeaderInv, BodiesInv
    <2>1. PICK s \in ToSet(f.types) : ~Skips(s) /\ sections[i] = Body(s)
      BY <2>0
    <2>2. sections[i].scan = Scan(s) /\ Scan(s).kind = "straightforward" /\ s.name \notin BrokenStructs
      <3>1. PICK scan, live : scan = Scan(s) /\ live = (Scan(s).kind = "straightforward")
        OBVIOUS
      <3>2. sections[i] = [name |-> s.name, live |-> live, scan |-> scan]
        BY <2>1, <3>1, Zenon DEF Body
      <3>3. sections[i].scan = scan /\ live
        BY <3>2
      <3> QED
        BY <2>1, <3>1, <3>3, Zenon DEF Skips
    <2>3. /\ IsSeq(s.members)
          /\ \A p, q \in DOMAIN s.members : s.members[p].name = s.members[q].name => p = q
          /\ Scan(s).kind = "straightforward" /\ ~Compiles(Scan(s)) => s.name \in BrokenStructs
      BY <2>1, StructsAssumption DEF StructsAssumption, HeaderInv, HeaderTypes, IsSeq
    <2>4. Compiles(Scan(s))
      BY <2>2, <2>3
    <2>5. ScanInv(s, Len(s.members), Scan(s))
      BY <2>3, ScanHasInv
    <2> QED
      BY <2>2, <2>4, <2>5, CountsOfAnySize
  <1> QED
    BY <1>1, HeaderInvariance, PTL
=============================================================================
