----------------------------- MODULE Benchmark -----------------------------
(***************************************************************************)
(* tools/benchmark.py: builds and measures commits in the working tree, by *)
(* switching it to the commit and back (GitSwitcher), and compares the     *)
(* results, which are kept in one file per commit.  Every step is a child  *)
(* process that may fail; the user may interrupt the script or kill it.    *)
(* git, cmake, the benchmark and compare.py are external.                  *)
(*                                                                         *)
(* Edits that are not committed are left out. git switch carries them      *)
(* along, or fails: what is built is then the commit with the edits.       *)
(***************************************************************************)
EXTENDS Naturals, Sequences, SequencesExt, FiniteSets

CONSTANTS Commits, Branches,
          Tip,            \* [Branches -> Commits]
          MaxCommands,    \* bound: how often the script is started
          None

ASSUME BenchmarkAssumption ==
    /\ Tip \in [Branches -> Commits] /\ MaxCommands \in Nat
    /\ Branches \cap Commits = {} /\ "HEAD" \notin Branches \cup Commits

Refs == Branches \cup Commits \cup {"HEAD"}

VARIABLES
    head,       \* the branch that is checked out, or a commit: HEAD is detached
    binary,     \* the commit that the binary directory was built from, or None
    results,    \* the file of each commit: [state \in {"none", "part", "whole"}, of]
    commands,   \* how often the script was started
    pc,         \* where the script is; "idle" if it does not run
    refs,       \* the refs it was started with
    files,      \* the commits whose results it has
    commit,     \* commit_hash
    saved,      \* GitSwitcher.head: a branch, or "HEAD" if HEAD was detached
    raised,     \* an exception is on its way through the with statement
    first,      \* history: what HEAD and the refs were when the script started
    unclean,    \* history: a git switch failed or was cut short, or a kill
    report      \* the commits that the last comparison was of, or <<>>

vars == <<head, binary, results, commands, pc, refs, files, commit, saved, raised, first, unclean, report>>
script == <<commands, refs, first>>

\* Inside the with statement
Inside == {"configure", "build", "run", "running"}

At(h) == IF h \in Branches THEN Tip[h] ELSE h
\* git rev-parse, when HEAD is h
Resolved(ref, h) == IF ref = "HEAD" THEN At(h) ELSE At(ref)
RevParse(ref) == Resolved(ref, head)

Init ==
    /\ head \in Branches \cup Commits
    /\ binary = None /\ results = [c \in Commits |-> [state |-> "none", of |-> None]]
    /\ commands = 0 /\ pc = "idle" /\ refs = <<>> /\ files = <<>> /\ commit = None
    /\ saved = None /\ raised = FALSE /\ first = [head |-> head, commits |-> <<>>]
    /\ unclean = FALSE /\ report = <<>>

\* "commit" with one ref, "compare" with two
Start(rs) ==
    /\ pc = "idle" /\ commands < MaxCommands
    /\ commands' = commands + 1 /\ pc' = "resolve" /\ refs' = rs /\ files' = <<>>
    /\ raised' = FALSE /\ unclean' = FALSE
    /\ first' = [head |-> head, commits |-> [i \in DOMAIN rs |-> RevParse(rs[i])]]
    /\ report' = <<>>
    /\ UNCHANGED <<head, binary, results, commit, saved>>

\* benchmark_commit: results that are there are used; otherwise GitSwitcher()
Resolve ==
    LET c == RevParse(refs[Len(files) + 1])
    IN  /\ pc = "resolve" /\ Len(files) < Len(refs)
        /\ commit' = c
        /\ IF results[c].state # "none"
           THEN files' = Append(files, c) /\ UNCHANGED <<pc, saved>>
           ELSE /\ saved' = IF head \in Branches THEN head ELSE "HEAD"
                /\ pc' = "enter" /\ UNCHANGED files
        /\ UNCHANGED <<head, binary, results, raised, unclean, report, script>>

\* Mutant: the result of git switch is not checked.
EnterUnchecked(ok) ==
    /\ pc = "enter"
    /\ head' = IF ok THEN commit ELSE head
    /\ pc' = "configure"
    /\ UNCHANGED <<binary, results, files, commit, saved, raised, unclean, report, script>>

\* __enter__: when it raises, __exit__ is not called.
Enter(ok) ==
    /\ pc = "enter"
    /\ head' = IF ok THEN commit ELSE head
    /\ pc' = IF ok THEN "configure" ELSE "idle"
    /\ UNCHANGED <<binary, results, files, commit, saved, raised, unclean, report, script>>

\* rmtree may leave the directory as it is (ignore_errors)
Configure(ok) ==
    /\ pc = "configure"
    /\ binary' \in {None, binary}
    /\ pc' = IF ok THEN "build" ELSE "exit"
    /\ raised' = ~ok
    /\ UNCHANGED <<head, results, files, commit, saved, unclean, report, script>>

\* The commit in the tree is built, and with it the edits that git carried along.
Build(ok) ==
    /\ pc = "build"
    /\ IF ok THEN binary' = At(head) ELSE binary' \in {None, binary}
    /\ pc' = IF ok THEN "run" ELSE "exit"
    /\ raised' = ~ok
    /\ UNCHANGED <<head, results, files, commit, saved, unclean, report, script>>

\* The benchmark opens its output when it starts.
StartBenchmark ==
    /\ pc = "run"
    /\ results' = [results EXCEPT ![commit] = [state |-> "part", of |-> binary]]
    /\ pc' = "running"
    /\ UNCHANGED <<head, binary, files, commit, saved, raised, unclean, report, script>>

EndBenchmark(ok) ==
    /\ pc = "running"
    /\ results' = IF ok THEN [results EXCEPT ![commit] = [state |-> "whole", of |-> results[commit].of]] ELSE results
    /\ pc' = "exit" /\ raised' = ~ok
    /\ UNCHANGED <<head, binary, files, commit, saved, unclean, report, script>>

\* git switch HEAD always fails: git wants the name of a branch.
Switched(ok) == ok /\ saved \in Branches

\* Mutant: the tree is switched back only if nothing was raised.
ExitUnlessRaised(ok) ==
    /\ pc = "exit"
    /\ head' = IF Switched(ok) /\ ~raised THEN saved ELSE head
    /\ files' = IF Switched(ok) /\ ~raised THEN Append(files, commit) ELSE files
    /\ pc' = IF Switched(ok) /\ ~raised THEN "resolve" ELSE "idle"
    /\ unclean' = (unclean \/ ~Switched(ok))
    /\ UNCHANGED <<binary, results, commit, saved, raised, report, script>>

\* __exit__; then the exception goes on, or the file is returned
Exit(ok) ==
    /\ pc = "exit"
    /\ head' = IF Switched(ok) THEN saved ELSE head
    /\ files' = IF Switched(ok) /\ ~raised THEN Append(files, commit) ELSE files
    /\ pc' = IF Switched(ok) /\ ~raised THEN "resolve" ELSE "idle"
    /\ unclean' = (unclean \/ ~Switched(ok))
    /\ UNCHANGED <<binary, results, commit, saved, raised, report, script>>

\* compare.py reads both files, and fails on one that is not whole.
Compare(ok) ==
    /\ pc = "resolve" /\ Len(files) = Len(refs)
    /\ ok => \A c \in ToSet(files) : results[c].state = "whole"
    /\ report' = IF ok /\ Len(refs) = 2 THEN files ELSE <<>>
    /\ pc' = "idle"
    /\ UNCHANGED <<head, binary, results, files, commit, saved, raised, unclean, script>>

\* KeyboardInterrupt: the child process ends with it, a switch before or after
\* it is done.  Inside the with statement __exit__ is called.
Interrupt ==
    /\ \/ /\ pc \in Inside /\ pc' = "exit" /\ raised' = TRUE
          /\ UNCHANGED <<head, unclean>>
       \/ /\ pc = "enter" /\ head' \in {head, commit}
          /\ pc' = "idle" /\ unclean' = TRUE /\ UNCHANGED raised
       \/ /\ pc = "exit" /\ head' \in {head} \cup ({saved} \cap Branches)
          /\ pc' = "idle" /\ unclean' = TRUE /\ UNCHANGED raised
       \/ /\ pc = "resolve" /\ pc' = "idle" /\ UNCHANGED <<head, raised, unclean>>
    /\ UNCHANGED <<binary, results, files, commit, saved, report, script>>

Kill ==
    /\ pc # "idle"
    /\ pc' = "idle" /\ unclean' = TRUE
    /\ UNCHANGED <<head, binary, results, files, commit, saved, raised, report, script>>

\* The user switches to a branch between two runs.
Checkout ==
    /\ pc = "idle"
    /\ head' \in Branches
    /\ first' = [head |-> head', commits |-> <<>>] /\ unclean' = FALSE
    /\ report' = <<>>
    /\ UNCHANGED <<binary, results, commands, pc, refs, files, commit, saved, raised>>

Next ==
    \/ \E a, b \in Refs : Start(<<a>>) \/ Start(<<a, b>>)
    \/ Resolve
    \/ \E ok \in BOOLEAN : Enter(ok) \/ Configure(ok) \/ Build(ok) \/ EndBenchmark(ok) \/ Exit(ok) \/ Compare(ok)
    \/ StartBenchmark \/ Interrupt \/ Kill \/ Checkout

Spec == Init /\ [][Next]_vars

(***************************************************************************)
(* Properties                                                              *)
(***************************************************************************)

TypeOK ==
    /\ head \in Branches \cup Commits
    /\ binary \in Commits \cup {None}
    /\ results \in [Commits -> [state : {"none", "part", "whole"}, of : Commits \cup {None}]]
    /\ commands \in Nat
    /\ pc \in Inside \cup {"idle", "resolve", "enter", "exit"}
    /\ refs \in Seq(Refs) /\ files \in Seq(Commits)
    /\ commit \in Commits \cup {None} /\ saved \in Branches \cup {"HEAD", None}
    /\ raised \in BOOLEAN /\ unclean \in BOOLEAN
    /\ first \in [head : Branches \cup Commits, commits : Seq(Commits)]
    /\ report \in Seq(Commits)

\* GitSwitcher and benchmark_commit: whatever fails or is interrupted, in this
\* run or in earlier ones, the results in the file of a commit are measured with
\* a build of that commit (with the edits that are in the tree), and a comparison
\* that succeeds is of the commits that the refs named when the script was
\* started, HEAD included.
MeasurementsAreOfTheirCommit ==
    /\ \A c \in Commits : results[c].state # "none" => results[c].of = c
    /\ report # <<>> => report = first.commits /\ \A c \in ToSet(report) : results[c].state = "whole"

\* GitSwitcher: a script that was started on a branch leaves the tree on that
\* branch, also when a build or a benchmark failed or was interrupted, unless
\* git itself failed to switch back, a switch was interrupted, or it was killed.
BackOnTheBranch == (pc = "idle" /\ ~unclean /\ first.head \in Branches) => head = first.head
=============================================================================
