--------------------------- MODULE FileListsProofs ---------------------------
(***************************************************************************)
(* Proofs about FileLists: types, FileLists.cmake is never a partly        *)
(* written file, and when nothing is left to do the lists are current, for *)
(* any projects, files and processes.                                      *)
(***************************************************************************)
EXTENDS FileLists, TLAPS

(***************************************************************************)
(* The inductive invariant.                                                *)
(***************************************************************************)

\* A run that has not opened the temporary file
Before == {"waiting", "getcwd", "chdir", "walk", "restore", "open"}

\* A run that has written it, and has not removed or renamed it
After == {"compare", "remove", "unlink", "rename"}

\* The files that were p's at the start, and those that runs for p create
FilesOf(p) ==
    {p} \cup {f \in {Left} : p = Killed} \cup {i \in DOMAIN runs : runs[i].dir = p}

(* The files of two projects are different: what a run opens, and what the *)
(* names of its project refer to, belongs to that project; a file has one  *)
(* name, and a run that has yet to open its file is not the name of any.   *)
FilesInv ==
    /\ \A p \in Projects : out[p] # NoFile => out[p] \in FilesOf(p) /\ out[p] \in DOMAIN content
    /\ \A p \in Projects : temp[p] # NoFile => temp[p] \in FilesOf(p) /\ temp[p] \in DOMAIN content
    /\ \A p \in Projects : out[p] # NoFile => out[p] # temp[p]
    /\ \A i \in DOMAIN runs : runs[i].pc = "write" =>
          runs[i].file \in FilesOf(runs[i].dir) /\ runs[i].file \in DOMAIN content
    /\ \A i \in DOMAIN runs : runs[i].pc \in Before =>
          \A p \in Projects : out[p] # i /\ temp[p] # i

(* The history variables: runs that are active together overlap, and so do *)
(* a project's last run and those of its runs that outlive it.  A timer    *)
(* belongs to its project, and a run that waits has found nothing yet.     *)
HistoryInv ==
    /\ \A i, j \in Active : i # j => {i, j} \in overlaps
    /\ \A p \in Projects : last[p] # NoTimer =>
          /\ runs[last[p]].dir = p
          /\ runs[last[p]].pc \notin {"waiting", "cancelled"}
          /\ \A j \in Active : runs[j].dir = p /\ j # last[p] => {last[p], j} \in overlaps
    /\ \A i \in DOMAIN runs :
          runs[i].pc \notin {"waiting", "cancelled"} => last[runs[i].dir] # NoTimer
    /\ \A c \in Procs, p \in Projects : timer[c][p] # NoTimer =>
          timer[c][p] \in DOMAIN runs /\ runs[timer[c][p]].dir = p
    /\ \A i \in DOMAIN runs : runs[i].pc = "waiting" =>
          runs[i].files = {} /\ runs[i].subdir = "src"

\* Two runs for p overlapped.
Shared(p) == \E o \in overlaps : \A i \in o : runs[i].dir = p

(* The list of p is whole, a run that writes does so to the temporary file *)
(* (which is not the list), and then that is whole too.                    *)
WholeAt(p) ==
    /\ out[p] # NoFile => content[out[p]] # Partial
    /\ \A i \in DOMAIN runs : runs[i].dir = p =>
          /\ runs[i].pc = "write" => runs[i].file = temp[p]
          /\ runs[i].pc \in After /\ temp[p] # NoFile => content[temp[p]] # Partial

WholeInv == \A p \in Projects : Shared(p) \/ WholeAt(p)

\* A run for p will start, or an event that starts one or is counted as ignored.
Covered(p) ==
    \/ \E c \in Procs : pending[c][p] > 0
    \/ \E i \in DOMAIN runs : runs[i].dir = p /\ runs[i].pc = "waiting"

Disturbed(p) ==
    \E o \in overlaps : last[p] \in o /\ \E i, j \in o : i # j /\ Disturbs(i, j)

\* The part of p's list that the first call of add_source_files finds
FirstPart(p) == {e \in Listing(tree[p]) : e[1] = "src"}

\* What run r has found and written so far is right for the tree as it is.
OnCourse(p, r) ==
    /\ r.pc \in {"getcwd", "chdir", "walk"} =>
          r.files = IF r.subdir = "src" THEN {} ELSE FirstPart(p)
    /\ r.pc = "walk" => cwd[r.proc] = p
    /\ r.pc = "restore" =>
          r.files = IF r.subdir = "src" THEN FirstPart(p) ELSE Listing(tree[p])
    /\ r.pc \in {"open", "write"} => r.files = Listing(tree[p])
    /\ r.pc = "write" => temp[p] = r.file
    /\ r.pc \in After => temp[p] # NoFile /\ content[temp[p]] = Listing(tree[p])
    /\ r.pc \in {"remove", "done"} => Current(p)
    /\ r.pc # "died"

Good(p) == IF last[p] = NoTimer THEN Current(p) ELSE OnCourse(p, runs[last[p]])

(* Every change after the last run of p started is counted as unheard of,  *)
(* or will start another run; otherwise that run, unless it was disturbed, *)
(* finds, and leaves, the list of the sources that are there.              *)
CurrentInv ==
    \A p \in Projects : p \in stale \/ Covered(p) \/ Disturbed(p) \/ Good(p)

Inv == TypeOK /\ FilesInv /\ HistoryInv /\ WholeInv /\ CurrentInv

(***************************************************************************)
(* Types.                                                                  *)
(***************************************************************************)

\* The steps of the processes in watch mode keep their types.
LEMMA ServerTypes ==
    ASSUME ServerTypeOK,
           \/ \E c \in Procs : Connect(c) \/ Interrupt(c) \/ ServerStep(c) \/ Receive(c)
           \/ UNCHANGED serverVars
    PROVE  ServerTypeOK'
<1> DEFINE Places == {"main", "sent", "done", "failed"} \cup Observing
<1> USE DEF Observing, Serving
<1>1. /\ pc \in [Procs -> Places]
      /\ backlog \in Seq(Procs)
      /\ port \in Procs \cup {Nobody} /\ conn \in Procs \cup {Nobody}
      /\ reply \in [Procs -> Replies]
  BY DEF ServerTypeOK
<1>2. running \in BOOLEAN
  BY DEF ServerTypeOK
<1> DEFINE Typed == /\ pc' \in [Procs -> Places]
                    /\ backlog' \in Seq(Procs)
                    /\ port' \in Procs \cup {Nobody} /\ conn' \in Procs \cup {Nobody}
                    /\ reply' \in [Procs -> Replies]
                    /\ running' \in BOOLEAN
<1> SUFFICES Typed
  BY DEF ServerTypeOK
<1>3. ASSUME NEW c \in Procs, CloseSocket(c)
      PROVE  /\ pc' \in [Procs -> Places] /\ backlog' \in Seq(Procs)
             /\ port' = Nobody /\ conn' = Nobody
  <2>1. pc' \in [Procs -> Places]
    <3> DEFINE B == ToSet(backlog)
    <3>1. pc' = [x \in Procs |-> IF x = c THEN "closing" ELSE IF x \in B THEN "failed" ELSE pc[x]]
      BY <1>3 DEF CloseSocket, Closed
    <3> HIDE DEF B
    <3> QED  BY <1>1, <3>1
  <2> QED  BY <1>3, <2>1 DEF CloseSocket
<1>4. CASE UNCHANGED serverVars
  BY <1>1, <1>2, <1>4 DEF serverVars
<1>5. ASSUME NEW c \in Procs, Connect(c) PROVE backlog' \in Seq(Procs) /\ pc' \in [Procs -> Places]
  <2>1. CASE port = Nobody
    BY <1>1, <1>5, <2>1 DEF Connect, Unanswered
  <2>2. CASE port # Nobody
    BY <1>1, <1>5, <2>2 DEF Connect
  <2> QED  BY <2>1, <2>2
<1>6. ASSUME NEW c \in Procs, Interrupt(c) PROVE running' \in BOOLEAN /\ reply' \in [Procs -> Replies]
  BY <1>1, <1>6 DEF Interrupt, Replies
<1>7. ASSUME NEW c \in Procs, Bind(c) PROVE pc' \in [Procs -> Places] /\ port' \in Procs \cup {Nobody}
  BY <1>1, <1>7 DEF Bind
<1>8. ASSUME NEW c \in Procs, Accept(c)
      PROVE  pc' \in [Procs -> Places] /\ conn' \in Procs /\ backlog' \in Seq(Procs)
  BY <1>1, <1>8 DEF Accept
<1>9. ASSUME NEW c \in Procs, Serve(c) PROVE running' \in BOOLEAN /\ reply' \in [Procs -> Replies]
  BY <1>1, <1>9 DEF Serve, Replies
<1>10. ASSUME NEW c \in Procs, EndConnection(c)
       PROVE  /\ pc' \in [Procs -> Places] /\ backlog' \in Seq(Procs)
              /\ port' \in Procs \cup {Nobody} /\ conn' \in Procs \cup {Nobody}
  BY <1>1, <1>3, <1>10 DEF EndConnection
<1>11. ASSUME NEW c \in Procs, StopObserver(c) PROVE pc' \in [Procs -> Places]
  BY <1>1, <1>11 DEF StopObserver
<1>12. ASSUME NEW c \in Procs, Receive(c) PROVE pc' \in [Procs -> Places]
  BY <1>1, <1>12 DEF Receive, Unanswered
<1>13. ASSUME NEW c \in Procs, Connect(c) \/ Interrupt(c) \/ ServerStep(c) \/ Receive(c) PROVE Typed
  <2>1. CASE Connect(c)
    BY <1>1, <1>2, <1>5, <2>1 DEF Connect
  <2>2. CASE Interrupt(c)
    BY <1>1, <1>3, <1>6, <2>2 DEF Interrupt
  <2>3. CASE Bind(c)
    BY <1>1, <1>2, <1>7, <2>3 DEF Bind
  <2>4. CASE Accept(c)
    BY <1>1, <1>2, <1>8, <2>4 DEF Accept
  <2>5. CASE Serve(c)
    BY <1>1, <1>9, <2>5 DEF Serve
  <2>6. CASE EndConnection(c)
    BY <1>1, <1>2, <1>10, <2>6 DEF EndConnection
  <2>7. CASE StopObserver(c)
    BY <1>1, <1>2, <1>11, <2>7 DEF StopObserver
  <2>8. CASE Receive(c)
    BY <1>1, <1>2, <1>12, <2>8 DEF Receive
  <2> QED  BY <1>13, <2>1, <2>2, <2>3, <2>4, <2>5, <2>6, <2>7, <2>8 DEF ServerStep
<1> QED  BY <1>4, <1>13

\* One run becomes r, the others stay as they are.
LEMMA StepRuns ==
    ASSUME runs \in Seq(Run), NEW i \in DOMAIN runs, NEW r \in Run,
           runs' = [runs EXCEPT ![i] = r]
    PROVE  /\ runs' \in Seq(Run) /\ Len(runs') = Len(runs)
           /\ DOMAIN runs' = DOMAIN runs
           /\ runs'[i] = r
           /\ \A j \in DOMAIN runs : j # i => runs'[j] = runs[j]
  OBVIOUS

\* A run is added.
LEMMA AppendRuns ==
    ASSUME NEW s \in Seq(Run), NEW r \in Run, runs' = Append(s, r)
    PROVE  /\ runs' \in Seq(Run) /\ Len(runs') = Len(s) + 1
           /\ DOMAIN runs' = DOMAIN s \cup {Len(s) + 1}
           /\ Len(s) + 1 \notin DOMAIN s
           /\ runs'[Len(s) + 1] = r
           /\ \A j \in DOMAIN s : runs'[j] = s[j]
  OBVIOUS

\* The fields of a run, and a run after its place and another field changed
LEMMA RunFields ==
    ASSUME NEW r \in Run
    PROVE  /\ r.proc \in Procs \cup {Batch} /\ r.dir \in Projects
           /\ r.pc \in Steps \cup Ended \cup {"waiting"}
           /\ r.subdir \in Subdirs /\ r.saved \in Dirs
           /\ r.files \subseteq Entries /\ r.file \in FileIds \cup {NoFile}
  BY DEF Run

\* A record of fields of the right types is a run.
LEMMA RunRecord ==
    ASSUME NEW q \in Procs \cup {Batch}, NEW p \in Projects, NEW at \in Steps \cup Ended \cup {"waiting"},
           NEW d \in Subdirs, NEW sv \in Dirs, NEW fs \in SUBSET Entries, NEW f \in FileIds \cup {NoFile}
    PROVE  [proc |-> q, dir |-> p, pc |-> at, subdir |-> d, saved |-> sv, files |-> fs, file |-> f] \in Run
  BY DEF Run

\* A run of which only the place changed
LEMMA AtRecord ==
    ASSUME runs \in Seq(Run), NEW i \in DOMAIN runs, NEW to \in Steps \cup Ended \cup {"waiting"},
           NEW r, r = At(i, to)
    PROVE  /\ r \in Run
           /\ r.proc = runs[i].proc /\ r.dir = runs[i].dir /\ r.pc = to
           /\ r.subdir = runs[i].subdir /\ r.saved = runs[i].saved
           /\ r.files = runs[i].files /\ r.file = runs[i].file
<1>1. runs[i] \in Run
  OBVIOUS
<1> QED  BY <1>1 DEF At, Run

(***************************************************************************)
(* What steps do.                                                          *)
(***************************************************************************)

\* The variables that the invariants are about
core == <<tree, out, temp, content, cwd, runs, timer, pending, stale, overlaps, last>>

CoreTypes ==
    /\ tree \in [Projects -> [Subdirs -> SUBSET Files]]
    /\ out \in [Projects -> FileIds \cup {NoFile}]
    /\ temp \in [Projects -> FileIds \cup {NoFile}]
    /\ content \in [DOMAIN content -> {Partial} \cup SUBSET Entries]
    /\ DOMAIN content \subseteq FileIds
    /\ cwd \in [Procs \cup {Batch} -> Dirs]
    /\ runs \in Seq(Run)
    /\ timer \in [Procs -> [Projects -> Nat \cup {NoTimer}]]
    /\ pending \in [Procs -> [Projects -> Nat]]
    /\ stale \subseteq Projects
    /\ overlaps \subseteq SUBSET DOMAIN runs
    /\ last \in [Projects -> DOMAIN runs \cup {NoTimer}]

\* A step of run i of gen_filelist
GenStep(i) ==
    \/ GetCwd(i) \/ ChDir(i) \/ Walk(i) \/ RestoreCwd(i) \/ OpenTemp(i)
    \/ WriteTemp(i) \/ Compare(i) \/ RemoveTemp(i) \/ RemoveOld(i) \/ Rename(i)

\* What all of these do
Moves(i) ==
    /\ runs[i].pc \in Steps
    /\ runs' \in Seq(Run)
    /\ DOMAIN runs' = DOMAIN runs
    /\ \A j \in DOMAIN runs : j # i => runs'[j] = runs[j]
    /\ runs'[i].dir = runs[i].dir /\ runs'[i].proc = runs[i].proc
    /\ runs'[i].pc \in Steps \cup {"done", "died"}
    /\ UNCHANGED <<tree, timer, pending, stale, overlaps, last>>

\* A step to a record that has the same process and directory is such a move.
LEMMA MoveTo ==
    ASSUME CoreTypes, NEW i \in DOMAIN runs, NEW from \in Steps, NEW r \in Run, Step(i, from, r),
           r.dir = runs[i].dir, r.proc = runs[i].proc, r.pc \in Steps \cup {"done", "died"}, Rest(i)
    PROVE  Moves(i) /\ runs[i].pc = from /\ runs'[i] = r
<1>1. runs \in Seq(Run) /\ runs[i].pc = from /\ runs' = [runs EXCEPT ![i] = r]
  BY DEF CoreTypes, Step
<1>2. UNCHANGED <<tree, timer, pending, stale, overlaps, last>>
  BY DEF Rest, world, watch, history
<1> QED  BY <1>1, <1>2, StepRuns DEF Moves

\* add_source_files, flattened: what the four steps do to the run and to cwd
LEMMA GetCwdFacts ==
    ASSUME CoreTypes, NEW i \in DOMAIN runs, GetCwd(i)
    PROVE  /\ Moves(i) /\ runs[i].pc = "getcwd" /\ runs'[i].pc = "chdir"
           /\ runs'[i].subdir = runs[i].subdir /\ runs'[i].files = runs[i].files
           /\ UNCHANGED <<out, temp, content, cwd>>
<1>1. runs \in Seq(Run) /\ cwd \in [Procs \cup {Batch} -> Dirs] /\ runs[i] \in Run
  BY DEF CoreTypes
<1>2. PICK a : a = At(i, "chdir")
  OBVIOUS
<1>3. PICK r : r = [a EXCEPT !.saved = cwd[runs[i].proc]]
  OBVIOUS
<1>4. /\ a \in Run /\ a.pc = "chdir" /\ a.proc = runs[i].proc /\ a.dir = runs[i].dir
      /\ a.files = runs[i].files /\ a.subdir = runs[i].subdir
  BY <1>1, <1>2, AtRecord DEF Steps
<1>5. cwd[runs[i].proc] \in Dirs
  BY <1>1, RunFields
<1>6. /\ r \in Run /\ r.pc = "chdir" /\ r.proc = runs[i].proc /\ r.dir = runs[i].dir
      /\ r.files = runs[i].files /\ r.subdir = runs[i].subdir
  BY <1>3, <1>4, <1>5 DEF Run
<1>7. Step(i, "getcwd", r) /\ Rest(i) /\ UNCHANGED <<cwd, disk>>
  BY <1>2, <1>3 DEF GetCwd
<1> QED  BY <1>6, <1>7, MoveTo DEF Steps, disk

\* os.chdir(dir) changes the working directory of the whole process.
LEMMA ChDirFacts ==
    ASSUME CoreTypes, NEW i \in DOMAIN runs, ChDir(i)
    PROVE  /\ Moves(i) /\ runs[i].pc = "chdir" /\ runs'[i].pc = "walk"
           /\ runs'[i].subdir = runs[i].subdir /\ runs'[i].files = runs[i].files
           /\ cwd' = [cwd EXCEPT ![runs[i].proc] = runs[i].dir]
           /\ UNCHANGED <<out, temp, content>>
<1>1. runs \in Seq(Run)
  BY DEF CoreTypes
<1>2. PICK r : r = At(i, "walk")
  OBVIOUS
<1>3. /\ r \in Run /\ r.pc = "walk" /\ r.proc = runs[i].proc /\ r.dir = runs[i].dir
      /\ r.files = runs[i].files /\ r.subdir = runs[i].subdir
  BY <1>1, <1>2, AtRecord DEF Steps
<1>4. /\ Step(i, "chdir", r) /\ Rest(i) /\ UNCHANGED disk
      /\ cwd' = [cwd EXCEPT ![runs[i].proc] = runs[i].dir]
  BY <1>2 DEF ChDir
<1> QED  BY <1>3, <1>4, MoveTo DEF Steps, disk

\* os.walk finds what is in the working directory of the process.
LEMMA WalkFacts ==
    ASSUME CoreTypes, NEW i \in DOMAIN runs, Walk(i)
    PROVE  /\ Moves(i) /\ runs[i].pc = "walk" /\ runs'[i].pc = "restore"
           /\ runs'[i].subdir = runs[i].subdir
           /\ runs'[i].files = runs[i].files \cup Found(runs[i], cwd[runs[i].proc])
           /\ UNCHANGED <<out, temp, content, cwd>>
<1>1. runs \in Seq(Run) /\ runs[i] \in Run
  BY DEF CoreTypes
<1>2. PICK a : a = At(i, "restore")
  OBVIOUS
<1>3. PICK fs : fs = runs[i].files \cup Found(runs[i], cwd[runs[i].proc])
  OBVIOUS
<1>4. PICK r : r = [a EXCEPT !.files = fs]
  OBVIOUS
<1>5. /\ a \in Run /\ a.pc = "restore" /\ a.proc = runs[i].proc /\ a.dir = runs[i].dir
      /\ a.subdir = runs[i].subdir
  BY <1>1, <1>2, AtRecord DEF Steps
<1>6. fs \in SUBSET Entries
  <2>1. Found(runs[i], cwd[runs[i].proc]) \subseteq Entries
    BY DEF Found, Listing, Entries
  <2> QED  BY <1>1, <1>3, <2>1, RunFields
<1>7. /\ r \in Run /\ r.pc = "restore" /\ r.proc = runs[i].proc /\ r.dir = runs[i].dir
      /\ r.files = fs /\ r.subdir = runs[i].subdir
  BY <1>4, <1>5, <1>6 DEF Run
<1>8. Step(i, "walk", r) /\ Rest(i) /\ UNCHANGED <<cwd, disk>>
  BY <1>2, <1>3, <1>4 DEF Walk
<1> QED  BY <1>3, <1>7, <1>8, MoveTo DEF Steps, disk

\* os.chdir(cwd), and on to the second call or to open
LEMMA RestoreCwdFacts ==
    ASSUME CoreTypes, NEW i \in DOMAIN runs, RestoreCwd(i)
    PROVE  /\ Moves(i) /\ runs[i].pc = "restore"
           /\ runs'[i].pc = IF runs[i].subdir = "src" THEN "getcwd" ELSE "open"
           /\ runs'[i].subdir = "include" /\ runs'[i].files = runs[i].files
           /\ cwd' = [cwd EXCEPT ![runs[i].proc] = runs[i].saved]
           /\ UNCHANGED <<out, temp, content>>
<1>1. runs \in Seq(Run) /\ runs[i] \in Run
  BY DEF CoreTypes
<1>2. PICK to : to = IF runs[i].subdir = "src" THEN "getcwd" ELSE "open"
  OBVIOUS
<1>3. PICK a : a = At(i, to)
  OBVIOUS
<1>4. PICK r : r = [a EXCEPT !.subdir = "include", !.saved = Start]
  OBVIOUS
<1>5. to \in Steps
  BY <1>2 DEF Steps
<1>6. /\ a \in Run /\ a.pc = to /\ a.proc = runs[i].proc /\ a.dir = runs[i].dir
      /\ a.files = runs[i].files
  BY <1>1, <1>3, <1>5, AtRecord
<1>7. /\ r \in Run /\ r.pc = to /\ r.proc = runs[i].proc /\ r.dir = runs[i].dir
      /\ r.files = runs[i].files /\ r.subdir = "include"
  BY <1>4, <1>6 DEF Run, Subdirs, Dirs
<1>8. /\ Step(i, "restore", r) /\ Rest(i) /\ UNCHANGED disk
      /\ cwd' = [cwd EXCEPT ![runs[i].proc] = runs[i].saved]
  BY <1>2, <1>3, <1>4 DEF RestoreCwd
<1> QED  BY <1>2, <1>5, <1>7, <1>8, MoveTo DEF Steps, disk

\* The rest of gen_filelist, flattened: what its steps do to the run and the files
LEMMA OpenTempFacts ==
    ASSUME CoreTypes, NEW i \in DOMAIN runs, OpenTemp(i)
    PROVE  \E f \in FileIds :
             /\ f = IF temp[runs[i].dir] = NoFile THEN i ELSE temp[runs[i].dir]
             /\ Moves(i) /\ runs[i].pc = "open" /\ runs'[i].pc = "write"
             /\ runs'[i].files = runs[i].files /\ runs'[i].file = f
             /\ temp' = [temp EXCEPT ![runs[i].dir] = f]
             /\ content' = Written(f, Partial)
             /\ UNCHANGED <<out, cwd>>
<1>1. /\ runs \in Seq(Run) /\ runs[i] \in Run /\ i \in Nat
      /\ temp \in [Projects -> FileIds \cup {NoFile}]
  BY DEF CoreTypes
<1>2. PICK f : f = IF temp[runs[i].dir] = NoFile THEN i ELSE temp[runs[i].dir]
  OBVIOUS
<1>3. f \in FileIds
  BY <1>1, <1>2, RunFields DEF FileIds
<1>4. PICK a : a = At(i, "write")
  OBVIOUS
<1>5. PICK r : r = [a EXCEPT !.file = f]
  OBVIOUS
<1>6. /\ a \in Run /\ a.pc = "write" /\ a.proc = runs[i].proc /\ a.dir = runs[i].dir
      /\ a.files = runs[i].files
  BY <1>1, <1>4, AtRecord DEF Steps
<1>7. /\ r \in Run /\ r.pc = "write" /\ r.proc = runs[i].proc /\ r.dir = runs[i].dir
      /\ r.files = runs[i].files /\ r.file = f
  BY <1>3, <1>5, <1>6 DEF Run
<1>8. /\ Step(i, "open", r) /\ Rest(i)
      /\ temp' = [temp EXCEPT ![runs[i].dir] = f]
      /\ content' = Written(f, Partial)
      /\ UNCHANGED <<out, cwd>>
  BY <1>2, <1>4, <1>5 DEF OpenTemp
<1>9. Moves(i) /\ runs[i].pc = "open" /\ runs'[i] = r
  BY <1>7, <1>8, MoveTo DEF Steps
<1> QED  BY <1>2, <1>3, <1>7, <1>8, <1>9

\* The file that was opened gets the list.
LEMMA WriteTempFacts ==
    ASSUME CoreTypes, NEW i \in DOMAIN runs, WriteTemp(i)
    PROVE  /\ Moves(i) /\ runs[i].pc = "write" /\ runs'[i].pc = "compare"
           /\ content' = Written(runs[i].file, runs[i].files)
           /\ UNCHANGED <<out, temp, cwd>>
<1>1. runs \in Seq(Run) /\ runs[i] \in Run
  BY DEF CoreTypes
<1>2. PICK a : a = At(i, "compare")
  OBVIOUS
<1>3. PICK r : r = [a EXCEPT !.files = {}, !.file = NoFile]
  OBVIOUS
<1>4. a \in Run /\ a.pc = "compare" /\ a.proc = runs[i].proc /\ a.dir = runs[i].dir
  BY <1>1, <1>2, AtRecord DEF Steps
<1>5. r \in Run /\ r.pc = "compare" /\ r.proc = runs[i].proc /\ r.dir = runs[i].dir
  BY <1>3, <1>4 DEF Run
<1>6. /\ Step(i, "write", r) /\ Rest(i) /\ UNCHANGED <<out, temp, cwd>>
      /\ content' = Written(runs[i].file, runs[i].files)
  BY <1>2, <1>3 DEF WriteTemp
<1> QED  BY <1>5, <1>6, MoveTo DEF Steps

\* A step that only changes where the run is
LEMMA OnlyMoves ==
    ASSUME CoreTypes, NEW i \in DOMAIN runs, NEW from \in Steps, NEW to \in Steps \cup {"done", "died"},
           Step(i, from, At(i, to)), Rest(i)
    PROVE  /\ Moves(i) /\ runs[i].pc = from /\ runs'[i].pc = to
           /\ runs'[i].files = runs[i].files /\ runs'[i].file = runs[i].file
<1>1. runs \in Seq(Run)
  BY DEF CoreTypes
<1>2. PICK r : r = At(i, to)
  OBVIOUS
<1>3. /\ r \in Run /\ r.pc = to /\ r.proc = runs[i].proc /\ r.dir = runs[i].dir
      /\ r.files = runs[i].files /\ r.file = runs[i].file
  BY <1>1, <1>2, AtRecord DEF Ended
<1> QED  BY <1>2, <1>3, MoveTo

\* Where a run goes from the comparison, and why
LEMMA CompareFacts ==
    ASSUME CoreTypes, NEW i \in DOMAIN runs, Compare(i)
    PROVE  /\ Moves(i) /\ runs[i].pc = "compare"
           /\ runs'[i].pc \in {"remove", "unlink", "died"}
           /\ runs'[i].pc = "remove" =>
                out[runs[i].dir] # NoFile /\ temp[runs[i].dir] # NoFile /\ SameContent(runs[i].dir)
           /\ runs'[i].pc = "died" => temp[runs[i].dir] = NoFile
           /\ UNCHANGED <<out, temp, content, cwd>>
<1>1. PICK to \in {"remove", "unlink", "died"} :
        /\ Step(i, "compare", At(i, to))
        /\ to = "remove" =>
             out[runs[i].dir] # NoFile /\ temp[runs[i].dir] # NoFile /\ SameContent(runs[i].dir)
        /\ to = "died" => temp[runs[i].dir] = NoFile
  BY DEF Compare
<1>2. UNCHANGED <<out, temp, content, cwd>> /\ Rest(i)
  BY DEF Compare, disk
<1> QED  BY <1>1, <1>2, OnlyMoves DEF Steps

\* The temporary file is removed when nothing changed.
LEMMA RemoveTempFacts ==
    ASSUME CoreTypes, NEW i \in DOMAIN runs, RemoveTemp(i)
    PROVE  /\ Moves(i) /\ runs[i].pc = "remove"
           /\ runs'[i].pc = IF temp[runs[i].dir] = NoFile THEN "died" ELSE "done"
           /\ temp' = [temp EXCEPT ![runs[i].dir] = NoFile]
           /\ UNCHANGED <<out, content, cwd>>
<1>1. PICK to : to = IF temp[runs[i].dir] = NoFile THEN "died" ELSE "done"
  OBVIOUS
<1>2. Step(i, "remove", At(i, to)) /\ Rest(i)
  BY <1>1 DEF RemoveTemp
<1>3. Moves(i) /\ runs[i].pc = "remove" /\ runs'[i].pc = to
  BY <1>1, <1>2, OnlyMoves DEF Steps
<1> QED  BY <1>1, <1>3 DEF RemoveTemp

\* The old list is removed.
LEMMA RemoveOldFacts ==
    ASSUME CoreTypes, NEW i \in DOMAIN runs, RemoveOld(i)
    PROVE  /\ Moves(i) /\ runs[i].pc = "unlink" /\ runs'[i].pc = "rename"
           /\ out' = [out EXCEPT ![runs[i].dir] = NoFile]
           /\ UNCHANGED <<temp, content, cwd>>
<1>1. Moves(i) /\ runs[i].pc = "unlink" /\ runs'[i].pc = "rename"
  BY OnlyMoves DEF RemoveOld, Steps
<1> QED  BY <1>1 DEF RemoveOld

\* The temporary file becomes the list.
LEMMA RenameFacts ==
    ASSUME CoreTypes, NEW i \in DOMAIN runs, Rename(i)
    PROVE  /\ Moves(i) /\ runs[i].pc = "rename"
           /\ runs'[i].pc = IF temp[runs[i].dir] = NoFile THEN "died" ELSE "done"
           /\ out' = IF temp[runs[i].dir] = NoFile THEN out
                     ELSE [out EXCEPT ![runs[i].dir] = temp[runs[i].dir]]
           /\ temp' = [temp EXCEPT ![runs[i].dir] = NoFile]
           /\ UNCHANGED <<content, cwd>>
<1>1. PICK to : to = IF temp[runs[i].dir] = NoFile THEN "died" ELSE "done"
  OBVIOUS
<1>2. Step(i, "rename", At(i, to)) /\ Rest(i)
  BY <1>1 DEF Rename
<1>3. Moves(i) /\ runs[i].pc = "rename" /\ runs'[i].pc = to
  BY <1>1, <1>2, OnlyMoves DEF Steps
<1> QED  BY <1>1, <1>3 DEF Rename

\* A run i for p starts: a timer that waited, or the next of the batch.
Begins(i, p) ==
    /\ runs' \in Seq(Run)
    /\ DOMAIN runs' = DOMAIN runs \cup {i}
    /\ \A j \in DOMAIN runs : j # i => runs'[j] = runs[j]
    /\ i \in DOMAIN runs => /\ runs[i].pc = "waiting" /\ runs[i].dir = p
                            /\ runs'[i].proc = runs[i].proc
                            /\ runs'[i].files = runs[i].files /\ runs'[i].subdir = runs[i].subdir
    /\ i \notin DOMAIN runs => runs'[i].files = {} /\ runs'[i].subdir = "src"
    /\ runs'[i].dir = p /\ runs'[i].pc = "getcwd"
    /\ overlaps' = overlaps \cup {{i, j} : j \in Active}
    /\ stale' = stale \ {p}
    /\ last' = [last EXCEPT ![p] = i]
    /\ UNCHANGED <<tree, out, temp, content, cwd, timer, pending>>

\* A timer fires: its run begins.
LEMMA FireFacts ==
    ASSUME CoreTypes, NEW i \in DOMAIN runs, Fire(i)
    PROVE  runs[i].dir \in Projects /\ Begins(i, runs[i].dir)
<1>1. runs \in Seq(Run) /\ runs[i] \in Run
  BY DEF CoreTypes
<1>2. PICK r : r = At(i, "getcwd")
  OBVIOUS
<1>3. /\ r \in Run /\ r.pc = "getcwd" /\ r.proc = runs[i].proc /\ r.dir = runs[i].dir
      /\ r.files = runs[i].files /\ r.subdir = runs[i].subdir
  BY <1>1, <1>2, AtRecord DEF Steps
<1>4. runs' = [runs EXCEPT ![i] = r] /\ runs[i].pc = "waiting"
  BY <1>2 DEF Fire, Step
<1>5. /\ overlaps' = overlaps \cup {{i, j} : j \in Active}
      /\ stale' = stale \ {runs[i].dir}
      /\ last' = [last EXCEPT ![runs[i].dir] = i]
      /\ UNCHANGED <<tree, out, temp, content, cwd, timer, pending>>
  BY DEF Fire, Started, world, disk, watch
<1>6. /\ runs' \in Seq(Run) /\ DOMAIN runs' = DOMAIN runs /\ runs'[i] = r
      /\ \A j \in DOMAIN runs : j # i => runs'[j] = runs[j]
  BY <1>1, <1>3, <1>4, StepRuns
<1>7. DOMAIN runs' = DOMAIN runs \cup {i}
  BY <1>6
<1> QED  BY <1>1, <1>3, <1>4, <1>5, <1>6, <1>7, RunFields DEF Begins

\* The record of a new run
LEMMA NewRunRecord ==
    ASSUME NEW c \in Procs \cup {Batch}, NEW p \in Projects, NEW at \in Steps \cup {"waiting"},
           NEW r, r = NewRun(c, p, at)
    PROVE  /\ r \in Run /\ r.proc = c /\ r.dir = p /\ r.pc = at
           /\ r.subdir = "src" /\ r.files = {}
<1>1. "src" \in Subdirs /\ Start \in Dirs /\ {} \in SUBSET Entries /\ NoFile \in FileIds \cup {NoFile}
  BY DEF Subdirs, Dirs
<1> QED  BY <1>1, RunRecord DEF NewRun

\* The process that is not in watch mode begins with its next project.
LEMMA NextProjectFacts ==
    ASSUME CoreTypes, todo \in Seq(Projects), NextProject
    PROVE  Head(todo) \in Projects /\ Begins(Len(runs) + 1, Head(todo))
<1>1. runs \in Seq(Run) /\ Head(todo) \in Projects
  BY DEF CoreTypes, NextProject
<1>2. PICK p \in Projects : p = Head(todo)
  BY <1>1
<1>3. PICK r : r = NewRun(Batch, p, "getcwd")
  OBVIOUS
<1>4. r \in Run /\ r.dir = p /\ r.pc = "getcwd" /\ r.subdir = "src" /\ r.files = {}
  <2>1. Batch \in Procs \cup {Batch} /\ "getcwd" \in Steps \cup {"waiting"}
    BY DEF Steps
  <2> QED  BY <1>3, <2>1, NewRunRecord
<1>5. runs' = Append(runs, r)
  BY <1>2, <1>3 DEF NextProject
<1>6. /\ runs' \in Seq(Run) /\ Len(runs') = Len(runs) + 1
      /\ DOMAIN runs' = DOMAIN runs \cup {Len(runs) + 1}
      /\ Len(runs) + 1 \notin DOMAIN runs
      /\ runs'[Len(runs) + 1] = r
      /\ \A j \in DOMAIN runs : runs'[j] = runs[j]
  BY <1>1, <1>4, <1>5, AppendRuns
<1>7. /\ overlaps' = overlaps \cup {{Len(runs) + 1, j} : j \in Active}
      /\ stale' = stale \ {p}
      /\ last' = [last EXCEPT ![p] = Len(runs) + 1]
      /\ UNCHANGED <<tree, out, temp, content, cwd, timer, pending>>
  BY <1>2, <1>6 DEF NextProject, Started, disk, watch
<1> QED  BY <1>2, <1>4, <1>6, <1>7 DEF Begins

\* An event of p is ignored, or it replaces the timer.
Notices(c, p) ==
    /\ pending[c][p] > 0
    /\ pending' = [pending EXCEPT ![c][p] = @ - 1]
    /\ UNCHANGED <<tree, out, temp, content, cwd, overlaps, last>>

Replaces(c, p, n) ==
    /\ n \notin DOMAIN runs
    /\ runs' \in Seq(Run)
    /\ DOMAIN runs' = DOMAIN runs \cup {n}
    /\ runs'[n].dir = p /\ runs'[n].pc = "waiting"
    /\ runs'[n].files = {} /\ runs'[n].subdir = "src"
    /\ \A j \in DOMAIN runs :
          \/ runs'[j] = runs[j]
          \/ /\ j = timer[c][p] /\ runs[j].pc = "waiting" /\ runs'[j].pc = "cancelled"
             /\ runs'[j].dir = runs[j].dir /\ runs'[j].proc = runs[j].proc
    /\ timer' = [timer EXCEPT ![c][p] = n]
    /\ stale' = stale

\* Timer.cancel keeps all runs but the one that waited.
LEMMA CancelFacts ==
    ASSUME CoreTypes, NEW t, t # NoTimer => t \in DOMAIN runs, NEW s, s = Cancel(t)
    PROVE  /\ s \in Seq(Run) /\ Len(s) = Len(runs) /\ DOMAIN s = DOMAIN runs
           /\ \A j \in DOMAIN runs :
                \/ s[j] = runs[j]
                \/ /\ j = t /\ runs[j].pc = "waiting" /\ s[j].pc = "cancelled"
                   /\ s[j].dir = runs[j].dir /\ s[j].proc = runs[j].proc
<1>1. runs \in Seq(Run)
  BY DEF CoreTypes
<1>2. CASE t # NoTimer /\ runs[t].pc = "waiting"
  <2>1. PICK r : r = [runs[t] EXCEPT !.pc = "cancelled"]
    OBVIOUS
  <2>2. t \in DOMAIN runs /\ r = At(t, "cancelled")
    BY <1>2, <2>1 DEF At
  <2>3. r \in Run /\ r.pc = "cancelled" /\ r.dir = runs[t].dir /\ r.proc = runs[t].proc
    BY <1>1, <2>2, AtRecord DEF Ended
  <2>4. s = [runs EXCEPT ![t] = r]
    BY <1>2, <2>1 DEF Cancel
  <2> QED  BY <1>1, <1>2, <2>2, <2>3, <2>4
<1>3. CASE ~(t # NoTimer /\ runs[t].pc = "waiting")
  BY <1>1, <1>3 DEF Cancel
<1> QED  BY <1>2, <1>3

\* _handle_event ignores the event or replaces the timer.
LEMMA FileEventFacts ==
    ASSUME CoreTypes, NEW c \in Procs, NEW p \in Projects, FileEvent(c, p),
           timer[c][p] # NoTimer => timer[c][p] \in DOMAIN runs
    PROVE  /\ Notices(c, p)
           /\ \/ stale' = stale \cup {p} /\ UNCHANGED <<runs, timer>>
              \/ Replaces(c, p, Len(runs) + 1)
<1>1. Notices(c, p)
  BY DEF FileEvent, Notices, world, disk
<1>2. CASE pause[c]
  BY <1>1, <1>2 DEF FileEvent
<1>3. CASE ~pause[c]
  <2>1. PICK s : s = Cancel(timer[c][p])
    OBVIOUS
  <2>2. PICK r : r = NewRun(c, p, "waiting")
    OBVIOUS
  <2>3. runs' = Append(s, r) /\ timer' = [timer EXCEPT ![c][p] = Len(runs')] /\ stale' = stale
    BY <1>3, <2>1, <2>2 DEF FileEvent
  <2>4. r \in Run /\ r.dir = p /\ r.pc = "waiting" /\ r.subdir = "src" /\ r.files = {}
    BY <2>2, NewRunRecord
  <2>5. /\ s \in Seq(Run) /\ Len(s) = Len(runs) /\ DOMAIN s = DOMAIN runs
        /\ \A j \in DOMAIN runs :
             \/ s[j] = runs[j]
             \/ /\ j = timer[c][p] /\ runs[j].pc = "waiting" /\ s[j].pc = "cancelled"
                /\ s[j].dir = runs[j].dir /\ s[j].proc = runs[j].proc
    BY <2>1, CancelFacts
  <2>6. /\ runs' \in Seq(Run) /\ Len(runs') = Len(runs) + 1
        /\ DOMAIN runs' = DOMAIN runs \cup {Len(runs) + 1}
        /\ Len(runs) + 1 \notin DOMAIN runs
        /\ runs'[Len(runs) + 1] = r
        /\ \A j \in DOMAIN runs : runs'[j] = s[j]
    BY <2>3, <2>4, <2>5, AppendRuns
  <2>7. Replaces(c, p, Len(runs) + 1)
    BY <2>3, <2>4, <2>5, <2>6 DEF Replaces
  <2> QED  BY <1>1, <2>7
<1> QED  BY <1>2, <1>3

\* Files of p change: an event tells of it, or it is counted (so is a change in
\* a directory that nobody watches), or no source changed.
Alters(p) ==
    /\ tree' \in [Projects -> [Subdirs -> SUBSET Files]]
    /\ \A q \in Projects : q # p => tree'[q] = tree[q]
    /\ \/ Listing(tree'[p]) = Listing(tree[p])
       \/ p \in stale'
       \/ \E c \in Procs : pending'[c][p] > 0
    /\ pending' \in [Procs -> [Projects -> Nat]]
    /\ \A c \in Procs, q \in Projects : pending[c][q] > 0 => pending'[c][q] > 0
    /\ stale \subseteq stale' /\ stale' \subseteq Projects
    /\ UNCHANGED <<out, temp, content, cwd, runs, timer, overlaps, last>>

\* A change that the handlers are told of, or that leaves the sources as they are
LEMMA ChangeFacts ==
    ASSUME CoreTypes, NEW p \in Projects, NEW d \in Subdirs, NEW files \in SUBSET Files,
           NEW told \in BOOLEAN, Change(p, d, files, told),
           told \/ \A f \in Sources : f \in files <=> f \in tree[p][d]
    PROVE  Alters(p)
<1>1. /\ tree \in [Projects -> [Subdirs -> SUBSET Files]]
      /\ pending \in [Procs -> [Projects -> Nat]] /\ stale \subseteq Projects
  BY DEF CoreTypes
<1>2. tree' = [tree EXCEPT ![p][d] = files]
  BY DEF Change
<1>3. UNCHANGED <<out, temp, content, cwd, runs, timer, overlaps, last>>
  BY DEF Change, disk
<1>4. /\ tree' \in [Projects -> [Subdirs -> SUBSET Files]]
      /\ \A q \in Projects : q # p => tree'[q] = tree[q]
      /\ tree'[p][d] = files
      /\ \A e \in Subdirs : e # d => tree'[p][e] = tree[p][e]
  BY <1>1, <1>2
<1>5. stale \subseteq stale' /\ stale' \subseteq Projects
  BY <1>1 DEF Change
<1>6. CASE told
  <2>1. pending' = [c \in Procs |-> IF c \in Watching(p, d) THEN [pending[c] EXCEPT ![p] = @ + 1]
                                    ELSE pending[c]]
    BY <1>6 DEF Change
  <2>2. /\ pending' \in [Procs -> [Projects -> Nat]]
        /\ \A c \in Procs, q \in Projects : pending[c][q] > 0 => pending'[c][q] > 0
        /\ \A c \in Procs : c \in Watching(p, d) => pending'[c][p] > 0
    BY <1>1, <2>1
  <2>3. CASE Watching(p, d) = {}
    BY <1>3, <1>4, <1>5, <2>2, <2>3 DEF Change, Alters
  <2>4. CASE Watching(p, d) # {}
    <3>1. \E c \in Procs : pending'[c][p] > 0
      BY <2>2, <2>4 DEF Watching, Watchers
    <3> QED  BY <1>3, <1>4, <1>5, <2>2, <3>1 DEF Alters
  <2> QED  BY <2>3, <2>4
<1>7. CASE ~told
  <2>1. Listing(tree'[p]) = Listing(tree[p])
    BY <1>4, <1>7 DEF Listing
  <2>2. pending' = [c \in Procs |-> pending[c]]
    BY <1>7 DEF Change
  <2>3. pending' = pending
    BY <1>1, <2>2
  <2> QED  BY <1>1, <1>3, <1>4, <1>5, <2>1, <2>3 DEF Alters
<1> QED  BY <1>6, <1>7

\* on_created, on_deleted and on_moved react to all changes of sources.
LEMMA FileChangeFacts ==
    ASSUME CoreTypes, FileChange
    PROVE  UNCHANGED core \/ \E p \in Projects : Alters(p)
<1>1. tree \in [Projects -> [Subdirs -> SUBSET Files]]
  BY DEF CoreTypes
<1>2. PICK p \in Projects, d \in Subdirs :
        \/ \E f \in Files : Create(p, d, f) \/ Delete(p, d, f)
        \/ \E f, g \in Files : Move(p, d, f, g)
        \/ DeleteDir(p, d) \/ MakeDir(p, d)
  BY DEF FileChange
<1>3. ASSUME NEW f \in Files, Create(p, d, f) PROVE Alters(p)
  <2>1. PICK told \in BOOLEAN : told <=> f \in Sources
    OBVIOUS
  <2>2. Change(p, d, tree[p][d] \cup {f}, told)
    BY <1>3, <2>1 DEF Create, Change
  <2> QED  BY <1>1, <2>1, <2>2, ChangeFacts
<1>4. ASSUME NEW f \in Files, Delete(p, d, f) PROVE Alters(p)
  <2>1. PICK told \in BOOLEAN : told <=> f \in Sources
    OBVIOUS
  <2>2. Change(p, d, tree[p][d] \ {f}, told)
    BY <1>4, <2>1 DEF Delete, Change
  <2> QED  BY <1>1, <2>1, <2>2, ChangeFacts
<1>5. ASSUME NEW f \in Files, NEW g \in Files, Move(p, d, f, g) PROVE Alters(p)
  <2>1. PICK told \in BOOLEAN : told <=> (f \in Sources \/ g \in Sources)
    OBVIOUS
  <2>2. Change(p, d, (tree[p][d] \ {f}) \cup {g}, told)
    BY <1>5, <2>1 DEF Move, Change
  <2> QED  BY <1>1, <2>1, <2>2, ChangeFacts
<1>6. ASSUME DeleteDir(p, d) PROVE Alters(p)
  <2>1. Change(p, d, {}, TRUE)
    BY <1>6 DEF DeleteDir
  <2> QED  BY <2>1, ChangeFacts
<1>7. ASSUME MakeDir(p, d) PROVE UNCHANGED core
  BY <1>7 DEF MakeDir, core, disk, watch, history
<1> QED  BY <1>2, <1>3, <1>4, <1>5, <1>6, <1>7

\* The events that a process leaves behind are counted.
Drops(c) ==
    /\ stale' = stale \cup {p \in Projects : pending[c][p] > 0}
    /\ pending' = [pending EXCEPT ![c] = [p \in Projects |-> 0]]
    /\ UNCHANGED <<tree, out, temp, content, cwd, runs, timer, overlaps, last>>

\* Each step is of one of these kinds.
LEMMA StepKinds ==
    ASSUME CoreTypes, todo \in Seq(Projects), [Next]_vars,
           \A c \in Procs, p \in Projects : timer[c][p] # NoTimer => timer[c][p] \in DOMAIN runs
    PROVE  \/ UNCHANGED core
           \/ \E p \in Projects : Alters(p)
           \/ \E p \in Projects, i \in Nat : Begins(i, p)
           \/ \E c \in Procs, p \in Projects : Notices(c, p) /\
                \/ stale' = stale \cup {p} /\ UNCHANGED <<runs, timer>>
                \/ \E n \in Nat : Replaces(c, p, n)
           \/ \E c \in Procs : Drops(c)
           \/ \E i \in DOMAIN runs : GenStep(i)
<1>1. runs \in Seq(Run) /\ DOMAIN runs \subseteq Nat /\ Len(runs) + 1 \in Nat
  BY DEF CoreTypes
<1>2. CASE UNCHANGED vars
  BY <1>2 DEF vars, fileVars, core
<1>3. ASSUME NEW c \in Procs, UserStep(c) PROVE UNCHANGED core
  BY <1>3 DEF UserStep, core, disk, history
<1>4. ASSUME NEW c \in Procs, ProcStep(c) PROVE UNCHANGED core
  BY <1>4 DEF ProcStep, core, world, disk, history
<1>5. CASE GitLock
  BY <1>5 DEF GitLock, core, disk, history
<1>6. ASSUME NEW c \in Procs, LockEvent(c) PROVE UNCHANGED core
  BY <1>6 DEF LockEvent, core, world, disk, history
<1>7. ASSUME NEW c \in Procs, DropEvents(c) PROVE Drops(c)
  BY <1>7 DEF DropEvents, Drops, world, disk
<1>8. CASE FileChange
  BY <1>8, FileChangeFacts
<1>9. CASE NextProject
  BY <1>1, <1>9, NextProjectFacts
<1>10. ASSUME NEW i \in DOMAIN runs, RunStep(i)
       PROVE  GenStep(i) \/ \E p \in Projects : Begins(i, p)
  BY <1>10, FireFacts DEF RunStep, GenStep
<1>11. ASSUME NEW c \in Procs, NEW p \in Projects, FileEvent(c, p)
       PROVE  Notices(c, p) /\ (\/ stale' = stale \cup {p} /\ UNCHANGED <<runs, timer>>
                                \/ \E n \in Nat : Replaces(c, p, n))
  BY <1>1, <1>11, FileEventFacts
<1> QED  BY <1>1, <1>2, <1>3, <1>4, <1>5, <1>6, <1>7, <1>8, <1>9, <1>10, <1>11 DEF Next, Dispatch

(***************************************************************************)
(* The invariant is preserved, part by part.                               *)
(***************************************************************************)

\* Writing one file leaves the others as they are.
LEMMA WrittenFacts ==
    ASSUME CoreTypes, NEW f \in FileIds, NEW c \in {Partial} \cup SUBSET Entries,
           content' = Written(f, c)
    PROVE  /\ DOMAIN content' = DOMAIN content \cup {f}
           /\ content' \in [DOMAIN content' -> {Partial} \cup SUBSET Entries]
           /\ DOMAIN content' \subseteq FileIds
           /\ content'[f] = c
           /\ \A x \in DOMAIN content : x # f => content'[x] = content[x]
<1>1. /\ content \in [DOMAIN content -> {Partial} \cup SUBSET Entries]
      /\ DOMAIN content \subseteq FileIds
  BY DEF CoreTypes
<1>2. content' = [x \in DOMAIN content \cup {f} |-> IF x = f THEN c ELSE content[x]]
  BY DEF Written
<1> QED  BY <1>1, <1>2

\* The steps of gen_filelist keep the types of what they change.
LEMMA DiskTypes ==
    ASSUME CoreTypes, FilesInv, NEW i \in DOMAIN runs, GenStep(i)
    PROVE  /\ Moves(i)
           /\ out' \in [Projects -> FileIds \cup {NoFile}]
           /\ temp' \in [Projects -> FileIds \cup {NoFile}]
           /\ content' \in [DOMAIN content' -> {Partial} \cup SUBSET Entries]
           /\ DOMAIN content' \subseteq FileIds
           /\ cwd' \in [Procs \cup {Batch} -> Dirs]
<1>1. /\ runs \in Seq(Run) /\ runs[i] \in Run
      /\ out \in [Projects -> FileIds \cup {NoFile}]
      /\ temp \in [Projects -> FileIds \cup {NoFile}]
      /\ content \in [DOMAIN content -> {Partial} \cup SUBSET Entries]
      /\ DOMAIN content \subseteq FileIds
      /\ cwd \in [Procs \cup {Batch} -> Dirs]
  BY DEF CoreTypes
<1>2. /\ runs[i].dir \in Projects /\ runs[i].dir \in Dirs /\ runs[i].saved \in Dirs
      /\ runs[i].files \in SUBSET Entries
  BY <1>1, RunFields DEF Dirs
<1>3. CASE GetCwd(i) \/ Walk(i) \/ Compare(i)
  <2>1. Moves(i) /\ UNCHANGED <<out, temp, content, cwd>>
    BY <1>3, GetCwdFacts, WalkFacts, CompareFacts
  <2> QED  BY <1>1, <2>1
<1>4. CASE ChDir(i)
  BY <1>1, <1>2, <1>4, ChDirFacts
<1>5. CASE RestoreCwd(i)
  BY <1>1, <1>2, <1>5, RestoreCwdFacts
<1>6. CASE OpenTemp(i)
  <2>1. PICK f \in FileIds : /\ Moves(i) /\ UNCHANGED <<out, cwd>>
                             /\ temp' = [temp EXCEPT ![runs[i].dir] = f]
                             /\ content' = Written(f, Partial)
    BY <1>6, OpenTempFacts
  <2>2. /\ content' \in [DOMAIN content' -> {Partial} \cup SUBSET Entries]
        /\ DOMAIN content' \subseteq FileIds
    BY <2>1, WrittenFacts
  <2> QED  BY <1>1, <1>2, <2>1, <2>2
<1>7. CASE WriteTemp(i)
  <2>1. /\ Moves(i) /\ runs[i].pc = "write" /\ UNCHANGED <<out, temp, cwd>>
        /\ content' = Written(runs[i].file, runs[i].files)
    BY <1>7, WriteTempFacts
  <2>2. runs[i].file \in FileIds
    BY <1>1, <2>1 DEF FilesInv
  <2>3. /\ content' \in [DOMAIN content' -> {Partial} \cup SUBSET Entries]
        /\ DOMAIN content' \subseteq FileIds
    BY <1>2, <2>1, <2>2, WrittenFacts
  <2> QED  BY <1>1, <2>1, <2>3
<1>8. CASE RemoveTemp(i)
  BY <1>1, <1>2, <1>8, RemoveTempFacts
<1>9. CASE RemoveOld(i)
  BY <1>1, <1>2, <1>9, RemoveOldFacts
<1>10. CASE Rename(i)
  <2>1. /\ Moves(i) /\ UNCHANGED <<content, cwd>>
        /\ out' = IF temp[runs[i].dir] = NoFile THEN out
                  ELSE [out EXCEPT ![runs[i].dir] = temp[runs[i].dir]]
        /\ temp' = [temp EXCEPT ![runs[i].dir] = NoFile]
    BY <1>10, RenameFacts
  <2> QED  BY <1>1, <1>2, <2>1
<1> QED  BY <1>3, <1>4, <1>5, <1>6, <1>7, <1>8, <1>9, <1>10 DEF GenStep

\* All steps keep the types of the variables that the invariants are about.
LEMMA CoreTypesNext ==
    ASSUME CoreTypes, FilesInv, HistoryInv, todo \in Seq(Projects), [Next]_vars
    PROVE  CoreTypes'
<1>1. /\ tree \in [Projects -> [Subdirs -> SUBSET Files]]
      /\ runs \in Seq(Run) /\ DOMAIN runs \subseteq Nat
      /\ timer \in [Procs -> [Projects -> Nat \cup {NoTimer}]]
      /\ pending \in [Procs -> [Projects -> Nat]]
      /\ stale \subseteq Projects
      /\ overlaps \subseteq SUBSET DOMAIN runs
      /\ last \in [Projects -> DOMAIN runs \cup {NoTimer}]
  BY DEF CoreTypes
<1>2. \A c \in Procs, p \in Projects : timer[c][p] # NoTimer => timer[c][p] \in DOMAIN runs
  BY DEF HistoryInv
<1>3. CASE UNCHANGED core
  BY <1>3 DEF core, CoreTypes
<1>4. ASSUME NEW p \in Projects, Alters(p) PROVE CoreTypes'
  BY <1>4 DEF Alters, CoreTypes
<1>5. ASSUME NEW p \in Projects, NEW i \in Nat, Begins(i, p) PROVE CoreTypes'
  <2>1. /\ runs' \in Seq(Run) /\ DOMAIN runs' = DOMAIN runs \cup {i}
        /\ overlaps' = overlaps \cup {{i, j} : j \in Active}
        /\ stale' = stale \ {p}
        /\ last' = [last EXCEPT ![p] = i]
        /\ UNCHANGED <<tree, out, temp, content, cwd, timer, pending>>
    BY <1>5 DEF Begins
  <2>2. overlaps' \subseteq SUBSET DOMAIN runs'
    BY <1>1, <2>1 DEF Active
  <2>3. last' \in [Projects -> DOMAIN runs' \cup {NoTimer}]
    BY <1>1, <2>1
  <2>4. stale' \subseteq Projects
    BY <1>1, <2>1
  <2> QED  BY <2>1, <2>2, <2>3, <2>4 DEF CoreTypes
<1>6. ASSUME NEW c \in Procs, NEW p \in Projects, Notices(c, p)
      PROVE  /\ pending' \in [Procs -> [Projects -> Nat]]
             /\ UNCHANGED <<tree, out, temp, content, cwd, overlaps, last>>
  BY <1>1, <1>6 DEF Notices
<1>7. ASSUME NEW c \in Procs, NEW p \in Projects, Notices(c, p),
             stale' = stale \cup {p} /\ UNCHANGED <<runs, timer>>
      PROVE  CoreTypes'
  BY <1>6, <1>7 DEF CoreTypes
<1>8. ASSUME NEW c \in Procs, NEW p \in Projects, Notices(c, p), NEW n \in Nat, Replaces(c, p, n)
      PROVE  CoreTypes'
  <2>1. /\ runs' \in Seq(Run) /\ DOMAIN runs' = DOMAIN runs \cup {n}
        /\ timer' = [timer EXCEPT ![c][p] = n] /\ stale' = stale
    BY <1>8 DEF Replaces
  <2>2. timer' \in [Procs -> [Projects -> Nat \cup {NoTimer}]]
    BY <1>1, <2>1
  <2>3. UNCHANGED <<overlaps, last>>
    BY <1>8 DEF Notices
  <2>4. overlaps' \subseteq SUBSET DOMAIN runs'
    BY <1>1, <2>1, <2>3
  <2>5. last' \in [Projects -> DOMAIN runs' \cup {NoTimer}]
    BY <1>1, <2>1, <2>3
  <2> QED  BY <1>6, <1>8, <2>1, <2>2, <2>4, <2>5 DEF CoreTypes
<1>9. ASSUME NEW c \in Procs, Drops(c) PROVE CoreTypes'
  <2>1. pending' \in [Procs -> [Projects -> Nat]] /\ stale' \subseteq Projects
    BY <1>1, <1>9 DEF Drops
  <2> QED  BY <1>9, <2>1 DEF CoreTypes, Drops
<1>10. ASSUME NEW i \in DOMAIN runs, GenStep(i) PROVE CoreTypes'
  <2>1. /\ runs' \in Seq(Run) /\ DOMAIN runs' = DOMAIN runs
        /\ UNCHANGED <<tree, timer, pending, stale, overlaps, last>>
    BY <1>10, DiskTypes DEF Moves
  <2> QED  BY <1>1, <1>10, <2>1, DiskTypes DEF CoreTypes
<1> QED  BY <1>2, <1>3, <1>4, <1>5, <1>7, <1>8, <1>9, <1>10, StepKinds

\* The history variables record what they should.
LEMMA HistoryNext ==
    ASSUME CoreTypes, CoreTypes', FilesInv, HistoryInv, todo \in Seq(Projects), [Next]_vars
    PROVE  HistoryInv'
<1>1. /\ runs \in Seq(Run) /\ DOMAIN runs \subseteq Nat
      /\ timer \in [Procs -> [Projects -> Nat \cup {NoTimer}]]
      /\ last \in [Projects -> DOMAIN runs \cup {NoTimer}]
      /\ \A i \in DOMAIN runs : runs[i].dir \in Projects
  BY RunFields DEF CoreTypes
<1>2. NoTimer \notin Nat
  BY NamesAssumption DEF NamesAssumption
<1>3. \A c \in Procs, p \in Projects : timer[c][p] # NoTimer => timer[c][p] \in DOMAIN runs
  BY DEF HistoryInv
<1>4. CASE UNCHANGED <<runs, timer, overlaps, last>>
  BY <1>4 DEF HistoryInv, Active
<1>5. ASSUME NEW p \in Projects, NEW i \in Nat, Begins(i, p) PROVE HistoryInv'
  <2>1. /\ DOMAIN runs' = DOMAIN runs \cup {i}
        /\ \A j \in DOMAIN runs : j # i => runs'[j] = runs[j]
        /\ i \in DOMAIN runs => runs[i].pc = "waiting" /\ runs[i].dir = p
        /\ runs'[i].dir = p /\ runs'[i].pc = "getcwd"
        /\ overlaps' = overlaps \cup {{i, j} : j \in Active}
        /\ last' = [last EXCEPT ![p] = i]
        /\ timer' = timer
    BY <1>5 DEF Begins
  <2>2. i \notin Active /\ Active \subseteq DOMAIN runs
    BY <2>1 DEF Active
  <2>3. \A j \in Active' : j # i => j \in Active /\ runs'[j] = runs[j]
    BY <2>1 DEF Active
  <2>4. \A j \in Active : {i, j} \in overlaps' /\ {j, i} \in overlaps'
    <3>1. ASSUME NEW j \in Active PROVE {i, j} \in overlaps' /\ {j, i} = {i, j}
      BY <2>1
    <3> QED  BY <3>1
  <2>5. \A j, k \in Active' : j # k => {j, k} \in overlaps'
    BY <2>1, <2>3, <2>4 DEF HistoryInv
  <2>6. ASSUME NEW q \in Projects, last'[q] # NoTimer
        PROVE  /\ runs'[last'[q]].dir = q
               /\ runs'[last'[q]].pc \notin {"waiting", "cancelled"}
               /\ \A j \in Active' : runs'[j].dir = q /\ j # last'[q] => {last'[q], j} \in overlaps'
    <3>1. CASE q = p
      <4>1. last'[q] = i
        BY <1>1, <2>1, <3>1
      <4> QED  BY <2>1, <2>3, <2>4, <3>1, <4>1
    <3>2. CASE q # p
      <4>1. last'[q] = last[q]
        BY <1>1, <2>1, <3>2
      <4>2. /\ last[q] \in DOMAIN runs /\ runs[last[q]].dir = q
            /\ runs[last[q]].pc \notin {"waiting", "cancelled"}
            /\ \A j \in Active : runs[j].dir = q /\ j # last[q] => {last[q], j} \in overlaps
        BY <1>1, <2>6, <4>1 DEF HistoryInv
      <4>3. last[q] # i /\ runs'[last[q]] = runs[last[q]]
        BY <2>1, <4>2
      <4> QED  BY <2>1, <2>3, <3>2, <4>1, <4>2, <4>3
    <3> QED  BY <3>1, <3>2
  <2>7. ASSUME NEW j \in DOMAIN runs', runs'[j].pc \notin {"waiting", "cancelled"}
        PROVE  last'[runs'[j].dir] # NoTimer
    <3>1. CASE j = i
      BY <1>1, <1>2, <2>1, <3>1
    <3>2. CASE j # i
      <4>1. j \in DOMAIN runs /\ runs'[j] = runs[j]
        BY <2>1, <3>2
      <4>2. last[runs[j].dir] # NoTimer
        BY <2>7, <4>1 DEF HistoryInv
      <4> QED  BY <1>1, <1>2, <2>1, <4>1, <4>2
    <3> QED  BY <3>1, <3>2
  <2>8. ASSUME NEW c \in Procs, NEW q \in Projects, timer'[c][q] # NoTimer
        PROVE  timer'[c][q] \in DOMAIN runs' /\ runs'[timer'[c][q]].dir = q
    <3>1. timer[c][q] \in DOMAIN runs /\ runs[timer[c][q]].dir = q
      BY <2>1, <2>8 DEF HistoryInv
    <3> QED  BY <2>1, <3>1
  <2>9. ASSUME NEW j \in DOMAIN runs', runs'[j].pc = "waiting"
        PROVE  runs'[j].files = {} /\ runs'[j].subdir = "src"
    BY <2>1, <2>9 DEF HistoryInv
  <2> QED  BY <2>5, <2>6, <2>7, <2>8, <2>9 DEF HistoryInv
<1>6. ASSUME NEW c \in Procs, NEW p \in Projects, Notices(c, p), NEW n \in Nat, Replaces(c, p, n)
      PROVE  HistoryInv'
  <2>1. /\ n \notin DOMAIN runs /\ DOMAIN runs' = DOMAIN runs \cup {n}
        /\ runs'[n].dir = p /\ runs'[n].pc = "waiting"
        /\ runs'[n].files = {} /\ runs'[n].subdir = "src"
        /\ \A j \in DOMAIN runs :
             \/ runs'[j] = runs[j]
             \/ runs[j].pc = "waiting" /\ runs'[j].pc = "cancelled" /\ runs'[j].dir = runs[j].dir
        /\ timer' = [timer EXCEPT ![c][p] = n]
        /\ UNCHANGED <<overlaps, last>>
    BY <1>6 DEF Replaces, Notices
  <2>2. \A j \in Active' : j \in Active /\ runs'[j] = runs[j]
    BY <2>1 DEF Active, Ended
  <2>3. \A j, k \in Active' : j # k => {j, k} \in overlaps'
    BY <2>1, <2>2 DEF HistoryInv
  <2>4. ASSUME NEW q \in Projects, last'[q] # NoTimer
        PROVE  /\ runs'[last'[q]].dir = q
               /\ runs'[last'[q]].pc \notin {"waiting", "cancelled"}
               /\ \A j \in Active' : runs'[j].dir = q /\ j # last'[q] => {last'[q], j} \in overlaps'
    <3>1. /\ last[q] \in DOMAIN runs /\ runs[last[q]].dir = q
          /\ runs[last[q]].pc \notin {"waiting", "cancelled"}
          /\ \A j \in Active : runs[j].dir = q /\ j # last[q] => {last[q], j} \in overlaps
      BY <1>1, <2>1, <2>4 DEF HistoryInv
    <3>2. runs'[last[q]] = runs[last[q]]
      BY <2>1, <3>1
    <3> QED  BY <2>1, <2>2, <3>1, <3>2
  <2>5. ASSUME NEW j \in DOMAIN runs', runs'[j].pc \notin {"waiting", "cancelled"}
        PROVE  last'[runs'[j].dir] # NoTimer
    BY <2>1, <2>5 DEF HistoryInv
  <2>6. ASSUME NEW b \in Procs, NEW q \in Projects, timer'[b][q] # NoTimer
        PROVE  timer'[b][q] \in DOMAIN runs' /\ runs'[timer'[b][q]].dir = q
    <3>1. CASE b = c /\ q = p
      BY <1>1, <2>1, <3>1
    <3>2. CASE ~(b = c /\ q = p)
      <4>1. timer'[b][q] = timer[b][q]
        BY <1>1, <2>1, <3>2
      <4>2. timer[b][q] \in DOMAIN runs /\ runs[timer[b][q]].dir = q
        BY <2>6, <4>1 DEF HistoryInv
      <4> QED  BY <2>1, <4>1, <4>2
    <3> QED  BY <3>1, <3>2
  <2>7. ASSUME NEW j \in DOMAIN runs', runs'[j].pc = "waiting"
        PROVE  runs'[j].files = {} /\ runs'[j].subdir = "src"
    BY <2>1, <2>7 DEF HistoryInv
  <2> QED  BY <2>3, <2>4, <2>5, <2>6, <2>7 DEF HistoryInv
<1>7. ASSUME NEW i \in DOMAIN runs, GenStep(i) PROVE HistoryInv'
  <2>1. /\ runs[i].pc \in Steps /\ DOMAIN runs' = DOMAIN runs
        /\ \A j \in DOMAIN runs : j # i => runs'[j] = runs[j]
        /\ runs'[i].dir = runs[i].dir
        /\ runs'[i].pc \in Steps \cup {"done", "died"}
        /\ UNCHANGED <<timer, overlaps, last>>
    BY <1>7, DiskTypes DEF Moves
  <2>2. /\ \A j \in DOMAIN runs : runs'[j].dir = runs[j].dir
        /\ \A j \in DOMAIN runs : runs'[j].pc \notin {"waiting", "cancelled"}
                                    <=> runs[j].pc \notin {"waiting", "cancelled"}
        /\ \A j \in DOMAIN runs : runs'[j].pc = "waiting" => j # i
    BY <2>1 DEF Steps
  <2>3. Active' \subseteq Active
    BY <2>1 DEF Active, Ended, Steps
  <2>4. Active \subseteq DOMAIN runs
    BY DEF Active
  <2>5. \A j, k \in Active' : j # k => {j, k} \in overlaps'
    BY <2>1, <2>3 DEF HistoryInv
  <2>6. ASSUME NEW q \in Projects, last'[q] # NoTimer
        PROVE  /\ runs'[last'[q]].dir = q
               /\ runs'[last'[q]].pc \notin {"waiting", "cancelled"}
               /\ \A j \in Active' : runs'[j].dir = q /\ j # last'[q] => {last'[q], j} \in overlaps'
    <3>1. /\ last[q] \in DOMAIN runs /\ runs[last[q]].dir = q
          /\ runs[last[q]].pc \notin {"waiting", "cancelled"}
          /\ \A j \in Active : runs[j].dir = q /\ j # last[q] => {last[q], j} \in overlaps
      BY <1>1, <2>1, <2>6 DEF HistoryInv
    <3> QED  BY <2>1, <2>2, <2>3, <2>4, <3>1
  <2>7. ASSUME NEW j \in DOMAIN runs', runs'[j].pc \notin {"waiting", "cancelled"}
        PROVE  last'[runs'[j].dir] # NoTimer
    BY <2>1, <2>2, <2>7 DEF HistoryInv
  <2>8. ASSUME NEW c \in Procs, NEW q \in Projects, timer'[c][q] # NoTimer
        PROVE  timer'[c][q] \in DOMAIN runs' /\ runs'[timer'[c][q]].dir = q
    <3>1. timer[c][q] \in DOMAIN runs /\ runs[timer[c][q]].dir = q
      BY <2>1, <2>8 DEF HistoryInv
    <3> QED  BY <2>1, <2>2, <3>1
  <2>9. ASSUME NEW j \in DOMAIN runs', runs'[j].pc = "waiting"
        PROVE  runs'[j].files = {} /\ runs'[j].subdir = "src"
    BY <2>1, <2>2, <2>9 DEF HistoryInv
  <2> QED  BY <2>5, <2>6, <2>7, <2>8, <2>9 DEF HistoryInv
<1> QED  BY <1>3, <1>4, <1>5, <1>6, <1>7, StepKinds DEF core, Alters, Notices, Drops

\* A file belongs to one project, and goes on belonging to it.
LEMMA OwnedByOne ==
    ASSUME CoreTypes, NEW p \in Projects, NEW q \in Projects, NEW f, f \in FilesOf(p), f \in FilesOf(q)
    PROVE  p = q /\ f # NoFile
<1>1. runs \in Seq(Run) /\ DOMAIN runs \subseteq Nat
  BY DEF CoreTypes
<1>2. /\ \A x \in Projects : x \notin Nat /\ x # Left /\ x # NoFile
      /\ Left \notin Nat /\ NoFile \notin Nat /\ Left # NoFile
  BY NamesAssumption DEF NamesAssumption
<1> QED  BY <1>1, <1>2 DEF FilesOf

\* Runs do not change their directory.
LEMMA OwnedStays ==
    ASSUME DOMAIN runs \subseteq DOMAIN runs',
           \A j \in DOMAIN runs : runs'[j].dir = runs[j].dir
    PROVE  \A p : FilesOf(p) \subseteq FilesOf(p)'
  BY DEF FilesOf

\* A new run is not the name of a file.
LEMMA NotOwned ==
    ASSUME CoreTypes, FilesInv, NEW n \in Nat, n \notin DOMAIN runs, NEW p \in Projects
    PROVE  out[p] # n /\ temp[p] # n
<1>1. p # n /\ n # Left /\ n # NoFile
  BY NamesAssumption DEF NamesAssumption
<1>2. n \notin FilesOf(p)
  BY <1>1 DEF FilesOf
<1> QED  BY <1>1, <1>2 DEF FilesInv

\* The steps of gen_filelist keep the files of projects apart.
LEMMA FilesGen ==
    ASSUME CoreTypes, FilesInv, NEW i \in DOMAIN runs, GenStep(i)
    PROVE  FilesInv'
<1>1. /\ runs \in Seq(Run) /\ i \in Nat /\ runs[i] \in Run
      /\ out \in [Projects -> FileIds \cup {NoFile}]
      /\ temp \in [Projects -> FileIds \cup {NoFile}]
      /\ DOMAIN runs \subseteq Nat
  BY DEF CoreTypes
<1>2. PICK p \in Projects : p = runs[i].dir
  BY <1>1, RunFields
<1>3. /\ runs[i].pc \in Steps /\ DOMAIN runs' = DOMAIN runs
      /\ \A j \in DOMAIN runs : j # i => runs'[j] = runs[j]
      /\ runs'[i].dir = p
      /\ \A j \in DOMAIN runs : runs'[j].dir = runs[j].dir
  BY <1>2, DiskTypes DEF Moves
<1>4. \A q \in Projects : FilesOf(q) \subseteq FilesOf(q)'
  BY <1>3, OwnedStays
<1>5. NoFile \notin Nat
  BY NamesAssumption DEF NamesAssumption
<1>6. CASE /\ UNCHANGED <<out, temp>> /\ DOMAIN content' = DOMAIN content
           /\ runs'[i].pc # "write"
           /\ runs'[i].pc \in Before => runs[i].pc \in Before
  <2>1. \A q \in Projects :
          /\ out'[q] # NoFile => out'[q] \in FilesOf(q)' /\ out'[q] \in DOMAIN content'
          /\ temp'[q] # NoFile => temp'[q] \in FilesOf(q)' /\ temp'[q] \in DOMAIN content'
          /\ out'[q] # NoFile => out'[q] # temp'[q]
    BY <1>4, <1>6 DEF FilesInv
  <2>2. ASSUME NEW j \in DOMAIN runs', runs'[j].pc = "write"
        PROVE  runs'[j].file \in FilesOf(runs[j].dir)' /\ runs'[j].file \in DOMAIN content'
    BY <1>1, <1>3, <1>4, <1>6, <2>2, RunFields DEF FilesInv
  <2>3. ASSUME NEW j \in DOMAIN runs', runs'[j].pc \in Before, NEW q \in Projects
        PROVE  out'[q] # j /\ temp'[q] # j
    BY <1>3, <1>6, <2>3 DEF FilesInv
  <2> QED  BY <2>1, <2>2, <2>3 DEF FilesInv
<1>7. CASE GetCwd(i) \/ ChDir(i) \/ Walk(i) \/ RestoreCwd(i) \/ Compare(i)
  BY <1>6, <1>7, GetCwdFacts, ChDirFacts, WalkFacts, RestoreCwdFacts, CompareFacts DEF Before
<1>8. CASE OpenTemp(i)
  <2>1. PICK f \in FileIds :
          /\ f = IF temp[p] = NoFile THEN i ELSE temp[p]
          /\ runs[i].pc = "open" /\ runs'[i].pc = "write" /\ runs'[i].file = f
          /\ temp' = [temp EXCEPT ![p] = f]
          /\ content' = Written(f, Partial)
          /\ out' = out
    BY <1>2, <1>8, OpenTempFacts
  <2>2. DOMAIN content' = DOMAIN content \cup {f}
    BY <2>1, WrittenFacts
  <2>3. f \in FilesOf(p)'
    BY <1>2, <1>3, <1>4, <2>1 DEF FilesOf, FilesInv
  <2>4. temp'[p] = f /\ \A q \in Projects : q # p => temp'[q] = temp[q]
    BY <1>1, <2>1
  <2>5. \A q \in Projects : out'[q] # NoFile => out'[q] \in FilesOf(q)' /\ out'[q] \in DOMAIN content'
    BY <1>4, <2>1, <2>2 DEF FilesInv
  <2>6. \A q \in Projects : temp'[q] # NoFile => temp'[q] \in FilesOf(q)' /\ temp'[q] \in DOMAIN content'
    BY <1>4, <2>2, <2>3, <2>4 DEF FilesInv
  <2>7. \A q \in Projects : out'[q] # NoFile => out'[q] # temp'[q]
    BY <1>3, <1>5, <2>1, <2>4 DEF FilesInv, Before
  <2>8. ASSUME NEW j \in DOMAIN runs', runs'[j].pc = "write"
        PROVE  runs'[j].file \in FilesOf(runs[j].dir)' /\ runs'[j].file \in DOMAIN content'
    BY <1>1, <1>3, <1>4, <2>1, <2>2, <2>3, <2>8, RunFields, SMTT(30) DEF FilesInv
  <2>9. ASSUME NEW j \in DOMAIN runs', runs'[j].pc \in Before, NEW q \in Projects
        PROVE  out'[q] # j /\ temp'[q] # j
    <3>1. j # i
      BY <2>1, <2>9 DEF Before
    <3>2. j \in DOMAIN runs /\ runs[j].pc \in Before
      BY <1>3, <2>9, <3>1
    <3>3. f # j
      BY <1>2, <2>1, <3>1, <3>2 DEF FilesInv
    <3> QED  BY <2>1, <2>4, <3>2, <3>3 DEF FilesInv
  <2> QED  BY <2>5, <2>6, <2>7, <2>8, <2>9 DEF FilesInv
<1>9. CASE WriteTemp(i)
  <2>1. /\ runs[i].pc = "write" /\ runs'[i].pc = "compare"
        /\ content' = Written(runs[i].file, runs[i].files)
        /\ UNCHANGED <<out, temp>>
    BY <1>9, WriteTempFacts
  <2>2. runs[i].file \in DOMAIN content /\ runs[i].file \in FileIds
    BY <2>1 DEF FilesInv, CoreTypes
  <2>3. DOMAIN content' = DOMAIN content \cup {runs[i].file}
    BY <1>1, <2>1, <2>2, WrittenFacts, RunFields, ZenonT(60)
  <2>4. DOMAIN content' = DOMAIN content
    BY <2>2, <2>3
  <2> QED  BY <1>6, <2>1, <2>4 DEF Before
<1>10. CASE /\ runs'[i].pc \notin Before \cup {"write"}
            /\ content' = content
            /\ temp' = [temp EXCEPT ![p] = NoFile]
            /\ \/ out' = out
               \/ temp[p] # NoFile /\ out' = [out EXCEPT ![p] = temp[p]]
  <2>1. temp'[p] = NoFile /\ \A q \in Projects : q # p => temp'[q] = temp[q] /\ out'[q] = out[q]
    BY <1>1, <1>10
  <2>2. out'[p] = out[p] \/ (temp[p] # NoFile /\ out'[p] = temp[p])
    BY <1>1, <1>10
  <2>3. \A q \in Projects :
          /\ out'[q] # NoFile => out'[q] \in FilesOf(q)' /\ out'[q] \in DOMAIN content'
          /\ temp'[q] # NoFile => temp'[q] \in FilesOf(q)' /\ temp'[q] \in DOMAIN content'
          /\ out'[q] # NoFile => out'[q] # temp'[q]
    BY <1>4, <1>10, <2>1, <2>2 DEF FilesInv
  <2>4. ASSUME NEW j \in DOMAIN runs', runs'[j].pc = "write"
        PROVE  runs'[j].file \in FilesOf(runs[j].dir)' /\ runs'[j].file \in DOMAIN content'
    BY <1>1, <1>3, <1>4, <1>10, <2>4, RunFields DEF FilesInv
  <2>5. ASSUME NEW j \in DOMAIN runs', runs'[j].pc \in Before, NEW q \in Projects
        PROVE  out'[q] # j /\ temp'[q] # j
    <3>1. j \in DOMAIN runs /\ runs[j].pc \in Before
      BY <1>3, <1>10, <2>5
    <3>2. j # NoFile
      BY <1>1, <1>5, <3>1
    <3> QED  BY <2>1, <2>2, <3>1, <3>2 DEF FilesInv
  <2> QED  BY <2>3, <2>4, <2>5 DEF FilesInv
<1>11. CASE RemoveTemp(i) \/ Rename(i)
  BY <1>2, <1>10, <1>11, RemoveTempFacts, RenameFacts DEF Before
<1>12. CASE RemoveOld(i)
  <2>1. /\ runs'[i].pc = "rename" /\ UNCHANGED <<temp, content>>
        /\ out' = [out EXCEPT ![p] = NoFile]
    BY <1>2, <1>12, RemoveOldFacts
  <2>2. out'[p] = NoFile /\ \A q \in Projects : q # p => out'[q] = out[q]
    BY <1>1, <2>1
  <2>3. \A q \in Projects :
          /\ out'[q] # NoFile => out'[q] \in FilesOf(q)' /\ out'[q] \in DOMAIN content'
          /\ temp'[q] # NoFile => temp'[q] \in FilesOf(q)' /\ temp'[q] \in DOMAIN content'
          /\ out'[q] # NoFile => out'[q] # temp'[q]
    BY <1>4, <2>1, <2>2 DEF FilesInv
  <2>4. ASSUME NEW j \in DOMAIN runs', runs'[j].pc = "write"
        PROVE  runs'[j].file \in FilesOf(runs[j].dir)' /\ runs'[j].file \in DOMAIN content'
    BY <1>1, <1>3, <1>4, <2>1, <2>4, RunFields DEF FilesInv
  <2>5. ASSUME NEW j \in DOMAIN runs', runs'[j].pc \in Before, NEW q \in Projects
        PROVE  out'[q] # j /\ temp'[q] # j
    <3>1. j \in DOMAIN runs /\ runs[j].pc \in Before
      BY <1>3, <2>1, <2>5 DEF Before
    <3>2. j # NoFile
      BY <1>1, <1>5, <3>1
    <3> QED  BY <2>1, <2>2, <3>1, <3>2 DEF FilesInv
  <2> QED  BY <2>3, <2>4, <2>5 DEF FilesInv
<1> QED  BY <1>7, <1>8, <1>9, <1>11, <1>12 DEF GenStep

\* All steps do.
LEMMA FilesNext ==
    ASSUME CoreTypes, FilesInv, HistoryInv, todo \in Seq(Projects), [Next]_vars
    PROVE  FilesInv'
<1>1. /\ runs \in Seq(Run) /\ DOMAIN runs \subseteq Nat
      /\ \A j \in DOMAIN runs : runs[j].dir \in Projects
  BY RunFields DEF CoreTypes
<1>2. \A c \in Procs, p \in Projects : timer[c][p] # NoTimer => timer[c][p] \in DOMAIN runs
  BY DEF HistoryInv
<1>3. CASE UNCHANGED <<runs, out, temp, content>>
  BY <1>3 DEF FilesInv, FilesOf
<1>4. ASSUME UNCHANGED <<out, temp, content>>,
             NEW n \in Nat, DOMAIN runs' = DOMAIN runs \cup {n},
             n \in DOMAIN runs => runs[n].pc = "waiting",
             \A j \in DOMAIN runs : runs'[j].dir = runs[j].dir,
             \A j \in DOMAIN runs : \/ runs'[j] = runs[j]
                                    \/ runs[j].pc = "waiting" /\ runs'[j].pc # "write",
             runs'[n].pc # "write"
      PROVE  FilesInv'
  <2>1. \A q \in Projects : FilesOf(q) \subseteq FilesOf(q)'
    BY <1>4, OwnedStays
  <2>2. \A q \in Projects :
          /\ out'[q] # NoFile => out'[q] \in FilesOf(q)' /\ out'[q] \in DOMAIN content'
          /\ temp'[q] # NoFile => temp'[q] \in FilesOf(q)' /\ temp'[q] \in DOMAIN content'
          /\ out'[q] # NoFile => out'[q] # temp'[q]
    BY <1>4, <2>1 DEF FilesInv
  <2>3. ASSUME NEW j \in DOMAIN runs', runs'[j].pc = "write"
        PROVE  runs'[j].file \in FilesOf(runs[j].dir)' /\ runs'[j].file \in DOMAIN content'
    <3>1. j \in DOMAIN runs /\ runs'[j] = runs[j]
      BY <1>4, <2>3
    <3> QED  BY <1>1, <1>4, <2>1, <2>3, <3>1 DEF FilesInv
  <2>4. ASSUME NEW j \in DOMAIN runs', runs'[j].pc \in Before, NEW q \in Projects
        PROVE  out'[q] # j /\ temp'[q] # j
    <3>1. CASE j \in DOMAIN runs
      <4>1. runs[j].pc \in Before
        BY <1>4, <2>4, <3>1 DEF Before
      <4> QED  BY <1>4, <3>1, <4>1 DEF FilesInv
    <3>2. CASE j \notin DOMAIN runs
      BY <1>4, <3>2, NotOwned
    <3> QED  BY <3>1, <3>2
  <2> QED  BY <2>2, <2>3, <2>4 DEF FilesInv
<1>5. ASSUME NEW p \in Projects, NEW i \in Nat, Begins(i, p) PROVE FilesInv'
  BY <1>4, <1>5 DEF Begins
<1>6. ASSUME NEW c \in Procs, NEW p \in Projects, Notices(c, p), NEW n \in Nat, Replaces(c, p, n)
      PROVE  FilesInv'
  BY <1>4, <1>6 DEF Notices, Replaces
<1> QED  BY <1>2, <1>3, <1>5, <1>6, FilesGen, StepKinds DEF core, Alters, Notices, Drops

\* A run leaves the files of other projects, and the working directories of
\* other processes, alone.
LEMMA Elsewhere ==
    ASSUME CoreTypes, FilesInv, NEW i \in DOMAIN runs, GenStep(i)
    PROVE  /\ \A q \in Projects : q # runs[i].dir =>
                /\ out'[q] = out[q] /\ temp'[q] = temp[q]
                /\ out[q] # NoFile => content'[out[q]] = content[out[q]]
                /\ temp[q] # NoFile => content'[temp[q]] = content[temp[q]]
           /\ \A c \in Procs \cup {Batch} : c # runs[i].proc => cwd'[c] = cwd[c]
<1>1. /\ runs \in Seq(Run) /\ runs[i] \in Run
      /\ out \in [Projects -> FileIds \cup {NoFile}]
      /\ temp \in [Projects -> FileIds \cup {NoFile}]
      /\ cwd \in [Procs \cup {Batch} -> Dirs]
  BY DEF CoreTypes
<1>2. PICK p \in Projects : p = runs[i].dir
  BY <1>1, RunFields
<1>3. runs[i].files \in SUBSET Entries
  BY <1>1, RunFields
<1>4. ASSUME NEW f \in FilesOf(p), NEW q \in Projects, q # p
      PROVE  f # out[q] /\ f # temp[q]
  <2>1. f # NoFile /\ f \notin FilesOf(q)
    BY <1>4, OwnedByOne
  <2> QED  BY <2>1 DEF FilesInv
<1>5. ASSUME NEW f \in FilesOf(p), f \in FileIds, NEW c \in {Partial} \cup SUBSET Entries,
             content' = Written(f, c), NEW q \in Projects, q # p
      PROVE  /\ out[q] # NoFile => content'[out[q]] = content[out[q]]
             /\ temp[q] # NoFile => content'[temp[q]] = content[temp[q]]
  <2>1. \A x \in DOMAIN content : x # f => content'[x] = content[x]
    BY <1>5, WrittenFacts
  <2> QED  BY <1>4, <1>5, <2>1 DEF FilesInv
<1>6. CASE GetCwd(i) \/ Walk(i) \/ Compare(i)
  BY <1>6, GetCwdFacts, WalkFacts, CompareFacts
<1>7. CASE ChDir(i)
  BY <1>1, <1>7, ChDirFacts
<1>8. CASE RestoreCwd(i)
  BY <1>1, <1>8, RestoreCwdFacts
<1>9. CASE OpenTemp(i)
  <2>1. PICK f \in FileIds :
          /\ f = IF temp[p] = NoFile THEN i ELSE temp[p]
          /\ temp' = [temp EXCEPT ![p] = f]
          /\ content' = Written(f, Partial)
          /\ UNCHANGED <<out, cwd>>
    BY <1>2, <1>9, OpenTempFacts
  <2>2. f \in FilesOf(p)
    BY <1>2, <2>1 DEF FilesOf, FilesInv
  <2> QED  BY <1>1, <1>2, <1>5, <2>1, <2>2
<1>10. CASE WriteTemp(i)
  <2>1. /\ runs[i].pc = "write" /\ UNCHANGED <<out, temp, cwd>>
        /\ content' = Written(runs[i].file, runs[i].files)
    BY <1>10, WriteTempFacts
  <2>2. runs[i].file \in FilesOf(p) /\ runs[i].file \in FileIds
    BY <1>2, <2>1 DEF FilesInv, CoreTypes
  <2> QED  BY <1>2, <1>3, <1>5, <2>1, <2>2
<1>11. CASE RemoveTemp(i)
  BY <1>1, <1>2, <1>11, RemoveTempFacts
<1>12. CASE RemoveOld(i)
  BY <1>1, <1>2, <1>12, RemoveOldFacts
<1>13. CASE Rename(i)
  BY <1>1, <1>2, <1>13, RenameFacts
<1> QED  BY <1>6, <1>7, <1>8, <1>9, <1>10, <1>11, <1>12, <1>13 DEF GenStep

\* If no two runs for its project overlapped, a run is the only one that is active.
LEMMA AloneInProject ==
    ASSUME CoreTypes, HistoryInv, NEW i \in DOMAIN runs, runs[i].pc \in Steps,
           ~ Shared(runs[i].dir)
    PROVE  \A j \in DOMAIN runs :
             j # i /\ runs[j].dir = runs[i].dir => runs[j].pc \notin Steps
<1> SUFFICES ASSUME NEW j \in DOMAIN runs, j # i, runs[j].dir = runs[i].dir, runs[j].pc \in Steps
             PROVE  FALSE
  OBVIOUS
<1>1. i \in Active /\ j \in Active
  BY DEF Active, Steps, Ended
<1>2. {i, j} \in overlaps
  BY <1>1 DEF HistoryInv
<1> QED  BY <1>2 DEF Shared

\* A run that is alone in its project keeps the list whole.
LEMMA WholeGen ==
    ASSUME CoreTypes, FilesInv, HistoryInv, NEW i \in DOMAIN runs, GenStep(i),
           WholeAt(runs[i].dir), ~ Shared(runs[i].dir)
    PROVE  WholeAt(runs[i].dir)'
<1>1. /\ runs \in Seq(Run) /\ runs[i] \in Run /\ i \in Nat
      /\ out \in [Projects -> FileIds \cup {NoFile}]
      /\ temp \in [Projects -> FileIds \cup {NoFile}]
  BY DEF CoreTypes
<1>2. PICK p \in Projects : p = runs[i].dir
  BY <1>1, RunFields
<1>3. /\ runs[i].pc \in Steps /\ DOMAIN runs' = DOMAIN runs
      /\ \A j \in DOMAIN runs : j # i => runs'[j] = runs[j]
      /\ runs'[i].dir = p
  BY <1>2, DiskTypes DEF Moves
<1>4. \A j \in DOMAIN runs : j # i /\ runs[j].dir = p => runs[j].pc \notin Steps
  BY <1>2, <1>3, AloneInProject
<1> SUFFICES /\ out'[p] # NoFile => content'[out'[p]] # Partial
             /\ runs'[i].pc = "write" => runs'[i].file = temp'[p]
             /\ runs'[i].pc \in After /\ temp'[p] # NoFile => content'[temp'[p]] # Partial
  <2>1. \A j \in DOMAIN runs' : j # i /\ runs'[j].dir = p =>
           runs'[j].pc # "write" /\ runs'[j].pc \notin After
    BY <1>3, <1>4 DEF Steps, After
  <2>2. runs'[i].dir = p /\ DOMAIN runs' = DOMAIN runs /\ runs[i].dir = p
    BY <1>2, <1>3
  <2> QED  BY <1>2, <1>3, <2>1 DEF WholeAt
<1>5. /\ out[p] # NoFile => content[out[p]] # Partial
      /\ runs[i].pc = "write" => runs[i].file = temp[p]
      /\ runs[i].pc \in After /\ temp[p] # NoFile => content[temp[p]] # Partial
      /\ out[p] # NoFile => out[p] # temp[p] /\ out[p] \in DOMAIN content
  BY <1>2 DEF WholeAt, FilesInv
<1>6. CASE GetCwd(i) \/ ChDir(i) \/ Walk(i) \/ RestoreCwd(i)
  BY <1>5, <1>6, GetCwdFacts, ChDirFacts, WalkFacts, RestoreCwdFacts DEF After
<1>7. CASE Compare(i)
  BY <1>5, <1>7, CompareFacts DEF After
<1>8. CASE OpenTemp(i)
  <2>1. PICK f \in FileIds :
          /\ f = IF temp[p] = NoFile THEN i ELSE temp[p]
          /\ runs[i].pc = "open" /\ runs'[i].pc = "write" /\ runs'[i].file = f
          /\ temp' = [temp EXCEPT ![p] = f]
          /\ content' = Written(f, Partial)
          /\ out' = out
    BY <1>2, <1>8, OpenTempFacts
  <2>2. \A x \in DOMAIN content : x # f => content'[x] = content[x]
    BY <2>1, WrittenFacts
  <2>3. out[p] # NoFile => out[p] # f
    BY <1>5, <2>1 DEF FilesInv, Before
  <2> QED  BY <1>1, <1>5, <2>1, <2>2, <2>3 DEF After
<1>9. CASE WriteTemp(i)
  <2>1. /\ runs[i].pc = "write" /\ runs'[i].pc = "compare"
        /\ content' = Written(runs[i].file, runs[i].files)
        /\ UNCHANGED <<out, temp>>
    BY <1>9, WriteTempFacts
  <2>2. runs[i].file \in FileIds /\ runs[i].files \in SUBSET Entries
    BY <1>1, <2>1, RunFields DEF FilesInv, CoreTypes
  <2>3. runs[i].files # Partial
    BY <2>2, NamesAssumption DEF NamesAssumption, Entries, Subdirs
  <2>4. /\ content'[runs[i].file] = runs[i].files
        /\ \A x \in DOMAIN content : x # runs[i].file => content'[x] = content[x]
    BY <2>1, <2>2, WrittenFacts
  <2> QED  BY <1>5, <2>1, <2>3, <2>4
<1>10. CASE RemoveTemp(i)
  BY <1>1, <1>2, <1>5, <1>10, RemoveTempFacts DEF After
<1>11. CASE RemoveOld(i)
  BY <1>1, <1>2, <1>5, <1>11, RemoveOldFacts DEF After
<1>12. CASE Rename(i)
  BY <1>1, <1>2, <1>5, <1>12, RenameFacts DEF After
<1> QED  BY <1>6, <1>7, <1>8, <1>9, <1>10, <1>11, <1>12 DEF GenStep

\* All steps keep the lists whole.
LEMMA WholeNext ==
    ASSUME CoreTypes, FilesInv, HistoryInv, WholeInv, todo \in Seq(Projects), [Next]_vars
    PROVE  WholeInv'
<1>1. /\ runs \in Seq(Run) /\ DOMAIN runs \subseteq Nat
      /\ overlaps \subseteq SUBSET DOMAIN runs
      /\ \A j \in DOMAIN runs : runs[j].dir \in Projects
  BY RunFields DEF CoreTypes
<1>2. \A c \in Procs, p \in Projects : timer[c][p] # NoTimer => timer[c][p] \in DOMAIN runs
  BY DEF HistoryInv
<1>3. ASSUME overlaps \subseteq overlaps',
             \A j \in DOMAIN runs : runs'[j].dir = runs[j].dir,
             NEW q \in Projects, Shared(q)
      PROVE  Shared(q)'
  BY <1>1, <1>3 DEF Shared
<1>4. CASE UNCHANGED <<runs, out, temp, content, overlaps>>
  BY <1>4 DEF WholeInv, WholeAt, Shared
<1>5. ASSUME UNCHANGED <<out, temp, content>>, overlaps \subseteq overlaps',
             \A j \in DOMAIN runs : runs'[j].dir = runs[j].dir,
             \A j \in DOMAIN runs' :
                \/ j \in DOMAIN runs /\ runs'[j] = runs[j]
                \/ runs'[j].pc \in {"waiting", "getcwd", "cancelled"}
      PROVE  WholeInv'
  <2>1. ASSUME NEW q \in Projects, WholeAt(q) PROVE WholeAt(q)'
    BY <1>5, <2>1 DEF WholeAt, After
  <2> QED  BY <1>3, <1>5, <2>1 DEF WholeInv
<1>6. ASSUME NEW p \in Projects, NEW i \in Nat, Begins(i, p) PROVE WholeInv'
  BY <1>5, <1>6 DEF Begins
<1>7. ASSUME NEW c \in Procs, NEW p \in Projects, Notices(c, p), NEW n \in Nat, Replaces(c, p, n)
      PROVE  WholeInv'
  BY <1>5, <1>7 DEF Notices, Replaces
<1>8. ASSUME NEW i \in DOMAIN runs, GenStep(i) PROVE WholeInv'
  <2>1. /\ DOMAIN runs' = DOMAIN runs
        /\ \A j \in DOMAIN runs : j # i => runs'[j] = runs[j]
        /\ \A j \in DOMAIN runs : runs'[j].dir = runs[j].dir
        /\ overlaps' = overlaps
    BY <1>8, DiskTypes DEF Moves
  <2>2. ASSUME NEW q \in Projects, ~ Shared(q) PROVE WholeAt(q)'
    <3>1. WholeAt(q)
      BY <2>2 DEF WholeInv
    <3>2. CASE q = runs[i].dir
      <4>1. WholeAt(runs[i].dir)'
        BY <1>8, <2>2, <3>1, <3>2, WholeGen
      <4>2. runs'[i].dir = q
        BY <2>1, <3>2
      <4> QED  BY <3>2, <4>1, <4>2 DEF WholeAt
    <3>3. CASE q # runs[i].dir
      <4>1. /\ out'[q] = out[q] /\ temp'[q] = temp[q]
            /\ out[q] # NoFile => content'[out[q]] = content[out[q]]
            /\ temp[q] # NoFile => content'[temp[q]] = content[temp[q]]
        BY <1>8, <3>3, Elsewhere
      <4>2. \A j \in DOMAIN runs' : runs'[j].dir = q => j \in DOMAIN runs /\ runs'[j] = runs[j]
        BY <2>1, <3>3
      <4> QED  BY <3>1, <4>1, <4>2 DEF WholeAt
    <3> QED  BY <3>2, <3>3
  <2> QED  BY <1>3, <2>1, <2>2 DEF WholeInv
<1> QED  BY <1>2, <1>4, <1>6, <1>7, <1>8, StepKinds DEF core, Alters, Notices, Drops

\* The two walks together find the whole list.
LEMMA TwoParts ==
    ASSUME NEW p \in Projects, NEW r
    PROVE  /\ r.subdir = "src" => Found(r, p) = FirstPart(p)
           /\ r.subdir = "include" => FirstPart(p) \cup Found(r, p) = Listing(tree[p])
<1>1. \A e \in Listing(tree[p]) : e[1] \in {"src", "include"}
  BY DEF Listing, Subdirs
<1> QED  BY <1>1 DEF Found, FirstPart

\* A run that is on course for the tree as it is stays so in its own steps.
LEMMA StaysOnCourse ==
    ASSUME CoreTypes, FilesInv, NEW i \in DOMAIN runs, GenStep(i),
           OnCourse(runs[i].dir, runs[i])
    PROVE  OnCourse(runs[i].dir, runs[i])'
<1>1. /\ runs \in Seq(Run) /\ runs[i] \in Run /\ i \in Nat
      /\ out \in [Projects -> FileIds \cup {NoFile}]
      /\ temp \in [Projects -> FileIds \cup {NoFile}]
      /\ cwd \in [Procs \cup {Batch} -> Dirs]
  BY DEF CoreTypes
<1>2. PICK p \in Projects : p = runs[i].dir
  BY <1>1, RunFields
<1>3. PICK L : L = Listing(tree[p])
  OBVIOUS
<1>4. PICK F : F = FirstPart(p)
  OBVIOUS
<1>5. /\ tree' = tree /\ runs'[i].dir = p /\ runs'[i].proc = runs[i].proc
      /\ runs[i].proc \in Procs \cup {Batch} /\ runs[i].subdir \in {"src", "include"}
      /\ L = Listing(tree'[p]) /\ F = FirstPart(p)'
  BY <1>1, <1>2, <1>3, <1>4, DiskTypes, RunFields DEF Moves, FirstPart, Subdirs
<1> SUFFICES /\ runs'[i].pc \in {"getcwd", "chdir", "walk"} =>
                  runs'[i].files = IF runs'[i].subdir = "src" THEN {} ELSE F
             /\ runs'[i].pc = "walk" => cwd'[runs[i].proc] = p
             /\ runs'[i].pc = "restore" =>
                  runs'[i].files = IF runs'[i].subdir = "src" THEN F ELSE L
             /\ runs'[i].pc \in {"open", "write"} => runs'[i].files = L
             /\ runs'[i].pc = "write" => temp'[p] = runs'[i].file
             /\ runs'[i].pc \in After => temp'[p] # NoFile /\ content'[temp'[p]] = L
             /\ runs'[i].pc \in {"remove", "done"} => out'[p] # NoFile /\ content'[out'[p]] = L
             /\ runs'[i].pc # "died"
  BY <1>5 DEF OnCourse, Current
<1>6. /\ runs[i].pc \in {"getcwd", "chdir", "walk"} =>
           runs[i].files = IF runs[i].subdir = "src" THEN {} ELSE F
      /\ runs[i].pc = "walk" => cwd[runs[i].proc] = p
      /\ runs[i].pc = "restore" =>
           runs[i].files = IF runs[i].subdir = "src" THEN F ELSE L
      /\ runs[i].pc \in {"open", "write"} => runs[i].files = L
      /\ runs[i].pc = "write" => temp[p] = runs[i].file
      /\ runs[i].pc \in After => temp[p] # NoFile /\ content[temp[p]] = L
      /\ runs[i].pc \in {"remove", "done"} => out[p] # NoFile /\ content[out[p]] = L
  BY <1>2, <1>3, <1>4 DEF OnCourse, Current
<1>7. CASE GetCwd(i)
  BY <1>6, <1>7, GetCwdFacts DEF After
<1>8. CASE ChDir(i)
  BY <1>1, <1>2, <1>5, <1>6, <1>8, ChDirFacts DEF After
<1>9. CASE Walk(i)
  <2>1. /\ runs[i].pc = "walk" /\ runs'[i].pc = "restore" /\ runs'[i].subdir = runs[i].subdir
        /\ runs'[i].files = runs[i].files \cup Found(runs[i], cwd[runs[i].proc])
    BY <1>9, WalkFacts
  <2>2. runs'[i].files = runs[i].files \cup Found(runs[i], p)
    BY <1>6, <2>1
  <2>3. runs'[i].files = IF runs'[i].subdir = "src" THEN F ELSE L
    <3>1. CASE runs[i].subdir = "src"
      BY <1>4, <1>6, <2>1, <2>2, <3>1, TwoParts
    <3>2. CASE runs[i].subdir = "include"
      BY <1>3, <1>4, <1>6, <2>1, <2>2, <3>2, TwoParts
    <3> QED  BY <1>5, <3>1, <3>2
  <2> QED  BY <2>1, <2>3 DEF After
<1>10. CASE RestoreCwd(i)
  BY <1>5, <1>6, <1>10, RestoreCwdFacts DEF After
<1>11. CASE OpenTemp(i)
  <2>1. PICK f \in FileIds :
          /\ runs[i].pc = "open" /\ runs'[i].pc = "write"
          /\ runs'[i].files = runs[i].files /\ runs'[i].file = f
          /\ temp' = [temp EXCEPT ![p] = f]
    BY <1>2, <1>11, OpenTempFacts
  <2> QED  BY <1>1, <1>6, <2>1 DEF After
<1>12. CASE WriteTemp(i)
  <2>1. /\ runs[i].pc = "write" /\ runs'[i].pc = "compare"
        /\ content' = Written(runs[i].file, runs[i].files)
        /\ UNCHANGED <<out, temp>>
    BY <1>12, WriteTempFacts
  <2>2. /\ runs[i].file \in FileIds /\ runs[i].files \in SUBSET Entries
        /\ runs[i].file \in FilesOf(p)
    BY <1>1, <1>2, <2>1, RunFields DEF FilesInv, CoreTypes
  <2>3. content'[runs[i].file] = runs[i].files
    BY <2>1, <2>2, WrittenFacts, ZenonT(60)
  <2>4. runs[i].file # NoFile
    BY <2>2, OwnedByOne
  <2> QED  BY <1>6, <2>1, <2>3, <2>4 DEF After
<1>13. CASE Compare(i)
  BY <1>2, <1>6, <1>13, CompareFacts DEF After, SameContent
<1>14. CASE RemoveTemp(i)
  BY <1>2, <1>6, <1>14, RemoveTempFacts DEF After
<1>15. CASE RemoveOld(i)
  BY <1>2, <1>6, <1>15, RemoveOldFacts DEF After
<1>16. CASE Rename(i)
  BY <1>1, <1>2, <1>6, <1>16, RenameFacts DEF After
<1> QED  BY <1>7, <1>8, <1>9, <1>10, <1>11, <1>12, <1>13, <1>14, <1>15, <1>16 DEF GenStep

\* The list and the last run of q are as they were.
LEMMA GoodStays ==
    ASSUME CoreTypes, NEW q \in Projects, Good(q),
           last'[q] = last[q], Listing(tree'[q]) = Listing(tree[q]),
           out'[q] = out[q], temp'[q] = temp[q],
           out[q] # NoFile => content'[out[q]] = content[out[q]],
           temp[q] # NoFile => content'[temp[q]] = content[temp[q]],
           last[q] # NoTimer =>
              /\ runs'[last[q]] = runs[last[q]]
              /\ runs[last[q]].pc = "walk" => cwd'[runs[last[q]].proc] = cwd[runs[last[q]].proc]
    PROVE  Good(q)'
<1>1. FirstPart(q)' = FirstPart(q)
  BY DEF FirstPart
<1>2. Current(q) => Current(q)'
  BY DEF Current
<1>3. CASE last[q] = NoTimer
  BY <1>2, <1>3 DEF Good
<1>4. CASE last[q] # NoTimer
  <2>1. PICK r : r = runs[last[q]] /\ r = runs'[last'[q]]
    BY <1>4
  <2>2. OnCourse(q, r)
    BY <1>4, <2>1 DEF Good
  <2>3. OnCourse(q, r)'
    BY <1>1, <1>2, <1>4, <2>1, <2>2 DEF OnCourse
  <2> QED  BY <1>4, <2>1, <2>3 DEF Good, OnCourse
<1> QED  BY <1>3, <1>4

\* A pair of runs that disturbed each other did so for good.
LEMMA DisturbedStays ==
    ASSUME CoreTypes, NEW q \in Projects, Disturbed(q), last'[q] = last[q],
           overlaps \subseteq overlaps',
           \A j \in DOMAIN runs : runs'[j].dir = runs[j].dir /\ runs'[j].proc = runs[j].proc
    PROVE  Disturbed(q)'
<1>1. PICK o \in overlaps : last[q] \in o /\ \E i, j \in o : i # j /\ Disturbs(i, j)
  BY DEF Disturbed
<1>2. PICK i \in o, j \in o : i # j /\ Disturbs(i, j)
  BY <1>1
<1>3. i \in DOMAIN runs /\ j \in DOMAIN runs
  BY <1>1, <1>2 DEF CoreTypes
<1>4. Disturbs(i, j)'
  BY <1>2, <1>3 DEF Disturbs
<1> QED  BY <1>1, <1>2, <1>4 DEF Disturbed

\* A step of gen_filelist keeps another project's list right, or disturbs it.
LEMMA CurrentGen ==
    ASSUME CoreTypes, FilesInv, HistoryInv, NEW i \in DOMAIN runs, GenStep(i),
           NEW q \in Projects, Good(q), ~ Disturbed(q)
    PROVE  Good(q)'
<1>1. /\ runs \in Seq(Run) /\ runs[i] \in Run
      /\ last \in [Projects -> DOMAIN runs \cup {NoTimer}]
      /\ \A j \in DOMAIN runs : runs[j].proc \in Procs \cup {Batch} /\ runs[j].dir \in Projects
  BY RunFields DEF CoreTypes
<1>2. /\ runs[i].pc \in Steps /\ DOMAIN runs' = DOMAIN runs
      /\ \A j \in DOMAIN runs : j # i => runs'[j] = runs[j]
      /\ runs'[i].dir = runs[i].dir
      /\ UNCHANGED <<tree, overlaps, last>>
  BY DiskTypes DEF Moves
<1>3. i \in Active
  BY <1>2 DEF Active, Steps, Ended
<1>4. ASSUME last[q] # NoTimer, last[q] # i, {last[q], i} \in overlaps
      PROVE  ~ Disturbs(last[q], i)
  BY <1>4 DEF Disturbed
<1>5. CASE last[q] = i
  <2>1. runs[i].dir = q /\ i # NoTimer
    <3>1. i # NoTimer
      BY <1>1, NamesAssumption DEF NamesAssumption
    <3> QED  BY <1>5, <3>1 DEF HistoryInv
  <2>2. OnCourse(runs[i].dir, runs[i])
    BY <1>5, <2>1 DEF Good
  <2>3. OnCourse(runs[i].dir, runs[i])'
    BY <2>2, StaysOnCourse
  <2>4. last'[q] = i /\ runs'[i].dir = q
    BY <1>2, <1>5, <2>1
  <2> QED  BY <2>1, <2>3, <2>4 DEF Good
<1>6. CASE last[q] # i
  <2>1. runs[i].dir # q
    <3>1. CASE last[q] = NoTimer
      BY <1>2, <3>1 DEF HistoryInv, Steps
    <3>2. CASE last[q] # NoTimer
      <4>1. runs[i].dir = q => {last[q], i} \in overlaps
        BY <1>3, <1>6, <3>2 DEF HistoryInv
      <4>2. runs[last[q]].dir = q
        BY <3>2 DEF HistoryInv
      <4> QED  BY <1>4, <1>6, <3>2, <4>1, <4>2 DEF Disturbs
    <3> QED  BY <3>1, <3>2
  <2>2. /\ out'[q] = out[q] /\ temp'[q] = temp[q]
        /\ out[q] # NoFile => content'[out[q]] = content[out[q]]
        /\ temp[q] # NoFile => content'[temp[q]] = content[temp[q]]
        /\ \A c \in Procs \cup {Batch} : c # runs[i].proc => cwd'[c] = cwd[c]
    BY <2>1, Elsewhere
  <2>3. ASSUME last[q] # NoTimer
        PROVE  /\ runs'[last[q]] = runs[last[q]]
               /\ runs[last[q]].pc = "walk" => cwd'[runs[last[q]].proc] = cwd[runs[last[q]].proc]
    <3>1. last[q] \in DOMAIN runs
      BY <1>1, <2>3
    <3>2. ASSUME runs[last[q]].pc = "walk" PROVE runs[last[q]].proc # runs[i].proc
      <4>1. last[q] \in Active
        BY <3>1, <3>2 DEF Active, Ended
      <4>2. {last[q], i} \in overlaps
        BY <1>3, <1>6, <4>1 DEF HistoryInv
      <4> QED  BY <1>4, <1>6, <2>3, <4>2 DEF Disturbs
    <3> QED  BY <1>1, <1>2, <1>6, <2>2, <3>1, <3>2
  <2> QED  BY <1>2, <2>2, <2>3, GoodStays
<1> QED  BY <1>5, <1>6

\* All steps keep the lists right, announced, counted or disturbed.
LEMMA CurrentNext ==
    ASSUME CoreTypes, FilesInv, HistoryInv, CurrentInv, todo \in Seq(Projects), [Next]_vars
    PROVE  CurrentInv'
<1>1. /\ runs \in Seq(Run) /\ DOMAIN runs \subseteq Nat
      /\ pending \in [Procs -> [Projects -> Nat]]
      /\ last \in [Projects -> DOMAIN runs \cup {NoTimer}]
      /\ NoTimer \notin Nat
  BY NamesAssumption DEF CoreTypes, NamesAssumption
<1>2. \A c \in Procs, p \in Projects : timer[c][p] # NoTimer => timer[c][p] \in DOMAIN runs
  BY DEF HistoryInv
<1>3. ASSUME UNCHANGED core PROVE CurrentInv'
  <2> SUFFICES ASSUME NEW q \in Projects
               PROVE  q \in stale' \/ Covered(q)' \/ Disturbed(q)' \/ Good(q)'
    BY DEF CurrentInv
  <2>1. q \in stale \/ Covered(q) \/ Disturbed(q) \/ Good(q)
    BY DEF CurrentInv
  <2>2. UNCHANGED <<tree, out, temp, content, cwd, runs, pending, stale, overlaps, last>>
    BY <1>3 DEF core
  <2>3. Covered(q) => Covered(q)'
    BY <2>2 DEF Covered
  <2>4. Disturbed(q) => Disturbed(q)'
    BY <2>2, DisturbedStays
  <2>5. Good(q) => Good(q)'
    BY <2>2, GoodStays
  <2> QED  BY <2>1, <2>2, <2>3, <2>4, <2>5
<1>4. ASSUME NEW p \in Projects, Alters(p) PROVE CurrentInv'
  <2> SUFFICES ASSUME NEW q \in Projects
               PROVE  q \in stale' \/ Covered(q)' \/ Disturbed(q)' \/ Good(q)'
    BY DEF CurrentInv
  <2>1. q \in stale \/ Covered(q) \/ Disturbed(q) \/ Good(q)
    BY DEF CurrentInv
  <2>2. CASE q \in stale
    BY <1>4, <2>2 DEF Alters
  <2>3. CASE Covered(q)
    BY <1>4, <2>3 DEF Alters, Covered
  <2>4. CASE Disturbed(q)
    BY <1>4, <2>4, DisturbedStays DEF Alters
  <2>5. CASE Good(q)
    <3>1. CASE Listing(tree'[q]) = Listing(tree[q])
      BY <1>4, <2>5, <3>1, GoodStays DEF Alters
    <3>2. CASE Listing(tree'[q]) # Listing(tree[q])
      BY <1>4, <3>2 DEF Alters, Covered
    <3> QED  BY <3>1, <3>2
  <2> QED  BY <2>1, <2>2, <2>3, <2>4, <2>5
<1>5. ASSUME NEW p \in Projects, NEW i \in Nat, Begins(i, p) PROVE CurrentInv'
  <2>1. /\ DOMAIN runs' = DOMAIN runs \cup {i}
        /\ \A j \in DOMAIN runs : j # i => runs'[j] = runs[j]
        /\ i \in DOMAIN runs => runs[i].pc = "waiting" /\ runs[i].dir = p
        /\ \A j \in DOMAIN runs : runs'[j].dir = runs[j].dir /\ runs'[j].proc = runs[j].proc
        /\ runs'[i].pc = "getcwd"
        /\ overlaps \subseteq overlaps'
        /\ stale' = stale \ {p}
        /\ last' = [last EXCEPT ![p] = i]
        /\ UNCHANGED <<tree, out, temp, content, cwd, pending>>
    BY <1>5 DEF Begins
  <2>2. Good(p)'
    <3>1. runs'[i].files = {} /\ runs'[i].subdir = "src"
      BY <1>5 DEF Begins, HistoryInv
    <3>2. last'[p] = i /\ i # NoTimer
      BY <1>1, <2>1
    <3> QED  BY <2>1, <3>1, <3>2 DEF Good, OnCourse, After
  <2>3. ASSUME NEW q \in Projects, q # p
        PROVE  q \in stale' \/ Covered(q)' \/ Disturbed(q)' \/ Good(q)'
    <3>1. q \in stale \/ Covered(q) \/ Disturbed(q) \/ Good(q)
      BY DEF CurrentInv
    <3>2. last'[q] = last[q]
      BY <1>1, <2>1, <2>3
    <3>3. CASE q \in stale
      BY <2>1, <2>3, <3>3
    <3>4. CASE Covered(q)
      BY <2>1, <2>3, <3>4 DEF Covered
    <3>5. CASE Disturbed(q)
      BY <2>1, <3>2, <3>5, DisturbedStays
    <3>6. CASE Good(q)
      <4>1. last[q] # NoTimer => last[q] \in DOMAIN runs /\ last[q] # i
        BY <1>1, <2>1 DEF HistoryInv
      <4> QED  BY <2>1, <3>2, <3>6, <4>1, GoodStays
    <3> QED  BY <3>1, <3>3, <3>4, <3>5, <3>6
  <2> QED  BY <2>2, <2>3 DEF CurrentInv
<1>6. ASSUME NEW c \in Procs, NEW p \in Projects, Notices(c, p),
             p \in stale' \/ Covered(p)', stale \subseteq stale', DOMAIN runs \subseteq DOMAIN runs',
             \A j \in DOMAIN runs :
                \/ runs'[j] = runs[j]
                \/ /\ runs[j].pc = "waiting" /\ runs[j].dir = p
                   /\ runs'[j].dir = runs[j].dir /\ runs'[j].proc = runs[j].proc
      PROVE  CurrentInv'
  <2>1. /\ pending' = [pending EXCEPT ![c][p] = @ - 1]
        /\ UNCHANGED <<tree, out, temp, content, cwd, overlaps, last>>
    BY <1>6 DEF Notices
  <2>2. ASSUME NEW q \in Projects, q # p
        PROVE  q \in stale' \/ Covered(q)' \/ Disturbed(q)' \/ Good(q)'
    <3>1. q \in stale \/ Covered(q) \/ Disturbed(q) \/ Good(q)
      BY DEF CurrentInv
    <3>2. CASE q \in stale
      BY <1>6, <3>2
    <3>3. CASE Covered(q)
      <4>1. \A b \in Procs : pending'[b][q] = pending[b][q]
        BY <1>1, <2>1, <2>2
      <4>2. \A j \in DOMAIN runs : runs[j].dir = q => runs'[j] = runs[j]
        BY <1>6, <2>2
      <4> QED  BY <1>6, <3>3, <4>1, <4>2 DEF Covered
    <3>4. CASE Disturbed(q)
      BY <1>6, <2>1, <3>4, DisturbedStays
    <3>5. CASE Good(q)
      <4>1. last[q] # NoTimer => runs'[last[q]] = runs[last[q]]
        BY <1>1, <1>6 DEF HistoryInv
      <4> QED  BY <2>1, <3>5, <4>1, GoodStays
    <3> QED  BY <3>1, <3>2, <3>3, <3>4, <3>5
  <2> QED  BY <1>6, <2>2 DEF CurrentInv
<1>7. ASSUME NEW c \in Procs, NEW p \in Projects, Notices(c, p),
             stale' = stale \cup {p} /\ UNCHANGED <<runs, timer>>
      PROVE  CurrentInv'
  BY <1>6, <1>7
<1>8. ASSUME NEW c \in Procs, NEW p \in Projects, Notices(c, p), NEW n \in Nat, Replaces(c, p, n)
      PROVE  CurrentInv'
  <2>1. Covered(p)'
    BY <1>8 DEF Replaces, Covered
  <2>2. \A j \in DOMAIN runs : j = timer[c][p] => runs[j].dir = p
    BY <1>1 DEF HistoryInv
  <2> QED  BY <1>6, <1>8, <2>1, <2>2 DEF Replaces
<1>9. ASSUME NEW c \in Procs, Drops(c) PROVE CurrentInv'
  <2> SUFFICES ASSUME NEW q \in Projects
               PROVE  q \in stale' \/ Covered(q)' \/ Disturbed(q)' \/ Good(q)'
    BY DEF CurrentInv
  <2>1. q \in stale \/ Covered(q) \/ Disturbed(q) \/ Good(q)
    BY DEF CurrentInv
  <2>2. /\ stale' = stale \cup {p \in Projects : pending[c][p] > 0}
        /\ \A b \in Procs : b # c => pending'[b] = pending[b]
        /\ UNCHANGED <<tree, out, temp, content, cwd, runs, overlaps, last>>
    BY <1>1, <1>9 DEF Drops
  <2>3. CASE q \in stale
    BY <2>2, <2>3
  <2>4. CASE Covered(q)
    <3>1. ASSUME NEW b \in Procs, pending[b][q] > 0
          PROVE  q \in stale' \/ pending'[b][q] > 0
      BY <2>2, <3>1
    <3> QED  BY <2>2, <2>4, <3>1 DEF Covered
  <2>5. CASE Disturbed(q)
    BY <2>2, <2>5, DisturbedStays
  <2>6. CASE Good(q)
    BY <2>2, <2>6, GoodStays
  <2> QED  BY <2>1, <2>3, <2>4, <2>5, <2>6
<1>10. ASSUME NEW i \in DOMAIN runs, GenStep(i) PROVE CurrentInv'
  <2> SUFFICES ASSUME NEW q \in Projects
               PROVE  q \in stale' \/ Covered(q)' \/ Disturbed(q)' \/ Good(q)'
    BY DEF CurrentInv
  <2>1. q \in stale \/ Covered(q) \/ Disturbed(q) \/ Good(q)
    BY DEF CurrentInv
  <2>2. /\ runs[i].pc \in Steps /\ DOMAIN runs' = DOMAIN runs
        /\ \A j \in DOMAIN runs : j # i => runs'[j] = runs[j]
        /\ \A j \in DOMAIN runs : runs'[j].dir = runs[j].dir /\ runs'[j].proc = runs[j].proc
        /\ UNCHANGED <<pending, stale, overlaps, last>>
    BY <1>10, DiskTypes DEF Moves
  <2>3. CASE Covered(q)
    <3>1. \A j \in DOMAIN runs : runs[j].pc = "waiting" => runs'[j] = runs[j]
      BY <2>2 DEF Steps
    <3> QED  BY <2>2, <2>3, <3>1 DEF Covered
  <2>4. CASE Disturbed(q)
    BY <2>2, <2>4, DisturbedStays
  <2>5. CASE Good(q) /\ ~ Disturbed(q)
    BY <1>10, <2>5, CurrentGen
  <2> QED  BY <2>1, <2>2, <2>3, <2>4, <2>5
<1> QED  BY <1>2, <1>3, <1>4, <1>5, <1>7, <1>8, <1>9, <1>10, StepKinds

(***************************************************************************)
(* The theorems.                                                           *)
(***************************************************************************)

\* The rest of the types
OtherTypes ==
    /\ pause \in [Procs -> BOOLEAN] /\ gitLock \in BOOLEAN
    /\ locks \in [Procs -> Seq({"created", "deleted"})]
    /\ todo \in Seq(Projects)
    /\ inputs \in 0 .. MaxInputs

WatchTypes ==
    /\ dirs \subseteq Projects \X Subdirs
    /\ watched \in [Procs -> SUBSET (Projects \X Subdirs)]

\* The types in four parts
LEMMA TypeParts == TypeOK <=> ServerTypeOK /\ CoreTypes /\ OtherTypes /\ WatchTypes
  BY DEF TypeOK, CoreTypes, OtherTypes, WatchTypes

\* What a process watches are directories that are there when it starts to.
LEMMA WatchTypesNext ==
    ASSUME WatchTypes, [Next]_vars
    PROVE  WatchTypes'
<1>1. (UNCHANGED dirs \/ \E p \in Projects, d \in Subdirs : dirs' = dirs \cup {<<p, d>>})
      /\ (UNCHANGED watched \/ StartWatching)
  <2>1. CASE UNCHANGED vars
    BY <2>1 DEF vars, fileVars
  <2>2. ASSUME NEW c \in Procs, UserStep(c) \/ ProcStep(c)
        PROVE  UNCHANGED dirs /\ StartWatching
    BY <2>2 DEF UserStep, ProcStep, world
  <2>3. CASE FileChange
    <3>1. ASSUME NEW p \in Projects, NEW d \in Subdirs, MakeDir(p, d)
          PROVE  dirs' = dirs \cup {<<p, d>>} /\ UNCHANGED watched
      BY <3>1 DEF MakeDir, watch
    <3>2. ASSUME NEW p \in Projects, NEW d \in Subdirs, ~MakeDir(p, d),
                 \/ \E f \in Files : Create(p, d, f) \/ Delete(p, d, f)
                 \/ \E f, g \in Files : Move(p, d, f, g)
                 \/ DeleteDir(p, d)
          PROVE  UNCHANGED <<dirs, watched>>
      BY <3>2 DEF Create, Delete, Move, DeleteDir, Change
    <3> QED  BY <2>3, <3>1, <3>2 DEF FileChange
  <2>4. CASE GitLock \/ NextProject
    BY <2>4 DEF GitLock, NextProject, watch
  <2>5. ASSUME NEW c \in Procs, Dispatch(c) PROVE UNCHANGED <<dirs, watched>>
    BY <2>5 DEF Dispatch, LockEvent, DropEvents, FileEvent, world
  <2>6. ASSUME NEW i \in DOMAIN runs, RunStep(i) PROVE UNCHANGED <<dirs, watched>>
    BY <2>6 DEF RunStep, Fire, GetCwd, ChDir, Walk, RestoreCwd, OpenTemp, WriteTemp,
                Compare, RemoveTemp, RemoveOld, Rename, Rest, world, watch
  <2> QED  BY <2>1, <2>2, <2>3, <2>4, <2>5, <2>6 DEF Next
<1> QED  BY <1>1 DEF WatchTypes, StartWatching

\* The types of what the invariants are not about are kept.
LEMMA OtherTypesNext ==
    ASSUME OtherTypes, [Next]_vars
    PROVE  OtherTypes'
<1>1. /\ pause \in [Procs -> BOOLEAN] /\ gitLock \in BOOLEAN
      /\ locks \in [Procs -> Seq({"created", "deleted"})]
      /\ todo \in Seq(Projects) /\ inputs \in 0 .. MaxInputs /\ MaxInputs \in Nat
  BY FileListsAssumption DEF OtherTypes, FileListsAssumption
<1>2. ASSUME Input \/ UNCHANGED inputs PROVE inputs' \in 0 .. MaxInputs
  BY <1>1, <1>2 DEF Input
<1>3. CASE UNCHANGED <<pause, gitLock, locks, todo>> /\ (Input \/ UNCHANGED inputs)
  BY <1>1, <1>2, <1>3 DEF OtherTypes
<1>4. CASE UNCHANGED vars
  BY <1>3, <1>4 DEF vars, fileVars
<1>5. ASSUME NEW c \in Procs, UserStep(c) \/ ProcStep(c) PROVE OtherTypes'
  BY <1>3, <1>5 DEF UserStep, ProcStep, world
<1>6. CASE FileChange
  BY <1>3, <1>6 DEF FileChange, Create, Delete, Move, DeleteDir, MakeDir, Change, watch
<1>7. CASE GitLock
  <2>1. locks' \in [Procs -> Seq({"created", "deleted"})]
    <3>1. PICK e \in {"created", "deleted"} :
            locks' = [c \in Procs |-> IF c \in Watchers THEN Append(locks[c], e) ELSE locks[c]]
      BY <1>7 DEF GitLock
    <3> QED  BY <1>1, <3>1
  <2>2. gitLock' \in BOOLEAN
    BY <1>7 DEF GitLock
  <2>3. (Input \/ UNCHANGED inputs) /\ UNCHANGED <<pause, todo>>
    BY <1>7 DEF GitLock
  <2> QED  BY <1>1, <1>2, <2>1, <2>2, <2>3 DEF OtherTypes
<1>8. CASE NextProject
  <2>1. todo' \in Seq(Projects)
    BY <1>1, <1>8 DEF NextProject
  <2>2. (Input \/ UNCHANGED inputs) /\ UNCHANGED <<pause, gitLock, locks>>
    BY <1>8 DEF NextProject, watch
  <2> QED  BY <1>1, <1>2, <2>1, <2>2 DEF OtherTypes
<1>9. ASSUME NEW c \in Procs, LockEvent(c) PROVE OtherTypes'
  <2>1. locks' \in [Procs -> Seq({"created", "deleted"})]
    BY <1>1, <1>9 DEF LockEvent
  <2>2. pause' \in [Procs -> BOOLEAN]
    BY <1>1, <1>9 DEF LockEvent
  <2>3. UNCHANGED <<gitLock, todo, inputs>>
    BY <1>9 DEF LockEvent, world
  <2> QED  BY <1>1, <2>1, <2>2, <2>3 DEF OtherTypes
<1>10. ASSUME NEW c \in Procs, DropEvents(c) PROVE OtherTypes'
  <2>1. locks' \in [Procs -> Seq({"created", "deleted"})]
    BY <1>1, <1>10 DEF DropEvents
  <2>2. UNCHANGED <<pause, gitLock, todo, inputs>>
    BY <1>10 DEF DropEvents, world
  <2> QED  BY <1>1, <2>1, <2>2 DEF OtherTypes
<1>11. ASSUME NEW c \in Procs, NEW p \in Projects, FileEvent(c, p) PROVE OtherTypes'
  BY <1>3, <1>11 DEF FileEvent, world
<1>12. ASSUME NEW i \in DOMAIN runs, RunStep(i) PROVE OtherTypes'
  <2>1. CASE Rest(i)
    BY <1>3, <2>1 DEF Rest, world, watch
  <2>2. CASE Fire(i)
    BY <1>3, <2>2 DEF Fire, world, watch
  <2> QED  BY <1>12, <2>1, <2>2 DEF RunStep, GetCwd, ChDir, Walk, RestoreCwd, OpenTemp, WriteTemp,
                                 Compare, RemoveTemp, RemoveOld, Rename
<1> QED  BY <1>4, <1>5, <1>6, <1>7, <1>8, <1>9, <1>10, <1>11, <1>12 DEF Next, Dispatch

\* The types of all variables are kept, given who owns the files and timers.
LEMMA TypesNext ==
    ASSUME TypeOK, FilesInv, HistoryInv, [Next]_vars
    PROVE  TypeOK'
<1>1. ServerTypeOK /\ CoreTypes /\ OtherTypes /\ WatchTypes /\ todo \in Seq(Projects)
  BY TypeParts DEF OtherTypes
<1>2. \/ \E c \in Procs : Connect(c) \/ Interrupt(c) \/ ServerStep(c) \/ Receive(c)
      \/ UNCHANGED serverVars
  <2>1. CASE UNCHANGED vars
    BY <2>1 DEF vars
  <2>2. ASSUME NEW c \in Procs, UserStep(c) \/ ProcStep(c)
        PROVE  Connect(c) \/ Interrupt(c) \/ ServerStep(c) \/ Receive(c)
    BY <2>2 DEF UserStep, ProcStep
  <2>3. CASE FileChange
    BY <2>3 DEF FileChange, Create, Delete, Move, DeleteDir, MakeDir, Change
  <2>4. CASE GitLock \/ NextProject
    BY <2>4 DEF GitLock, NextProject
  <2>5. ASSUME NEW c \in Procs, Dispatch(c) PROVE UNCHANGED serverVars
    BY <2>5 DEF Dispatch, LockEvent, DropEvents, FileEvent
  <2>6. ASSUME NEW i \in DOMAIN runs, RunStep(i) PROVE UNCHANGED serverVars
    BY <2>6 DEF RunStep, Fire, GetCwd, ChDir, Walk, RestoreCwd, OpenTemp, WriteTemp,
                Compare, RemoveTemp, RemoveOld, Rename, Rest
  <2> QED  BY <2>1, <2>2, <2>3, <2>4, <2>5, <2>6 DEF Next
<1>3. ServerTypeOK'
  BY <1>1, <1>2, ServerTypes
<1>4. CoreTypes'
  BY <1>1, CoreTypesNext
<1>5. OtherTypes'
  BY <1>1, OtherTypesNext
<1>6. WatchTypes'
  BY <1>1, WatchTypesNext
<1> QED  BY <1>3, <1>4, <1>5, <1>6, TypeParts DEF TypeOK, ServerTypeOK, CoreTypes, OtherTypes, WatchTypes

\* Every initial state, after a kill or not, satisfies the invariant.
LEMMA InvInit ==
    ASSUME Init
    PROVE  Inv
<1> USE DEF Init
<1>1. /\ \A x \in Projects : x \notin Nat /\ x # Left /\ x # NoFile
      /\ Left # NoFile /\ Killed \in Projects /\ MaxInputs \in Nat /\ BatchOrder \in Seq(Projects)
      /\ \A L \in SUBSET Entries : L # Partial
  BY NamesAssumption, FileListsAssumption
     DEF NamesAssumption, FileListsAssumption, Entries, Subdirs
<1>2. /\ out \in [Projects -> FileIds \cup {NoFile}]
      /\ \A p \in Projects : out[p] = p \/ out[p] = NoFile
  <2>1. CASE out = [p \in Projects |-> p]
    BY <2>1 DEF FileIds
  <2>2. CASE out = [[p \in Projects |-> p] EXCEPT ![Killed] = NoFile]
    BY <1>1, <2>2 DEF FileIds
  <2> QED  BY <2>1, <2>2
<1>3. /\ temp \in [Projects -> FileIds \cup {NoFile}]
      /\ \A p \in Projects : temp[p] = NoFile \/ (p = Killed /\ temp[p] = Left)
  <2>1. CASE temp = [p \in Projects |-> NoFile]
    BY <2>1
  <2>2. CASE temp = [[p \in Projects |-> NoFile] EXCEPT ![Killed] = Left]
    BY <1>1, <2>2 DEF FileIds
  <2> QED  BY <2>1, <2>2
<1>4. runs = <<>> /\ runs \in Seq(Run) /\ DOMAIN runs = {}
  OBVIOUS
<1>5. tree \in [Projects -> [Subdirs -> SUBSET Files]]
  BY DEF Files
<1>6. /\ content \in [DOMAIN content -> {Partial} \cup SUBSET Entries]
      /\ DOMAIN content = Projects \cup {Left}
      /\ \A p \in Projects : content[p] = Listing(tree[p]) /\ content[p] # Partial
  <2>1. \A p \in Projects : Listing(tree[p]) \in SUBSET Entries
    BY DEF Listing, Entries
  <2>2. content = [f \in Projects \cup {Left} |-> IF f \in Projects THEN Listing(tree[f]) ELSE Partial]
    OBVIOUS
  <2> QED  BY <1>1, <2>1, <2>2
<1>7. /\ overlaps = {} /\ last = [p \in Projects |-> NoTimer]
      /\ stale = {p \in Projects : out[p] = NoFile}
      /\ timer = [c \in Procs |-> [p \in Projects |-> NoTimer]]
  OBVIOUS
<1>8. CoreTypes
  <2>1. pending \in [Procs -> [Projects -> Nat]] /\ cwd \in [Procs \cup {Batch} -> Dirs]
    BY DEF Dirs
  <2>2. DOMAIN content \subseteq FileIds
    BY <1>6 DEF FileIds
  <2>3. timer \in [Procs -> [Projects -> Nat \cup {NoTimer}]]
    BY <1>7
  <2> QED  BY <1>2, <1>3, <1>4, <1>5, <1>6, <1>7, <2>1, <2>2, <2>3 DEF CoreTypes
<1>9. OtherTypes
  <2>1. locks \in [Procs -> Seq({"created", "deleted"})]
    OBVIOUS
  <2>2. pause \in [Procs -> BOOLEAN] /\ gitLock \in BOOLEAN
    OBVIOUS
  <2>3. todo \in Seq(Projects) /\ inputs \in 0 .. MaxInputs
    BY <1>1
  <2> QED  BY <2>1, <2>2, <2>3 DEF OtherTypes
<1>10. ServerTypeOK
  <2>1. ServerInit
    OBVIOUS
  <2> QED  BY <2>1 DEF ServerInit, ServerTypeOK, Replies
<1>11. FilesInv
  BY <1>1, <1>2, <1>3, <1>4, <1>6 DEF FilesInv, FilesOf
<1>12. HistoryInv
  BY <1>4, <1>7 DEF HistoryInv, Active
<1>13. WholeInv
  BY <1>2, <1>4, <1>6 DEF WholeInv, WholeAt
<1>14. CurrentInv
  <2>1. ASSUME NEW p \in Projects, p \notin stale PROVE Good(p)
    <3>1. out[p] = p /\ out[p] # NoFile
      BY <1>2, <1>7, <2>1
    <3> QED  BY <1>6, <1>7, <3>1 DEF Good, Current
  <2> QED  BY <2>1 DEF CurrentInv
<1>15. WatchTypes
  BY DEF WatchTypes, Subdirs
<1>16. TypeOK
  BY <1>8, <1>9, <1>10, <1>15, TypeParts
<1> QED  BY <1>11, <1>12, <1>13, <1>14, <1>16 DEF Inv

\* The parts together: every step preserves the invariant.
LEMMA InvNext ==
    ASSUME Inv, [Next]_vars
    PROVE  Inv'
<1>1. TypeOK /\ CoreTypes /\ todo \in Seq(Projects) /\ FilesInv /\ HistoryInv /\ WholeInv /\ CurrentInv
  BY TypeParts DEF Inv, OtherTypes
<1>2. TypeOK' /\ CoreTypes'
  BY <1>1, TypesNext, CoreTypesNext
<1>3. FilesInv'
  BY <1>1, FilesNext
<1>4. HistoryInv'
  BY <1>1, <1>2, HistoryNext
<1>5. WholeInv'
  BY <1>1, WholeNext
<1>6. CurrentInv'
  BY <1>1, CurrentNext
<1> QED  BY <1>2, <1>3, <1>4, <1>5, <1>6 DEF Inv

\* Inv is an invariant of the specification.
THEOREM Invariance == Spec => []Inv
<1>1. Init => Inv
  BY InvInit
<1>2. Inv /\ [Next]_vars => Inv'
  BY InvNext
<1> QED  BY <1>1, <1>2, PTL DEF Spec

\* The types of all variables of the watch server and of gen_filelist are kept.
THEOREM TypeCorrect == Spec => []TypeOK
<1>1. Inv => TypeOK
  BY DEF Inv
<1> QED  BY <1>1, Invariance, PTL

(* FileLists.cmake of a project is never a partly written file, whichever  *)
(* of any number of runs, for any projects and in any processes, are       *)
(* interleaved, unless two runs for that project overlapped.               *)
THEOREM Whole == Spec => []OutputIsWhole
<1>1. Inv => OutputIsWhole
  <2> SUFFICES ASSUME Inv, NEW p \in Projects, ~ Shared(p)
               PROVE  out[p] = NoFile \/ content[out[p]] # Partial
    BY DEF OutputIsWhole, Shared
  <2> QED  BY DEF Inv, WholeInv, WholeAt
<1> QED  BY <1>1, Invariance, PTL

(* When nothing is left to do, the list of a project whose last run of     *)
(* gen_filelist was told of all its changes and was not disturbed by       *)
(* another thread is the list of its sources.                              *)
THEOREM UpToDate == Spec => []QuietListsAreCurrent
<1>1. Inv => QuietListsAreCurrent
  <2> SUFFICES ASSUME Inv, Quiet, NEW p \in Projects, RanAlone(p)
               PROVE  Current(p)
    BY DEF QuietListsAreCurrent
  <2>1. CoreTypes /\ HistoryInv /\ CurrentInv
    BY TypeParts DEF Inv
  <2>2. p \notin stale /\ ~ Disturbed(p)
    BY DEF RanAlone, Disturbed
  <2>3. ~ Covered(p)
    <3>1. \A c \in Procs : pending[c][p] = 0
      BY DEF Quiet
    <3>2. \A i \in DOMAIN runs : runs[i].pc # "waiting"
      BY DEF Quiet, Ended
    <3> QED  BY <3>1, <3>2 DEF Covered
  <2>4. Good(p)
    BY <2>1, <2>2, <2>3 DEF CurrentInv
  <2>5. CASE last[p] = NoTimer
    BY <2>4, <2>5 DEF Good
  <2>6. CASE last[p] # NoTimer
    <3>1. last[p] \in DOMAIN runs /\ runs[last[p]].pc # "cancelled"
      BY <2>1, <2>6 DEF CoreTypes, HistoryInv
    <3>2. runs[last[p]].pc \in Ended
      BY <3>1 DEF Quiet
    <3> QED  BY <2>4, <2>6, <3>1, <3>2 DEF Good, OnCourse, Ended
  <2> QED  BY <2>5, <2>6
<1> QED  BY <1>1, Invariance, PTL
=============================================================================
