------------------------------ MODULE FileLists ------------------------------
(***************************************************************************)
(* tools/gen_filelists.py: gen_filelist, which writes the FileLists.cmake  *)
(* of a project, run by the timers of the watch server's processes         *)
(* (WatchServer) and by a process that is not in watch mode.               *)
(*                                                                         *)
(* A timer's function is a thread, and what it uses is shared: the working *)
(* directory belongs to the process, FileLists.cmake and its temporary     *)
(* file to everyone.  A list is kept as the set of its entries: the code   *)
(* sorts it.  cmake-format, which only changes the layout of the temporary *)
(* file, is left out.  src and include directories may be made at any time *)
(* but are not removed (what is below them is); .git is always there.      *)
(***************************************************************************)
EXTENDS WatchServer, FiniteSets

CONSTANTS Projects,    \* project directories (absolute paths)
          Sources,     \* file names with a source extension (is_source_file)
          Others,      \* other file names
          Batch,       \* the process that is not in watch mode
          BatchOrder,  \* the projects it generates, in find_project_dirs' order
          Start,       \* the directory the processes start in: not a project
          NoFile, Partial, NoTimer,
          Killed,      \* a project whose gen_filelist may have been killed before
          Left,        \* the temporary file that it left
          Sites,       \* bound: the <<project, subdirectory>> whose files change
          MaxActive,   \* bound: runs of gen_filelist that are active at once
          MaxInputs    \* bound: what users, editors and git do, altogether

ASSUME FileListsAssumption ==
    /\ MaxInputs \in Nat /\ MaxActive \in Nat \ {0}
    /\ Sites \subseteq Projects \X {"src", "include"}
    /\ BatchOrder \in Seq(Projects)
    /\ Sources \cap Others = {} /\ Start \notin Projects
    /\ Batch \notin Procs /\ Killed \in Projects

\* A file is named after the project whose list it was at the start, or the run
\* that created it, which is a number; the other names are not among these.
ASSUME NamesAssumption ==
    /\ Projects \cap Nat = {}
    /\ Left \notin Projects \cup Nat
    /\ NoFile \notin Projects \cup Nat \cup {Left} /\ NoTimer \notin Nat
    /\ \A s \in SUBSET ({"src", "include"} \X Sources) : Partial # s

VARIABLES
    tree,      \* the files in the src and include directories of each project
    dirs,      \* the src and include directories that exist
    out,       \* FileLists.cmake of each project: a file, or NoFile
    temp,      \* FileLists.cmake.temp
    content,   \* what the files contain
    cwd,       \* the working directory of each process
    runs,      \* the threads that run gen_filelist, or wait to
    watched,   \* the directories that the observer of each process watches
    timer,     \* FileWatcher.timer in each process, for each project
    pause,     \* pause_updating in each process
    pending,   \* file events that pass the handler's tests, not yet dispatched
    locks,     \* events on .git/index.lock, not yet dispatched
    gitLock,   \* whether .git/index.lock exists
    todo,      \* projects that the process not in watch mode has left
    inputs,    \* how many commands, changes of files and git operations there were
    stale,     \* history: projects with a change no later run was told about
    overlaps,  \* history: pairs of runs that were active at the same time
    last       \* history: the last run that started for each project

fileVars == <<tree, dirs, out, temp, content, cwd, runs, watched, timer, pause, pending, locks,
              gitLock, todo, inputs, stale, overlaps, last>>
vars == <<serverVars, fileVars>>

disk == <<out, temp, content>>
watch == <<watched, timer, pause, pending, locks>>
world == <<tree, dirs, gitLock, inputs>>
history == <<stale, overlaps, last>>

Subdirs == {"src", "include"}
Files == Sources \cup Others
Dirs == Projects \cup {Start}

\* The entries of the list of the sources in tree t
Listing(t) == {e \in Subdirs \X Sources : e[2] \in t[e[1]]}

NewRun(p, dir, at) == [proc |-> p, dir |-> dir, pc |-> at, subdir |-> "src",
                       saved |-> Start, files |-> {}, file |-> NoFile]

Ended == {"cancelled", "done", "died"}
Active == {i \in DOMAIN runs : runs[i].pc \notin Ended \cup {"waiting"}}

Init ==
    /\ ServerInit
    /\ tree = [p \in Projects |-> [d \in Subdirs |-> IF d = "src" THEN Sources ELSE {}]]
    /\ dirs = Projects \X {"src"}
    /\ out \in {[p \in Projects |-> p], [[p \in Projects |-> p] EXCEPT ![Killed] = NoFile]}
    /\ temp \in {[p \in Projects |-> NoFile], [[p \in Projects |-> NoFile] EXCEPT ![Killed] = Left]}
    /\ out[Killed] = NoFile => temp[Killed] = Left
    /\ content = [f \in Projects \cup {Left} |->
                    IF f \in Projects THEN Listing(tree[f]) ELSE Partial]
    /\ cwd = [c \in Procs \cup {Batch} |-> Start]
    /\ runs = <<>>
    /\ watched = [c \in Procs |-> {}]
    /\ timer = [c \in Procs |-> [p \in Projects |-> NoTimer]]
    /\ pause = [c \in Procs |-> FALSE]
    /\ pending = [c \in Procs |-> [p \in Projects |-> 0]]
    /\ locks = [c \in Procs |-> <<>>]
    /\ gitLock = FALSE
    /\ todo = BatchOrder
    /\ inputs = 0
    /\ stale = {p \in Projects : out[p] = NoFile} /\ overlaps = {}
    /\ last = [p \in Projects |-> NoTimer]

(***************************************************************************)
(* The world: an editor or git changes files, git takes and drops its lock *)
(***************************************************************************)

Input == inputs < MaxInputs /\ inputs' = inputs + 1

\* watch_subdir, in a process that becomes the server: its observer watches the
\* directories that exist at that time, and no others later.
StartWatching == watched' = [c \in Procs |-> IF c \in Watchers' \ Watchers THEN dirs ELSE watched[c]]

Watching(p, d) == {c \in Watchers : <<p, d>> \in watched[c]}

\* A user runs the script in watch mode, or presses Ctrl-C in the server.
UserStep(c) ==
    /\ Input
    /\ Connect(c) \/ Interrupt(c)
    /\ StartWatching
    /\ UNCHANGED <<tree, dirs, disk, cwd, runs, timer, pause, pending, locks, gitLock, todo, history>>

\* The processes go on by themselves.
ProcStep(c) ==
    /\ ServerStep(c) \/ Receive(c)
    /\ StartWatching
    /\ UNCHANGED <<world, disk, cwd, runs, timer, pause, pending, locks, todo, history>>

\* A change in directory d of p; told says whether the handlers react to its
\* event: on_created and on_moved to source files, on_deleted to directories too.
\* Only an observer that watches the directory sees it.
Change(p, d, files, told) ==
    /\ Input
    /\ <<p, d>> \in dirs
    /\ tree' = [tree EXCEPT ![p][d] = files]
    /\ pending' = [c \in Procs |-> IF c \in Watching(p, d) /\ told
                                   THEN [pending[c] EXCEPT ![p] = @ + 1] ELSE pending[c]]
    /\ stale' = IF Watching(p, d) = {} /\ Listing(tree'[p]) # Listing(tree[p])
                THEN stale \cup {p} ELSE stale
    /\ UNCHANGED <<dirs, gitLock, disk, cwd, runs, watched, timer, pause, locks, todo,
                   overlaps, last, serverVars>>

\* Nobody reacts to a new directory, and no observer is told to watch it.
MakeDir(p, d) ==
    /\ Input
    /\ <<p, d>> \notin dirs /\ dirs' = dirs \cup {<<p, d>>}
    /\ UNCHANGED <<tree, gitLock, disk, cwd, runs, watch, todo, history, serverVars>>

Create(p, d, f) ==
    /\ f \notin tree[p][d]
    /\ Change(p, d, tree[p][d] \cup {f}, f \in Sources)

Delete(p, d, f) ==
    /\ f \in tree[p][d]
    /\ Change(p, d, tree[p][d] \ {f}, f \in Sources)

Move(p, d, f, g) ==
    /\ f \in tree[p][d] /\ g \notin tree[p][d]
    /\ Change(p, d, (tree[p][d] \ {f}) \cup {g}, f \in Sources \/ g \in Sources)

\* A directory below d with all the files goes.
DeleteDir(p, d) ==
    /\ tree[p][d] # {}
    /\ Change(p, d, {}, TRUE)

\* git creates .git/index.lock, and later deletes it or renames it to index.
GitLock ==
    /\ IF gitLock THEN UNCHANGED inputs ELSE Input
    /\ gitLock' = ~gitLock
    /\ locks' = [c \in Procs |-> IF c \in Watchers
                                 THEN Append(locks[c], IF gitLock THEN "deleted" ELSE "created")
                                 ELSE locks[c]]
    /\ UNCHANGED <<tree, dirs, disk, cwd, runs, watched, timer, pause, pending, todo, history, serverVars>>

(***************************************************************************)
(* The handlers, called by the observer's thread.  Every watched path has  *)
(* an emitter of its own, so file events and lock events come in any order *)
(***************************************************************************)

\* GitWatcher: _lockfile_created, _lockfile_deleted
LockEvent(c) ==
    /\ c \in Watchers /\ locks[c] # <<>>
    /\ pause' = [pause EXCEPT ![c] = Head(locks[c]) = "created"]
    /\ locks' = [locks EXCEPT ![c] = Tail(@)]
    /\ UNCHANGED <<world, disk, cwd, runs, watched, timer, pending, todo, history, serverVars>>

\* Timer.cancel has no effect on a timer whose function has started.
Cancel(i) == IF i # NoTimer /\ runs[i].pc = "waiting"
             THEN [runs EXCEPT ![i] = [runs[i] EXCEPT !.pc = "cancelled"]] ELSE runs

\* Mutant: an event starts a timer only if there is none.
FileEventOnce(c, p) ==
    /\ c \in Watchers /\ pending[c][p] > 0
    /\ pending' = [pending EXCEPT ![c][p] = @ - 1]
    /\ IF pause[c] \/ timer[c][p] # NoTimer
       THEN /\ stale' = IF pause[c] THEN stale \cup {p} ELSE stale
            /\ UNCHANGED <<runs, timer>>
       ELSE /\ runs' = Append(runs, NewRun(c, p, "waiting"))
            /\ timer' = [timer EXCEPT ![c][p] = Len(runs')]
            /\ UNCHANGED stale
    /\ UNCHANGED <<world, disk, cwd, watched, pause, locks, todo, overlaps, last, serverVars>>

\* _handle_event starts another timer, unless it ignores the event.
FileEvent(c, p) ==
    /\ c \in Watchers /\ pending[c][p] > 0
    /\ pending' = [pending EXCEPT ![c][p] = @ - 1]
    /\ IF pause[c]
       THEN stale' = stale \cup {p} /\ UNCHANGED <<runs, timer>>
       ELSE /\ runs' = Append(Cancel(timer[c][p]), NewRun(c, p, "waiting"))
            /\ timer' = [timer EXCEPT ![c][p] = Len(runs')]
            /\ UNCHANGED stale
    /\ UNCHANGED <<world, disk, cwd, watched, pause, locks, todo, overlaps, last, serverVars>>

\* Events that the observer of a process that ended has not dispatched are lost.
DropEvents(c) ==
    /\ pc[c] \in {"done", "failed"}
    /\ pending[c] # [p \in Projects |-> 0] \/ locks[c] # <<>>
    /\ stale' = stale \cup {p \in Projects : pending[c][p] > 0}
    /\ pending' = [pending EXCEPT ![c] = [p \in Projects |-> 0]]
    /\ locks' = [locks EXCEPT ![c] = <<>>]
    /\ UNCHANGED <<world, disk, cwd, runs, watched, timer, pause, todo, overlaps, last, serverVars>>

(***************************************************************************)
(* gen_filelist                                                            *)
(***************************************************************************)

\* Run i is at from, and becomes r.
Step(i, from, r) ==
    /\ runs[i].pc = from
    /\ runs' = [runs EXCEPT ![i] = r]

At(i, to) == [runs[i] EXCEPT !.pc = to]

Started(i, p) ==
    /\ Cardinality(Active) < MaxActive
    /\ overlaps' = overlaps \cup {{i, j} : j \in Active}
    /\ stale' = stale \ {p}
    /\ last' = [last EXCEPT ![p] = i]

\* A second has passed.
Fire(i) ==
    /\ Step(i, "waiting", At(i, "getcwd"))
    /\ Started(i, runs[i].dir)
    /\ UNCHANGED <<world, disk, cwd, watch, todo, serverVars>>

\* main, not in watch mode: one project after the other, until one fails.
NextProject ==
    /\ todo # <<>>
    /\ IF todo = BatchOrder THEN Input ELSE UNCHANGED inputs
    /\ \A i \in DOMAIN runs : runs[i].proc = Batch => runs[i].pc = "done"
    /\ runs' = Append(runs, NewRun(Batch, Head(todo), "getcwd"))
    /\ todo' = Tail(todo)
    /\ Started(Len(runs'), Head(todo))
    /\ UNCHANGED <<tree, dirs, gitLock, disk, cwd, watch, serverVars>>

Rest(i) == UNCHANGED <<world, watch, todo, history, serverVars>>

\* add_source_files, for src and then for include
GetCwd(i) ==
    /\ Step(i, "getcwd", [At(i, "chdir") EXCEPT !.saved = cwd[runs[i].proc]])
    /\ UNCHANGED <<cwd, disk>> /\ Rest(i)

ChDir(i) ==
    /\ Step(i, "chdir", At(i, "walk"))
    /\ cwd' = [cwd EXCEPT ![runs[i].proc] = runs[i].dir]
    /\ UNCHANGED disk /\ Rest(i)

\* os.walk(subdir) is relative to the working directory it finds.
Found(r, dir) == IF dir \in Projects
                 THEN {e \in Listing(tree[dir]) : e[1] = r.subdir} ELSE {}

Walk(i) ==
    /\ Step(i, "walk", [At(i, "restore") EXCEPT
                          !.files = runs[i].files \cup Found(runs[i], cwd[runs[i].proc])])
    /\ UNCHANGED <<cwd, disk>> /\ Rest(i)

\* Mutant: the second call walks src again, and again.
RestoreCwdLoops(i) ==
    /\ Step(i, "restore", [At(i, "getcwd") EXCEPT !.saved = Start])
    /\ cwd' = [cwd EXCEPT ![runs[i].proc] = runs[i].saved]
    /\ UNCHANGED disk /\ Rest(i)

RestoreCwd(i) ==
    /\ Step(i, "restore", [At(i, IF runs[i].subdir = "src" THEN "getcwd" ELSE "open")
                             EXCEPT !.subdir = "include", !.saved = Start])
    /\ cwd' = [cwd EXCEPT ![runs[i].proc] = runs[i].saved]
    /\ UNCHANGED disk /\ Rest(i)

\* The files after one of them, perhaps a new one, was written.
Written(f, c) == [x \in DOMAIN content \cup {f} |-> IF x = f THEN c ELSE content[x]]

\* Mutant: the list itself is opened for writing.
OpenOut(i) ==
    LET p == runs[i].dir
        f == IF out[p] = NoFile THEN i ELSE out[p]
    IN  /\ Step(i, "open", [At(i, "write") EXCEPT !.file = f])
        /\ out' = [out EXCEPT ![p] = f]
        /\ content' = Written(f, Partial)
        /\ UNCHANGED <<temp, cwd>> /\ Rest(i)

\* open(tempfilename, "w") truncates a file that is there.
OpenTemp(i) ==
    LET p == runs[i].dir
        f == IF temp[p] = NoFile THEN i ELSE temp[p]
    IN  /\ Step(i, "open", [At(i, "write") EXCEPT !.file = f])
        /\ temp' = [temp EXCEPT ![p] = f]
        /\ content' = Written(f, Partial)
        /\ UNCHANGED <<out, cwd>> /\ Rest(i)

\* f is written, wherever the file that was opened is by now.
WriteTemp(i) ==
    /\ Step(i, "write", [At(i, "compare") EXCEPT !.files = {}, !.file = NoFile])
    /\ content' = Written(runs[i].file, runs[i].files)
    /\ UNCHANGED <<out, temp, cwd>> /\ Rest(i)

SameContent(p) == content[out[p]] = content[temp[p]]

Compare(i) ==
    LET p == runs[i].dir
    IN  /\ \/ out[p] = NoFile /\ Step(i, "compare", At(i, "unlink"))
           \/ out[p] # NoFile /\ temp[p] = NoFile /\ Step(i, "compare", At(i, "died"))
           \/ /\ out[p] # NoFile /\ temp[p] # NoFile
              /\ Step(i, "compare", At(i, IF SameContent(p) THEN "remove" ELSE "unlink"))
        /\ UNCHANGED <<disk, cwd>> /\ Rest(i)

RemoveTemp(i) ==
    LET p == runs[i].dir
    IN  /\ Step(i, "remove", At(i, IF temp[p] = NoFile THEN "died" ELSE "done"))
        /\ temp' = [temp EXCEPT ![p] = NoFile]
        /\ UNCHANGED <<out, content, cwd>> /\ Rest(i)

RemoveOld(i) ==
    /\ Step(i, "unlink", At(i, "rename"))
    /\ out' = [out EXCEPT ![runs[i].dir] = NoFile]
    /\ UNCHANGED <<temp, content, cwd>> /\ Rest(i)

Rename(i) ==
    LET p == runs[i].dir
    IN  /\ Step(i, "rename", At(i, IF temp[p] = NoFile THEN "died" ELSE "done"))
        /\ out' = IF temp[p] = NoFile THEN out ELSE [out EXCEPT ![p] = temp[p]]
        /\ temp' = [temp EXCEPT ![p] = NoFile]
        /\ UNCHANGED <<content, cwd>> /\ Rest(i)

RunStep(i) ==
    \/ Fire(i) \/ GetCwd(i) \/ ChDir(i) \/ Walk(i) \/ RestoreCwd(i) \/ OpenTemp(i)
    \/ WriteTemp(i) \/ Compare(i) \/ RemoveTemp(i) \/ RemoveOld(i) \/ Rename(i)

Dispatch(c) == LockEvent(c) \/ DropEvents(c) \/ \E p \in Projects : FileEvent(c, p)

FileChange ==
    \E p \in Projects, d \in Subdirs :
        /\ <<p, d>> \in Sites
        /\ \/ \E f \in Files : Create(p, d, f) \/ Delete(p, d, f)
           \/ \E f, g \in Files : Move(p, d, f, g)
           \/ DeleteDir(p, d) \/ MakeDir(p, d)

Next ==
    \/ \E c \in Procs : UserStep(c)
    \/ \E c \in Procs : ProcStep(c)
    \/ FileChange \/ GitLock \/ NextProject
    \/ \E c \in Procs : Dispatch(c)
    \/ \E i \in DOMAIN runs : RunStep(i)

\* Something that can run does run: the processes, an observer, a thread.
Fairness ==
    /\ ServerFairness
    /\ WF_vars(todo # BatchOrder /\ NextProject)
    /\ WF_vars(\E c \in Procs : Dispatch(c))
    /\ WF_vars(\E i \in DOMAIN runs : RunStep(i))

Spec == Init /\ [][Next]_vars /\ Fairness

(***************************************************************************)
(* Properties.                                                             *)
(***************************************************************************)

FileIds == Projects \cup Nat \cup {Left}
Entries == Subdirs \X Sources
Steps == {"getcwd", "chdir", "walk", "restore", "open", "write", "compare", "remove",
          "unlink", "rename"}

Run == [proc : Procs \cup {Batch}, dir : Projects, pc : Steps \cup Ended \cup {"waiting"},
        subdir : Subdirs, saved : Dirs, files : SUBSET Entries, file : FileIds \cup {NoFile}]

TypeOK ==
    /\ ServerTypeOK
    /\ tree \in [Projects -> [Subdirs -> SUBSET Files]]
    /\ dirs \subseteq Projects \X Subdirs
    /\ watched \in [Procs -> SUBSET (Projects \X Subdirs)]
    /\ out \in [Projects -> FileIds \cup {NoFile}]
    /\ temp \in [Projects -> FileIds \cup {NoFile}]
    /\ content \in [DOMAIN content -> {Partial} \cup SUBSET Entries]
    /\ DOMAIN content \subseteq FileIds
    /\ cwd \in [Procs \cup {Batch} -> Dirs]
    /\ runs \in Seq(Run)
    /\ timer \in [Procs -> [Projects -> Nat \cup {NoTimer}]]
    /\ pause \in [Procs -> BOOLEAN] /\ gitLock \in BOOLEAN
    /\ pending \in [Procs -> [Projects -> Nat]]
    /\ locks \in [Procs -> Seq({"created", "deleted"})]
    /\ todo \in Seq(Projects)
    /\ inputs \in 0 .. MaxInputs
    /\ stale \subseteq Projects
    /\ overlaps \subseteq SUBSET DOMAIN runs
    /\ last \in [Projects -> DOMAIN runs \cup {NoTimer}]

Quiet ==
    /\ \A c \in Procs : pending[c] = [p \in Projects |-> 0]
    /\ \A i \in DOMAIN runs : runs[i].pc \in Ended
    /\ todo = <<>> \/ todo = BatchOrder \/ \E i \in DOMAIN runs : runs[i].proc = Batch /\ runs[i].pc = "died"

\* Two runs disturb each other when they share a working directory or files.
Disturbs(i, j) == \/ runs[i].proc = runs[j].proc
                  \/ runs[i].dir = runs[j].dir

\* p's last run was told of every change, and nothing disturbed it.
RanAlone(p) ==
    /\ p \notin stale
    /\ \A o \in overlaps : last[p] \in o => \A i, j \in o : i # j => ~Disturbs(i, j)

Current(p) == out[p] # NoFile /\ content[out[p]] = Listing(tree[p])

(* When nothing is left to do, the list of a project whose last run of     *)
(* gen_filelist was told of all its changes (none was ignored because of   *)
(* .git/index.lock, lost at shutdown, made with no server or in a          *)
(* directory that was not there when the server started) and was not       *)
(* disturbed by another thread is the list of its sources: one undisturbed *)
(* run repairs whatever disturbed or killed runs left in the working       *)
(* directory, the temporary file or the list, and a timer is only          *)
(* cancelled for a later one.                                              *)
QuietListsAreCurrent == Quiet => \A p \in Projects : RanAlone(p) => Current(p)

(* FileLists.cmake is never a partly written file, whatever else runs,     *)
(* unless two runs for the same project overlapped (gen_filelist writes    *)
(* the temporary file and then renames it).                                *)
OutputIsWhole ==
    \A p \in Projects :
        \/ out[p] = NoFile \/ content[out[p]] # Partial
        \/ \E o \in overlaps : \A i \in o : runs[i].dir = p

(* Changes reach the lists: when files change no more, from some time on   *)
(* every list whose last run was told of everything and ran alone is       *)
(* current.  Every event is dispatched or counted as lost, every timer     *)
(* that was not cancelled fires, and every run ends.                       *)
ListsCatchUp == <>[](Quiet /\ \A p \in Projects : RanAlone(p) => Current(p))
=============================================================================
