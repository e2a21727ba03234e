----------------------------- MODULE CompileAll -----------------------------
(***************************************************************************)
(* Incremental compilation, dds::detail::compile_all in                    *)
(* src/dds/build/plan/compile_exec.cpp, over a sequence of builds.         *)
(*                                                                         *)
(* A build runs parallel_run over the lazy view                            *)
(*     compiles | transform(realize_plan) | filter(should_compile)        *)
(* so a translation unit (TU) is tested by should_compile when the shared  *)
(* iterator reaches it: by begin() in the calling thread, and by ++iter    *)
(* in a worker under the pool mutex.  A worker runs the compiler           *)
(* (do_compile), which reads the TU and the headers it includes and, on    *)
(* success, writes the object file; the deps record (command, inputs) of   *)
(* a successful compile is pushed to new_deps.  After the join the         *)
(* records are written to the database, one transaction each.              *)
(*                                                                         *)
(* Between builds (and, if EditsDuringBuild, during them) the user edits   *)
(* files, which may change the headers a TU includes, and may change the   *)
(* toolchain's compile command.  A build may be killed (Ctrl-C) at any     *)
(* point if MaxCrashes > 0: objects written stay on disk, the records not  *)
(* yet persisted are lost.  Timestamps come from a logical clock that      *)
(* ticks on every file write.                                              *)
(*                                                                         *)
(* get_rebuild_info and update_deps_info (src/dds/build/deps.cpp) are not  *)
(* part of the sources at hand: the up-to-date rule is spec.md 4.I ("no    *)
(* input listed in the prior record has an mtime newer than the output's   *)
(* mtime").                                                                *)
(***************************************************************************)
EXTENDS Naturals, Sequences, FiniteSets, FiniteSetsExt

CONSTANTS
    TUOrder,          \* the compile plans, in iteration order (a sequence)
    Headers,          \* header files a TU may include
    Commands,         \* compile command strings the toolchain may produce
    DepsModes,        \* toolchain deps modes: subset of {"gnu", "msvc"}
    NJobs,            \* worker threads (parallel_run's n_jobs, >= 1 here)
    MaxEdits,         \* bound: user edits and command changes in a behaviour
    MaxBuilds,        \* bound: compile_all calls in a behaviour
    MaxCrashes,       \* bound: builds killed before they return
    EditsDuringBuild, \* may the user edit while a build runs?
    DepfileMayBeMissing, \* may a gnu-mode compile leave no .d file?
    None              \* model value: no object / no record / no item

TUs     == {TUOrder[i] : i \in DOMAIN TUOrder}
Files   == TUs \cup Headers
Workers == 1 .. NJobs
Stop    == Len(TUOrder) + 1

ASSUME /\ TUs \cap Headers = {}
       /\ NJobs >= 1
       /\ DepsModes \subseteq {"gnu", "msvc"} /\ DepsModes # {}

VARIABLES
    \* the file system and the user
    content,     \* content[f]: version of file f (bumped by every edit)
    includes,    \* includes[t]: headers TU t currently includes
    mtime,       \* mtime[f]: last write time of source file f
    cmd,         \* the compile command realize_plan generates now
    objMtime,    \* objMtime[t]: last write time of t's object, or None
    built,       \* ghost: what t's object was compiled from, or None
    clock,       \* the logical clock
    edits,       \* edits made so far
    \* the deps database (persistent)
    db,          \* db[t]: [cmd, inputs] of t's last persisted record, or None
    \* one compile_all call (lost on a crash)
    depsMode,    \* the toolchain's deps mode
    mainPc,      \* "idle", "join" or "persist"
    pc, iter, item, exceptions,
    snap,        \* snap[w]: what the compiler of worker w read
    newDeps,     \* new_deps: records of successful compiles, in push order
    okay,        \* the last build's result
    builds, crashes,
    staleSkips,  \* history: TUs the filter skipped while their object was stale
    redundant    \* history: TUs compiled although object and record were current

fsVars    == <<content, includes, mtime, cmd, objMtime, built, clock, edits>>
buildVars == <<depsMode, mainPc, pc, iter, item, exceptions, snap,
               newDeps, okay, builds, crashes, staleSkips, redundant>>
vars      == <<fsVars, db, buildVars>>

Snapshots == [ver : [Files -> Nat], inc : SUBSET Headers, cmd : Commands]
Records   == [cmd : Commands, inputs : SUBSET Files]

TypeOK ==
    /\ content \in [Files -> 0 .. MaxEdits]
    /\ includes \in [TUs -> SUBSET Headers]
    /\ mtime \in [Files -> Nat] /\ clock \in Nat
    /\ objMtime \in [TUs -> Nat \cup {None}]
    /\ built \in [TUs -> Snapshots \cup {None}]
    /\ cmd \in Commands /\ edits \in 0 .. MaxEdits
    /\ db \in [TUs -> Records \cup {None}]
    /\ depsMode \in DepsModes
    /\ mainPc \in {"idle", "join", "persist"}
    /\ pc \in [Workers -> {"unspawned", "lock", "read", "exit_proc",
                           "relock", "exit"}]
    /\ iter \in 1 .. Stop
    /\ item \in [Workers -> TUs \cup {None}]
    /\ exceptions \in Seq(TUs)
    /\ snap \in [Workers -> Snapshots \cup {None}]
    /\ newDeps \in Seq([tu : TUs, rec : Records])
    /\ okay \in BOOLEAN
    /\ builds \in 0 .. MaxBuilds /\ crashes \in 0 .. MaxCrashes
    /\ staleSkips \subseteq TUs
    /\ redundant \subseteq TUs

(* Every file starts at version 0, written at time 0; nothing is built.    *)
Init ==
    /\ content = [f \in Files |-> 0]
    /\ includes \in [TUs -> SUBSET Headers]
    /\ mtime = [f \in Files |-> 0]
    /\ cmd \in Commands
    /\ objMtime = [t \in TUs |-> None]
    /\ built = [t \in TUs |-> None]
    /\ clock = 0
    /\ edits = 0
    /\ db = [t \in TUs |-> None]
    /\ depsMode \in DepsModes
    /\ mainPc = "idle"
    /\ pc = [w \in Workers |-> "unspawned"]
    /\ iter = Stop
    /\ item = [w \in Workers |-> None]
    /\ exceptions = <<>>
    /\ snap = [w \in Workers |-> None]
    /\ newDeps = <<>>
    /\ okay = FALSE
    /\ builds = 0
    /\ crashes = 0
    /\ staleSkips = {}
    /\ redundant = {}

-----------------------------------------------------------------------------
(* The up-to-date check.                                                   *)

(* The object of t was compiled from the current command and the current   *)
(* contents of t and of every header t includes now.                       *)
ObjCurrent(t) ==
    /\ built[t] # None
    /\ built[t].cmd = cmd
    /\ built[t].inc = includes[t]
    /\ \A f \in {t} \cup includes[t] : built[t].ver[f] = content[f]

(* Mutant: only the TU's own mtime is compared, the recorded headers are   *)
(* ignored.                                                                *)
NewerInputsSelfOnly(t) ==
    {f \in {t} : mtime[f] > objMtime[t]}

(* deps.cpp get_rebuild_info (spec.md 4.I): the inputs of the prior record *)
(* that are newer than the output.                                         *)
NewerInputs(t) ==
    {f \in db[t].inputs : mtime[f] > objMtime[t]}

(* Mutant: the command-line comparison is left out.                       *)
ShouldCompileNoCmd(t) ==
    \/ db[t] = None
    \/ NewerInputs(t) # {}

(* Mutant: the command-line comparison is inverted.                        *)
ShouldCompileCmdInverted(t) ==
    \/ db[t] = None
    \/ NewerInputs(t) # {}
    \/ cmd = db[t].cmd

(* compile_exec.cpp:155-174 should_compile: no previous command, newer     *)
(* inputs, or a different command line.                                    *)
ShouldCompile(t) ==
    \/ db[t] = None
    \/ NewerInputs(t) # {}
    \/ cmd # db[t].cmd

(* Mutant: the iterator stops one position before the TU that passed.     *)
FirstToCompileOffByOne(k) ==
    LET S == {j \in k .. Len(TUOrder) : ShouldCompile(TUOrder[j])}
    IN  IF S = {} THEN Stop ELSE Min(S) - 1

(* The position of the first TU at or after position k that passes the    *)
(* filter: what begin() / ++iter of the filter view evaluate.              *)
FirstToCompile(k) ==
    LET S == {j \in k .. Len(TUOrder) : ShouldCompile(TUOrder[j])}
    IN  IF S = {} THEN Stop ELSE Min(S)

(* The TUs the filter passes over between positions k and j.               *)
Skipped(k, j) == {TUOrder[i] : i \in k .. (j - 1)}

StaleAmong(S) == {t \in S : ~ObjCurrent(t)}

(* The deps record of t describes how its object was built.                *)
RecordDescribes(t) ==
    /\ db[t] # None /\ built[t] # None
    /\ db[t] = [cmd |-> built[t].cmd, inputs |-> {t} \cup built[t].inc]

Goto(w, from, to) ==
    /\ pc[w] = from
    /\ pc' = [pc EXCEPT ![w] = to]

(* The locals of a compile_all call are gone once it returns.            *)
ResetCall ==
    /\ pc' = [w \in Workers |-> "unspawned"]
    /\ iter' = Stop
    /\ item' = [w \in Workers |-> None]
    /\ snap' = [w \in Workers |-> None]
    /\ exceptions' = <<>>

-----------------------------------------------------------------------------
(* The calling thread.                                                     *)

(* compile_exec.cpp:181-188 with parallel_run lines 27 and 54-60: a new    *)
(* compile_all call; begin() of the filter view runs should_compile up to  *)
(* the first TU that needs compiling; the workers are spawned.             *)
StartBuild ==
    /\ mainPc = "idle"
    /\ builds < MaxBuilds
    /\ LET first == FirstToCompile(1)
       IN  /\ iter' = first
           /\ staleSkips' = staleSkips \cup StaleAmong(Skipped(1, first))
    /\ mainPc' = "join"
    /\ pc' = [w \in Workers |-> "lock"]
    /\ item' = [w \in Workers |-> None]
    /\ snap' = [w \in Workers |-> None]
    /\ exceptions' = <<>>
    /\ newDeps' = <<>>
    /\ builds' = builds + 1
    /\ UNCHANGED <<fsVars, db, depsMode, okay, crashes, redundant>>

(* parallel_run lines 61-71: every worker has left its loop; the pool      *)
(* returns exceptions.empty().                                             *)
Join ==
    /\ mainPc = "join"
    /\ \A w \in Workers : pc[w] = "exit"
    /\ mainPc' = "persist"
    /\ okay' = (exceptions = <<>>)
    /\ UNCHANGED <<fsVars, db, depsMode, pc, iter, item, exceptions,
                   snap, newDeps, builds, crashes, staleSkips, redundant>>

(* compile_exec.cpp:197-200: one record of new_deps is written in its own  *)
(* transaction (update_deps_info replaces t's command and inputs).         *)
PersistOne ==
    /\ mainPc = "persist"
    /\ newDeps # <<>>
    /\ db' = [db EXCEPT ![Head(newDeps).tu] = Head(newDeps).rec]
    /\ newDeps' = Tail(newDeps)
    /\ UNCHANGED <<fsVars, depsMode, mainPc, pc, iter, item, exceptions,
                   snap, okay, builds, crashes, staleSkips, redundant>>

(* compile_exec.cpp:201: every record written, compile_all returns okay.   *)
Return ==
    /\ mainPc = "persist"
    /\ newDeps = <<>>
    /\ mainPc' = "idle"
    /\ ResetCall
    /\ UNCHANGED <<fsVars, db, depsMode, newDeps, okay, builds, crashes,
                   staleSkips, redundant>>

-----------------------------------------------------------------------------
(* A worker: parallel_run's run_one (compile_exec.cpp:32-52) with fn the   *)
(* lambda of lines 188-194.  The pool itself is checked step by step in    *)
(* ParallelRun; here each critical section under the pool mutex is one     *)
(* step, which hides no interleaving of the workers with one another.      *)

(* lines 34-43, one hold of the mutex: leave the loop if an exception was *)
(* recorded or the range is exhausted; otherwise *iter yields              *)
(* realize_plan(plan), the TU and its command, and ++iter runs             *)
(* should_compile on the following TUs until one passes; unlock.           *)
TakeNext(w) ==
    /\ pc[w] = "lock"
    /\ IF exceptions # <<>> \/ iter = Stop
          THEN /\ pc' = [pc EXCEPT ![w] = "exit"]
               /\ UNCHANGED <<iter, item, staleSkips, redundant>>
          ELSE LET t   == TUOrder[iter]
                   nxt == FirstToCompile(iter + 1)
               IN  /\ pc' = [pc EXCEPT ![w] = "read"]
                   /\ item' = [item EXCEPT ![w] = t]
                   /\ redundant' = redundant \cup
                        (IF ObjCurrent(t) /\ RecordDescribes(t) THEN {t} ELSE {})
                   /\ iter' = nxt
                   /\ staleSkips' = staleSkips \cup
                                      StaleAmong(Skipped(iter + 1, nxt))
    /\ UNCHANGED <<fsVars, db, depsMode, mainPc, exceptions, snap, newDeps,
                   okay, builds, crashes>>

(* do_compile lines 81-88: run_proc starts the compiler, which reads the   *)
(* TU and the headers it includes.                                         *)
CompilerRead(w) ==
    /\ Goto(w, "read", "exit_proc")
    /\ snap' = [snap EXCEPT ![w] = [ver |-> content,
                                    inc |-> includes[item[w]],
                                    cmd |-> cmd]]
    /\ UNCHANGED <<fsVars, db, depsMode, mainPc, iter, item, exceptions,
                   newDeps, okay, builds, crashes, staleSkips, redundant>>

(* Mutant: the record lists the source alone, not the headers it read.    *)
DepsOfSourceOnly(w) == [cmd |-> snap[w].cmd, inputs |-> {item[w]}]

(* The deps record do_compile builds from a successful compile: the gnu    *)
(* Makefile deps or the msvc "Note: including file:" lines plus the        *)
(* source (lines 93-116); the inputs are what the compiler read.           *)
DepsOf(w) == [cmd |-> snap[w].cmd, inputs |-> {item[w]} \cup snap[w].inc]

(* Whether the gnu .d file is on disk after a successful compile (line 96) *)
DepfileOutcomes == IF DepfileMayBeMissing THEN BOOLEAN ELSE {TRUE}

(* The compiler exits.  On success it has written the object; do_compile   *)
(* returns the deps record unless gnu mode found no .d file (lines 96-101) *)
(* and fn pushes it to new_deps under its mutex (lines 189-193).  On       *)
(* failure do_compile throws (line 134) and nothing is recorded.           *)
CompilerExit(w) ==
    /\ pc[w] = "exit_proc"
    /\ LET t == item[w] IN
       \/ /\ \E depfile \in DepfileOutcomes :
                newDeps' = IF depsMode = "gnu" /\ ~depfile
                              THEN newDeps
                              ELSE Append(newDeps, [tu |-> t, rec |-> DepsOf(w)])
          /\ clock' = clock + 1
          /\ objMtime' = [objMtime EXCEPT ![t] = clock + 1]
          /\ built' = [built EXCEPT ![t] = snap[w]]
          /\ pc' = [pc EXCEPT ![w] = "lock"]
       \/ /\ pc' = [pc EXCEPT ![w] = "relock"]
          /\ UNCHANGED <<newDeps, clock, objMtime, built>>
    /\ UNCHANGED <<content, includes, mtime, cmd, edits, db, depsMode, mainPc,
                   iter, item, exceptions, snap, okay, builds, crashes,
                   staleSkips, redundant>>

(* lines 47-49: relock, push the exception, leave the loop (unlocking).  *)
RelockPush(w) ==
    /\ Goto(w, "relock", "exit")
    /\ exceptions' = Append(exceptions, item[w])
    /\ UNCHANGED <<fsVars, db, depsMode, mainPc, iter, item, snap, newDeps,
                   okay, builds, crashes, staleSkips, redundant>>

Worker(w) ==
    \/ TakeNext(w) \/ CompilerRead(w) \/ CompilerExit(w) \/ RelockPush(w)

-----------------------------------------------------------------------------
(* The environment.                                                        *)

(* The user edits file f; an edit of a TU may change what it includes.     *)
Edit(f) ==
    /\ mainPc = "idle" \/ EditsDuringBuild
    /\ edits < MaxEdits
    /\ edits' = edits + 1
    /\ content' = [content EXCEPT ![f] = @ + 1]
    /\ clock' = clock + 1
    /\ mtime' = [mtime EXCEPT ![f] = clock + 1]
    /\ IF f \in TUs
          THEN \E inc \in SUBSET Headers : includes' = [includes EXCEPT ![f] = inc]
          ELSE UNCHANGED includes
    /\ UNCHANGED <<cmd, objMtime, built, db, buildVars>>

(* The toolchain file changes between builds: realize_plan now generates a *)
(* different command line.                                                 *)
ChangeCommand ==
    /\ mainPc = "idle"
    /\ edits < MaxEdits
    /\ edits' = edits + 1
    /\ \E c \in Commands \ {cmd} : cmd' = c
    /\ UNCHANGED <<content, includes, mtime, objMtime, built, clock, db, buildVars>>

(* The build is killed: every object already written stays, the records   *)
(* still in new_deps are lost, the records persisted stay.                 *)
Crash ==
    /\ mainPc # "idle"
    /\ crashes < MaxCrashes
    /\ crashes' = crashes + 1
    /\ mainPc' = "idle"
    /\ ResetCall
    /\ newDeps' = <<>>
    /\ okay' = FALSE
    /\ UNCHANGED <<fsVars, db, depsMode, builds, staleSkips, redundant>>

(* Nothing left to do within the bounds.                                   *)
Finished ==
    /\ mainPc = "idle"
    /\ builds = MaxBuilds
    /\ UNCHANGED vars

Next ==
    \/ StartBuild \/ Join \/ PersistOne \/ Return
    \/ \E w \in Workers : Worker(w)
    \/ \E f \in Files : Edit(f)
    \/ ChangeCommand \/ Crash \/ Finished

(* Threads are scheduled and compilers exit; the user owes nothing.        *)
Fairness ==
    /\ WF_vars(Join) /\ WF_vars(PersistOne) /\ WF_vars(Return)
    /\ \A w \in Workers : WF_vars(Worker(w))

Spec == Init /\ [][Next]_vars /\ Fairness

-----------------------------------------------------------------------------
(* Properties.                                                             *)

(* The up-to-date check never skips a TU whose object is out of date:    *)
(* its command changed, or the TU or a header it includes changed since   *)
(* the object was compiled (spec.md 4.I "otherwise recompile",            *)
(* should_compile lines 155-174) -- provided no file is edited while a    *)
(* build runs, and every record the check reads was written by the build  *)
(* that compiled the object.  An edit during a compile (EditsDuringBuild)  *)
(* breaks it, since the object written afterwards is newer than the edit; *)
(* so does a record left by a build that was killed or found no .d file   *)
(* (seen from the third build on: the configurations of runs             *)
(* compile_crash and compile_no_depfile).  The compile run has two builds *)
(* and no edits during them.                                              *)
NoStaleSkip == staleSkips = {}

(* A compile_all that returns true leaves every TU's object compiled from  *)
(* the current sources and command, with the deps records persisted        *)
(* (lines 196-201): the promise "build succeeded" makes to the user.       *)
UpToDateAfterSuccess ==
    [][mainPc = "persist" /\ mainPc' = "idle" /\ okay
          => \A t \in TUs : ObjCurrent(t)']_vars

(* Spec.md scenario S6: a TU whose object is current and whose record     *)
(* describes that object is not handed to the compiler again.             *)
NoRedundantCompile == redundant = {}

=============================================================================
