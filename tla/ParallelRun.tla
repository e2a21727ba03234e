---------------------------- MODULE ParallelRun ----------------------------
(***************************************************************************)
(* The hand-rolled worker pool `parallel_run` of                           *)
(* src/dds/build/plan/compile_exec.cpp (a second, identical copy lives in  *)
(* src/dds/build/plan/full.cpp and drives the compile, archive and link    *)
(* phases of a build plan).                                                *)
(*                                                                         *)
(* The main thread spawns PoolSize threads while holding the mutex `mut`,  *)
(* releases it and joins them.  Each thread loops: lock, stop if an        *)
(* exception was recorded or the range is exhausted, dereference and       *)
(* advance the shared iterator, unlock, run fn(item).  If fn throws, the   *)
(* thread relocks, pushes the exception and leaves the loop (the           *)
(* unique_lock's destructor unlocks).  The result is exceptions.empty().   *)
(*                                                                         *)
(* The range is 1..NItems in order; whether fn(item) throws is a           *)
(* nondeterministic choice made when fn returns.                           *)
(***************************************************************************)
EXTENDS Naturals, Sequences, SequencesExt, FiniteSets

CONSTANTS
    NItems,         \* length of the range handed to parallel_run
    NJobs,          \* the n_jobs argument (< 1 means "pick a default")
    HWConcurrency,  \* what std::thread::hardware_concurrency() returns
    NoOne           \* model value: the mutex is free / a thread holds no item

ASSUME NItems \in Nat /\ NJobs \in Int /\ HWConcurrency \in Nat

(* compile_exec.cpp:56-58: a non-positive n_jobs becomes                   *)
(* hardware_concurrency() + 2 (hardware_concurrency() may be 0).           *)
PoolSize == IF NJobs < 1 THEN HWConcurrency + 2 ELSE NJobs

Workers == 1 .. PoolSize
Items   == 1 .. NItems
Stop    == NItems + 1           \* rng.end()

VARIABLES
    mainPc,      \* the calling thread: "spawn", "join" or "done"
    pc,          \* pc[w]: where worker w is in run_one
    mut,         \* the std::mutex: the worker holding it, or NoOne
    iter,        \* the shared iterator into the range
    item,        \* item[w]: the item worker w is working on
    exceptions,  \* the vector of exception_ptr, as the items that threw
    okay,        \* parallel_run's return value, once mainPc = "done"
    taken,       \* history: the items dereferenced, in order
    finished     \* history: the items for which fn returned normally

vars == <<mainPc, pc, mut, iter, item, exceptions, okay, taken, finished>>

WorkerPcs == {"unspawned", "lock", "check", "take", "advance", "run",
              "relock", "push", "exit"}

TypeOK ==
    /\ mainPc \in {"spawn", "join", "done"}
    /\ pc \in [Workers -> WorkerPcs]
    /\ mut \in Workers \cup {NoOne}
    /\ iter \in 1 .. Stop
    /\ item \in [Workers -> Items \cup {NoOne}]
    /\ exceptions \in Seq(Items)
    /\ okay \in BOOLEAN
    /\ taken \in Seq(Items)
    /\ finished \in SUBSET Items

Init ==
    /\ mainPc = "spawn"
    /\ pc = [w \in Workers |-> "unspawned"]
    /\ mut = NoOne
    /\ iter = 1
    /\ item = [w \in Workers |-> NoOne]
    /\ exceptions = <<>>
    /\ okay = FALSE
    /\ taken = <<>>
    /\ finished = {}

Goto(w, from, to) ==
    /\ pc[w] = from
    /\ pc' = [pc EXCEPT ![w] = to]

-----------------------------------------------------------------------------
(* The calling thread.                                                     *)

(* compile_exec.cpp:54-60: lock, spawn every thread, unlock.  A spawned    *)
(* thread blocks on the mutex until the unlock, so spawning them all in    *)
(* one step loses no interleaving.                                         *)
Spawn ==
    /\ mainPc = "spawn"
    /\ mut = NoOne
    /\ mainPc' = "join"
    /\ pc' = [w \in Workers |-> "lock"]
    /\ UNCHANGED <<mut, iter, item, exceptions, okay, taken, finished>>

(* Mutant: the calling thread returns without waiting for the workers.    *)
JoinNoWait ==
    /\ mainPc = "join"
    /\ mainPc' = "done"
    /\ okay' = (exceptions = <<>>)
    /\ UNCHANGED <<pc, mut, iter, item, exceptions, taken, finished>>

(* compile_exec.cpp:61-71: join every thread, log the exceptions, return   *)
(* exceptions.empty().                                                     *)
Join ==
    /\ mainPc = "join"
    /\ \A w \in Workers : pc[w] = "exit"
    /\ mainPc' = "done"
    /\ okay' = (exceptions = <<>>)
    /\ UNCHANGED <<pc, mut, iter, item, exceptions, taken, finished>>

-----------------------------------------------------------------------------
(* A worker thread: the lambda run_one, compile_exec.cpp:32-52.            *)

(* line 34: std::unique_lock lk{mut} *)
Lock(w) ==
    /\ mut = NoOne
    /\ Goto(w, "lock", "check")
    /\ mut' = w
    /\ UNCHANGED <<mainPc, iter, item, exceptions, okay, taken, finished>>

(* Mutant: the early-stop test on `exceptions` is missing.                 *)
CheckNoEarlyStop(w) ==
    /\ pc[w] = "check"
    /\ IF iter = Stop
          THEN /\ pc' = [pc EXCEPT ![w] = "exit"]
               /\ mut' = NoOne
          ELSE /\ pc' = [pc EXCEPT ![w] = "take"]
               /\ UNCHANGED mut
    /\ UNCHANGED <<mainPc, iter, item, exceptions, okay, taken, finished>>

(* Mutant: the end-of-range test is missing.                              *)
CheckNoEnd(w) ==
    /\ pc[w] = "check"
    /\ IF exceptions # <<>>
          THEN /\ pc' = [pc EXCEPT ![w] = "exit"]
               /\ mut' = NoOne
          ELSE /\ pc' = [pc EXCEPT ![w] = "take"]
               /\ UNCHANGED mut
    /\ UNCHANGED <<mainPc, iter, item, exceptions, okay, taken, finished>>

(* lines 35-40: break out of the loop (unlocking) if an exception was      *)
(* recorded or the range is exhausted; otherwise go on to take an item.    *)
Check(w) ==
    /\ pc[w] = "check"
    /\ IF exceptions # <<>> \/ iter = Stop
          THEN /\ pc' = [pc EXCEPT ![w] = "exit"]
               /\ mut' = NoOne
          ELSE /\ pc' = [pc EXCEPT ![w] = "take"]
               /\ UNCHANGED mut
    /\ UNCHANGED <<mainPc, iter, item, exceptions, okay, taken, finished>>

(* line 41: auto&& item = *iter; *)
Take(w) ==
    /\ Goto(w, "take", "advance")
    /\ item' = [item EXCEPT ![w] = iter]
    /\ taken' = Append(taken, iter)
    /\ UNCHANGED <<mainPc, mut, iter, exceptions, okay, finished>>

(* lines 42-43: ++iter; lk.unlock(); *)
Advance(w) ==
    /\ Goto(w, "advance", "run")
    /\ iter' = iter + 1
    /\ mut' = NoOne
    /\ UNCHANGED <<mainPc, item, exceptions, okay, taken, finished>>

(* lines 44-46: fn(item) returns normally (back to the top of the loop)    *)
(* or throws (into the catch block).                                       *)
RunFn(w) ==
    /\ pc[w] = "run"
    /\ \/ /\ pc' = [pc EXCEPT ![w] = "lock"]
          /\ finished' = finished \cup {item[w]}
       \/ /\ pc' = [pc EXCEPT ![w] = "relock"]
          /\ UNCHANGED finished
    /\ UNCHANGED <<mainPc, mut, iter, item, exceptions, okay, taken>>

(* line 47: lk.lock(); *)
Relock(w) ==
    /\ mut = NoOne
    /\ Goto(w, "relock", "push")
    /\ mut' = w
    /\ UNCHANGED <<mainPc, iter, item, exceptions, okay, taken, finished>>

(* Mutant: the catch path leaves the loop still holding the mutex.        *)
PushKeepsLock(w) ==
    /\ Goto(w, "push", "exit")
    /\ exceptions' = Append(exceptions, item[w])
    /\ UNCHANGED <<mainPc, mut, iter, item, okay, taken, finished>>

(* lines 48-49: exceptions.push_back(...); break; -- leaving the loop      *)
(* destroys lk, which unlocks.                                             *)
Push(w) ==
    /\ Goto(w, "push", "exit")
    /\ exceptions' = Append(exceptions, item[w])
    /\ mut' = NoOne
    /\ UNCHANGED <<mainPc, iter, item, okay, taken, finished>>

Worker(w) ==
    \/ Lock(w) \/ Check(w) \/ Take(w) \/ Advance(w)
    \/ RunFn(w) \/ Relock(w) \/ Push(w)

Done ==
    /\ mainPc = "done"
    /\ UNCHANGED vars

Next == Spawn \/ Join \/ (\E w \in Workers : Worker(w)) \/ Done

(* The OS schedules every runnable thread, and fn (a compiler process)     *)
(* returns: weak fairness for each thread and for the calling thread.      *)
Fairness ==
    /\ WF_vars(Spawn) /\ WF_vars(Join)
    /\ \A w \in Workers : WF_vars(Worker(w))

Spec == Init /\ [][Next]_vars /\ Fairness

-----------------------------------------------------------------------------
(* Properties.                                                             *)

(* The pool implements ParallelFor, the promise of spec.md section 4.I:   *)
(* items start in range order, at most once each, never after an           *)
(* exception has been recorded (the test at line 35 and the take at line   *)
(* 41 share one hold of `mut` with the push at line 48), and the join      *)
(* returns only when no fn is running, with true iff none threw.  An item  *)
(* counts as failed once its exception is pushed.                          *)
PF == INSTANCE ParallelFor WITH
        next      <- Len(taken) + 1,
        running   <- {taken[k] : k \in DOMAIN taken}
                        \ (finished \cup ToSet(exceptions)),
        succeeded <- finished,
        failed    <- ToSet(exceptions),
        returned  <- mainPc = "done",
        result    <- okay

ImplementsParallelFor == PF!Spec

(* Every thread exits and parallel_run returns: no thread is left waiting  *)
(* on `mut` (each break path releases it) and the join completes.          *)
Terminates == <>(mainPc = "done")

=============================================================================
