----------------------------- MODULE ParallelFor -----------------------------
(***************************************************************************)
(* What `parallel_run(rng, n_jobs, fn)` promises its callers (spec.md      *)
(* section 4.I "Worker pool" and section 9 `parallel_for`), with no        *)
(* threads, iterator or mutex: the items of the range are started in       *)
(* order, each at most once, any number may run at a time, nothing new is  *)
(* started once one has failed, and the call returns when nothing runs     *)
(* and either an item failed or every item was started.  It returns true  *)
(* iff no item failed.                                                     *)
(***************************************************************************)
EXTENDS Naturals, FiniteSets

CONSTANT NItems

Items == 1 .. NItems

VARIABLES
    next,       \* the first item not yet started
    running,    \* items started whose fn has not yet returned or thrown
    succeeded,  \* items whose fn returned normally
    failed,     \* items whose fn threw
    returned,   \* the call has returned
    result      \* its return value

avars == <<next, running, succeeded, failed, returned, result>>

Init ==
    /\ next = 1
    /\ running = {}
    /\ succeeded = {}
    /\ failed = {}
    /\ returned = FALSE
    /\ result = FALSE

Start ==
    /\ ~returned
    /\ failed = {}
    /\ next \in Items
    /\ running' = running \cup {next}
    /\ next' = next + 1
    /\ UNCHANGED <<succeeded, failed, returned, result>>

Succeed(i) ==
    /\ i \in running
    /\ running' = running \ {i}
    /\ succeeded' = succeeded \cup {i}
    /\ UNCHANGED <<next, failed, returned, result>>

Fail(i) ==
    /\ i \in running
    /\ running' = running \ {i}
    /\ failed' = failed \cup {i}
    /\ UNCHANGED <<next, succeeded, returned, result>>

Return ==
    /\ ~returned
    /\ running = {}
    /\ failed # {} \/ next = NItems + 1
    /\ returned' = TRUE
    /\ result' = (failed = {})
    /\ UNCHANGED <<next, running, succeeded, failed>>

Next ==
    \/ Start
    \/ \E i \in Items : Succeed(i) \/ Fail(i)
    \/ Return

Spec ==
    /\ Init /\ [][Next]_avars
    /\ WF_avars(Start)
    /\ WF_avars(\E i \in Items : Succeed(i) \/ Fail(i))
    /\ WF_avars(Return)

=============================================================================
