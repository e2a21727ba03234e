---------------------------- MODULE BuildPhases ----------------------------
(***************************************************************************)
(* The three phases of building a plan, build_plan::compile_all,           *)
(* archive_all and link_all in src/dds/build/plan/full.cpp, run one after  *)
(* the other by the builder (spec.md 4.I "Phases run in order").  Each     *)
(* phase is a call of that file's parallel_run (lines 24-74), modelled by  *)
(* ParallelFor, the promise ParallelRun is checked to implement: TUs are   *)
(* compiled, libraries archived and executables linked, and any single     *)
(* fn call may throw.                                                      *)
(***************************************************************************)
EXTENDS Naturals

CONSTANTS
    NTUs,     \* compile_file_plans of the build plan
    NLibs,    \* library_plans (each may create an archive)
    NExes     \* executables over all libraries

VARIABLES
    phase,    \* "compile", "archive", "link", "done" (returned) or "failed" (threw)
    cNext, cRunning, cSucceeded, cFailed, cReturned, cResult,
    aNext, aRunning, aSucceeded, aFailed, aReturned, aResult,
    lNext, lRunning, lSucceeded, lFailed, lReturned, lResult

cvars == <<cNext, cRunning, cSucceeded, cFailed, cReturned, cResult>>
avars == <<aNext, aRunning, aSucceeded, aFailed, aReturned, aResult>>
lvars == <<lNext, lRunning, lSucceeded, lFailed, lReturned, lResult>>
vars  == <<phase, cvars, avars, lvars>>

Compile == INSTANCE ParallelFor WITH NItems <- NTUs,
    next <- cNext, running <- cRunning, succeeded <- cSucceeded,
    failed <- cFailed, returned <- cReturned, result <- cResult
Archive == INSTANCE ParallelFor WITH NItems <- NLibs,
    next <- aNext, running <- aRunning, succeeded <- aSucceeded,
    failed <- aFailed, returned <- aReturned, result <- aResult
Link == INSTANCE ParallelFor WITH NItems <- NExes,
    next <- lNext, running <- lRunning, succeeded <- lSucceeded,
    failed <- lFailed, returned <- lReturned, result <- lResult

Init ==
    /\ phase = "compile"
    /\ Compile!Init /\ Archive!Init /\ Link!Init

(* A step of the pool of the running phase. *)
CompileStep == phase = "compile" /\ ~cReturned /\ Compile!Next /\ UNCHANGED <<phase, avars, lvars>>
ArchiveStep == phase = "archive" /\ ~aReturned /\ Archive!Next /\ UNCHANGED <<phase, cvars, lvars>>
LinkStep    == phase = "link" /\ ~lReturned /\ Link!Next /\ UNCHANGED <<phase, cvars, avars>>

(* full.cpp:78-85: compile_all throws "Compilation failed." when the pool  *)
(* returns false; otherwise the builder goes on to archive.                *)
CompileAllReturns ==
    /\ phase = "compile" /\ cReturned
    /\ phase' = IF cResult THEN "archive" ELSE "failed"
    /\ UNCHANGED <<cvars, avars, lvars>>

(* full.cpp:87-93: archive_all discards parallel_run's result. *)
ArchiveAllReturns ==
    /\ phase = "archive" /\ aReturned
    /\ phase' = "link"
    /\ UNCHANGED <<cvars, avars, lvars>>

(* full.cpp:95-109: link_all discards parallel_run's result; the build     *)
(* returns normally.                                                       *)
LinkAllReturns ==
    /\ phase = "link" /\ lReturned
    /\ phase' = "done"
    /\ UNCHANGED <<cvars, avars, lvars>>

Stopped ==
    /\ phase \in {"done", "failed"}
    /\ UNCHANGED vars

Next ==
    \/ CompileStep \/ ArchiveStep \/ LinkStep
    \/ CompileAllReturns \/ ArchiveAllReturns \/ LinkAllReturns
    \/ Stopped

Spec == Init /\ [][Next]_vars

(* spec.md 4.I: "Any phase failure aborts the build and surfaces a         *)
(* CompilationFailed / ArchiveFailed / LinkFailed error" -- so a build     *)
(* that returns normally has every archive created and every executable    *)
(* linked.                                                                 *)
BuildOkMeansAllBuilt ==
    phase = "done" => /\ aSucceeded = 1 .. NLibs
                      /\ lSucceeded = 1 .. NExes
=============================================================================
