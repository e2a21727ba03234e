-------------------------- MODULE MC_ParallelRun --------------------------
(* Model-checking instance of ParallelRun: four items, n_jobs = 0 on a     *)
(* host whose hardware_concurrency() reports 1, i.e. three threads.        *)
EXTENDS ParallelRun

MCNItems == 4
MCNJobs == 0
MCHWConcurrency == 1
=============================================================================
