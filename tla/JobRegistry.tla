---------------------------- MODULE JobRegistry ----------------------------
(***************************************************************************)
(* The scheduler service: jobs that node-cron runs, that operators trigger *)
(* (also by force), change, start and stop over gRPC.  A handler is a gRPC *)
(* call without a deadline: a run lasts until the other side answers.      *)
(***************************************************************************)
EXTENDS Naturals, FiniteSets

CONSTANTS
    Jobs,          \* jobIds, all registered at start-up, each once
    Runs,          \* calls of runJob in progress
    MaxForced      \* bound: forced runs of a job

ASSUME RunsAssumption == IsFiniteSet(Runs)
ASSUME ForcedAssumption == MaxForced \in Nat
\* What stands for no job is none.
ASSUME JobsAssumption == "none" \notin Jobs

VARIABLES
    enabled,       \* of the registry
    jobs,          \* per job, its flags
    runs,          \* the job a run is in, if any
    forced         \* history: forced runs of each job

registryVars == <<enabled, jobs, runs, forced>>

NoJob == "none"

JobState == [enabled : BOOLEAN,
             ticking : BOOLEAN,     \* its cron task is started
             running : BOOLEAN]

RegistryTypeOK ==
    /\ enabled \in BOOLEAN
    /\ jobs \in [Jobs -> JobState]
    /\ runs \in [Runs -> Jobs \cup {NoJob}]
    /\ forced \in [Jobs -> 0..MaxForced]

RegistryInit ==
    /\ enabled = TRUE
    /\ jobs = [j \in Jobs |-> [enabled |-> TRUE, ticking |-> TRUE, running |-> FALSE]]
    /\ runs = [r \in Runs |-> NoJob]
    /\ forced = [j \in Jobs |-> 0]

Active(j) == {r \in Runs : runs[r] = j}

-----------------------------------------------------------------------------

\* Mutant: the flag is not looked at.
RunJob_Unchecked(j, r, force) ==
    /\ runs[r] = NoJob
    /\ enabled /\ jobs[j].enabled
    /\ runs' = [runs EXCEPT ![r] = j]
    /\ jobs' = [jobs EXCEPT ![j].running = TRUE]

\* Up to the call of the handler.  A run refused (disabled, or running and not
\* forced) changes nothing.
RunJob(j, r, force) ==
    /\ runs[r] = NoJob
    /\ enabled /\ jobs[j].enabled
    /\ ~jobs[j].running \/ force
    /\ runs' = [runs EXCEPT ![r] = j]
    /\ jobs' = [jobs EXCEPT ![j].running = TRUE]

\* The cron task of the job.
Tick(j, r) ==
    /\ jobs[j].ticking
    /\ RunJob(j, r, FALSE)
    /\ UNCHANGED <<enabled, forced>>

TriggerJob(j, r, force) ==
    /\ RunJob(j, r, force)
    /\ IF force
       THEN forced[j] < MaxForced /\ forced' = [forced EXCEPT ![j] = @ + 1]
       ELSE UNCHANGED forced
    /\ UNCHANGED enabled

\* Mutant: only a run that succeeds clears the flag.
Finish_OnlySuccess(r) ==
    /\ runs[r] # NoJob
    /\ runs' = [runs EXCEPT ![r] = NoJob]
    /\ \/ jobs' = [jobs EXCEPT ![runs[r]].running = FALSE]
       \/ UNCHANGED jobs
    /\ UNCHANGED <<enabled, forced>>

\* Mutant: the run is marked, not removed.
Finish_Marked(r) ==
    /\ runs[r] # NoJob
    /\ runs' = [runs EXCEPT ![r] = "done"]
    /\ jobs' = [jobs EXCEPT ![runs[r]].running = FALSE]
    /\ UNCHANGED <<enabled, forced>>

\* finally, after success and failure: the flag is cleared whoever set it.
Finish(r) ==
    /\ runs[r] # NoJob
    /\ runs' = [runs EXCEPT ![r] = NoJob]
    /\ jobs' = [jobs EXCEPT ![runs[r]].running = FALSE]
    /\ UNCHANGED <<enabled, forced>>

\* An expression that does not parse leaves the old task stopped; a valid one starts
\* a task, also in a registry that is stopped.  gRPC sends FALSE for a missing enabled.
UpdateJob(j, cron, on) ==
    /\ jobs' = [jobs EXCEPT ![j].enabled = on,
                            ![j].ticking = IF cron = NoJob THEN @ ELSE cron = "valid"]
    /\ UNCHANGED <<enabled, runs, forced>>

StartAll ==
    /\ enabled' = TRUE
    /\ jobs' = [j \in Jobs |-> [jobs[j] EXCEPT !.ticking = TRUE]]
    /\ UNCHANGED <<runs, forced>>

\* Runs in progress go on.
StopAll ==
    /\ enabled' = FALSE
    /\ jobs' = [j \in Jobs |-> [jobs[j] EXCEPT !.ticking = FALSE]]
    /\ UNCHANGED <<runs, forced>>

Crons == {NoJob, "valid", "invalid"}

RegistryNext ==
    \/ \E j \in Jobs, r \in Runs :
          Tick(j, r) \/ \E force \in BOOLEAN : TriggerJob(j, r, force)
    \/ \E r \in Runs : Finish(r)
    \/ \E j \in Jobs, cron \in Crons, on \in BOOLEAN : UpdateJob(j, cron, on)
    \/ StartAll
    \/ StopAll

RegistrySpec == RegistryInit /\ [][RegistryNext]_registryVars

\* A cron task that is started fires at every date of its expression: for ever.
RegistryLiveSpec ==
    RegistrySpec /\ \A j \in Jobs : SF_registryVars(\E r \in Runs : Tick(j, r))

-----------------------------------------------------------------------------

\* "Job concurrency control", one instance of a job at a time, which only the force flag
\* overrides (scheduler-service/README.md): a tick or an unforced call begins a run only
\* while none of the job is in progress.
UnforcedRunsAlone ==
    [][\A j \in Jobs, r \in Runs :
          Tick(j, r) \/ TriggerJob(j, r, FALSE) => Active(j) = {}]_registryVars

\* What is left of that: a forced run clears the flag of the run it overtook when it ends,
\* so that unforced runs of a job may overlap too, but however ticks, forced runs and
\* their ends interleave each forced run adds at most one.
OverlapBounded == \A j \in Jobs : Cardinality(Active(j)) <= 1 + forced[j]

\* What operators have switched on.
Armed(j) == enabled /\ jobs[j].enabled /\ jobs[j].ticking

HandlersReturn == \A r \in Runs : []<>(runs[r] = NoJob)

\* What the ticket service relies on: while handlers return, a job that is not
\* switched off runs again and again, after any forced runs, failures and restarts of
\* the registry before.
JobKeepsRunning ==
    HandlersReturn => \A j \in Jobs : (<>[]Armed(j)) => []<>(Active(j) # {})
=============================================================================
