\* Two jobs, three runs at a time, one forced run of each job.
SPECIFICATION RegistryLiveSpec
CONSTANTS
    j1 = j1  j2 = j2  r1 = r1  r2 = r2  r3 = r3
    Jobs <- TwoJobs
    Runs <- ThreeRuns
    MaxForced = 1
INVARIANTS RegistryTypeOK OverlapBounded
PROPERTY JobKeepsRunning
