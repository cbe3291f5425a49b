\* A forced run and two ticks of one job.
SPECIFICATION RegistrySpec
CONSTANTS
    j1 = j1  j2 = j2  r1 = r1  r2 = r2  r3 = r3
    Jobs <- TwoJobs
    Runs <- ThreeRuns
    MaxForced = 1
PROPERTY UnforcedRunsAlone
