\* Two requests about the profile, two faults.
SPECIFICATION LiveSpec
CONSTANTS
    r1 = r1  r2 = r2
    Requests <- TwoRequests
    MaxFaults = 2
INVARIANTS AgreeAtRest CacheFollowsProfile
PROPERTY ProfileFollows
CHECK_DEADLOCK FALSE
