\* A service that comes and goes, health checks that overlap, requests one at a time.
SPECIFICATION LiveSpec
CONSTANTS
    ticket = ticket  c1 = c1  c2 = c2  r1 = r1
    Services <- OneService
    Flaky <- OneService
    Cycles <- TwoCycles
    Requests <- OneRequest
    MaxFires = 2
INVARIANTS TypeOK RefreshRestores BreakerNeedsFailure
PROPERTIES DownIsNoticed ServiceComesBack
