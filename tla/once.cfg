\* Two requests with one key, each on its own instance; one notification and two requests.
SPECIFICATION OnceSpec
CONSTANTS
    c1 = c1  c2 = c2  q1 = q1  q2 = q2  redis = redis
    Callers <- TwoCallers
    Processes <- TwoProcesses
    Home <- OneEach
    Redis <- redis
    e1 = e1  r1 = r1  r2 = r2
    Events <- OneEvent
    Requests <- TwoRequests
INVARIANTS MutualExclusion RetryIsAnswered PublishedAtMostOnce AcceptedIsPublishedWhenSound
PROPERTIES NoLockForEver ReceivedIsPublished
