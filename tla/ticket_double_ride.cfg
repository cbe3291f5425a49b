\* Two scans of one ticket: more rides than it is good for.
SPECIFICATION Spec
CONSTANTS
    p1 = p1  p2 = p2  t1 = t1  consumer = consumer
    Tickets <- OneTicket
    Procs <- TwoHandlers
    Consumer <- consumer
    MaxSpent = 3
    MaxBacklog = 0
    Operator <- NoStatus
    ExpiryJob = FALSE
    DbFaults = FALSE
INVARIANT AllowanceKept
SYMMETRY HandlerSymmetry
CHECK_DEADLOCK FALSE
