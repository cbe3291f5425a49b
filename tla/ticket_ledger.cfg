\* Two scans or operators on one ticket at a time, with writes that are refused.
SPECIFICATION Spec
CONSTANTS
    p1 = p1  p2 = p2  t1 = t1  consumer = consumer
    Tickets <- OneTicket
    Procs <- TwoHandlers
    Consumer <- consumer
    MaxSpent = 3
    MaxBacklog = 0
    Operator <- AnyStatus
    ExpiryJob = TRUE
    DbFaults = TRUE
INVARIANT LedgerBounded
SYMMETRY HandlerSymmetry
CHECK_DEADLOCK FALSE
