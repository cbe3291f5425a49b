\* Handlers one at a time, against the contract of a ticket.
SPECIFICATION SerialSpec
CONSTANTS
    p1 = p1  p2 = p2  t1 = t1  consumer = consumer
    Tickets <- OneTicket
    Procs <- OneHandler
    Consumer <- consumer
    MaxSpent = 3
    MaxBacklog = 1
    Operator <- AnyStatus
    ExpiryJob = TRUE
    DbFaults = TRUE
INVARIANT LedgerExact
PROPERTY ImplementsContract
CHECK_DEADLOCK FALSE
