\* A scan of a short-term ticket that waits for its payment.
SPECIFICATION SerialSpec
CONSTANTS
    p1 = p1  p2 = p2  t1 = t1  consumer = consumer
    Tickets <- OneTicket
    Procs <- OneHandler
    Consumer <- consumer
    MaxSpent = 1
    MaxBacklog = 1
    Operator <- NoStatus
    ExpiryJob = FALSE
    DbFaults = FALSE
INVARIANT UnpaidNeverRides
CHECK_DEADLOCK FALSE
