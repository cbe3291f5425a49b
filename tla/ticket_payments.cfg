\* The consumer, the batches and a request handler, interleaved, and what must happen.
SPECIFICATION LiveSpec
CONSTANTS
    p1 = p1  p2 = p2  t1 = t1  consumer = consumer
    Tickets <- OneTicket
    Procs <- OneHandler
    Consumer <- consumer
    MaxSpent = 1
    MaxBacklog = 1
    Operator <- AllButActive
    ExpiryJob = TRUE
    DbFaults = FALSE
INVARIANT UnpaidNeverActive
PROPERTIES CancelledStaysWhenQuiet CountdownNeverRewinds NoPaymentDropped PaidIsSettled PaidPassActivates
CHECK_DEADLOCK FALSE
