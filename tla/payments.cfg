\* A ticket's payment and one more order, two notifications, stops anywhere.
SPECIFICATION SaleLiveSpec
CONSTANTS
    p1 = p1  p2 = p2
    Payments <- TwoPayments
    Bought <- p1
    MaxNotices = 2
INVARIANTS CompletedWasPaid CompletedIsAnnounced CancelledWithCause
PROPERTIES CompletedStaysWhenQuiet CaptureReachesTicket
CHECK_DEADLOCK FALSE
