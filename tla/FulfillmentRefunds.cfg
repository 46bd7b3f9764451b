SPECIFICATION Spec
CONSTANTS
    Sessions = {s1}
    Paying = {s1}
    RefundIds = {r1, r2}
    OrderIds = {o1, o2}
    MaxPrice = 2
    MaxVersion = 2
    NoSession = NoSession
    NoRefund = NoRefund
    NoOrder = NoOrder
SYMMETRY Symmetry
INVARIANTS TypeOK PendingOnlyBeforeOrder BooksWhatStripeReported
PROPERTIES ReplayIsHarmless OrdersOnlyMoveForward
CHECK_DEADLOCK FALSE
