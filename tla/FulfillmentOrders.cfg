SPECIFICATION FairSpec
CONSTANTS
    Sessions = {s1, s2}
    Paying = {s1}
    RefundIds = {r1}
    OrderIds = {o1, o2}
    MaxPrice = 2
    MaxVersion = 2
    NoSession = NoSession
    NoRefund = NoRefund
    NoOrder = NoOrder
INVARIANTS OneOrderPerPayment SettledAsAgreed
PROPERTIES PaidIsFulfilled FullRefundRevokes
CHECK_DEADLOCK FALSE
