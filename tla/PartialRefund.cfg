SPECIFICATION FairSpec
CONSTANTS
    Sessions = {s1}
    Paying = {s1}
    RefundIds = {r1, r2}
    OrderIds = {o1, o2}
    MaxPrice = 2
    MaxVersion = 2
    NoSession = NoSession
    NoRefund = NoRefund
    NoOrder = NoOrder
PROPERTIES PartialRefundKeepsLicense
CHECK_DEADLOCK FALSE
