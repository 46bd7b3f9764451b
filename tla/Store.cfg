SPECIFICATION Spec
CONSTANTS
    paid = paid
    checkout = checkout
    revoke = revoke
    order = order
    intent = intent
    oldIntent = oldIntent
    event = event
    pendingRefund = pendingRefund
    Requests = {paid, checkout, revoke}
    Keys = {order, intent, oldIntent, event, pendingRefund}
    Plan <- MCPlan
    NoRequest = NoRequest
    NoValue = NoValue
INVARIANTS TypeOK MemoryIsDisk
PROPERTIES ImplementsAtomicStore
