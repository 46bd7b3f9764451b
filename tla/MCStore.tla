------------------------------ MODULE MCStore ------------------------------
(* Store on the handlers of index.js that write several rows, and on one    *)
(* handler of each other shape.                                             *)
EXTENDS Store

CONSTANTS paid, checkout, revoke, order, intent, oldIntent, event, pendingRefund

Row(k)  == [keys |-> {k}, own |-> FALSE]      \* a mutator that writes one row
Own(ks) == [keys |-> ks, own |-> TRUE]        \* one that writes several, in its own #tx

MCPlan ==
    [q \in Requests |->
        CASE q = paid ->       \* the webhook's transaction on a paid event
               [wrapped |-> TRUE,
                mutators |-> {Row(order), Row(intent), Row(pendingRefund), Own({event})}]
          [] q = checkout ->   \* createCheckoutIntent, pruning another
               [wrapped |-> FALSE, mutators |-> {Own({intent, oldIntent})}]
          [] q = revoke ->     \* revokeOrder
               [wrapped |-> FALSE, mutators |-> {Row(order)}]]
=============================================================================
