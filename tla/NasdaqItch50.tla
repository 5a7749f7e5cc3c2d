---------------------------- MODULE NasdaqItch50 -----------------------------
(***************************************************************************)
(* What the consumers of ITCH 5.0 messages share: ids, partial functions   *)
(* as tables, and the records for orders, matches and published events.    *)
(* A message is the record of the fields its handlers read.  One of a type *)
(* that concerns no order is of type "other", one whose size is not that   *)
(* of its type "wrong_size".                                               *)
(***************************************************************************)
EXTENDS Integers, Sequences, FiniteSets

CONSTANTS
    NoId,         \* id 0
    MaxId,        \* an id beyond INT64_MAX: UINT64_MAX
    MaxOrders,    \* maximum_active_orders: the order_capacity of the tools
    MaxMatches    \* maximum_unique_matches: their match_capacity

Empty == [id \in {} |-> NoId]
Put(f, key, value) == [k \in DOMAIN f \cup {key} |-> IF k = key THEN value ELSE f[k]]
Drop(f, key) == [k \in DOMAIN f \ {key} |-> f[k]]

\* side_of, and uft_side of the differential tool
side_of(side) == IF side = "B" THEN "Buy" ELSE IF side = "S" THEN "Sell" ELSE "Unknown"

Order(price, remaining, side) == [price |-> price, remaining |-> remaining, side |-> side]
Match(price, quantity, order, side, emitted) ==
    [price |-> price, quantity |-> quantity, order |-> order, side |-> side,
     emitted |-> emitted]

\* A published order detail.
Detail(id, order) == [id |-> id, order |-> order]

\* A published transaction: only the side that is known names its order.
Transaction(type, id, side, price, quantity, order) ==
    [type |-> type, id |-> id, side |-> side, price |-> price, quantity |-> quantity,
     bid |-> IF side = "Buy" THEN order ELSE NoId,
     ask |-> IF side = "Sell" THEN order ELSE NoId]

\* What is left of an order; nothing left, nothing kept.
Reduced(orders, id, quantity) ==
    IF orders[id].remaining = quantity THEN Drop(orders, id)
    ELSE [orders EXCEPT ![id].remaining = @ - quantity]

Reducible(orders, id, quantity) ==
    id \in DOMAIN orders /\ quantity # 0 /\ quantity <= orders[id].remaining
=============================================================================
