------------------------ MODULE NasdaqItchUftAdapter -------------------------
(***************************************************************************)
(* NasdaqItchUftAdapter (include/qtrader/NasdaqItchUftAdapter.hpp): turns  *)
(* the ITCH messages of one instrument into UFT events and book updates.   *)
(*                                                                         *)
(* A handler is an operator that gives the outcome of the whole call: the  *)
(* two tables after it, the book update, order details and transactions it *)
(* publishes, and the counter it raises besides those of what it           *)
(* publishes.  The tables are partial functions (see FixedHashTable).      *)
(***************************************************************************)
EXTENDS NasdaqItch50

ASSUME AdapterAssumption == MaxOrders \in Nat \ {0} /\ MaxMatches \in Nat \ {0}

VARIABLES
    orders,    \* orders_: id -> [price, remaining, side]
    matches    \* matches_: id -> [price, quantity, order, side, emitted]

AdapterInit == orders = Empty /\ matches = Empty

\* FixedHashTable::insert
InsertResult(f, key, limit) ==
    IF key = NoId THEN "InvalidKey"
    ELSE IF key \in DOMAIN f THEN "Duplicate"
    ELSE IF Cardinality(DOMAIN f) = limit THEN "Full" ELSE "Inserted"

NoUpdate == [action |-> "none"]

Unchanged ==
    [orders |-> orders, matches |-> matches, update |-> NoUpdate, details |-> <<>>,
     transactions |-> <<>>, counted |-> "none"]
Malformed == [Unchanged EXCEPT !.counted = "malformed_or_missing_orders"]

\* The counters the pipeline takes for a fault.
Errors == {"malformed_or_missing_orders", "capacity_exhaustions", "unknown_broken_trades"}

\* count_insert_failure
InsertFailure(result) ==
    IF result = "Full" THEN [Unchanged EXCEPT !.counted = "capacity_exhaustions"] ELSE Malformed

\* emit_book
Update(action, order, new, match, price, quantity, side, printable) ==
    [action |-> action, order |-> order, new |-> new, match |-> match, price |-> price,
     quantity |-> quantity, side |-> side, printable |-> printable]

-----------------------------------------------------------------------------
add(m) ==
    LET side   == side_of(m.side)
        order  == Order(m.price, m.quantity, side)
        result == InsertResult(orders, m.order, MaxOrders)
    IN  IF side = "Unknown" \/ m.quantity = 0 \/ m.price = 0 THEN Malformed
        ELSE IF result # "Inserted" THEN InsertFailure(result)
        ELSE [Unchanged EXCEPT
                !.orders = Put(orders, m.order, order),
                !.details = <<Detail(m.order, order)>>,
                !.update = Update("Add", m.order, NoId, NoId, m.price, m.quantity, side,
                                  FALSE)]

\* Mutant: an execution of a match that is known leaves the order alone.
ExecutedOnce(m, first) ==
    IF first = "Duplicate" THEN orders ELSE Reduced(orders, m.order, m.quantity)

Executed(m, first) == Reduced(orders, m.order, m.quantity)

\* Both sides of a match are executed under one id: the order shrinks each
\* time, the trade is published once and only if it is printable.
execute(m) ==
    LET order     == orders[m.order]
        price     == IF m.type = "C" THEN m.price ELSE order.price
        printable == m.type = "E" \/ m.printable = "Y"
        match     == Match(price, m.quantity, m.order, order.side, printable)
        first     == InsertResult(matches, m.match, MaxMatches)
    IN  IF ~Reducible(orders, m.order, m.quantity) \/ price = 0 THEN Malformed
        ELSE IF m.type = "C" /\ m.printable \notin {"Y", "N"} THEN Malformed
        ELSE IF first \in {"Full", "InvalidKey"} THEN InsertFailure(first)
        ELSE [Unchanged EXCEPT
                !.matches = IF first = "Inserted" THEN Put(matches, m.match, match) ELSE @,
                !.transactions = IF ~printable \/ first = "Duplicate" THEN <<>>
                   ELSE <<Transaction("Trade", m.match, order.side, price, m.quantity,
                                      m.order)>>,
                !.counted = IF ~printable THEN "non_printable_suppressed"
                            ELSE IF first = "Duplicate" THEN "duplicate_matches_suppressed"
                            ELSE "none",
                !.update = Update("Execution", m.order, NoId, m.match, price, m.quantity,
                                  order.side, printable),
                !.orders = Executed(m, first)]

\* The id of a cancel is the adapter's source sequence, which is left out.
Cancel(side, price, quantity, order) ==
    <<Transaction("Cancel", NoId, side, price, quantity, order)>>

cancel_partial(m) ==
    LET order == orders[m.order]
    IN  IF ~Reducible(orders, m.order, m.quantity) THEN Malformed
        ELSE [Unchanged EXCEPT
                !.transactions = Cancel(order.side, order.price, m.quantity, m.order),
                !.update = Update("Reduce", m.order, NoId, NoId, order.price, m.quantity,
                                  order.side, FALSE),
                !.orders = Reduced(orders, m.order, m.quantity)]

cancel_all(m) ==
    LET order == orders[m.order]
    IN  IF m.order \notin DOMAIN orders THEN Malformed
        ELSE [Unchanged EXCEPT
                !.transactions = Cancel(order.side, order.price, order.remaining, m.order),
                !.update = Update("Delete", m.order, NoId, NoId, order.price,
                                  order.remaining, order.side, FALSE),
                !.orders = Drop(orders, m.order)]

\* Mutant: the new order is inserted before the old one is erased.
ReplaceInsertsFirst(m) == InsertResult(orders, m.new, MaxOrders)

\* The old order is erased before the new one is inserted, so that there is
\* room for it even in a full table.
ReplaceInserts(m) == InsertResult(Drop(orders, m.order), m.new, MaxOrders)

replace(m) ==
    LET old == orders[m.order]
        new == Order(m.price, m.quantity, old.side)
    IN  IF \/ m.order \notin DOMAIN orders \/ m.new = NoId \/ m.quantity = 0 \/ m.price = 0
           \/ m.new \in DOMAIN orders
        THEN Malformed
        ELSE IF ReplaceInserts(m) # "Inserted" THEN InsertFailure(ReplaceInserts(m))
        ELSE [Unchanged EXCEPT
                !.orders = Put(Drop(orders, m.order), m.new, new),
                !.transactions = Cancel(old.side, old.price, old.remaining, m.order),
                !.details = <<Detail(m.new, new)>>,
                !.update = Update("Replace", m.order, m.new, NoId, m.price, m.quantity,
                                  old.side, FALSE)]

\* Mutant: a trade that is known is published again.
PrintedAlways(first) == first \in {"Inserted", "Duplicate"}

Prints(first) == first = "Inserted"

\* What non_cross_trade and cross_trade have in common: a trade of a hidden
\* order or of a cross, which changes no displayed order.
Printed(m, order, side) ==
    LET first == InsertResult(matches, m.match, MaxMatches)
        match == Match(m.price, m.quantity, order, side, TRUE)
    IN  IF first \in {"Full", "InvalidKey"} THEN InsertFailure(first)
        ELSE IF ~Prints(first)
        THEN [Unchanged EXCEPT !.counted = "duplicate_matches_suppressed"]
        ELSE [Unchanged EXCEPT
                !.matches = IF first = "Inserted" THEN Put(@, m.match, match) ELSE @,
                !.update = Update("Trade", order, NoId, m.match, m.price, m.quantity,
                                  side, TRUE),
                !.transactions = <<Transaction("Trade", m.match, side, m.price,
                                               m.quantity, order)>>]

non_cross_trade(m) ==
    IF m.quantity = 0 \/ m.price = 0 \/ side_of(m.side) = "Unknown" THEN Malformed
    ELSE Printed(m, m.order, side_of(m.side))

cross_trade(m) ==
    IF m.quantity = 0 \/ m.price = 0 THEN Malformed
    ELSE Printed(m, NoId, "Unknown")

\* Mutant: a busted match stays in the table.
MatchesKept(id) == matches

MatchesWithout(id) == Drop(matches, id)

broken_trade(m) ==
    LET match == matches[m.match]
    IN  IF m.match \notin DOMAIN matches
        THEN [Unchanged EXCEPT !.counted = "unknown_broken_trades"]
        ELSE [Unchanged EXCEPT
                !.update = Update("TradeBust", match.order, NoId, m.match, match.price,
                                  match.quantity, match.side, match.emitted),
                !.transactions = IF ~match.emitted THEN <<>>
                   ELSE <<Transaction("TradeBust", m.match, match.side, match.price,
                                      match.quantity, match.order)>>,
                !.counted = IF match.emitted THEN "none"
                            ELSE "broken_trades_without_output",
                !.matches = MatchesWithout(m.match)]

\* The switch, after the check of the size.
on_message(m) ==
    CASE m.type = "A" -> add(m)
      [] m.type \in {"E", "C"} -> execute(m)
      [] m.type = "X" -> cancel_partial(m)
      [] m.type = "D" -> cancel_all(m)
      [] m.type = "U" -> replace(m)
      [] m.type = "P" -> non_cross_trade(m)
      [] m.type = "Q" -> cross_trade(m)
      [] m.type = "B" -> broken_trade(m)
      [] m.type = "wrong_size" -> Malformed
      [] OTHER -> Unchanged
=============================================================================
