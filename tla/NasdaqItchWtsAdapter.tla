------------------------ MODULE NasdaqItchWtsAdapter -------------------------
(***************************************************************************)
(* PsxWtsAdapter (include/qtrader/NasdaqItchWtsAdapter.hpp): the ITCH      *)
(* messages of one instrument as WonderTrader order details and            *)
(* transactions.  It differs from NasdaqItchUftAdapter in what it refuses: *)
(* its tables have no limit, it takes a match id of 0, a price of 0 and a  *)
(* side it does not know on a trade, and any flag that is not 'Y' for      *)
(* non-printable; but an id beyond INT64_MAX is not published.             *)
(*                                                                         *)
(* A handler is an operator that gives the outcome of the whole call, as   *)
(* in NasdaqItchUftAdapter.  Sides are the characters of the messages.     *)
(***************************************************************************)
EXTENDS NasdaqItch50

CONSTANT MaxShares   \* UINT32_MAX

VARIABLES
    orders,    \* orders_
    matches    \* matches_

Unchanged ==
    [orders |-> orders, matches |-> matches, details |-> <<>>, transactions |-> <<>>,
     counted |-> "none"]
Counted(counter) == [Unchanged EXCEPT !.counted = counter]

\* emit_transaction
Emitted(type, id, side, price, volume, order) ==
    IF volume = 0 \/ order = MaxId THEN Counted("errors")
    ELSE [Unchanged EXCEPT !.transactions =
            <<Transaction(type, id, side_of(side), price, volume, order)>>]

\* The first print of a match: an index is a signed number.
FirstPrint(id, match) ==
    IF id = MaxId THEN Counted("errors")
    ELSE Emitted("Trade", id, match.side, match.price, match.quantity, match.order)

\* matches_.emplace leaves the match it finds.
Emplaced(id, match) == IF id \in DOMAIN matches THEN matches ELSE Put(matches, id, match)

-----------------------------------------------------------------------------
add(m) ==
    LET order == Order(m.price, m.quantity, m.side)
    IN  IF \/ m.order = NoId \/ m.quantity = 0 \/ m.price = 0 \/ m.side \notin {"B", "S"}
           \/ m.order \in DOMAIN orders
        THEN Counted("errors")
        ELSE [Unchanged EXCEPT !.orders = Put(orders, m.order, order),
                               !.details = <<Detail(m.order, order)>>]

\* Mutant: only the first side of a match is taken off its order.
ExecutedOnce(m) ==
    IF m.match \in DOMAIN matches THEN orders ELSE Reduced(orders, m.order, m.quantity)

Executed(m) == Reduced(orders, m.order, m.quantity)

\* The order shrinks and the match is kept whatever becomes of the print.
execute(m) ==
    LET order     == orders[m.order]
        price     == IF m.type = "C" THEN m.price ELSE order.price
        printable == m.type # "C" \/ m.printable = "Y"
        match     == Match(price, m.quantity, m.order, order.side, printable)
        print     == IF ~printable THEN Counted("non_printable_suppressed")
                     ELSE IF m.match \in DOMAIN matches
                     THEN Counted("duplicate_matches_suppressed")
                     ELSE FirstPrint(m.match, match)
    IN  IF ~Reducible(orders, m.order, m.quantity) THEN Counted("errors")
        ELSE [print EXCEPT !.matches = Emplaced(m.match, match),
                           !.orders = Executed(m)]

\* The index of a cancel is the adapter's event sequence, which is left out.
Cancelled(id, quantity) ==
    Emitted("Cancel", NoId, orders[id].side, orders[id].price, quantity, id)

cancel_partial(m) ==
    IF ~Reducible(orders, m.order, m.quantity) THEN Counted("errors")
    ELSE [Cancelled(m.order, m.quantity) EXCEPT
            !.orders = Reduced(orders, m.order, m.quantity)]

cancel_all(m) ==
    IF m.order \notin DOMAIN orders THEN Counted("errors")
    ELSE [Cancelled(m.order, orders[m.order].remaining) EXCEPT
            !.orders = Drop(orders, m.order)]

replace(m) ==
    LET new == Order(m.price, m.quantity, orders[m.order].side)
    IN  IF \/ m.order \notin DOMAIN orders \/ m.new = NoId \/ m.quantity = 0 \/ m.price = 0
           \/ m.new \in DOMAIN orders
        THEN Counted("errors")
        ELSE [Cancelled(m.order, orders[m.order].remaining) EXCEPT
                !.orders = Put(Drop(orders, m.order), m.new, new),
                !.details = <<Detail(m.new, new)>>]

\* What non_cross_trade and cross_trade have in common.
Printed(id, match) ==
    IF id \in DOMAIN matches THEN Counted("duplicate_matches_suppressed")
    ELSE [FirstPrint(id, match) EXCEPT !.matches = Emplaced(id, match)]

\* Nothing is checked before the match is kept.
non_cross_trade(m) == Printed(m.match, Match(m.price, m.quantity, m.order, m.side, TRUE))

cross_trade(m) ==
    IF m.quantity = 0 \/ m.quantity > MaxShares \/ m.match = MaxId THEN Counted("errors")
    ELSE Printed(m.match, Match(m.price, m.quantity, NoId, "unknown", TRUE))

broken_trade(m) ==
    LET match == matches[m.match]
    IN  IF m.match \notin DOMAIN matches THEN Counted("unknown_broken_trades")
        ELSE [(IF match.emitted
               THEN Emitted("TradeBust", m.match, match.side, match.price, match.quantity,
                            match.order)
               ELSE Counted("broken_trades_without_output"))
              EXCEPT !.matches = Drop(matches, m.match)]

on_message(m) ==
    CASE m.type = "A" -> add(m)
      [] m.type \in {"E", "C"} -> execute(m)
      [] m.type = "X" -> cancel_partial(m)
      [] m.type = "D" -> cancel_all(m)
      [] m.type = "U" -> replace(m)
      [] m.type = "P" -> non_cross_trade(m)
      [] m.type = "Q" -> cross_trade(m)
      [] m.type = "B" -> broken_trade(m)
      [] m.type = "wrong_size" -> Counted("errors")
      [] OTHER -> Unchanged
=============================================================================
