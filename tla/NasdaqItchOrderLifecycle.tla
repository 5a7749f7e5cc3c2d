---------------------- MODULE NasdaqItchOrderLifecycle -----------------------
(***************************************************************************)
(* OrderLifecycle (include/qtrader/NasdaqItchOrderLifecycle.hpp): the      *)
(* audit of a day's file, which follows the orders of every instrument and *)
(* counts what should not happen.  A handler gives the orders after the    *)
(* message and the anomaly it counts.  stock_locate, which only counts     *)
(* mismatches between instruments, and the volume totals are left out.     *)
(***************************************************************************)
EXTENDS NasdaqItch50

VARIABLE orders   \* orders_

After(left, anomaly) == [orders |-> left, anomaly |-> anomaly]
Unchanged == After(orders, "none")
Anomaly(counter) == After(orders, counter)

add(m) ==
    IF m.order = NoId \/ m.quantity = 0 \/ m.price = 0 \/ m.side \notin {"B", "S"}
    THEN Anomaly("invalid_adds")
    ELSE IF m.order \in DOMAIN orders THEN Anomaly("duplicate_order_ids")
    ELSE After(Put(orders, m.order, Order(m.price, m.quantity, m.side)), "none")

reduce(m) ==
    IF m.order \notin DOMAIN orders THEN Anomaly("missing_order_ids")
    ELSE IF m.quantity = 0 \/ m.quantity > orders[m.order].remaining
    THEN Anomaly("over_reductions")
    ELSE After(Reduced(orders, m.order, m.quantity), "none")

erase(m) ==
    IF m.order \notin DOMAIN orders THEN Anomaly("missing_order_ids")
    ELSE After(Drop(orders, m.order), "none")

\* Mutant: an order may be replaced by one that exists.
replace_over(m) ==
    LET new == Order(m.price, m.quantity, orders[m.order].side)
    IN  IF m.order \notin DOMAIN orders THEN Anomaly("missing_order_ids")
        ELSE IF m.new = NoId \/ m.quantity = 0 \/ m.price = 0 THEN Anomaly("invalid_adds")
        ELSE After(Put(Drop(orders, m.order), m.new, new), "none")

replace(m) ==
    LET new == Order(m.price, m.quantity, orders[m.order].side)
    IN  IF m.order \notin DOMAIN orders THEN Anomaly("missing_order_ids")
        ELSE IF m.new = NoId \/ m.quantity = 0 \/ m.price = 0 THEN Anomaly("invalid_adds")
        ELSE IF m.new \in DOMAIN orders THEN Anomaly("duplicate_order_ids")
        ELSE After(Put(Drop(orders, m.order), m.new, new), "none")

\* A message of a wrong size is skipped.
on_message(m) ==
    CASE m.type = "A" -> add(m)
      [] m.type \in {"E", "C", "X"} -> reduce(m)
      [] m.type = "D" -> erase(m)
      [] m.type = "U" -> replace(m)
      [] OTHER -> Unchanged
=============================================================================
