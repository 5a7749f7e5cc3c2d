------------------------- MODULE ItchOrderBookProofs --------------------------
(***************************************************************************)
(* Proofs about ItchOrderBook: whatever messages the feed carries and for  *)
(* every size of the tables, the adapter, the book and the match tables    *)
(* stay in step until the feed faults.                                     *)
(***************************************************************************)
EXTENDS ItchOrderBook, FiniteSetTheorems, WellFoundedInduction, TLAPS

-----------------------------------------------------------------------------
(***************************************************************************)
(* Tables.                                                                 *)
(***************************************************************************)
IsTable(f) == f = [id \in DOMAIN f |-> f[id]]

LEMMA DropTable ==
    ASSUME NEW f, NEW key
    PROVE  /\ IsTable(Drop(f, key))
           /\ DOMAIN Drop(f, key) = DOMAIN f \ {key}
           /\ \A k \in DOMAIN f : k # key => Drop(f, key)[k] = f[k]
BY DEF Drop, IsTable

(***************************************************************************)
(* Orders: something remains of each, at a price and on a side.            *)
(***************************************************************************)
OrderEntry(o) ==
    /\ o = Order(o.price, o.remaining, o.side)
    /\ o.remaining \in Nat \ {0} /\ o.price \in Nat \ {0} /\ o.side \in {"Buy", "Sell"}

OrderTable(f) ==
    /\ IsTable(f)
    /\ IsFiniteSet(DOMAIN f) /\ Cardinality(DOMAIN f) <= MaxOrders
    /\ \A id \in DOMAIN f : OrderEntry(f[id])

LEMMA NewEntry ==
    ASSUME NEW price \in Nat, price # 0, NEW quantity \in Nat, quantity # 0,
           NEW side \in {"Buy", "Sell"}
    PROVE  OrderEntry(Order(price, quantity, side))
BY DEF OrderEntry, Order

LEMMA PutOrder ==
    ASSUME NEW f, OrderTable(f), NEW key, key \notin DOMAIN f,
           Cardinality(DOMAIN f) < MaxOrders, NEW o, OrderEntry(o)
    PROVE  OrderTable(Put(f, key, o))
<1>1. /\ IsFiniteSet(DOMAIN f \cup {key})
      /\ Cardinality(DOMAIN f \cup {key}) = Cardinality(DOMAIN f) + 1
  BY FS_AddElement DEF OrderTable
<1>2. Cardinality(DOMAIN f) \in Nat /\ MaxOrders \in Nat
  BY FS_CardinalityType, AdapterAssumption DEF OrderTable
<1>3. Cardinality(DOMAIN f \cup {key}) <= MaxOrders
  BY <1>1, <1>2
<1> DEFINE g == Put(f, key, o)
<1>4. /\ IsTable(g) /\ DOMAIN g = DOMAIN f \cup {key} /\ g[key] = o
      /\ \A k \in DOMAIN f : k # key => g[k] = f[k]
  BY DEF Put, IsTable
<1> HIDE DEF g
<1>5. \A k \in DOMAIN g : OrderEntry(g[k])
  BY <1>4 DEF OrderTable
<1>6. OrderTable(g)
  BY <1>1, <1>3, <1>4, <1>5 DEF OrderTable
<1> QED
  BY <1>6 DEF g

LEMMA DropOrder ==
    ASSUME NEW f, OrderTable(f), NEW key \in DOMAIN f
    PROVE  OrderTable(Drop(f, key)) /\ Cardinality(DOMAIN Drop(f, key)) < MaxOrders
<1>1. /\ IsFiniteSet(DOMAIN f \ {key})
      /\ Cardinality(DOMAIN f \ {key}) = Cardinality(DOMAIN f) - 1
  BY FS_RemoveElement DEF OrderTable
<1>2. Cardinality(DOMAIN f) \in Nat /\ MaxOrders \in Nat /\ Cardinality(DOMAIN f) <= MaxOrders
  BY FS_CardinalityType, AdapterAssumption DEF OrderTable
<1>3. Cardinality(DOMAIN f \ {key}) < MaxOrders /\ Cardinality(DOMAIN f \ {key}) <= MaxOrders
  BY <1>1, <1>2
<1> DEFINE g == Drop(f, key)
<1>4. /\ IsTable(g) /\ DOMAIN g = DOMAIN f \ {key}
      /\ \A k \in DOMAIN f : k # key => g[k] = f[k]
  BY DropTable
<1> HIDE DEF g
<1>5. \A k \in DOMAIN g : OrderEntry(g[k])
  BY <1>4 DEF OrderTable
<1>6. OrderTable(g) /\ Cardinality(DOMAIN g) < MaxOrders
  BY <1>1, <1>3, <1>4, <1>5 DEF OrderTable
<1> QED
  BY <1>6 DEF g

LEMMA ReduceOrder ==
    ASSUME NEW f, OrderTable(f), NEW id, NEW quantity \in Nat, Reducible(f, id, quantity)
    PROVE  OrderTable(Reduced(f, id, quantity))
<1>1. id \in DOMAIN f /\ quantity # 0 /\ quantity <= f[id].remaining
  BY DEF Reducible
<1>2. CASE f[id].remaining = quantity
  BY <1>1, <1>2, DropOrder DEF Reduced
<1>3. CASE f[id].remaining # quantity
  <2> DEFINE g == [f EXCEPT ![id].remaining = @ - quantity]
             o == f[id]
             left == o.remaining - quantity
  <2>1. Reduced(f, id, quantity) = g
    BY <1>3 DEF Reduced
  <2>2. OrderEntry(o)
    BY <1>1 DEF OrderTable
  <2>3. left \in Nat \ {0}
    BY <1>1, <1>3, <2>2 DEF OrderEntry
  <2>4. IsTable(g) /\ DOMAIN g = DOMAIN f /\ \A k \in DOMAIN f : k # id => g[k] = f[k]
    BY DEF IsTable
  <2>5. g[id] = [o EXCEPT !.remaining = left]
    BY <1>1
  <2>6. g[id] = Order(o.price, left, o.side)
    BY <2>2, <2>5 DEF OrderEntry, Order
  <2>7. OrderEntry(g[id])
    BY <2>2, <2>3, <2>6 DEF OrderEntry, Order
  <2> HIDE DEF g
  <2> QED
    BY <2>1, <2>4, <2>7 DEF OrderTable
<1> QED
  BY <1>2, <1>3

(***************************************************************************)
(* Matches: the adapter's table, the pipeline's and the tape.              *)
(***************************************************************************)
MatchEntry(t) ==
    /\ t = Match(t.price, t.quantity, t.order, t.side, t.emitted)
    /\ t.emitted \in BOOLEAN
    /\ t.side \in {"Buy", "Sell"} \/ (t.side = "Unknown" /\ t.order = NoId)

Record(quantity, printable, busted) ==
    [quantity |-> quantity, printable |-> printable, busted |-> busted]
RecordEntry(r) == r = Record(r.quantity, r.printable, r.busted) /\ r.busted \in BOOLEAN

MatchTables ==
    /\ IsTable(matches) /\ IsTable(recorded)
    /\ IsFiniteSet(DOMAIN recorded) /\ Cardinality(DOMAIN recorded) <= MaxMatches
    /\ \A id \in DOMAIN matches : MatchEntry(matches[id])
    /\ \A id \in DOMAIN recorded : RecordEntry(recorded[id])
    /\ DOMAIN matches = {id \in DOMAIN recorded : ~recorded[id].busted}
    /\ \A id \in DOMAIN matches : /\ recorded[id].quantity = matches[id].quantity
                                  /\ recorded[id].printable = matches[id].emitted
    /\ tape = [id \in {i \in DOMAIN matches : matches[i].emitted} |-> matches[id]]

(***************************************************************************)
(* Until the feed faults, the three tables of orders are one, and those of *)
(* matches agree.                                                          *)
(***************************************************************************)
ItchInv ==
    ~faulted => /\ OrderTable(orders) /\ book = orders /\ exchange = orders
                /\ MatchTables

LEMMA ItchInitInv == ItchInit => ItchInv
<1> SUFFICES ASSUME ItchInit PROVE ItchInv
  OBVIOUS
<1>1. DOMAIN Empty = {} /\ IsTable(Empty)
  BY DEF Empty, IsTable
<1>2. IsFiniteSet({}) /\ Cardinality({}) = 0
  BY FS_EmptySet
<1>3. 0 <= MaxOrders /\ 0 <= MaxMatches
  BY AdapterAssumption
<1>4. OrderTable(orders) /\ book = orders /\ exchange = orders
  BY <1>1, <1>2, <1>3 DEF ItchInit, AdapterInit, OrderTable
<1>5. tape = [id \in {i \in DOMAIN matches : matches[i].emitted} |-> matches[id]]
  BY <1>1 DEF ItchInit, AdapterInit, Empty
<1>6. MatchTables
  BY <1>1, <1>2, <1>3, <1>5 DEF ItchInit, AdapterInit, MatchTables
<1> QED
  BY <1>4, <1>6 DEF ItchInv

\* The first message of a match enters it in both tables and, if the trade is
\* printable, on the tape.
LEMMA NewMatchInv ==
    ASSUME MatchTables, NEW id, id \notin DOMAIN recorded,
           Cardinality(DOMAIN recorded) < MaxMatches, NEW t, MatchEntry(t),
           matches' = Put(matches, id, t),
           recorded' = Put(recorded, id, Record(t.quantity, t.emitted, FALSE)),
           tape' = IF t.emitted THEN Put(tape, id, t) ELSE tape
    PROVE  MatchTables'
<1> DEFINE r == Record(t.quantity, t.emitted, FALSE)
<1>1. id \notin DOMAIN matches
  BY DEF MatchTables
<1>2. /\ IsTable(matches') /\ DOMAIN matches' = DOMAIN matches \cup {id} /\ matches'[id] = t
      /\ \A k \in DOMAIN matches : matches'[k] = matches[k]
  BY <1>1 DEF Put, IsTable
<1>3. /\ IsTable(recorded') /\ DOMAIN recorded' = DOMAIN recorded \cup {id}
      /\ recorded'[id] = r
      /\ \A k \in DOMAIN recorded : recorded'[k] = recorded[k]
  BY DEF Put, IsTable
<1>4. IsFiniteSet(DOMAIN recorded') /\ Cardinality(DOMAIN recorded') <= MaxMatches
  <2>1. /\ IsFiniteSet(DOMAIN recorded \cup {id})
        /\ Cardinality(DOMAIN recorded \cup {id}) = Cardinality(DOMAIN recorded) + 1
    BY FS_AddElement DEF MatchTables
  <2>2. Cardinality(DOMAIN recorded) \in Nat /\ MaxMatches \in Nat
    BY FS_CardinalityType, AdapterAssumption DEF MatchTables
  <2>3. Cardinality(DOMAIN recorded \cup {id}) <= MaxMatches
    BY <2>1, <2>2
  <2> QED
    BY <1>3, <2>1, <2>3
<1>5. RecordEntry(r) /\ r.busted = FALSE /\ r.quantity = t.quantity /\ r.printable = t.emitted
  BY DEF RecordEntry, Record
<1> HIDE DEF r
<1>6. /\ \A k \in DOMAIN matches' : MatchEntry(matches'[k])
      /\ \A k \in DOMAIN recorded' : RecordEntry(recorded'[k])
      /\ \A k \in DOMAIN matches' : /\ recorded'[k].quantity = matches'[k].quantity
                                    /\ recorded'[k].printable = matches'[k].emitted
  BY <1>2, <1>3, <1>5 DEF MatchTables
<1>7. DOMAIN matches' = {k \in DOMAIN recorded' : ~recorded'[k].busted}
  BY <1>2, <1>3, <1>5 DEF MatchTables
<1>8. tape' = [k \in {i \in DOMAIN matches' : matches'[i].emitted} |-> matches'[k]]
  <2> DEFINE old == {i \in DOMAIN matches : matches[i].emitted}
             new == {i \in DOMAIN matches' : matches'[i].emitted}
  <2>1. tape = [k \in old |-> matches[k]]
    BY DEF MatchTables
  <2>2. CASE t.emitted
    <3>1. new = old \cup {id}
      BY <1>1, <1>2, <2>2
    <3>2. tape' = [k \in old \cup {id} |-> IF k = id THEN t ELSE tape[k]]
      BY <2>1, <2>2 DEF Put
    <3>3. \A k \in old \cup {id} : (IF k = id THEN t ELSE tape[k]) = matches'[k]
      BY <1>1, <1>2, <2>1
    <3> HIDE DEF old, new
    <3>4. tape' = [k \in new |-> matches'[k]]
      BY <3>1, <3>2, <3>3
    <3> QED
      BY <3>4 DEF new
  <2>3. CASE ~t.emitted
    <3>1. new = old
      BY <1>1, <1>2, <2>3
    <3>2. \A k \in old : matches'[k] = matches[k]
      BY <1>2
    <3> HIDE DEF old, new
    <3>3. tape' = [k \in new |-> matches'[k]]
      BY <2>1, <2>3, <3>1, <3>2
    <3> QED
      BY <3>3 DEF new
  <2> QED
    BY <2>2, <2>3
<1> QED
  BY <1>2, <1>3, <1>4, <1>6, <1>7, <1>8 DEF MatchTables

\* A bust takes the match out of the adapter's table and off the tape; the
\* pipeline marks it.
LEMMA BustInv ==
    ASSUME MatchTables, NEW id \in DOMAIN matches,
           matches' = Drop(matches, id),
           recorded' = [recorded EXCEPT ![id].busted = TRUE],
           tape' = IF matches[id].emitted THEN Drop(tape, id) ELSE tape
    PROVE  MatchTables'
<1>1. id \in DOMAIN recorded /\ RecordEntry(recorded[id])
  BY DEF MatchTables
<1>2. /\ IsTable(matches') /\ DOMAIN matches' = DOMAIN matches \ {id}
      /\ \A k \in DOMAIN matches' : matches'[k] = matches[k]
  BY DropTable
<1>3. /\ IsTable(recorded') /\ DOMAIN recorded' = DOMAIN recorded
      /\ \A k \in DOMAIN recorded : k # id => recorded'[k] = recorded[k]
      /\ recorded'[id] = [recorded[id] EXCEPT !.busted = TRUE]
  BY <1>1 DEF IsTable
<1>4. recorded'[id] = Record(recorded[id].quantity, recorded[id].printable, TRUE)
  BY <1>1, <1>3 DEF RecordEntry, Record
<1>5. RecordEntry(recorded'[id]) /\ recorded'[id].busted
  <2> DEFINE q == recorded[id].quantity
             p == recorded[id].printable
             r == recorded'[id]
  <2>1. r = Record(q, p, TRUE)
    BY <1>4
  <2> HIDE DEF q, p, r
  <2>2. RecordEntry(r) /\ r.busted
    BY <2>1 DEF RecordEntry, Record
  <2> QED
    BY <2>2 DEF r
<1>6. /\ \A k \in DOMAIN matches' : MatchEntry(matches'[k])
      /\ \A k \in DOMAIN recorded' : RecordEntry(recorded'[k])
      /\ \A k \in DOMAIN matches' : /\ recorded'[k].quantity = matches'[k].quantity
                                    /\ recorded'[k].printable = matches'[k].emitted
  BY <1>2, <1>3, <1>5 DEF MatchTables
<1>7. DOMAIN matches' = {k \in DOMAIN recorded' : ~recorded'[k].busted}
  BY <1>2, <1>3, <1>5 DEF MatchTables
<1>8. tape' = [k \in {i \in DOMAIN matches' : matches'[i].emitted} |-> matches'[k]]
  <2> DEFINE old == {i \in DOMAIN matches : matches[i].emitted}
             new == {i \in DOMAIN matches' : matches'[i].emitted}
  <2>1. tape = [k \in old |-> matches[k]]
    BY DEF MatchTables
  <2>2. new = old \ {id} /\ \A k \in new : matches'[k] = matches[k]
    BY <1>2
  <2>3. tape' = [k \in old \ {id} |-> tape[k]]
    BY <2>1 DEF Drop
  <2>4. \A k \in old \ {id} : tape[k] = matches'[k]
    BY <2>1, <2>2
  <2> HIDE DEF old, new
  <2>5. tape' = [k \in new |-> matches'[k]]
    BY <2>2, <2>3, <2>4
  <2> QED
    BY <2>5 DEF new
<1>9. IsFiniteSet(DOMAIN recorded') /\ Cardinality(DOMAIN recorded') <= MaxMatches
  BY <1>3 DEF MatchTables
<1> QED
  BY <1>2, <1>3, <1>6, <1>7, <1>8, <1>9 DEF MatchTables

LEMMA MatchesKeptInv ==
    ASSUME MatchTables, UNCHANGED <<matches, recorded, tape>>
    PROVE  MatchTables'
BY DEF MatchTables, IsTable, MatchEntry, RecordEntry, Record, Match

-----------------------------------------------------------------------------
(***************************************************************************)
(* The outcome of a message that does not fault the feed.                  *)
(***************************************************************************)
LEMMA ApplyBook ==
    ASSUME NEW e, e.action \in {"Add", "Reduce", "Delete", "Replace"}
    PROVE  /\ apply(e).ok <=> BookAccepts(e)
           /\ apply(e).ok => apply(e).book = BookAfter(e) /\ apply(e).recorded = recorded
BY DEF apply, Refused

LEMMA ApplyRecord ==
    ASSUME NEW e, e.action \in {"Execution", "Trade"}
    PROVE  /\ apply(e).ok <=> BookAccepts(e) /\ Recordable(e)
           /\ apply(e).ok => apply(e).book = BookAfter(e) /\ apply(e).recorded = Recorded(e)
BY DEF apply, Refused

LEMMA ApplyBust ==
    ASSUME NEW e, e.action = "TradeBust"
    PROVE  /\ apply(e).ok <=> Bustable(e)
           /\ apply(e).ok =>
                /\ apply(e).book = book
                /\ apply(e).recorded = [recorded EXCEPT ![e.match].busted = TRUE]
BY DEF apply, Refused

LEMMA ApplyNone ==
    /\ apply(NoUpdate).ok /\ apply(NoUpdate).book = book
    /\ apply(NoUpdate).recorded = recorded
BY DEF apply, NoUpdate

LEMMA UpdateFields ==
    ASSUME NEW action, NEW order, NEW new, NEW match, NEW price, NEW quantity, NEW side,
           NEW printable
    PROVE  LET e == Update(action, order, new, match, price, quantity, side, printable)
           IN  /\ e.action = action /\ e.order = order /\ e.new = new /\ e.match = match
               /\ e.price = price /\ e.quantity = quantity /\ e.side = side
               /\ e.printable = printable
BY DEF Update

LEMMA Refusals ==
    /\ Malformed.counted \in Errors /\ Malformed.update = NoUpdate
    /\ \A result : InsertFailure(result).counted \in Errors
BY DEF Malformed, InsertFailure, Unchanged, Errors

LEMMA IngestOutcome ==
    ASSUME NEW m \in Messages, Ingest(m), ~faulted'
    PROVE  /\ on_message(m).counted \notin Errors /\ apply(on_message(m).update).ok
           /\ orders' = on_message(m).orders /\ matches' = on_message(m).matches
           /\ tape' = Listen(on_message(m).transactions)
           /\ book' = apply(on_message(m).update).book
           /\ recorded' = apply(on_message(m).update).recorded
           /\ exchange' = ExchangeAfter(m)
BY DEF Ingest

LEMMA ListenCancel ==
    ASSUME NEW side, NEW price, NEW quantity, NEW order
    PROVE  Listen(Cancel(side, price, quantity, order)) = tape /\ Listen(<<>>) = tape
BY DEF Listen, Cancel, Transaction

\* What a listener makes of a trade and of its bust.
LEMMA ListenTrade ==
    ASSUME NEW id, NEW t, MatchEntry(t), t.emitted,
           NEW type \in {"Trade", "TradeBust"}
    PROVE  Listen(<<Transaction(type, id, t.side, t.price, t.quantity, t.order)>>) =
             (IF type = "Trade" THEN Put(tape, id, t)
              ELSE IF id \in DOMAIN tape /\ tape[id] = t THEN Drop(tape, id) ELSE tape)
<1> DEFINE x == Transaction(type, id, t.side, t.price, t.quantity, t.order)
           order == IF x.side = "Buy" THEN x.bid ELSE x.ask
<1>1. /\ x.type = type /\ x.id = id /\ x.side = t.side /\ x.price = t.price
      /\ x.quantity = t.quantity
      /\ x.bid = (IF t.side = "Buy" THEN t.order ELSE NoId)
      /\ x.ask = (IF t.side = "Sell" THEN t.order ELSE NoId)
  BY DEF Transaction
<1>2. order = t.order
  BY <1>1 DEF MatchEntry
<1>3. Match(x.price, x.quantity, order, x.side, TRUE) = t
  BY <1>1, <1>2 DEF MatchEntry, Match
<1>4. <<x>> # <<>> /\ <<x>>[1] = x
  OBVIOUS
<1> HIDE DEF x
<1>5. Listen(<<x>>) = IF type = "Trade" THEN Put(tape, id, t)
              ELSE IF id \in DOMAIN tape /\ tape[id] = t THEN Drop(tape, id) ELSE tape
  BY <1>1, <1>3, <1>4 DEF Listen
<1> QED
  BY <1>5 DEF x

-----------------------------------------------------------------------------
LEMMA AddAccepted ==
    ASSUME NEW m, m.type = "A", on_message(m).counted \notin Errors
    PROVE  /\ side_of(m.side) # "Unknown" /\ m.quantity # 0 /\ m.price # 0
           /\ InsertResult(orders, m.order, MaxOrders) = "Inserted"
           /\ on_message(m).orders = Put(orders, m.order, Order(m.price, m.quantity, side_of(m.side)))
           /\ on_message(m).matches = matches /\ on_message(m).transactions = <<>>
           /\ on_message(m).update = Update("Add", m.order, NoId, NoId, m.price, m.quantity,
                                            side_of(m.side), FALSE)
<1>1. on_message(m) = add(m)
  BY DEF on_message
<1>2. /\ side_of(m.side) # "Unknown" /\ m.quantity # 0 /\ m.price # 0
      /\ InsertResult(orders, m.order, MaxOrders) = "Inserted"
  BY <1>1, Refusals DEF add
<1> QED
  BY <1>1, <1>2 DEF add, Unchanged

LEMMA IngestAdd ==
    ASSUME ItchInv, ~faulted, NEW m \in Messages, m.type = "A", Ingest(m), ~faulted'
    PROVE  ItchInv'
<1> DEFINE o == Order(m.price, m.quantity, side_of(m.side))
           e == on_message(m).update
<1>1. /\ OrderTable(orders) /\ book = orders /\ exchange = orders /\ MatchTables
  BY DEF ItchInv
<1>2. m.quantity \in Nat /\ m.price \in Nat
  BY ItchAssumption
<1>3. OrderEntry(o)
  BY <1>2, AddAccepted, IngestOutcome, NewEntry DEF side_of
<1>4. e.action = "Add" /\ e.order = m.order /\ e.price = m.price /\ e.quantity = m.quantity
      /\ e.side = side_of(m.side)
  <2>1. e = Update("Add", m.order, NoId, NoId, m.price, m.quantity, side_of(m.side), FALSE)
    BY AddAccepted, IngestOutcome
  <2> QED
    BY <2>1 DEF Update
<1>5. BookAccepts(e) /\ book' = BookAfter(e) /\ recorded' = recorded
  BY <1>4, IngestOutcome, ApplyBook
<1>6. m.order \notin DOMAIN orders /\ Cardinality(DOMAIN orders) < MaxOrders
  BY <1>1, <1>4, <1>5 DEF BookAccepts, Resting
<1>7. orders' = Put(orders, m.order, o) /\ book' = Put(book, m.order, o)
      /\ exchange' = Put(exchange, m.order, o)
  BY <1>4, <1>5, AddAccepted, IngestOutcome DEF BookAfter, ExchangeAfter
<1>8. UNCHANGED <<matches, recorded, tape>>
  BY <1>5, AddAccepted, IngestOutcome, ListenCancel
<1>9. OrderTable(Put(orders, m.order, o))
  BY <1>1, <1>3, <1>6, PutOrder
<1>10. OrderTable(orders)'
  BY <1>7, <1>9 DEF OrderTable, IsTable, OrderEntry, Order
<1> QED
  BY <1>1, <1>7, <1>8, <1>10, MatchesKeptInv DEF ItchInv

LEMMA ExecuteAccepted ==
    ASSUME NEW m, m.type \in {"E", "C"}, on_message(m).counted \notin Errors
    PROVE  LET order     == orders[m.order]
               price     == IF m.type = "C" THEN m.price ELSE order.price
               printable == m.type = "E" \/ m.printable = "Y"
               first     == InsertResult(matches, m.match, MaxMatches)
           IN  /\ Reducible(orders, m.order, m.quantity) /\ price # 0
               /\ m.type = "C" => m.printable \in {"Y", "N"}
               /\ first \notin {"Full", "InvalidKey"}
               /\ on_message(m).orders = Reduced(orders, m.order, m.quantity)
               /\ on_message(m).matches =
                    IF first = "Inserted"
                    THEN Put(matches, m.match, Match(price, m.quantity, m.order, order.side,
                                                     printable))
                    ELSE matches
               /\ on_message(m).transactions =
                    IF ~printable \/ first = "Duplicate" THEN <<>>
                    ELSE <<Transaction("Trade", m.match, order.side, price, m.quantity,
                                       m.order)>>
               /\ on_message(m).update = Update("Execution", m.order, NoId, m.match, price,
                                                m.quantity, order.side, printable)
<1> DEFINE order     == orders[m.order]
           price     == IF m.type = "C" THEN m.price ELSE order.price
           printable == m.type = "E" \/ m.printable = "Y"
           first     == InsertResult(matches, m.match, MaxMatches)
<1>1. on_message(m) = execute(m)
  BY DEF on_message
<1>2. /\ Reducible(orders, m.order, m.quantity) /\ price # 0
      /\ m.type = "C" => m.printable \in {"Y", "N"}
      /\ first \notin {"Full", "InvalidKey"}
  BY <1>1, Refusals DEF execute
<1> QED
  BY <1>1, <1>2 DEF execute, Executed, Unchanged

\* A match is in the adapter's table unless the pipeline has not recorded it
\* or has recorded its bust.
LEMMA KnownMatch ==
    ASSUME MatchTables, NEW id
    PROVE  /\ id \in DOMAIN matches <=> id \in DOMAIN recorded /\ ~recorded[id].busted
           /\ IsFiniteSet(DOMAIN matches)
           /\ Cardinality(DOMAIN matches) <= Cardinality(DOMAIN recorded)
           /\ Cardinality(DOMAIN matches) \in Nat /\ Cardinality(DOMAIN recorded) \in Nat
<1>1. DOMAIN matches = {k \in DOMAIN recorded : ~recorded[k].busted}
      /\ IsFiniteSet(DOMAIN recorded)
  BY DEF MatchTables
<1>2. DOMAIN matches \subseteq DOMAIN recorded
  BY <1>1
<1> QED
  BY <1>1, <1>2, FS_Subset, FS_CardinalityType

\* What the tables of matches become when a trade is published or executed:
\* e is the update, first what the adapter's insert said.
LEMMA TradedInv ==
    ASSUME MatchTables, NEW id, NEW t, MatchEntry(t), NEW e,
           e.match = id, e.quantity = t.quantity, e.printable = t.emitted,
           InsertResult(matches, id, MaxMatches) \notin {"Full", "InvalidKey"},
           Recordable(e), recorded' = Recorded(e),
           matches' = IF InsertResult(matches, id, MaxMatches) = "Inserted"
                      THEN Put(matches, id, t) ELSE matches,
           tape' = IF ~t.emitted \/ InsertResult(matches, id, MaxMatches) = "Duplicate"
                   THEN tape ELSE Put(tape, id, t)
    PROVE  MatchTables'
<1>1. id \in DOMAIN matches <=> id \in DOMAIN recorded /\ ~recorded[id].busted
  BY KnownMatch
<1>2. CASE id \in DOMAIN matches
  <2>1. InsertResult(matches, id, MaxMatches) = "Duplicate"
    BY <1>2 DEF InsertResult
  <2> QED
    BY <1>1, <1>2, <2>1, MatchesKeptInv DEF Recorded
<1>3. CASE id \notin DOMAIN matches
  <2>1. InsertResult(matches, id, MaxMatches) = "Inserted"
    BY <1>3 DEF InsertResult
  <2>2. id \notin DOMAIN recorded /\ InsertResult(recorded, id, MaxMatches) = "Inserted"
    BY <1>1, <1>3 DEF Recordable
  <2>3. Cardinality(DOMAIN recorded) < MaxMatches
    <3>1. Cardinality(DOMAIN recorded) # MaxMatches
      BY <2>2 DEF InsertResult
    <3>2. Cardinality(DOMAIN recorded) <= MaxMatches /\ MaxMatches \in Nat
      BY AdapterAssumption DEF MatchTables
    <3> QED
      BY <3>1, <3>2, KnownMatch
  <2>4. recorded' = Put(recorded, id, Record(t.quantity, t.emitted, FALSE))
    BY <2>2 DEF Recorded, Record
  <2>5. matches' = Put(matches, id, t) /\ tape' = IF t.emitted THEN Put(tape, id, t) ELSE tape
    BY <2>1
  <2> QED
    BY <2>2, <2>3, <2>4, <2>5, NewMatchInv
<1> QED
  BY <1>2, <1>3

LEMMA IngestExecute ==
    ASSUME ItchInv, ~faulted, NEW m \in Messages, m.type \in {"E", "C"}, Ingest(m), ~faulted'
    PROVE  ItchInv'
<1> DEFINE order     == orders[m.order]
           price     == IF m.type = "C" THEN m.price ELSE order.price
           printable == m.type = "E" \/ m.printable = "Y"
           first     == InsertResult(matches, m.match, MaxMatches)
           t         == Match(price, m.quantity, m.order, order.side, printable)
           e         == on_message(m).update
           left      == Reduced(orders, m.order, m.quantity)
<1>1. /\ OrderTable(orders) /\ book = orders /\ exchange = orders /\ MatchTables
  BY DEF ItchInv
<1>2. on_message(m).counted \notin Errors /\ apply(e).ok
  BY IngestOutcome
<1>3. /\ Reducible(orders, m.order, m.quantity)
      /\ first \notin {"Full", "InvalidKey"}
      /\ on_message(m).orders = left
      /\ on_message(m).matches = IF first = "Inserted" THEN Put(matches, m.match, t) ELSE matches
      /\ on_message(m).transactions =
           IF ~printable \/ first = "Duplicate" THEN <<>>
           ELSE <<Transaction("Trade", m.match, order.side, price, m.quantity, m.order)>>
      /\ e = Update("Execution", m.order, NoId, m.match, price, m.quantity, order.side,
                    printable)
  BY <1>2, ExecuteAccepted
<1>4. m.quantity \in Nat
  BY ItchAssumption
<1>5. OrderEntry(order)
  BY <1>1, <1>3 DEF Reducible, OrderTable
<1>6. OrderTable(left)
  BY <1>1, <1>3, <1>4, ReduceOrder
<1>7. /\ e.action = "Execution" /\ e.order = m.order /\ e.match = m.match
      /\ e.quantity = m.quantity /\ e.printable = printable
  BY <1>3 DEF Update
<1>8. /\ t.quantity = m.quantity /\ t.emitted = printable /\ t.price = price
      /\ t.order = m.order /\ t.side = order.side
  BY DEF Match
<1>9. MatchEntry(t)
  <2>1. printable \in BOOLEAN
    OBVIOUS
  <2> HIDE DEF order, price, printable
  <2> QED
    BY <1>5, <1>8, <2>1 DEF MatchEntry, OrderEntry, Match
<1>10. Recordable(e) /\ apply(e).book = BookAfter(e) /\ apply(e).recorded = Recorded(e)
  BY <1>2, <1>7, ApplyRecord
<1>11. orders' = left /\ book' = left /\ exchange' = left
  <2>1. BookAfter(e) = left
    BY <1>1, <1>7 DEF BookAfter
  <2>2. ExchangeAfter(m) = left
    BY <1>1 DEF ExchangeAfter
  <2> QED
    BY <1>3, <1>10, <2>1, <2>2, IngestOutcome
<1>12. tape' = IF ~t.emitted \/ first = "Duplicate" THEN tape ELSE Put(tape, m.match, t)
  <2>1. tape' = Listen(on_message(m).transactions)
    BY IngestOutcome
  <2>2. CASE ~printable \/ first = "Duplicate"
    BY <1>3, <1>8, <2>1, <2>2, ListenCancel
  <2>3. CASE ~(~printable \/ first = "Duplicate")
    <3>1. on_message(m).transactions =
            <<Transaction("Trade", m.match, t.side, t.price, t.quantity, t.order)>>
      BY <1>3, <1>8, <2>3
    <3> HIDE DEF t
    <3>2. t.emitted
      BY <1>8, <2>3
    <3>3. Listen(<<Transaction("Trade", m.match, t.side, t.price, t.quantity, t.order)>>)
            = Put(tape, m.match, t)
      BY <1>9, <3>2, ListenTrade
    <3> QED
      BY <2>1, <2>3, <3>1, <3>2, <3>3
  <2> QED
    BY <2>2, <2>3
<1>13. MatchTables'
  <2>1. matches' = IF first = "Inserted" THEN Put(matches, m.match, t) ELSE matches
    BY <1>3, IngestOutcome
  <2>2. recorded' = Recorded(e)
    BY <1>10, IngestOutcome
  <2> HIDE DEF t, e
  <2> QED
    BY <1>1, <1>3, <1>7, <1>8, <1>9, <1>10, <1>12, <2>1, <2>2, TradedInv
<1>14. OrderTable(orders)'
  BY <1>6, <1>11 DEF OrderTable, IsTable, OrderEntry, Order
<1> QED
  BY <1>11, <1>13, <1>14 DEF ItchInv

LEMMA IngestCancel ==
    ASSUME ItchInv, ~faulted, NEW m \in Messages, m.type = "X", Ingest(m), ~faulted'
    PROVE  ItchInv'
<1> DEFINE order == orders[m.order]
           left  == Reduced(orders, m.order, m.quantity)
           e     == on_message(m).update
<1>1. /\ OrderTable(orders) /\ book = orders /\ exchange = orders /\ MatchTables
  BY DEF ItchInv
<1>2. on_message(m) = cancel_partial(m) /\ on_message(m).counted \notin Errors /\ apply(e).ok
  BY IngestOutcome DEF on_message
<1>3. Reducible(orders, m.order, m.quantity)
  BY <1>2, Refusals DEF cancel_partial
<1>4. /\ on_message(m).orders = left /\ on_message(m).matches = matches
      /\ on_message(m).transactions = Cancel(order.side, order.price, m.quantity, m.order)
      /\ e = Update("Reduce", m.order, NoId, NoId, order.price, m.quantity, order.side, FALSE)
  BY <1>2, <1>3 DEF cancel_partial, Unchanged
<1>5. OrderTable(left)
  BY <1>1, <1>3, ItchAssumption, ReduceOrder
<1>6. e.action = "Reduce" /\ e.order = m.order /\ e.quantity = m.quantity
  BY <1>4 DEF Update
<1>7. apply(e).book = left /\ apply(e).recorded = recorded
  BY <1>1, <1>2, <1>6, ApplyBook DEF BookAfter
<1>8. orders' = left /\ book' = left /\ exchange' = left
  BY <1>1, <1>4, <1>7, IngestOutcome DEF ExchangeAfter
<1>9. UNCHANGED <<matches, recorded, tape>>
  <2>1. /\ matches' = on_message(m).matches /\ recorded' = apply(e).recorded
        /\ tape' = Listen(on_message(m).transactions)
    BY IngestOutcome
  <2>2. Listen(Cancel(order.side, order.price, m.quantity, m.order)) = tape
    BY ListenCancel
  <2> QED
    BY <1>4, <1>7, <2>1, <2>2
<1>10. OrderTable(orders)'
  BY <1>5, <1>8 DEF OrderTable, IsTable, OrderEntry, Order
<1> QED
  BY <1>1, <1>8, <1>9, <1>10, MatchesKeptInv DEF ItchInv

LEMMA IngestDelete ==
    ASSUME ItchInv, ~faulted, NEW m \in Messages, m.type = "D", Ingest(m), ~faulted'
    PROVE  ItchInv'
<1> DEFINE order == orders[m.order]
           left  == Drop(orders, m.order)
           e     == on_message(m).update
<1>1. /\ OrderTable(orders) /\ book = orders /\ exchange = orders /\ MatchTables
  BY DEF ItchInv
<1>2. on_message(m) = cancel_all(m) /\ on_message(m).counted \notin Errors /\ apply(e).ok
  BY IngestOutcome DEF on_message
<1>3. m.order \in DOMAIN orders
  BY <1>2, Refusals DEF cancel_all
<1>4. /\ on_message(m).orders = left /\ on_message(m).matches = matches
      /\ on_message(m).transactions = Cancel(order.side, order.price, order.remaining, m.order)
      /\ e = Update("Delete", m.order, NoId, NoId, order.price, order.remaining, order.side,
                    FALSE)
  BY <1>2, <1>3 DEF cancel_all, Unchanged
<1>5. OrderTable(left)
  BY <1>1, <1>3, DropOrder
<1>6. e.action = "Delete" /\ e.order = m.order
  BY <1>4 DEF Update
<1>7. apply(e).book = left /\ apply(e).recorded = recorded
  BY <1>1, <1>2, <1>6, ApplyBook DEF BookAfter
<1>8. orders' = left /\ book' = left /\ exchange' = left
  BY <1>1, <1>4, <1>7, IngestOutcome DEF ExchangeAfter
<1>9. UNCHANGED <<matches, recorded, tape>>
  <2>1. /\ matches' = on_message(m).matches /\ recorded' = apply(e).recorded
        /\ tape' = Listen(on_message(m).transactions)
    BY IngestOutcome
  <2>2. Listen(Cancel(order.side, order.price, order.remaining, m.order)) = tape
    BY ListenCancel
  <2> QED
    BY <1>4, <1>7, <2>1, <2>2
<1>10. OrderTable(orders)'
  BY <1>5, <1>8 DEF OrderTable, IsTable, OrderEntry, Order
<1> QED
  BY <1>1, <1>8, <1>9, <1>10, MatchesKeptInv DEF ItchInv

LEMMA IngestReplace ==
    ASSUME ItchInv, ~faulted, NEW m \in Messages, m.type = "U", Ingest(m), ~faulted'
    PROVE  ItchInv'
<1> DEFINE old  == orders[m.order]
           new  == Order(m.price, m.quantity, old.side)
           rest == Drop(orders, m.order)
           both == Put(rest, m.new, new)
           e    == on_message(m).update
<1>1. /\ OrderTable(orders) /\ book = orders /\ exchange = orders /\ MatchTables
  BY DEF ItchInv
<1>2. on_message(m) = replace(m) /\ on_message(m).counted \notin Errors /\ apply(e).ok
  BY IngestOutcome DEF on_message
<1>3. /\ m.order \in DOMAIN orders /\ m.quantity # 0 /\ m.price # 0
      /\ m.new \notin DOMAIN orders /\ m.new # NoId /\ ReplaceInserts(m) = "Inserted"
  BY <1>2, Refusals DEF replace
<1>4. /\ on_message(m).orders = both /\ on_message(m).matches = matches
      /\ on_message(m).transactions = Cancel(old.side, old.price, old.remaining, m.order)
      /\ e = Update("Replace", m.order, m.new, NoId, m.price, m.quantity, old.side, FALSE)
  BY <1>2, <1>3 DEF replace, Unchanged
<1>5. OrderTable(both)
  <2>1. OrderTable(rest) /\ Cardinality(DOMAIN rest) < MaxOrders
    BY <1>1, <1>3, DropOrder
  <2>2. m.new \notin DOMAIN rest
    BY <1>3 DEF Drop
  <2>3. m.quantity \in Nat /\ m.price \in Nat /\ old.side \in {"Buy", "Sell"}
    BY <1>1, <1>3, ItchAssumption DEF OrderTable, OrderEntry
  <2>4. OrderEntry(new)
    BY <1>3, <2>3, NewEntry
  <2> QED
    BY <2>1, <2>2, <2>4, PutOrder
<1>6. /\ e.action = "Replace" /\ e.order = m.order /\ e.new = m.new /\ e.price = m.price
      /\ e.quantity = m.quantity
  BY <1>4 DEF Update
<1>7. apply(e).book = both /\ apply(e).recorded = recorded
  BY <1>1, <1>2, <1>6, ApplyBook DEF BookAfter
<1>8. orders' = both /\ book' = both /\ exchange' = both
  BY <1>1, <1>4, <1>7, IngestOutcome DEF ExchangeAfter
<1>9. UNCHANGED <<matches, recorded, tape>>
  <2>1. /\ matches' = on_message(m).matches /\ recorded' = apply(e).recorded
        /\ tape' = Listen(on_message(m).transactions)
    BY IngestOutcome
  <2>2. Listen(Cancel(old.side, old.price, old.remaining, m.order)) = tape
    BY ListenCancel
  <2> QED
    BY <1>4, <1>7, <2>1, <2>2
<1>10. OrderTable(orders)'
  BY <1>5, <1>8 DEF OrderTable, IsTable, OrderEntry, Order
<1> QED
  BY <1>1, <1>8, <1>9, <1>10, MatchesKeptInv DEF ItchInv

\* Orders that stay as they are.
LEMMA OrdersKeptInv ==
    ASSUME ItchInv, ~faulted, UNCHANGED <<orders, book, exchange>>, MatchTables'
    PROVE  ItchInv'
BY DEF ItchInv, OrderTable, IsTable, OrderEntry, Order

LEMMA IngestPrinted ==
    ASSUME ItchInv, ~faulted, NEW m \in Messages, m.type \in {"P", "Q"}, Ingest(m), ~faulted',
           NEW order, NEW side, side \in {"Buy", "Sell"} \/ (side = "Unknown" /\ order = NoId),
           on_message(m) = Printed(m, order, side)
    PROVE  ItchInv'
<1> DEFINE first == InsertResult(matches, m.match, MaxMatches)
           t     == Match(m.price, m.quantity, order, side, TRUE)
           e     == on_message(m).update
<1>1. book = orders /\ exchange = orders /\ MatchTables
  BY DEF ItchInv
<1>2. on_message(m).counted \notin Errors /\ apply(e).ok
  BY IngestOutcome
<1>3. first \notin {"Full", "InvalidKey"}
  BY <1>2, Refusals DEF Printed
<1>4. CASE first = "Inserted"
  <2>1. /\ on_message(m).orders = orders /\ on_message(m).matches = Put(matches, m.match, t)
        /\ on_message(m).transactions =
             <<Transaction("Trade", m.match, side, m.price, m.quantity, order)>>
        /\ e = Update("Trade", order, NoId, m.match, m.price, m.quantity, side, TRUE)
    BY <1>4 DEF Printed, Prints, Unchanged
  <2>2. /\ e.action = "Trade" /\ e.match = m.match /\ e.quantity = m.quantity
        /\ e.printable = TRUE
    BY <2>1 DEF Update
  <2>3. /\ t.quantity = m.quantity /\ t.emitted = TRUE /\ t.price = m.price
        /\ t.order = order /\ t.side = side
    BY DEF Match
  <2>4. MatchEntry(t)
    BY <2>3 DEF MatchEntry
  <2>5. Recordable(e) /\ apply(e).book = book /\ apply(e).recorded = Recorded(e)
    BY <1>2, <2>2, ApplyRecord DEF BookAfter
  <2>6. orders' = orders /\ book' = book /\ exchange' = exchange
    BY <2>1, <2>5, IngestOutcome DEF ExchangeAfter
  <2>7. matches' = Put(matches, m.match, t) /\ recorded' = Recorded(e)
    BY <2>1, <2>5, IngestOutcome
  <2>8. tape' = Put(tape, m.match, t)
    <3>1. on_message(m).transactions =
            <<Transaction("Trade", m.match, t.side, t.price, t.quantity, t.order)>>
      BY <2>1, <2>3
    <3> HIDE DEF t
    <3>2. t.emitted
      BY <2>3
    <3>3. Listen(<<Transaction("Trade", m.match, t.side, t.price, t.quantity, t.order)>>)
            = Put(tape, m.match, t)
      BY <2>4, <3>2, ListenTrade
    <3> QED
      BY <3>1, <3>3, IngestOutcome
  <2>9. MatchTables'
    <3> HIDE DEF t, e
    <3> QED
      BY <1>1, <1>3, <1>4, <2>2, <2>3, <2>4, <2>5, <2>7, <2>8, TradedInv
  <2> QED
    BY <2>6, <2>9, OrdersKeptInv
<1>5. CASE first # "Inserted"
  <2>1. on_message(m) = [Unchanged EXCEPT !.counted = "duplicate_matches_suppressed"]
    BY <1>3, <1>5 DEF Printed, Prints
  <2>2. /\ on_message(m).orders = orders /\ on_message(m).matches = matches
        /\ on_message(m).transactions = <<>> /\ e = NoUpdate
    BY <2>1 DEF Unchanged
  <2>3. orders' = orders /\ book' = book /\ exchange' = exchange
    BY <2>2, ApplyNone, IngestOutcome DEF ExchangeAfter
  <2>4. UNCHANGED <<matches, recorded, tape>>
    BY <2>2, ApplyNone, IngestOutcome, ListenCancel
  <2> QED
    BY <1>1, <2>3, <2>4, MatchesKeptInv, OrdersKeptInv
<1> QED
  BY <1>4, <1>5

LEMMA IngestTrade ==
    ASSUME ItchInv, ~faulted, NEW m \in Messages, m.type \in {"P", "Q"}, Ingest(m), ~faulted'
    PROVE  ItchInv'
<1>1. on_message(m).counted \notin Errors
  BY IngestOutcome
<1>2. CASE m.type = "P"
  <2>1. on_message(m) = Printed(m, m.order, side_of(m.side)) /\ side_of(m.side) # "Unknown"
    BY <1>1, <1>2, Refusals DEF on_message, non_cross_trade
  <2>2. side_of(m.side) \in {"Buy", "Sell"}
    BY <2>1 DEF side_of
  <2> QED
    BY <2>1, <2>2, IngestPrinted
<1>3. CASE m.type = "Q"
  <2>1. on_message(m) = Printed(m, NoId, "Unknown")
    BY <1>1, <1>3, Refusals DEF on_message, cross_trade
  <2> QED
    BY <2>1, IngestPrinted
<1> QED
  BY <1>2, <1>3

LEMMA IngestBust ==
    ASSUME ItchInv, ~faulted, NEW m \in Messages, m.type = "B", Ingest(m), ~faulted'
    PROVE  ItchInv'
<1> DEFINE t == matches[m.match]
           e == on_message(m).update
<1>1. book = orders /\ exchange = orders /\ MatchTables
  BY DEF ItchInv
<1>2. on_message(m) = broken_trade(m) /\ on_message(m).counted \notin Errors /\ apply(e).ok
  BY IngestOutcome DEF on_message
<1>3. m.match \in DOMAIN matches
  BY <1>2 DEF broken_trade, Errors, Unchanged
<1>4. /\ on_message(m).orders = orders /\ on_message(m).matches = Drop(matches, m.match)
      /\ on_message(m).transactions = IF ~t.emitted THEN <<>>
           ELSE <<Transaction("TradeBust", m.match, t.side, t.price, t.quantity, t.order)>>
      /\ e = Update("TradeBust", t.order, NoId, m.match, t.price, t.quantity, t.side, t.emitted)
  BY <1>2, <1>3 DEF broken_trade, MatchesWithout, Unchanged
<1>5. e.action = "TradeBust" /\ e.match = m.match
  BY <1>4 DEF Update
<1>6. /\ apply(e).book = book
      /\ apply(e).recorded = [recorded EXCEPT ![m.match].busted = TRUE]
  BY <1>2, <1>5, ApplyBust
<1>7. orders' = orders /\ book' = book /\ exchange' = exchange
  BY <1>4, <1>6, IngestOutcome DEF ExchangeAfter
<1>8. tape' = IF t.emitted THEN Drop(tape, m.match) ELSE tape
  <2>1. tape' = Listen(on_message(m).transactions)
    BY IngestOutcome
  <2>2. CASE ~t.emitted
    BY <1>4, <2>1, <2>2, ListenCancel
  <2>3. CASE t.emitted
    <3>1. MatchEntry(t)
      BY <1>1, <1>3 DEF MatchTables
    <3>2. tape = [id \in {i \in DOMAIN matches : matches[i].emitted} |-> matches[id]]
      BY <1>1 DEF MatchTables
    <3>3. m.match \in DOMAIN tape /\ tape[m.match] = t
      BY <1>3, <2>3, <3>2
    <3>4. on_message(m).transactions =
            <<Transaction("TradeBust", m.match, t.side, t.price, t.quantity, t.order)>>
      BY <1>4, <2>3
    <3> HIDE DEF t
    <3>5. Listen(<<Transaction("TradeBust", m.match, t.side, t.price, t.quantity, t.order)>>)
            = Drop(tape, m.match)
      BY <2>3, <3>1, <3>3, ListenTrade
    <3> QED
      BY <2>1, <2>3, <3>4, <3>5
  <2> QED
    BY <2>2, <2>3
<1>9. /\ matches' = Drop(matches, m.match)
      /\ recorded' = [recorded EXCEPT ![m.match].busted = TRUE]
  BY <1>4, <1>6, IngestOutcome
<1>10. MatchTables'
  BY <1>1, <1>3, <1>8, <1>9, BustInv
<1> QED
  BY <1>7, <1>10, OrdersKeptInv

LEMMA IngestOther ==
    ASSUME ItchInv, ~faulted, NEW m \in Messages, m.type \in {"other", "wrong_size"}, Ingest(m),
           ~faulted'
    PROVE  ItchInv'
<1>1. on_message(m) = Unchanged
  BY IngestOutcome, Refusals DEF on_message
<1>2. /\ on_message(m).orders = orders /\ on_message(m).matches = matches
      /\ on_message(m).transactions = <<>> /\ on_message(m).update = NoUpdate
  BY <1>1 DEF Unchanged
<1>3. orders' = orders /\ book' = book /\ exchange' = exchange
  BY <1>2, ApplyNone, IngestOutcome DEF ExchangeAfter
<1>4. UNCHANGED <<matches, recorded, tape>>
  BY <1>2, ApplyNone, IngestOutcome, ListenCancel
<1>5. MatchTables
  BY DEF ItchInv
<1> QED
  BY <1>3, <1>4, <1>5, MatchesKeptInv, OrdersKeptInv

-----------------------------------------------------------------------------
LEMMA ItchNextInv == ItchInv /\ [ItchNext]_itch => ItchInv'
<1> SUFFICES ASSUME ItchInv, [ItchNext]_itch, ~faulted' PROVE ItchInv'
  BY DEF ItchInv
<1>1. CASE UNCHANGED itch
  <2>1. UNCHANGED <<orders, matches, book, recorded, faulted, tape, exchange>>
    BY <1>1 DEF itch
  <2>2. ~faulted /\ MatchTables
    BY <2>1 DEF ItchInv
  <2> QED
    BY <2>1, <2>2, MatchesKeptInv, OrdersKeptInv
<1>2. CASE ItchNext
  <2>1. PICK m \in Messages :
          /\ Ingest(m)
          /\ m.type \in {"A", "E", "C", "X", "D", "U", "P", "Q", "B", "other", "wrong_size"}
    BY <1>2 DEF ItchNext, OfType
  <2>2. ~faulted
    BY <2>1 DEF Ingest
  <2> QED
    BY <2>1, <2>2, IngestAdd, IngestExecute, IngestCancel, IngestDelete, IngestReplace,
       IngestTrade, IngestBust, IngestOther
<1> QED
  BY <1>1, <1>2

\* Until the feed faults, the adapter's table, the book and the exchange hold
\* the same orders and the match tables agree, with room kept in each.
THEOREM ItchInvariance == ItchSpec => []ItchInv
BY ItchInitInv, ItchNextInv, PTL DEF ItchSpec

\* As long as ingest() has not faulted, book and adapter table are the
\* exchange's book: comparing how many orders each has is enough.
THEOREM BookFollowsExchange == ItchSpec => []BookIsExchange
<1>1. ItchInv => BookIsExchange
  BY DEF ItchInv, BookIsExchange
<1> QED
  BY <1>1, ItchInvariance, PTL

\* The matches the adapter can still bust are those the pipeline has recorded
\* and not seen busted, with the same quantity and printability.
THEOREM MatchTablesAgree == ItchSpec => []MatchesAgree
<1>1. ItchInv => MatchesAgree
  BY DEF ItchInv, MatchTables, MatchesAgree
<1> QED
  BY <1>1, ItchInvariance, PTL

\* Every bust the adapter publishes repeats the trade it takes back, so that a
\* listener's tape is the printed matches.
THEOREM TapeFollowsMatches == ItchSpec => []TapeIsMatches
<1>1. ItchInv => TapeIsMatches
  BY DEF ItchInv, MatchTables, TapeIsMatches
<1> QED
  BY <1>1, ItchInvariance, PTL

-----------------------------------------------------------------------------
(***************************************************************************)
(* The verdict on a message: quantities are needed that can be summed.     *)
(***************************************************************************)
VolumeInv == net_volume \in Int /\ \A id \in DOMAIN recorded : recorded[id].quantity \in Nat

\* The update of a message: none, one of the book, the bust of a match, or a
\* trade of as many as the message says.
LEMMA UpdateKinds ==
    ASSUME NEW m \in Messages
    PROVE  LET e == on_message(m).update
           IN  \/ e = NoUpdate
               \/ e.action \in {"Add", "Reduce", "Delete", "Replace"}
               \/ e.action = "TradeBust"
               \/ e.action \in {"Execution", "Trade"} /\ e.quantity \in Nat
<1> DEFINE e == on_message(m).update
<1>1. /\ Unchanged.update = NoUpdate /\ Malformed.update = NoUpdate
      /\ \A result : InsertFailure(result).update = NoUpdate
  BY DEF Unchanged, Malformed, InsertFailure
<1>2. CASE m.type = "A"
  <2>1. e = add(m).update
    BY <1>2 DEF on_message
  <2>2. e = NoUpdate \/ e.action = "Add"
    BY <1>1, <2>1 DEF add, Update, Unchanged
  <2> QED
    BY <2>2
<1>3. CASE m.type \in {"E", "C"}
  <2>1. e = execute(m).update /\ m.quantity \in Nat
    BY <1>3, ItchAssumption DEF on_message
  <2>2. e = NoUpdate \/ (e.action = "Execution" /\ e.quantity = m.quantity)
    BY <1>1, <2>1 DEF execute, Update, Unchanged
  <2> QED
    BY <2>1, <2>2
<1>4. CASE m.type = "X"
  <2>1. e = cancel_partial(m).update
    BY <1>4 DEF on_message
  <2>2. e = NoUpdate \/ e.action = "Reduce"
    BY <1>1, <2>1 DEF cancel_partial, Update, Unchanged
  <2> QED
    BY <2>2
<1>5. CASE m.type = "D"
  <2>1. e = cancel_all(m).update
    BY <1>5 DEF on_message
  <2>2. e = NoUpdate \/ e.action = "Delete"
    BY <1>1, <2>1 DEF cancel_all, Update, Unchanged
  <2> QED
    BY <2>2
<1>6. CASE m.type = "U"
  <2>1. e = replace(m).update
    BY <1>6 DEF on_message
  <2>2. e = NoUpdate \/ e.action = "Replace"
    BY <1>1, <2>1 DEF replace, Update, Unchanged
  <2> QED
    BY <2>2
<1>7. CASE m.type \in {"P", "Q"}
  <2>1. m.quantity \in Nat /\ (e = non_cross_trade(m).update \/ e = cross_trade(m).update)
    BY <1>7, ItchAssumption DEF on_message
  <2>2. \A order, side : LET u == Printed(m, order, side).update
                         IN  u = NoUpdate \/ (u.action = "Trade" /\ u.quantity = m.quantity)
    BY <1>1 DEF Printed, Update, Unchanged
  <2>3. e = NoUpdate \/ (e.action = "Trade" /\ e.quantity = m.quantity)
    BY <1>1, <2>1, <2>2 DEF non_cross_trade, cross_trade
  <2> QED
    BY <2>1, <2>3
<1>8. CASE m.type = "B"
  <2>1. e = broken_trade(m).update
    BY <1>8 DEF on_message
  <2>2. e = NoUpdate \/ e.action = "TradeBust"
    BY <1>1, <2>1 DEF broken_trade, Update, Unchanged
  <2> QED
    BY <2>2
<1>9. CASE m.type \notin {"A", "E", "C", "X", "D", "U", "P", "Q", "B"}
  BY <1>1, <1>9 DEF on_message
<1> QED
  BY <1>2, <1>3, <1>4, <1>5, <1>6, <1>7, <1>8, <1>9

LEMMA IngestVolume ==
    ASSUME ItchInv, VolumeInv, NEW m \in Messages, Ingest(m)
    PROVE  VolumeInv'
<1> DEFINE e == on_message(m).update
<1>1. /\ recorded' = apply(e).recorded /\ net_volume' = apply(e).volume
      /\ MatchTables
  BY DEF Ingest, ItchInv
<1>2. \/ e = NoUpdate \/ e.action \in {"Add", "Reduce", "Delete", "Replace"}
      \/ e.action = "TradeBust" \/ (e.action \in {"Execution", "Trade"} /\ e.quantity \in Nat)
  BY UpdateKinds
<1>3. CASE e = NoUpdate \/ e.action \in {"Add", "Reduce", "Delete", "Replace"}
  <2>1. apply(e).recorded = recorded /\ apply(e).volume = net_volume
    BY <1>3 DEF apply, Refused, NoUpdate
  <2> QED
    BY <1>1, <2>1 DEF VolumeInv
<1>4. CASE e.action = "TradeBust"
  <2>1. CASE ~Bustable(e)
    <3>1. apply(e).recorded = recorded /\ apply(e).volume = net_volume
      BY <1>4, <2>1 DEF apply, Refused
    <3> QED
      BY <1>1, <3>1 DEF VolumeInv
  <2>2. CASE Bustable(e)
    <3>1. recorded' = [recorded EXCEPT ![e.match].busted = TRUE]
          /\ net_volume' = VolumeAfterBust(e)
      BY <1>1, <1>4, <2>2 DEF apply
    <3>2. e.match \in DOMAIN recorded /\ RecordEntry(recorded[e.match])
          /\ recorded[e.match].quantity \in Nat
      BY <1>1, <2>2 DEF Bustable, MatchTables, VolumeInv
    <3>3. net_volume' \in Int
      BY <3>1, <3>2 DEF VolumeAfterBust, VolumeInv
    <3>4. recorded'[e.match] = [recorded[e.match] EXCEPT !.busted = TRUE]
      BY <3>1, <3>2
    <3>5. recorded'[e.match].quantity = recorded[e.match].quantity
      BY <3>2, <3>4 DEF RecordEntry, Record
    <3>6. DOMAIN recorded' = DOMAIN recorded
          /\ \A id \in DOMAIN recorded : id # e.match => recorded'[id] = recorded[id]
      BY <3>1
    <3> HIDE DEF e
    <3> QED
      BY <3>2, <3>3, <3>5, <3>6 DEF VolumeInv
  <2> QED
    BY <2>1, <2>2
<1>5. CASE e.action \in {"Execution", "Trade"} /\ e.quantity \in Nat
  <2>1. CASE ~(BookAccepts(e) /\ Recordable(e))
    <3>1. apply(e).recorded = recorded /\ apply(e).volume = net_volume
      BY <1>5, <2>1 DEF apply, Refused
    <3> QED
      BY <1>1, <3>1 DEF VolumeInv
  <2>2. CASE BookAccepts(e) /\ Recordable(e)
    <3>1. recorded' = Recorded(e) /\ net_volume' = VolumeAfterRecord(e)
      BY <1>1, <1>5, <2>2 DEF apply
    <3> HIDE DEF e
    <3>2. net_volume' \in Int
      BY <1>5, <3>1 DEF VolumeAfterRecord, VolumeInv
    <3>3. \A id \in DOMAIN recorded' : recorded'[id].quantity \in Nat
      BY <1>5, <3>1 DEF Recorded, Put, VolumeInv
    <3> QED
      BY <3>2, <3>3 DEF VolumeInv
  <2> QED
    BY <2>1, <2>2
<1> QED
  BY <1>2, <1>3, <1>4, <1>5

LEMMA VolumeInvariance == ItchSpec => []VolumeInv
<1>1. ItchInit => VolumeInv
  BY DEF ItchInit, VolumeInv, Empty
<1>2. ItchInv /\ VolumeInv /\ [ItchNext]_itch => VolumeInv'
  <2> SUFFICES ASSUME ItchInv, VolumeInv, [ItchNext]_itch PROVE VolumeInv'
    OBVIOUS
  <2>1. CASE UNCHANGED itch
    BY <2>1 DEF itch, VolumeInv
  <2>2. CASE ItchNext
    <3>1. PICK m \in Messages : Ingest(m)
      BY <2>2 DEF ItchNext, OfType
    <3> QED
      BY <3>1, IngestVolume
  <2> QED
    BY <2>1, <2>2
<1> QED
  BY <1>1, <1>2, ItchInvariance, PTL DEF ItchSpec

-----------------------------------------------------------------------------
Accepted(m) == on_message(m).counted \notin Errors /\ apply(on_message(m).update).ok

\* What the adapter's table and the pipeline's accept between them is what the
\* pipeline's alone allows.
LEMMA MatchVerdict ==
    ASSUME MatchTables, VolumeInv, NEW id, NEW quantity \in Nat, NEW printable \in BOOLEAN,
           NEW e, e.match = id, e.quantity = quantity, e.printable = printable
    PROVE  LET first == InsertResult(matches, id, MaxMatches)
           IN  /\ Matchable(id, quantity, printable)
                    <=> first \notin {"Full", "InvalidKey"} /\ Recordable(e)
               /\ first = "Duplicate" => Recordable(e)
<1> DEFINE first == InsertResult(matches, id, MaxMatches)
           held  == Cardinality(DOMAIN recorded)
<1>1. id \in DOMAIN matches <=> id \in DOMAIN recorded /\ ~recorded[id].busted
  BY KnownMatch
<1>2. /\ held \in Nat /\ held <= MaxMatches /\ MaxMatches \in Nat
      /\ Cardinality(DOMAIN matches) \in Nat /\ Cardinality(DOMAIN matches) <= held
  BY KnownMatch, AdapterAssumption DEF MatchTables
<1>3. CASE id = NoId
  BY <1>1, <1>3 DEF InsertResult, Matchable, Recordable
<1>4. CASE id # NoId /\ id \in DOMAIN recorded
  BY <1>1, <1>4 DEF InsertResult, Matchable, Recordable
<1>5. CASE id # NoId /\ id \notin DOMAIN recorded
  <2>1. id \notin DOMAIN matches
    BY <1>1, <1>5
  <2>2. first = IF Cardinality(DOMAIN matches) = MaxMatches THEN "Full" ELSE "Inserted"
    BY <1>5, <2>1 DEF InsertResult
  <2>3. InsertResult(recorded, id, MaxMatches) = IF held = MaxMatches THEN "Full" ELSE "Inserted"
    BY <1>5 DEF InsertResult
  <2>4. (quantity <= MaxVolume - net_volume) <=> (net_volume + quantity <= MaxVolume)
    BY ItchAssumption DEF VolumeInv
  <2>5. held < MaxMatches <=> held # MaxMatches
    BY <1>2
  <2>6. held < MaxMatches => Cardinality(DOMAIN matches) # MaxMatches
    BY <1>2
  <2>7. Matchable(id, quantity, printable)
          <=> held < MaxMatches /\ (printable => net_volume + quantity <= MaxVolume)
    BY <1>5 DEF Matchable, NewMatch
  <2>8. Recordable(e) <=> held # MaxMatches /\ (printable => quantity <= MaxVolume - net_volume)
    BY <1>5, <2>3 DEF Recordable
  <2> HIDE DEF first, held
  <2>9. /\ Matchable(id, quantity, printable)
             <=> first \notin {"Full", "InvalidKey"} /\ Recordable(e)
        /\ first = "Duplicate" => Recordable(e)
    BY <2>2, <2>4, <2>5, <2>6, <2>7, <2>8
  <2> QED
    BY <2>9 DEF first
<1> QED
  BY <1>3, <1>4, <1>5

LEMMA ShrinkVerdict ==
    ASSUME OrderTable(orders), book = orders, NEW id, NEW quantity \in Nat
    PROVE  Shrinkable(id, quantity) <=> Reducible(orders, id, quantity)
<1>1. CASE id \in DOMAIN orders
  <2>1. orders[id].remaining \in Nat
    BY <1>1 DEF OrderTable, OrderEntry
  <2>2. quantity \in 1 .. orders[id].remaining
           <=> quantity # 0 /\ quantity <= orders[id].remaining
    BY <2>1
  <2> QED
    BY <1>1, <2>2 DEF Shrinkable, Reducible
<1>2. CASE id \notin DOMAIN orders
  BY <1>2 DEF Shrinkable, Reducible
<1> QED
  BY <1>1, <1>2

\* What both sides of the comparison are judged from.
Good == ~faulted /\ ItchInv /\ VolumeInv

LEMMA Counted ==
    {"none", "non_printable_suppressed", "duplicate_matches_suppressed",
     "broken_trades_without_output"} \cap Errors = {}
BY DEF Errors

LEMMA AddVerdict ==
    ASSUME Good, NEW m \in Messages, m.type = "A"
    PROVE  Legal(m) <=> Accepted(m)
<1> DEFINE side   == side_of(m.side)
           result == InsertResult(orders, m.order, MaxOrders)
           fits   == side # "Unknown" /\ m.quantity # 0 /\ m.price # 0 /\ result = "Inserted"
           e      == Update("Add", m.order, NoId, NoId, m.price, m.quantity, side, FALSE)
<1>1. OrderTable(orders) /\ book = orders /\ m.quantity \in Nat /\ m.price \in Nat
  BY ItchAssumption DEF Good, ItchInv
<1>2. on_message(m) = add(m)
  BY DEF on_message
<1>3. ~fits => on_message(m).counted \in Errors
  BY <1>2, Refusals DEF add
<1>4. fits => on_message(m).counted \notin Errors /\ on_message(m).update = e
  BY <1>2, Counted DEF add, Unchanged
<1>5. apply(e).ok <=> BookAccepts(e)
  <2>1. e.action = "Add"
    BY DEF Update
  <2> HIDE DEF e
  <2> QED
    BY <2>1, ApplyBook
<1>6. BookAccepts(e) <=> /\ side \in {"Buy", "Sell"}
                         /\ m.order \notin {NoId, MaxId} /\ m.order \notin DOMAIN orders
                         /\ m.price \in GridPrices /\ Cardinality(DOMAIN orders) < MaxOrders
  BY <1>1 DEF BookAccepts, Resting, Update
<1>7. Legal(m) <=> /\ m.side \in {"B", "S"}
                   /\ m.order \notin {NoId, MaxId} /\ m.order \notin DOMAIN orders
                   /\ m.price \in GridPrices /\ m.price > 0 /\ m.quantity > 0
                   /\ Cardinality(DOMAIN orders) < MaxOrders
  BY <1>1 DEF Legal, Orderable
<1>8. /\ m.price > 0 <=> m.price # 0
      /\ m.quantity > 0 <=> m.quantity # 0
  BY <1>1
<1>9. m.side \in {"B", "S"} <=> side \in {"Buy", "Sell"}
  BY DEF side_of
<1>10. Cardinality(DOMAIN orders) < MaxOrders => Cardinality(DOMAIN orders) # MaxOrders
  BY FS_CardinalityType, AdapterAssumption, <1>1 DEF OrderTable
<1>11. result = "Inserted" <=> /\ m.order # NoId /\ m.order \notin DOMAIN orders
                               /\ Cardinality(DOMAIN orders) # MaxOrders
  BY DEF InsertResult
<1> HIDE DEF side, result, e
<1> QED
  BY <1>3, <1>4, <1>5, <1>6, <1>7, <1>8, <1>9, <1>10, <1>11 DEF Accepted

LEMMA ExecuteVerdict ==
    ASSUME Good, NEW m \in Messages, m.type \in {"E", "C"}
    PROVE  Legal(m) <=> Accepted(m)
<1> DEFINE order     == orders[m.order]
           price     == IF m.type = "C" THEN m.price ELSE order.price
           printable == m.type = "E" \/ m.printable = "Y"
           known     == m.type = "C" => m.printable \in {"Y", "N"}
           first     == InsertResult(matches, m.match, MaxMatches)
           shrinks   == Reducible(orders, m.order, m.quantity)
           fits      == shrinks /\ price # 0 /\ known /\ first \notin {"Full", "InvalidKey"}
           e         == Update("Execution", m.order, NoId, m.match, price, m.quantity,
                               order.side, printable)
<1>1. /\ OrderTable(orders) /\ book = orders /\ MatchTables /\ VolumeInv
      /\ m.quantity \in Nat /\ (m.type = "C" => m.price \in Nat)
  BY ItchAssumption DEF Good, ItchInv
<1>2. on_message(m) = execute(m)
  BY DEF on_message
<1>3. ~fits => on_message(m).counted \in Errors
  BY <1>2, Refusals DEF execute
<1>4. fits => on_message(m).counted \notin Errors /\ on_message(m).update = e
  BY <1>2, Counted DEF execute, Unchanged
<1>5. /\ e.action = "Execution" /\ e.order = m.order /\ e.match = m.match
      /\ e.quantity = m.quantity /\ e.printable = printable
  BY DEF Update
<1>6. apply(e).ok <=> BookAccepts(e) /\ Recordable(e)
  <2> HIDE DEF e
  <2> QED
    BY <1>5, ApplyRecord
<1>7. shrinks => BookAccepts(e)
  <2> HIDE DEF e
  <2> QED
    BY <1>1, <1>5 DEF BookAccepts, Resting, Reducible
<1>8. Matchable(m.match, m.quantity, printable)
        <=> first \notin {"Full", "InvalidKey"} /\ Recordable(e)
  <2>1. printable \in BOOLEAN
    OBVIOUS
  <2> HIDE DEF e, printable
  <2> QED
    BY <1>1, <1>5, <2>1, MatchVerdict
<1>9. Shrinkable(m.order, m.quantity) <=> shrinks
  BY <1>1, ShrinkVerdict
<1>10. m.type = "E" /\ shrinks => price # 0
  BY <1>1 DEF Reducible, OrderTable, OrderEntry
<1>11. m.type = "C" => (m.price > 0 <=> price # 0)
  BY <1>1
<1>12. Legal(m) <=> /\ Shrinkable(m.order, m.quantity) /\ known
                    /\ m.type = "C" => m.price > 0
                    /\ Matchable(m.match, m.quantity, printable)
  <2>1. CASE m.type = "E"
    <3>1. printable = TRUE
      BY <2>1
    <3> HIDE DEF printable
    <3> QED
      BY <2>1, <3>1 DEF Legal
  <2>2. CASE m.type = "C"
    <3>1. printable = (m.printable = "Y")
      BY <2>2
    <3> HIDE DEF printable
    <3> QED
      BY <2>2, <3>1 DEF Legal
  <2> QED
    BY <2>1, <2>2
<1> HIDE DEF price, printable, known, first, shrinks, e
<1> QED
  BY <1>3, <1>4, <1>6, <1>7, <1>8, <1>9, <1>10, <1>11, <1>12 DEF Accepted

LEMMA CancelVerdict ==
    ASSUME Good, NEW m \in Messages, m.type = "X"
    PROVE  Legal(m) <=> Accepted(m)
<1> DEFINE order == orders[m.order]
           fits  == Reducible(orders, m.order, m.quantity)
           e     == Update("Reduce", m.order, NoId, NoId, order.price, m.quantity, order.side,
                           FALSE)
<1>1. OrderTable(orders) /\ book = orders /\ m.quantity \in Nat
  BY ItchAssumption DEF Good, ItchInv
<1>2. on_message(m) = cancel_partial(m) /\ (Legal(m) <=> Shrinkable(m.order, m.quantity))
  BY DEF on_message, Legal
<1>3. ~fits => on_message(m).counted \in Errors
  BY <1>2, Refusals DEF cancel_partial
<1>4. fits => on_message(m).counted \notin Errors /\ on_message(m).update = e
  BY <1>2, Counted DEF cancel_partial, Unchanged
<1>5. e.action = "Reduce" /\ e.order = m.order /\ e.quantity = m.quantity
  BY DEF Update
<1> HIDE DEF e
<1>6. fits => BookAccepts(e)
  BY <1>1, <1>5 DEF BookAccepts, Resting, Reducible
<1>7. fits => apply(e).ok
  BY <1>5, <1>6, ApplyBook
<1>8. Legal(m) <=> fits
  BY <1>1, <1>2, ShrinkVerdict
<1> QED
  BY <1>3, <1>4, <1>7, <1>8 DEF Accepted

LEMMA DeleteVerdict ==
    ASSUME Good, NEW m \in Messages, m.type = "D"
    PROVE  Legal(m) <=> Accepted(m)
<1> DEFINE order == orders[m.order]
           fits  == m.order \in DOMAIN orders
           e     == Update("Delete", m.order, NoId, NoId, order.price, order.remaining,
                           order.side, FALSE)
<1>1. book = orders
  BY DEF Good, ItchInv
<1>2. on_message(m) = cancel_all(m) /\ (Legal(m) <=> fits)
  BY <1>1 DEF on_message, Legal
<1>3. ~fits => on_message(m).counted \in Errors
  BY <1>2, Refusals DEF cancel_all
<1>4. fits => on_message(m).counted \notin Errors /\ on_message(m).update = e
  BY <1>2, Counted DEF cancel_all, Unchanged
<1>5. e.action = "Delete" /\ e.order = m.order /\ e.quantity = order.remaining
  BY DEF Update
<1> HIDE DEF e
<1>6. fits => BookAccepts(e)
  BY <1>1, <1>5 DEF BookAccepts, Resting
<1>7. fits => apply(e).ok
  BY <1>5, <1>6, ApplyBook
<1> QED
  BY <1>2, <1>3, <1>4, <1>7 DEF Accepted

LEMMA ReplaceVerdict ==
    ASSUME Good, NEW m \in Messages, m.type = "U"
    PROVE  Legal(m) <=> Accepted(m)
<1> DEFINE old  == orders[m.order]
           asks == /\ m.order \in DOMAIN orders /\ m.new # NoId /\ m.quantity # 0
                   /\ m.price # 0 /\ m.new \notin DOMAIN orders
           fits == asks /\ ReplaceInserts(m) = "Inserted"
           e    == Update("Replace", m.order, m.new, NoId, m.price, m.quantity, old.side, FALSE)
<1>1. OrderTable(orders) /\ book = orders /\ m.quantity \in Nat /\ m.price \in Nat
  BY ItchAssumption DEF Good, ItchInv
<1>2. on_message(m) = replace(m)
  BY DEF on_message
<1>3. ~fits => on_message(m).counted \in Errors
  BY <1>2, Refusals DEF replace
<1>4. fits => on_message(m).counted \notin Errors /\ on_message(m).update = e
  BY <1>2, Counted DEF replace, Unchanged
<1>5. asks => ReplaceInserts(m) = "Inserted"
  <2> SUFFICES ASSUME asks PROVE ReplaceInserts(m) = "Inserted"
    OBVIOUS
  <2> DEFINE rest == Drop(orders, m.order)
  <2>1. OrderTable(rest) /\ Cardinality(DOMAIN rest) < MaxOrders
    BY <1>1, DropOrder
  <2>2. Cardinality(DOMAIN rest) # MaxOrders
    BY <2>1, FS_CardinalityType, AdapterAssumption DEF OrderTable
  <2>3. m.new # NoId /\ m.new \notin DOMAIN rest
    BY DropTable
  <2>4. ReplaceInserts(m) = InsertResult(rest, m.new, MaxOrders)
    BY DEF ReplaceInserts
  <2> HIDE DEF rest
  <2> QED
    BY <2>2, <2>3, <2>4 DEF InsertResult
<1>6. /\ e.action = "Replace" /\ e.order = m.order /\ e.new = m.new /\ e.price = m.price
  BY DEF Update
<1> HIDE DEF e
<1>7. BookAccepts(e) <=> /\ m.order \in DOMAIN orders /\ m.new \notin DOMAIN orders
                         /\ m.new \notin {NoId, MaxId} /\ m.price \in GridPrices
  BY <1>1, <1>6 DEF BookAccepts, Resting
<1>8. apply(e).ok <=> BookAccepts(e)
  BY <1>6, ApplyBook
<1>9. /\ m.price > 0 <=> m.price # 0
      /\ m.quantity > 0 <=> m.quantity # 0
  BY <1>1
<1>10. Legal(m) <=> /\ m.order \in DOMAIN orders /\ m.new \notin {NoId, MaxId}
                    /\ m.new \notin DOMAIN orders
                    /\ m.price \in GridPrices /\ m.price > 0 /\ m.quantity > 0
  BY <1>1 DEF Legal, Orderable
<1> QED
  BY <1>3, <1>4, <1>5, <1>7, <1>8, <1>9, <1>10 DEF Accepted

LEMMA PrintedVerdict ==
    ASSUME Good, NEW m \in Messages, m.type \in {"P", "Q"}, NEW order, NEW side,
           on_message(m) = Printed(m, order, side)
    PROVE  Matchable(m.match, m.quantity, TRUE) <=> Accepted(m)
<1> DEFINE first == InsertResult(matches, m.match, MaxMatches)
           e     == Update("Trade", order, NoId, m.match, m.price, m.quantity, side, TRUE)
<1>1. MatchTables /\ VolumeInv /\ m.quantity \in Nat
  BY ItchAssumption DEF Good, ItchInv
<1>2. first \in {"Full", "InvalidKey"} => on_message(m).counted \in Errors
  BY Refusals DEF Printed
<1>3. first \notin {"Full", "InvalidKey"} => on_message(m).counted \notin Errors
  BY Counted DEF Printed, Unchanged
<1>4. first = "Inserted" => on_message(m).update = e
  BY DEF Printed, Prints, Unchanged
<1>5. first \notin {"Full", "InvalidKey", "Inserted"} => on_message(m).update = NoUpdate
  BY DEF Printed, Prints, Unchanged
<1>6. /\ e.action = "Trade" /\ e.match = m.match /\ e.quantity = m.quantity
      /\ e.printable = TRUE
  BY DEF Update
<1>7. first \in {"Full", "InvalidKey", "Inserted", "Duplicate"}
  BY DEF InsertResult
<1> HIDE DEF e
<1>8. apply(e).ok <=> Recordable(e)
  BY <1>6, ApplyRecord DEF BookAccepts
<1>9. /\ Matchable(m.match, m.quantity, TRUE)
            <=> first \notin {"Full", "InvalidKey"} /\ Recordable(e)
      /\ first = "Duplicate" => Recordable(e)
  BY <1>1, <1>6, MatchVerdict
<1> HIDE DEF first
<1> QED
  BY <1>2, <1>3, <1>4, <1>5, <1>7, <1>8, <1>9, ApplyNone DEF Accepted

LEMMA TradeVerdict ==
    ASSUME Good, NEW m \in Messages, m.type \in {"P", "Q"}
    PROVE  Legal(m) <=> Accepted(m)
<1>1. /\ m.price > 0 <=> m.price # 0
      /\ m.quantity > 0 <=> m.quantity # 0
  BY ItchAssumption
<1>2. CASE m.type = "P"
  <2> DEFINE fits == m.quantity # 0 /\ m.price # 0 /\ side_of(m.side) # "Unknown"
  <2>1. on_message(m) = IF ~fits THEN Malformed ELSE Printed(m, m.order, side_of(m.side))
    BY <1>2 DEF on_message, non_cross_trade
  <2>2. m.side \in {"B", "S"} <=> side_of(m.side) # "Unknown"
    BY DEF side_of
  <2>3. Legal(m) <=> fits /\ Matchable(m.match, m.quantity, TRUE)
    BY <1>1, <1>2, <2>2 DEF Legal
  <2>4. CASE fits
    BY <2>1, <2>3, <2>4, PrintedVerdict
  <2>5. CASE ~fits
    BY <2>1, <2>3, <2>5, Refusals DEF Accepted
  <2> QED
    BY <2>4, <2>5
<1>3. CASE m.type = "Q"
  <2> DEFINE fits == m.quantity # 0 /\ m.price # 0
  <2>1. on_message(m) = IF ~fits THEN Malformed ELSE Printed(m, NoId, "Unknown")
    BY <1>3 DEF on_message, cross_trade
  <2>2. Legal(m) <=> fits /\ Matchable(m.match, m.quantity, TRUE)
    BY <1>1, <1>3 DEF Legal
  <2>3. CASE fits
    BY <2>1, <2>2, <2>3, PrintedVerdict
  <2>4. CASE ~fits
    BY <2>1, <2>2, <2>4, Refusals DEF Accepted
  <2> QED
    BY <2>3, <2>4
<1> QED
  BY <1>2, <1>3

LEMMA BustVerdict ==
    ASSUME Good, NEW m \in Messages, m.type = "B"
    PROVE  Legal(m) <=> Accepted(m)
<1> DEFINE match == matches[m.match]
           fits  == m.match \in DOMAIN matches
           e     == Update("TradeBust", match.order, NoId, m.match, match.price,
                           match.quantity, match.side, match.emitted)
<1>1. fits <=> m.match \in DOMAIN recorded /\ ~recorded[m.match].busted
  BY KnownMatch DEF Good, ItchInv
<1>2. on_message(m) = broken_trade(m) /\ (Legal(m) <=> fits)
  BY <1>1 DEF on_message, Legal
<1>3. ~fits => on_message(m).counted \in Errors
  BY <1>2 DEF broken_trade, Unchanged, Errors
<1>4. fits => on_message(m).counted \notin Errors /\ on_message(m).update = e
  BY <1>2, Counted DEF broken_trade, Unchanged
<1>5. e.action = "TradeBust" /\ e.match = m.match
  BY DEF Update
<1> HIDE DEF e
<1>6. fits => apply(e).ok
  BY <1>1, <1>5, ApplyBust DEF Bustable
<1> QED
  BY <1>2, <1>3, <1>4, <1>6 DEF Accepted

\* A message is accepted by adapter and book exactly if it is legal: until the
\* first illegal message the feed does not fault, whatever the table sizes.
THEOREM VerdictFollowsLegality == ItchSpec => []VerdictIsLegality
<1>1. ItchInv /\ VolumeInv => VerdictIsLegality
  <2> SUFFICES ASSUME ItchInv, VolumeInv, ~faulted, NEW m \in Messages
               PROVE  Legal(m) <=> Accepted(m)
    BY DEF VerdictIsLegality, Accepted
  <2>1. Good
    BY DEF Good
  <2>2. CASE m.type \in {"A", "E", "C", "X", "D", "U", "P", "Q", "B"}
    BY <2>1, <2>2, AddVerdict, ExecuteVerdict, CancelVerdict, DeleteVerdict, ReplaceVerdict,
       TradeVerdict, BustVerdict
  <2>3. CASE m.type \notin {"A", "E", "C", "X", "D", "U", "P", "Q", "B"}
    <3>1. Legal(m) <=> m.type # "wrong_size"
      BY <2>3 DEF Legal
    <3>2. CASE m.type = "wrong_size"
      <4>1. on_message(m) = Malformed
        BY <3>2 DEF on_message
      <4> QED
        BY <3>1, <3>2, <4>1, Refusals DEF Accepted
    <3>3. CASE m.type # "wrong_size"
      <4>1. on_message(m) = Unchanged
        BY <2>3, <3>3 DEF on_message
      <4>2. Unchanged.counted \notin Errors /\ Unchanged.update = NoUpdate
        BY Counted DEF Unchanged
      <4> QED
        BY <3>1, <3>3, <4>1, <4>2, ApplyNone DEF Accepted
    <3> QED
      BY <3>2, <3>3
  <2> QED
    BY <2>2, <2>3
<1> QED
  BY <1>1, ItchInvariance, VolumeInvariance, PTL

-----------------------------------------------------------------------------
\* After a message that adapter and book accept, both hold the same orders.
LEMMA SameOrders ==
    ASSUME Good, NEW m \in Messages, Accepted(m)
    PROVE  apply(on_message(m).update).book = on_message(m).orders
<1> DEFINE e     == on_message(m).update
           order == orders[m.order]
<1>1. book = orders /\ on_message(m).counted \notin Errors /\ apply(e).ok
  BY DEF Good, ItchInv, Accepted
<1>2. CASE m.type = "A"
  <2>1. /\ on_message(m).orders = Put(orders, m.order, Order(m.price, m.quantity, side_of(m.side)))
        /\ e = Update("Add", m.order, NoId, NoId, m.price, m.quantity, side_of(m.side), FALSE)
    BY <1>1, <1>2, AddAccepted
  <2>2. /\ e.action = "Add" /\ e.order = m.order /\ e.price = m.price
        /\ e.quantity = m.quantity /\ e.side = side_of(m.side)
    BY <2>1 DEF Update
  <2>3. apply(e).book = BookAfter(e)
    BY <1>1, <2>2, ApplyBook
  <2>4. BookAfter(e) = Put(orders, m.order, Order(m.price, m.quantity, side_of(m.side)))
    BY <1>1, <2>2 DEF BookAfter
  <2> QED
    BY <2>1, <2>3, <2>4
<1>3. CASE m.type \in {"E", "C"}
  <2>1. on_message(m) = execute(m)
    BY <1>3 DEF on_message
  <2>2. execute(m).counted \notin Errors
    BY <1>1, <2>1
  <2>3. /\ execute(m).orders = Reduced(orders, m.order, m.quantity)
        /\ execute(m).update.action = "Execution" /\ execute(m).update.order = m.order
        /\ execute(m).update.quantity = m.quantity
    BY <2>2, Refusals DEF execute, Executed, Unchanged, Update
  <2>4. e.action = "Execution" /\ e.order = m.order /\ e.quantity = m.quantity
    BY <2>1, <2>3
  <2>5. apply(e).book = BookAfter(e)
    BY <1>1, <2>4, ApplyRecord
  <2>6. BookAfter(e) = Reduced(orders, m.order, m.quantity)
    BY <1>1, <2>4 DEF BookAfter
  <2> QED
    BY <2>1, <2>3, <2>5, <2>6
<1>4. CASE m.type = "X"
  <2>1. on_message(m) = cancel_partial(m)
    BY <1>4 DEF on_message
  <2>2. Reducible(orders, m.order, m.quantity)
    BY <1>1, <2>1, Refusals DEF cancel_partial
  <2>3. /\ on_message(m).orders = Reduced(orders, m.order, m.quantity)
        /\ e.action = "Reduce" /\ e.order = m.order /\ e.quantity = m.quantity
    BY <2>1, <2>2 DEF cancel_partial, Unchanged, Update
  <2> QED
    BY <1>1, <2>3, ApplyBook DEF BookAfter
<1>5. CASE m.type = "D"
  <2>1. on_message(m) = cancel_all(m)
    BY <1>5 DEF on_message
  <2>2. m.order \in DOMAIN orders
    BY <1>1, <2>1, Refusals DEF cancel_all
  <2>3. /\ on_message(m).orders = Drop(orders, m.order)
        /\ e.action = "Delete" /\ e.order = m.order
    BY <2>1, <2>2 DEF cancel_all, Unchanged, Update
  <2> QED
    BY <1>1, <2>3, ApplyBook DEF BookAfter
<1>6. CASE m.type = "U"
  <2>1. on_message(m) = replace(m)
    BY <1>6 DEF on_message
  <2>2. /\ m.order \in DOMAIN orders /\ m.quantity # 0 /\ m.price # 0
        /\ m.new \notin DOMAIN orders /\ m.new # NoId /\ ReplaceInserts(m) = "Inserted"
    BY <1>1, <2>1, Refusals DEF replace
  <2>3. /\ on_message(m).orders = Put(Drop(orders, m.order), m.new,
                                      Order(m.price, m.quantity, order.side))
        /\ e.action = "Replace" /\ e.order = m.order /\ e.new = m.new
        /\ e.price = m.price /\ e.quantity = m.quantity
    BY <2>1, <2>2 DEF replace, Unchanged, Update
  <2> QED
    BY <1>1, <2>3, ApplyBook DEF BookAfter
<1>7. CASE m.type \in {"P", "Q"}
  <2>1. PICK id, side : on_message(m) = Printed(m, id, side)
    BY <1>1, <1>7, Refusals DEF on_message, non_cross_trade, cross_trade
  <2>2. on_message(m).orders = orders /\ (e = NoUpdate \/ e.action = "Trade")
    BY <1>1, <2>1, Refusals DEF Printed, Unchanged, Update
  <2> QED
    BY <1>1, <2>2, ApplyNone, ApplyRecord DEF BookAfter
<1>8. CASE m.type = "B"
  <2>1. on_message(m) = broken_trade(m)
    BY <1>8 DEF on_message
  <2>2. m.match \in DOMAIN matches
    BY <1>1, <2>1 DEF broken_trade, Errors, Unchanged
  <2>3. on_message(m).orders = orders /\ e.action = "TradeBust"
    BY <2>1, <2>2 DEF broken_trade, Unchanged, Update
  <2> QED
    BY <1>1, <2>3, ApplyBust
<1>9. CASE m.type \notin {"A", "E", "C", "X", "D", "U", "P", "Q", "B"}
  <2>1. on_message(m) = Unchanged
    BY <1>1, <1>9, Refusals DEF on_message
  <2>2. on_message(m).orders = orders /\ e = NoUpdate
    BY <2>1 DEF Unchanged
  <2> QED
    BY <1>1, <2>2, ApplyNone
<1> QED
  BY <1>2, <1>3, <1>4, <1>5, <1>6, <1>7, <1>8, <1>9

\* The comparison of the order counts in ingest() never gives an alarm of its
\* own: a message faults the feed if and only if it is illegal.
THEOREM FaultIsIllegality ==
    ItchSpec => [][\A m \in Messages : Ingest(m) => (faulted' <=> ~Legal(m))]_itch
<1> DEFINE Judged == \A m \in Messages : Ingest(m) => (faulted' <=> ~Legal(m))
<1>1. ItchInv /\ VolumeInv /\ VerdictIsLegality => Judged
  <2> SUFFICES ASSUME ItchInv, VolumeInv, VerdictIsLegality, NEW m \in Messages, Ingest(m)
               PROVE  faulted' <=> ~Legal(m)
    OBVIOUS
  <2>1. Good
    BY DEF Good, Ingest
  <2>2. Legal(m) <=> Accepted(m)
    BY <2>1 DEF Good, VerdictIsLegality, Accepted
  <2>3. Accepted(m) => apply(on_message(m).update).book = on_message(m).orders
    BY <2>1, SameOrders
  <2>4. faulted' <=> \/ ~Accepted(m)
                     \/ Cardinality(DOMAIN apply(on_message(m).update).book) #
                           Cardinality(DOMAIN on_message(m).orders)
    BY DEF Ingest, Accepted
  <2> QED
    BY <2>2, <2>3, <2>4
<1> QED
  BY <1>1, ItchInvariance, VolumeInvariance, VerdictFollowsLegality, PTL

-----------------------------------------------------------------------------
(***************************************************************************)
(* Sums over tables.  Induction on the size of a set is the choice of a    *)
(* smallest counterexample: every set of numbers has a least one.          *)
(***************************************************************************)
LEMMA LeastNat ==
    ASSUME NEW T \in SUBSET Nat, T # {}
    PROVE  \E m \in T : \A k \in T : m <= k
<1>1. IsWellFoundedOn(OpToRel(<, Nat), Nat)
  BY NatLessThanWellFounded
<1> DEFINE R == OpToRel(<, Nat)
<1>2. \A x, y \in Nat : x < y => <<x, y>> \in R
  BY DEF OpToRel
<1> HIDE DEF R
<1>3. IsWellFoundedOn(R, Nat)
  BY <1>1 DEF R
<1>4. PICK x \in T : \A y \in T : ~(<<y, x>> \in R)
  BY <1>3, WFMin
<1>5. ASSUME NEW k \in T PROVE x <= k
  <2>1. ~(<<k, x>> \in R) /\ k \in Nat /\ x \in Nat
    BY <1>4
  <2>2. ~(k < x)
    BY <1>2, <2>1
  <2> QED
    BY <2>1, <2>2
<1> QED
  BY <1>5


Any(s) == CHOOSE x \in s : TRUE

SumOn(t, S, g) ==
    g = [s \in SUBSET S |-> IF s = {} THEN 0
                            ELSE t[CHOOSE x \in s : TRUE].quantity
                                 + g[s \ {CHOOSE x \in s : TRUE}]]

Total(t) == (CHOOSE g : SumOn(t, DOMAIN t, g))[DOMAIN t]

LEMMA AnyIn ==
    ASSUME NEW s, s # {}
    PROVE  Any(s) \in s
BY DEF Any

Small(S, n) == {s \in SUBSET S : Cardinality(s) <= n}
SumTo(t, S, n, g) ==
    g = [s \in Small(S, n) |-> IF s = {} THEN 0 ELSE t[Any(s)].quantity + g[s \ {Any(s)}]]

LEMMA SumEquation ==
    ASSUME NEW t, NEW S, NEW g
    PROVE  SumOn(t, S, g) <=>
             g = [s \in SUBSET S |-> IF s = {} THEN 0
                                     ELSE t[Any(s)].quantity + g[s \ {Any(s)}]]
BY DEF SumOn, Any

\* A set without its chosen element is smaller.
LEMMA LessOne ==
    ASSUME NEW S, IsFiniteSet(S), NEW s \in SUBSET S, s # {}
    PROVE  /\ Any(s) \in s /\ s \ {Any(s)} \in SUBSET S
           /\ Cardinality(s) \in Nat \ {0}
           /\ Cardinality(s \ {Any(s)}) = Cardinality(s) - 1
<1>1. Any(s) \in s
  BY AnyIn
<1>2. IsFiniteSet(s)
  BY FS_Subset
<1>3. Cardinality(s) \in Nat /\ Cardinality(s) # 0
  BY <1>2, FS_CardinalityType, FS_EmptySet
<1>4. Cardinality(s \ {Any(s)}) = Cardinality(s) - 1
  BY <1>1, <1>2, FS_RemoveElement
<1> QED
  BY <1>1, <1>3, <1>4

LEMMA SumToGrows ==
    ASSUME NEW t, NEW S, IsFiniteSet(S), NEW n \in Nat, NEW g, SumTo(t, S, n, g)
    PROVE  \E h : SumTo(t, S, n + 1, h)
<1> DEFINE Value(s) == IF s = {} THEN 0 ELSE t[Any(s)].quantity + g[s \ {Any(s)}]
           h == [s \in Small(S, n + 1) |-> Value(s)]
<1>1. \A u \in Small(S, n) : g[u] = Value(u)
  BY DEF SumTo
<1>2. Small(S, n) \subseteq Small(S, n + 1)
  <2> SUFFICES ASSUME NEW u \in Small(S, n) PROVE Cardinality(u) <= n + 1
    BY DEF Small
  <2>1. u \in SUBSET S /\ Cardinality(u) <= n
    BY DEF Small
  <2>2. Cardinality(u) \in Nat
    BY <2>1, FS_Subset, FS_CardinalityType
  <2> QED
    BY <2>1, <2>2
<1>3. \A u \in Small(S, n) : h[u] = g[u]
  BY <1>1, <1>2
<1>4. ASSUME NEW s \in Small(S, n + 1), s # {} PROVE s \ {Any(s)} \in Small(S, n)
  <2>1. s \in SUBSET S /\ Cardinality(s) <= n + 1
    BY DEF Small
  <2>2. /\ s \ {Any(s)} \in SUBSET S
        /\ Cardinality(s) \in Nat \ {0}
        /\ Cardinality(s \ {Any(s)}) = Cardinality(s) - 1
    BY <2>1, <1>4, LessOne
  <2>3. Cardinality(s \ {Any(s)}) <= n
    BY <2>1, <2>2
  <2> QED
    BY <2>2, <2>3 DEF Small
<1>5. \A s \in Small(S, n + 1) :
         Value(s) = IF s = {} THEN 0 ELSE t[Any(s)].quantity + h[s \ {Any(s)}]
  <2> HIDE DEF h
  <2> QED
    BY <1>3, <1>4
<1>6. h = [s \in Small(S, n + 1) |-> Value(s)]
  OBVIOUS
<1> HIDE DEF h, Value
<1>7. SumTo(t, S, n + 1, h)
  BY <1>5, <1>6 DEF SumTo
<1> QED
  BY <1>7

LEMMA SumExists ==
    ASSUME NEW t, NEW S, IsFiniteSet(S)
    PROVE  \E g : SumOn(t, S, g)
<1> DEFINE Bad == {n \in Nat : ~\E g : SumTo(t, S, n, g)}
<1>1. Bad = {}
  <2> SUFFICES ASSUME Bad # {} PROVE FALSE
    OBVIOUS
  <2>1. PICK m \in Bad : \A k \in Bad : m <= k
    <3>1. Bad \in SUBSET Nat
      OBVIOUS
    <3> HIDE DEF Bad
    <3> QED
      BY <3>1, LeastNat
  <2>2. m \in Nat /\ ~\E g : SumTo(t, S, m, g)
    OBVIOUS
  <2>3. CASE m = 0
    <3>1. Small(S, 0) = {{}}
      <4>1. ASSUME NEW s \in Small(S, 0) PROVE s = {}
        <5>1. s \in SUBSET S /\ Cardinality(s) <= 0
          BY DEF Small
        <5>2. IsFiniteSet(s) /\ Cardinality(s) \in Nat
          BY <5>1, FS_Subset, FS_CardinalityType
        <5> QED
          BY <5>1, <5>2, FS_EmptySet
      <4>2. {} \in Small(S, 0)
        BY FS_EmptySet DEF Small
      <4> QED
        BY <4>1, <4>2
    <3> DEFINE g == [s \in {{}} |-> 0]
    <3>2. SumTo(t, S, 0, g)
      BY <3>1 DEF SumTo
    <3> QED
      BY <2>2, <2>3, <3>2
  <2>4. CASE m # 0
    <3>1. m - 1 \in Nat /\ ~(m <= m - 1) /\ (m - 1) + 1 = m
      BY <2>2, <2>4
    <3>2. m - 1 \notin Bad
      BY <2>1, <3>1
    <3>3. PICK g : SumTo(t, S, m - 1, g)
      BY <3>1, <3>2
    <3>4. \E h : SumTo(t, S, (m - 1) + 1, h)
      BY <3>1, <3>3, SumToGrows
    <3> QED
      BY <2>2, <3>1, <3>4
  <2> QED
    BY <2>3, <2>4
<1>2. Cardinality(S) \in Nat
  BY FS_CardinalityType
<1>3. PICK g : SumTo(t, S, Cardinality(S), g)
  BY <1>1, <1>2
<1>4. Small(S, Cardinality(S)) = SUBSET S
  BY FS_Subset DEF Small
<1>5. SumOn(t, S, g)
  BY <1>3, <1>4, SumEquation DEF SumTo
<1> QED
  BY <1>5

\* If a property fails for some subset, it fails for one of which every smaller
\* one has it.
Smallest(Bad, s) == s \in Bad /\ \A u \in Bad : Cardinality(s) <= Cardinality(u)

LEMMA SmallestSet ==
    ASSUME NEW S, IsFiniteSet(S), NEW Bad \in SUBSET SUBSET S, Bad # {}
    PROVE  \E s : Smallest(Bad, s)
<1> DEFINE Sizes == {Cardinality(s) : s \in Bad}
<1>1. \A s \in Bad : Cardinality(s) \in Nat
  BY FS_Subset, FS_CardinalityType
<1>2. Sizes \in SUBSET Nat /\ Sizes # {}
  BY <1>1
<1>3. \A n \in Sizes : \E s \in Bad : n = Cardinality(s)
  OBVIOUS
<1>4. \A s \in Bad : Cardinality(s) \in Sizes
  OBVIOUS
<1> HIDE DEF Sizes
<1>5. PICK m \in Sizes : \A k \in Sizes : m <= k
  BY <1>2, LeastNat
<1>6. PICK s \in Bad : m = Cardinality(s)
  BY <1>3
<1> QED
  BY <1>4, <1>5, <1>6 DEF Smallest

\* What the sums of the subsets of S satisfy.
SumsUp(t, S, g) ==
    \A s \in SUBSET S : /\ s = {} => g[s] = 0
                        /\ s # {} => g[s] = t[Any(s)].quantity + g[s \ {Any(s)}]

LEMMA SumRule ==
    ASSUME NEW t, NEW S, NEW g, SumOn(t, S, g)
    PROVE  SumsUp(t, S, g)
<1> DEFINE Value(s) == IF s = {} THEN 0 ELSE t[Any(s)].quantity + g[s \ {Any(s)}]
<1>1. g = [s \in SUBSET S |-> Value(s)]
  BY DEF SumOn, Any
<1> HIDE DEF Value
<1>2. \A s \in SUBSET S : g[s] = Value(s)
  BY <1>1
<1> QED
  BY <1>2 DEF Value, SumsUp

LEMMA SumIsNat ==
    ASSUME NEW t, NEW S, IsFiniteSet(S), NEW g, SumOn(t, S, g),
           \A x \in S : t[x].quantity \in Nat
    PROVE  \A s \in SUBSET S : g[s] \in Nat
<1>0. SumsUp(t, S, g)
  BY SumRule
<1> DEFINE Bad == {s \in SUBSET S : g[s] \notin Nat}
<1> SUFFICES ASSUME Bad # {} PROVE FALSE
  OBVIOUS
<1>1. PICK s : Smallest(Bad, s)
  <2>1. Bad \in SUBSET SUBSET S
    OBVIOUS
  <2> HIDE DEF Bad
  <2> QED
    BY <2>1, SmallestSet
<1>2. s \in SUBSET S /\ g[s] \notin Nat /\ \A u \in Bad : Cardinality(s) <= Cardinality(u)
  BY <1>1 DEF Smallest
<1>3. s # {}
  <2>1. g[{}] = 0
    BY <1>0 DEF SumsUp
  <2> QED
    BY <1>2, <2>1
<1>4. /\ Any(s) \in s /\ s \ {Any(s)} \in SUBSET S
      /\ Cardinality(s) \in Nat \ {0}
      /\ Cardinality(s \ {Any(s)}) = Cardinality(s) - 1
  BY <1>2, <1>3, LessOne
<1>5. ~(Cardinality(s) <= Cardinality(s \ {Any(s)}))
  BY <1>4
<1>6. g[s \ {Any(s)}] \in Nat
  BY <1>2, <1>4, <1>5
<1>7. g[s] = t[Any(s)].quantity + g[s \ {Any(s)}] /\ t[Any(s)].quantity \in Nat
  BY <1>2, <1>3, <1>4, <1>0 DEF SumsUp
<1> QED
  BY <1>2, <1>6, <1>7

\* A sum depends only on what it adds up.
LEMMA SumsAgree ==
    ASSUME NEW t, NEW S, NEW g, SumOn(t, S, g), NEW v, NEW U, NEW h, SumOn(v, U, h),
           IsFiniteSet(S), S \subseteq U, \A x \in S : t[x].quantity = v[x].quantity
    PROVE  \A s \in SUBSET S : g[s] = h[s]
<1>0. SumsUp(t, S, g) /\ SumsUp(v, U, h)
  BY SumRule
<1> DEFINE Bad == {s \in SUBSET S : g[s] # h[s]}
<1> SUFFICES ASSUME Bad # {} PROVE FALSE
  OBVIOUS
<1>1. PICK s : Smallest(Bad, s)
  <2>1. Bad \in SUBSET SUBSET S
    OBVIOUS
  <2> HIDE DEF Bad
  <2> QED
    BY <2>1, SmallestSet
<1>2. /\ s \in SUBSET S /\ s \in SUBSET U /\ g[s] # h[s]
      /\ \A u \in Bad : Cardinality(s) <= Cardinality(u)
  BY <1>1 DEF Smallest
<1>3. s # {}
  BY <1>0, <1>2 DEF SumsUp
<1>4. /\ Any(s) \in s /\ s \ {Any(s)} \in SUBSET S
      /\ Cardinality(s) \in Nat \ {0}
      /\ Cardinality(s \ {Any(s)}) = Cardinality(s) - 1
  BY <1>2, <1>3, LessOne
<1>5. ~(Cardinality(s) <= Cardinality(s \ {Any(s)}))
  BY <1>4
<1>6. g[s \ {Any(s)}] = h[s \ {Any(s)}]
  BY <1>2, <1>4, <1>5
<1>7. g[s] = t[Any(s)].quantity + g[s \ {Any(s)}]
  BY <1>2, <1>3, <1>0 DEF SumsUp
<1>8. h[s] = v[Any(s)].quantity + h[s \ {Any(s)}]
  BY <1>2, <1>3, <1>0 DEF SumsUp
<1> QED
  BY <1>2, <1>4, <1>6, <1>7, <1>8

\* The order in which the elements are chosen does not matter.
SumsAdd(t, S, g) ==
    \A s \in SUBSET S : \A x \in S \ s : g[s \cup {x}] = t[x].quantity + g[s]

LEMMA SumAdds ==
    ASSUME NEW t, NEW S, IsFiniteSet(S), NEW g, SumOn(t, S, g),
           \A x \in S : t[x].quantity \in Nat
    PROVE  SumsAdd(t, S, g)
<1> DEFINE Adds(s) == \A x \in S \ s : g[s \cup {x}] = t[x].quantity + g[s]
           Bad == {s \in SUBSET S : ~Adds(s)}
<1> SUFFICES ASSUME Bad # {} PROVE FALSE
  BY DEF SumsAdd
<1>1. PICK s : Smallest(Bad, s)
  <2>1. Bad \in SUBSET SUBSET S
    OBVIOUS
  <2> HIDE DEF Bad
  <2> QED
    BY <2>1, SmallestSet
<1>2. /\ s \in SUBSET S /\ ~Adds(s)
      /\ \A u \in SUBSET S : ~(Cardinality(s) <= Cardinality(u)) => Adds(u)
  BY <1>1 DEF Smallest
<1>3. PICK x \in S \ s : g[s \cup {x}] # t[x].quantity + g[s]
  BY <1>2
<1> DEFINE both == s \cup {x}
           c == Any(both)
           rest == s \ {c}
<1>4. both \in SUBSET S /\ both # {} /\ c \in both
  BY <1>2, <1>3, AnyIn
<1>5. g[both] = t[c].quantity + g[both \ {c}]
  <2>1. SumsUp(t, S, g)
    BY SumRule
  <2> HIDE DEF both
  <2> QED
    BY <1>4, <2>1 DEF SumsUp
<1>6. CASE c = x
  <2>1. both \ {c} = s
    BY <1>3, <1>6
  <2> HIDE DEF both, c
  <2> QED
    BY <1>3, <1>5, <1>6, <2>1 DEF both
<1>7. CASE c # x
  <2>1. c \in s /\ rest \in SUBSET S /\ c \in S \ rest /\ x \in S \ rest
    BY <1>2, <1>3, <1>4, <1>7
  <2>2. both \ {c} = rest \cup {x} /\ s = rest \cup {c}
    BY <1>3, <1>7, <2>1
  <2>3. ~(Cardinality(s) <= Cardinality(rest))
    <3>1. IsFiniteSet(s) /\ Cardinality(s) \in Nat
      BY <1>2, FS_Subset, FS_CardinalityType
    <3>2. Cardinality(rest) = Cardinality(s) - 1
      <4> HIDE DEF c
      <4> QED
        BY <2>1, <3>1, FS_RemoveElement
    <3> HIDE DEF rest
    <3> QED
      BY <3>1, <3>2
  <2>4. Adds(rest)
    BY <1>2, <2>1, <2>3
  <2>5. g[rest \cup {x}] = t[x].quantity + g[rest] /\ g[rest \cup {c}] = t[c].quantity + g[rest]
    BY <2>1, <2>4
  <2>6. g[rest] \in Nat /\ t[x].quantity \in Nat /\ t[c].quantity \in Nat
    BY <2>1, <1>3, <1>2, SumIsNat
  <2>7. g[both] # t[x].quantity + g[s]
    BY <1>3
  <2> HIDE DEF rest, c, both
  <2>8. g[both] = t[c].quantity + (t[x].quantity + g[rest]) /\ g[s] = t[c].quantity + g[rest]
    BY <1>5, <2>2, <2>5
  <2> QED
    BY <2>6, <2>7, <2>8
<1> QED
  BY <1>6, <1>7

LEMMA TotalOfTable ==
    ASSUME NEW t, IsFiniteSet(DOMAIN t)
    PROVE  \E g : SumOn(t, DOMAIN t, g) /\ Total(t) = g[DOMAIN t]
<1>1. SumOn(t, DOMAIN t, CHOOSE g : SumOn(t, DOMAIN t, g))
  BY SumExists
<1> QED
  BY <1>1 DEF Total

LEMMA TotalEmpty ==
    ASSUME NEW t, DOMAIN t = {}
    PROVE  Total(t) = 0
<1>1. IsFiniteSet(DOMAIN t)
  BY FS_EmptySet
<1>2. PICK g : SumOn(t, DOMAIN t, g) /\ Total(t) = g[DOMAIN t]
  BY <1>1, TotalOfTable
<1> QED
  BY <1>2, SumRule DEF SumsUp

LEMMA TotalSame ==
    ASSUME NEW t, NEW v, IsFiniteSet(DOMAIN t), DOMAIN v = DOMAIN t,
           \A x \in DOMAIN t : t[x].quantity = v[x].quantity
    PROVE  Total(t) = Total(v)
<1>1. PICK g : SumOn(t, DOMAIN t, g) /\ Total(t) = g[DOMAIN t]
  BY TotalOfTable
<1>2. PICK h : SumOn(v, DOMAIN v, h) /\ Total(v) = h[DOMAIN v]
  BY TotalOfTable
<1>3. \A s \in SUBSET DOMAIN t : g[s] = h[s]
  BY <1>1, <1>2, SumsAgree
<1> QED
  BY <1>1, <1>2, <1>3

\* One trade more, of which v is the table with it.
LEMMA TotalMore ==
    ASSUME NEW t, NEW v, IsFiniteSet(DOMAIN t), NEW id, id \notin DOMAIN t,
           DOMAIN v = DOMAIN t \cup {id},
           \A x \in DOMAIN t : t[x].quantity = v[x].quantity,
           \A x \in DOMAIN v : v[x].quantity \in Nat
    PROVE  Total(v) = Total(t) + v[id].quantity /\ Total(t) \in Nat
<1>1. IsFiniteSet(DOMAIN v)
  BY FS_AddElement
<1>2. PICK g : SumOn(t, DOMAIN t, g) /\ Total(t) = g[DOMAIN t]
  BY TotalOfTable
<1>3. PICK h : SumOn(v, DOMAIN v, h) /\ Total(v) = h[DOMAIN v]
  BY <1>1, TotalOfTable
<1>4. g[DOMAIN t] = h[DOMAIN t]
  <2>1. DOMAIN t \subseteq DOMAIN v
    OBVIOUS
  <2>2. \A s \in SUBSET DOMAIN t : g[s] = h[s]
    BY <1>2, <1>3, <2>1, SumsAgree
  <2> QED
    BY <2>2
<1>5. h[DOMAIN t \cup {id}] = v[id].quantity + h[DOMAIN t] /\ h[DOMAIN t] \in Nat
  <2>1. DOMAIN t \in SUBSET DOMAIN v /\ id \in DOMAIN v \ DOMAIN t
    OBVIOUS
  <2>2. SumsAdd(v, DOMAIN v, h)
    BY <1>1, <1>3, SumAdds
  <2>3. \A s \in SUBSET DOMAIN v : h[s] \in Nat
    BY <1>1, <1>3, SumIsNat
  <2> QED
    BY <2>1, <2>2, <2>3 DEF SumsAdd
<1>6. v[id].quantity \in Nat
  OBVIOUS
<1> QED
  BY <1>2, <1>3, <1>4, <1>5, <1>6

-----------------------------------------------------------------------------
(***************************************************************************)
(* The volume: the tape is the table of the printed matches that stand, and *)
(* the volume is its total.                                                *)
(***************************************************************************)
Standing == {id \in DOMAIN recorded : ~recorded[id].busted /\ recorded[id].printable}

TapeOfRecord ==
    /\ DOMAIN tape = Standing /\ IsFiniteSet(DOMAIN tape)
    /\ \A id \in DOMAIN tape : /\ tape[id].quantity = recorded[id].quantity
                               /\ tape[id].quantity \in Nat

LEMMA TapeRecorded == ItchInv /\ VolumeInv /\ ~faulted => TapeOfRecord
<1> SUFFICES ASSUME MatchTables, VolumeInv PROVE TapeOfRecord
  BY DEF ItchInv
<1>1. DOMAIN tape = {i \in DOMAIN matches : matches[i].emitted}
  BY DEF MatchTables
<1>2. \A id \in DOMAIN tape : tape[id] = matches[id]
  BY <1>1 DEF MatchTables
<1>3. DOMAIN tape = Standing
  BY <1>1 DEF MatchTables, Standing
<1>4. Standing \subseteq DOMAIN recorded /\ IsFiniteSet(DOMAIN recorded)
  BY DEF Standing, MatchTables
<1>5. IsFiniteSet(DOMAIN tape)
  BY <1>3, <1>4, FS_Subset
<1>6. ASSUME NEW id \in DOMAIN tape
      PROVE  tape[id].quantity = recorded[id].quantity /\ tape[id].quantity \in Nat
  <2>1. id \in DOMAIN matches /\ id \in DOMAIN recorded
    BY <1>1, <1>3, <1>4
  <2>2. recorded[id].quantity = matches[id].quantity /\ recorded[id].quantity \in Nat
    BY <2>1 DEF MatchTables, VolumeInv
  <2> QED
    BY <1>2, <2>2
<1> QED
  BY <1>3, <1>5, <1>6 DEF TapeOfRecord

VolumeIsTotal == ~faulted => net_volume = Total(tape)

LEMMA TotalIs == NetVolumeIsTape <=> VolumeIsTotal
BY DEF NetVolumeIsTape, VolumeIsTotal, Total, SumOn, MapThenSumSet, MapThenFoldSet

\* The tape keeps its total when the record of every printed match is kept.
LEMMA StandingKept ==
    ASSUME TapeOfRecord, TapeOfRecord', Standing' = Standing, net_volume = Total(tape),
           \A id \in Standing : recorded'[id].quantity = recorded[id].quantity,
           net_volume' = net_volume
    PROVE  net_volume' = Total(tape')
<1>1. /\ IsFiniteSet(DOMAIN tape) /\ DOMAIN tape' = DOMAIN tape
      /\ \A id \in DOMAIN tape : tape[id].quantity = tape'[id].quantity
  BY DEF TapeOfRecord
<1>2. Total(tape) = Total(tape')
  <2>1. PICK t, v : t = tape /\ v = tape'
    OBVIOUS
  <2>2. /\ IsFiniteSet(DOMAIN t) /\ DOMAIN v = DOMAIN t
        /\ \A id \in DOMAIN t : t[id].quantity = v[id].quantity
    BY <1>1, <2>1
  <2>3. Total(t) = Total(v)
    BY <2>2, TotalSame
  <2> QED
    BY <2>1, <2>3
<1> QED
  BY <1>2

\* A match more on the first tape than on the second.
LEMMA OneMore ==
    ASSUME NEW t, NEW v, NEW id, IsFiniteSet(DOMAIN t), id \notin DOMAIN t,
           DOMAIN v = DOMAIN t \cup {id},
           \A x \in DOMAIN t : t[x].quantity = v[x].quantity,
           \A x \in DOMAIN v : v[x].quantity \in Nat
    PROVE  /\ Total(v) = Total(t) + v[id].quantity
           /\ Total(t) = Total(v) - v[id].quantity
<1>1. Total(v) = Total(t) + v[id].quantity /\ Total(t) \in Nat
  BY TotalMore
<1>2. v[id].quantity \in Nat
  OBVIOUS
<1> QED
  BY <1>1, <1>2

LEMMA VolumeStep ==
    ASSUME ItchInv, TapeOfRecord, TapeOfRecord', VolumeInv, net_volume = Total(tape),
           NEW m \in Messages, Ingest(m)
    PROVE  net_volume' = Total(tape')
<1> DEFINE e == on_message(m).update
<1>1. /\ recorded' = apply(e).recorded /\ net_volume' = apply(e).volume
      /\ MatchTables
  BY DEF Ingest, ItchInv
<1>2. \/ e = NoUpdate \/ e.action \in {"Add", "Reduce", "Delete", "Replace"}
      \/ e.action = "TradeBust" \/ (e.action \in {"Execution", "Trade"} /\ e.quantity \in Nat)
  BY UpdateKinds
<1> HIDE DEF e
<1>3. ASSUME recorded' = recorded, net_volume' = net_volume
      PROVE  net_volume' = Total(tape')
  <2>1. Standing' = Standing
    BY <1>3 DEF Standing
  <2> QED
    BY <1>3, <2>1, StandingKept
<1>4. CASE e = NoUpdate \/ e.action \in {"Add", "Reduce", "Delete", "Replace"}
  <2>1. apply(e).recorded = recorded /\ apply(e).volume = net_volume
    BY <1>4 DEF apply, Refused, NoUpdate
  <2> QED
    BY <1>1, <1>3, <2>1
<1>5. CASE e.action = "TradeBust" /\ ~Bustable(e)
  <2>1. apply(e).recorded = recorded /\ apply(e).volume = net_volume
    BY <1>5 DEF apply, Refused
  <2> QED
    BY <1>1, <1>3, <2>1
<1>6. CASE e.action = "TradeBust" /\ Bustable(e)
  <2>1. recorded' = [recorded EXCEPT ![e.match].busted = TRUE]
        /\ net_volume' = VolumeAfterBust(e)
    BY <1>1, <1>6 DEF apply
  <2>2. e.match \in DOMAIN recorded /\ RecordEntry(recorded[e.match])
        /\ ~recorded[e.match].busted
    BY <1>1, <1>6 DEF Bustable, MatchTables
  <2>3. recorded'[e.match] = [recorded[e.match] EXCEPT !.busted = TRUE]
    BY <2>1, <2>2
  <2>4. recorded'[e.match].busted
    BY <2>2, <2>3 DEF RecordEntry, Record
  <2>5. DOMAIN recorded' = DOMAIN recorded
        /\ \A id \in DOMAIN recorded : id # e.match => recorded'[id] = recorded[id]
    BY <2>1
  <2>6. Standing' = Standing \ {e.match}
    BY <2>2, <2>4, <2>5 DEF Standing
  <2>7. Standing \subseteq DOMAIN recorded
    BY DEF Standing
  <2>8. CASE recorded[e.match].printable
    <3>1. e.match \in Standing
      BY <2>2, <2>8 DEF Standing
    <3>2. PICK t, v, id : t = tape' /\ v = tape /\ id = e.match
      OBVIOUS
    <3>3. DOMAIN tape = DOMAIN tape' \cup {e.match} /\ e.match \notin DOMAIN tape'
          /\ IsFiniteSet(DOMAIN tape')
      BY <2>6, <3>1 DEF TapeOfRecord
    <3>4. \A x \in DOMAIN tape' : tape'[x].quantity = tape[x].quantity
      <4>1. \A x \in DOMAIN tape' : x # e.match /\ x \in DOMAIN tape /\ x \in DOMAIN recorded
        BY <3>3, <2>7 DEF TapeOfRecord
      <4>2. \A x \in DOMAIN tape' : recorded'[x] = recorded[x]
        BY <2>5, <4>1
      <4> QED
        BY <4>1, <4>2 DEF TapeOfRecord
    <3>5. \A x \in DOMAIN tape : tape[x].quantity \in Nat
      BY DEF TapeOfRecord
    <3>6. Total(t) = Total(v) - v[id].quantity
      BY <3>2, <3>3, <3>4, <3>5, OneMore
    <3>7. tape[e.match].quantity = recorded[e.match].quantity
      BY <3>1 DEF TapeOfRecord
    <3>8. net_volume' = net_volume - recorded[e.match].quantity
      BY <2>1, <2>8 DEF VolumeAfterBust
    <3> QED
      BY <3>2, <3>6, <3>7, <3>8
  <2>9. CASE ~recorded[e.match].printable
    <3>1. Standing' = Standing /\ e.match \notin Standing
      BY <2>6, <2>9 DEF Standing
    <3>2. \A id \in Standing : recorded'[id].quantity = recorded[id].quantity
      BY <2>5, <2>7, <3>1
    <3>3. net_volume' = net_volume
      BY <2>1, <2>9 DEF VolumeAfterBust
    <3> QED
      BY <3>1, <3>2, <3>3, StandingKept
  <2> QED
    BY <2>8, <2>9
<1>7. CASE e.action \in {"Execution", "Trade"} /\ ~(BookAccepts(e) /\ Recordable(e))
  <2>1. apply(e).recorded = recorded /\ apply(e).volume = net_volume
    BY <1>7 DEF apply, Refused
  <2> QED
    BY <1>1, <1>3, <2>1
<1>8. CASE /\ e.action \in {"Execution", "Trade"} /\ e.quantity \in Nat
           /\ BookAccepts(e) /\ Recordable(e)
  <2>1. recorded' = Recorded(e) /\ net_volume' = VolumeAfterRecord(e)
    BY <1>1, <1>8 DEF apply
  <2>2. CASE e.match \in DOMAIN recorded
    BY <1>3, <2>1, <2>2 DEF Recorded, VolumeAfterRecord
  <2>3. CASE e.match \notin DOMAIN recorded
    <3> DEFINE r == [quantity |-> e.quantity, printable |-> e.printable, busted |-> FALSE]
    <3>1. recorded' = Put(recorded, e.match, r)
      BY <2>1, <2>3 DEF Recorded
    <3>2. r.quantity = e.quantity /\ r.printable = e.printable /\ ~r.busted
      OBVIOUS
    <3> HIDE DEF r
    <3>3. /\ DOMAIN recorded' = DOMAIN recorded \cup {e.match} /\ recorded'[e.match] = r
          /\ \A id \in DOMAIN recorded : recorded'[id] = recorded[id]
      BY <2>3, <3>1 DEF Put
    <3>4. Standing \subseteq DOMAIN recorded
      BY DEF Standing
    <3>5. CASE e.printable
      <4>1. Standing' = Standing \cup {e.match} /\ e.match \notin Standing
        BY <2>3, <3>2, <3>3, <3>5 DEF Standing
      <4>2. PICK t, v, id : t = tape /\ v = tape' /\ id = e.match
        OBVIOUS
      <4>3. DOMAIN tape' = DOMAIN tape \cup {e.match} /\ e.match \notin DOMAIN tape
            /\ IsFiniteSet(DOMAIN tape)
        BY <4>1 DEF TapeOfRecord
      <4>4. \A x \in DOMAIN tape : tape[x].quantity = tape'[x].quantity
        BY <3>3, <3>4, <4>3 DEF TapeOfRecord
      <4>5. \A x \in DOMAIN tape' : tape'[x].quantity \in Nat
        BY DEF TapeOfRecord
      <4>6. Total(v) = Total(t) + v[id].quantity
        BY <4>2, <4>3, <4>4, <4>5, OneMore
      <4>7. tape'[e.match].quantity = e.quantity
        BY <3>2, <3>3, <4>3 DEF TapeOfRecord
      <4>8. net_volume' = net_volume + e.quantity
        BY <2>1, <2>3, <3>5 DEF VolumeAfterRecord
      <4> QED
        BY <4>2, <4>6, <4>7, <4>8
    <3>6. CASE ~e.printable
      <4>1. Standing' = Standing
        BY <2>3, <3>2, <3>3, <3>6 DEF Standing
      <4>2. \A id \in Standing : recorded'[id].quantity = recorded[id].quantity
        BY <3>3, <3>4
      <4>3. net_volume' = net_volume
        BY <2>1, <3>6 DEF VolumeAfterRecord
      <4> QED
        BY <4>1, <4>2, <4>3, StandingKept
    <3> QED
      BY <3>5, <3>6
  <2> QED
    BY <2>2, <2>3
<1> QED
  BY <1>2, <1>4, <1>5, <1>6, <1>7, <1>8

\* Until the feed faults, net_volume_ is the sum of the quantities a listener
\* of the adapter's transactions still holds: record() counts a match once,
\* whichever of its two executions comes first, a bust takes back exactly what
\* was counted, and a trade that was not printable is never counted.
THEOREM VolumeFollowsTape == ItchSpec => []NetVolumeIsTape
<1>1. ItchInit => VolumeIsTotal
  <2> SUFFICES ASSUME ItchInit PROVE net_volume = Total(tape)
    BY DEF VolumeIsTotal
  <2>1. DOMAIN tape = {} /\ net_volume = 0
    BY DEF ItchInit, Empty
  <2> QED
    BY <2>1, TotalEmpty
<1>2. /\ ItchInv /\ VolumeInv /\ (~faulted => TapeOfRecord) /\ (~faulted => TapeOfRecord)'
      /\ VolumeIsTotal /\ [ItchNext]_itch
      => VolumeIsTotal'
  <2> SUFFICES ASSUME ItchInv, VolumeInv, ~faulted => TapeOfRecord, ~faulted' => TapeOfRecord',
                      VolumeIsTotal, [ItchNext]_itch, ~faulted'
               PROVE  net_volume' = Total(tape')
    BY DEF VolumeIsTotal
  <2>1. CASE UNCHANGED itch
    BY <2>1 DEF itch, VolumeIsTotal
  <2>2. CASE ItchNext
    <3>1. PICK m \in Messages : Ingest(m)
      BY <2>2 DEF ItchNext, OfType
    <3>2. ~faulted
      BY <3>1 DEF Ingest
    <3>3. net_volume = Total(tape) /\ TapeOfRecord /\ TapeOfRecord'
      BY <3>2 DEF VolumeIsTotal
    <3> QED
      BY <3>1, <3>3, VolumeStep
  <2> QED
    BY <2>1, <2>2
<1>3. ItchSpec => []VolumeIsTotal
  BY <1>1, <1>2, TapeRecorded, ItchInvariance, VolumeInvariance, PTL DEF ItchSpec
<1> QED
  BY <1>3, TotalIs, PTL
=============================================================================
