---------------- MODULE NasdaqItchUftDifferentialReplayProofs ----------------
(***************************************************************************)
(* Theorems about the differential replay: for every day of messages and   *)
(* every capacity the audit follows the reference, and the two adapters    *)
(* agree as AdaptersAgree says.                                            *)
(***************************************************************************)
EXTENDS NasdaqItchUftDifferentialReplay, TLAPS

\* What the tables hold are records of the fields Order and Match give them.
IsOrder(order) ==
    order = Order(order.price, order.remaining, order.side) /\ order.remaining \in Int
IsMatch(match) ==
    match = Match(match.price, match.quantity, match.order, match.side, match.emitted)
IsTable(table) == table = [id \in DOMAIN table |-> table[id]]

TablesOK ==
    /\ IsTable(reference_orders) /\ IsTable(reference_matches)
    /\ \A id \in DOMAIN reference_orders : IsOrder(reference_orders[id])
    /\ \A id \in DOMAIN reference_matches : IsMatch(reference_matches[id])

-----------------------------------------------------------------------------
(***************************************************************************)
(* The operators on tables, and the reading of a reference table the UFT   *)
(* way.                                                                    *)
(***************************************************************************)

\* An entry of a table, read the UFT way.
LEMMA UftOrder ==
  ASSUME NEW table, NEW id \in DOMAIN table, IsOrder(table[id])
  PROVE  UftTable(table)[id]
           = Order(table[id].price, table[id].remaining, side_of(table[id].side))
  BY DEF UftTable, AsUft, IsOrder, Order

LEMMA UftMatch ==
  ASSUME NEW table, NEW id \in DOMAIN table, IsMatch(table[id])
  PROVE  UftTable(table)[id]
           = Match(table[id].price, table[id].quantity, table[id].order,
                   side_of(table[id].side), table[id].emitted)
  BY DEF UftTable, AsUft, IsMatch, Match

LEMMA NewOrder ==
  ASSUME NEW price, NEW remaining, NEW side
  PROVE  /\ AsUft(Order(price, remaining, side)) = Order(price, remaining, side_of(side))
         /\ remaining \in Int => IsOrder(Order(price, remaining, side))
  BY DEF AsUft, IsOrder, Order

LEMMA NewMatch ==
  ASSUME NEW price, NEW quantity, NEW order, NEW side, NEW emitted
  PROVE  /\ AsUft(Match(price, quantity, order, side, emitted))
              = Match(price, quantity, order, side_of(side), emitted)
         /\ IsMatch(Match(price, quantity, order, side, emitted))
  BY DEF AsUft, IsMatch, Match

\* Reading the UFT way commutes with what a handler does to a table.
LEMMA UftPut ==
  ASSUME NEW table, NEW id, NEW entry
  PROVE  UftTable(Put(table, id, entry)) = Put(UftTable(table), id, AsUft(entry))
  <1> DEFINE new == Put(table, id, entry)
  <1>1. DOMAIN new = DOMAIN table \cup {id}  BY DEF Put
  <1>2. \A k \in DOMAIN new : new[k] = IF k = id THEN entry ELSE table[k]  BY DEF Put
  <1>3. DOMAIN UftTable(table) = DOMAIN table
        /\ \A k \in DOMAIN table : UftTable(table)[k] = AsUft(table[k])
    BY DEF UftTable
  <1>4. UftTable(new) = [k \in DOMAIN table \cup {id} |->
                           IF k = id THEN AsUft(entry) ELSE AsUft(table[k])]
    <2> HIDE DEF new
    <2> QED  BY <1>1, <1>2 DEF UftTable
  <1>5. Put(UftTable(table), id, AsUft(entry))
          = [k \in DOMAIN table \cup {id} |->
                IF k = id THEN AsUft(entry) ELSE AsUft(table[k])]
    BY <1>3 DEF Put
  <1> QED  BY <1>4, <1>5

LEMMA UftDrop ==
  ASSUME NEW table, NEW id
  PROVE  UftTable(Drop(table, id)) = Drop(UftTable(table), id)
  BY DEF UftTable, Drop

LEMMA UftReduced ==
  ASSUME NEW table, NEW id \in DOMAIN table, NEW quantity, IsTable(table),
         \A k \in DOMAIN table : IsOrder(table[k])
  PROVE  UftTable(Reduced(table, id, quantity)) = Reduced(UftTable(table), id, quantity)
  <1> DEFINE left == [table EXCEPT ![id].remaining = @ - quantity]
             uft == UftTable(table)
  <1>1. DOMAIN uft = DOMAIN table /\ \A k \in DOMAIN table : uft[k] = AsUft(table[k])
    BY DEF UftTable
  <1>2. uft[id].remaining = table[id].remaining
    <2>1. uft[id] = Order(table[id].price, table[id].remaining, side_of(table[id].side))
      BY UftOrder
    <2> QED  BY <2>1 DEF Order
  <1>3. DOMAIN left = DOMAIN table
        /\ \A k \in DOMAIN table : k # id => left[k] = table[k]
        /\ left[id] = [table[id] EXCEPT !.remaining = @ - quantity]
    BY DEF IsTable
  <1>4. AsUft(left[id]) = [AsUft(table[id]) EXCEPT !.remaining = @ - quantity]
    <2>1. table[id] = Order(table[id].price, table[id].remaining, table[id].side)
      BY DEF IsOrder
    <2>2. left[id] = Order(table[id].price, table[id].remaining - quantity, table[id].side)
      BY <2>1, <1>3 DEF Order
    <2>3. AsUft(left[id]) = Order(table[id].price, table[id].remaining - quantity,
                                  side_of(table[id].side))
      BY <2>2, NewOrder
    <2>4. AsUft(table[id]) = Order(table[id].price, table[id].remaining,
                                   side_of(table[id].side))
      BY <2>1, NewOrder
    <2>5. [AsUft(table[id]) EXCEPT !.remaining = @ - quantity]
            = Order(table[id].price, table[id].remaining - quantity,
                    side_of(table[id].side))
      BY <2>4 DEF Order
    <2> QED  BY <2>3, <2>5
  <1>5. UftTable(left) = [uft EXCEPT ![id].remaining = @ - quantity]
    <2>1. [uft EXCEPT ![id].remaining = @ - quantity]
            = [k \in DOMAIN table |->
                 IF k = id THEN [uft[id] EXCEPT !.remaining = @ - quantity] ELSE uft[k]]
      BY <1>1
    <2>2. UftTable(left) = [k \in DOMAIN table |-> AsUft(left[k])]
      BY <1>3 DEF UftTable
    <2> HIDE DEF left, uft
    <2>3. \A k \in DOMAIN table :
            AsUft(left[k]) = IF k = id THEN [uft[id] EXCEPT !.remaining = @ - quantity]
                             ELSE uft[k]
      BY <1>1, <1>3, <1>4
    <2> QED  BY <2>1, <2>2, <2>3
  <1>6. CASE table[id].remaining = quantity
    BY <1>2, <1>6, UftDrop DEF Reduced
  <1>7. CASE table[id].remaining # quantity
    BY <1>2, <1>5, <1>7 DEF Reduced
  <1> QED  BY <1>6, <1>7

\* What is put into, dropped from or taken off a table leaves a table.
LEMMA TableKept ==
  ASSUME NEW table, IsTable(table), NEW id, NEW entry, NEW quantity
  PROVE  IsTable(Put(table, id, entry)) /\ IsTable(Drop(table, id))
         /\ IsTable(Reduced(table, id, quantity))
  BY DEF IsTable, Put, Drop, Reduced

LEMMA OrdersKept ==
  ASSUME NEW table, IsTable(table), \A k \in DOMAIN table : IsOrder(table[k]),
         NEW id, NEW order, IsOrder(order), NEW quantity \in Int
  PROVE  /\ \A k \in DOMAIN Put(table, id, order) : IsOrder(Put(table, id, order)[k])
         /\ \A k \in DOMAIN Drop(table, id) : IsOrder(Drop(table, id)[k])
         /\ \A k \in DOMAIN Reduced(table, id, quantity) :
               IsOrder(Reduced(table, id, quantity)[k])
  <1> DEFINE left == [table EXCEPT ![id].remaining = @ - quantity]
  <1>1. \A k \in DOMAIN Put(table, id, order) : IsOrder(Put(table, id, order)[k])
    BY DEF Put
  <1>2. \A k \in DOMAIN Drop(table, id) : IsOrder(Drop(table, id)[k])  BY DEF Drop
  <1>3. \A k \in DOMAIN left : IsOrder(left[k])
    <2> TAKE k \in DOMAIN left
    <2>1. DOMAIN left = DOMAIN table /\ (k # id => left[k] = table[k])
          /\ (k = id => left[k] = [table[k] EXCEPT !.remaining = @ - quantity])
      BY DEF IsTable
    <2>2. table[k] = Order(table[k].price, table[k].remaining, table[k].side)
      BY <2>1 DEF IsOrder
    <2> HIDE DEF left
    <2>3. [table[k] EXCEPT !.remaining = @ - quantity]
            = Order(table[k].price, table[k].remaining - quantity, table[k].side)
      BY <2>2 DEF Order
    <2>4. table[k].remaining - quantity \in Int /\ IsOrder(table[k])  BY <2>1 DEF IsOrder
    <2>5. IsOrder(Order(table[k].price, table[k].remaining - quantity, table[k].side))
      BY <2>4, NewOrder
    <2> QED  BY <2>1, <2>3, <2>4, <2>5
  <1> QED  BY <1>1, <1>2, <1>3 DEF Reduced

LEMMA MatchesKept ==
  ASSUME NEW table, \A k \in DOMAIN table : IsMatch(table[k]), NEW id, NEW match,
         IsMatch(match)
  PROVE  /\ \A k \in DOMAIN Put(table, id, match) : IsMatch(Put(table, id, match)[k])
         /\ \A k \in DOMAIN Drop(table, id) : IsMatch(Drop(table, id)[k])
  BY DEF Put, Drop

-----------------------------------------------------------------------------
(***************************************************************************)
(* The three components take their operators from NasdaqItch50.            *)
(***************************************************************************)

LEMMA CandidateOperators ==
  ASSUME NEW f, NEW k, NEW v, NEW a, NEW b, NEW c, NEW d, NEW e
  PROVE  /\ Candidate!Put(f, k, v) = Put(f, k, v) /\ Candidate!Drop(f, k) = Drop(f, k)
         /\ Candidate!side_of(a) = side_of(a) /\ Candidate!Order(a, b, c) = Order(a, b, c)
         /\ Candidate!Match(a, b, c, d, e) = Match(a, b, c, d, e)
         /\ Candidate!Detail(a, b) = Detail(a, b)
         /\ Candidate!Transaction(a, b, c, d, e, f) = Transaction(a, b, c, d, e, f)
         /\ Candidate!Reduced(a, b, c) = Reduced(a, b, c)
         /\ Candidate!Reducible(a, b, c) = Reducible(a, b, c)
  BY DEF Candidate!Put, Candidate!Drop, Candidate!side_of, Candidate!Order,
         Candidate!Match, Candidate!Detail, Candidate!Transaction, Candidate!Reduced,
         Candidate!Reducible, Put, Drop, side_of, Order, Match, Detail, Transaction,
         Reduced, Reducible

LEMMA ReferenceOperators ==
  ASSUME NEW f, NEW k, NEW v, NEW a, NEW b, NEW c, NEW d, NEW e
  PROVE  /\ Reference!Put(f, k, v) = Put(f, k, v) /\ Reference!Drop(f, k) = Drop(f, k)
         /\ Reference!side_of(a) = side_of(a) /\ Reference!Order(a, b, c) = Order(a, b, c)
         /\ Reference!Match(a, b, c, d, e) = Match(a, b, c, d, e)
         /\ Reference!Detail(a, b) = Detail(a, b)
         /\ Reference!Transaction(a, b, c, d, e, f) = Transaction(a, b, c, d, e, f)
         /\ Reference!Reduced(a, b, c) = Reduced(a, b, c)
         /\ Reference!Reducible(a, b, c) = Reducible(a, b, c)
  BY DEF Reference!Put, Reference!Drop, Reference!side_of, Reference!Order,
         Reference!Match, Reference!Detail, Reference!Transaction, Reference!Reduced,
         Reference!Reducible, Put, Drop, side_of, Order, Match, Detail, Transaction,
         Reduced, Reducible

LEMMA AuditOperators ==
  ASSUME NEW f, NEW k, NEW v, NEW a, NEW b, NEW c
  PROVE  /\ Audit!Put(f, k, v) = Put(f, k, v) /\ Audit!Drop(f, k) = Drop(f, k)
         /\ Audit!Order(a, b, c) = Order(a, b, c)
         /\ Audit!Reduced(a, b, c) = Reduced(a, b, c)
  BY DEF Audit!Put, Audit!Drop, Audit!Order, Audit!Reduced, Put, Drop, Order, Reduced

-----------------------------------------------------------------------------
(***************************************************************************)
(* The audit.                                                              *)
(***************************************************************************)

\* What one outcome of an adapter of the reference is made of.
Outcome(orders, matches, details, transactions, counted) ==
    [orders |-> orders, matches |-> matches, details |-> details,
     transactions |-> transactions, counted |-> counted]

LEMMA OutcomeExcept ==
  ASSUME NEW o, NEW ms, NEW d, NEW t, NEW c, NEW left, NEW kept, NEW details
  PROVE  /\ [Outcome(o, ms, d, t, c) EXCEPT !.orders = left] = Outcome(left, ms, d, t, c)
         /\ [Outcome(o, ms, d, t, c) EXCEPT !.matches = kept] = Outcome(o, kept, d, t, c)
         /\ [Outcome(o, ms, d, t, c) EXCEPT !.details = details]
              = Outcome(o, ms, details, t, c)
  BY DEF Outcome

LEMMA ReferenceUnchanged ==
  Reference!Unchanged = Outcome(reference_orders, reference_matches, <<>>, <<>>, "none")
  BY DEF Reference!Unchanged, Outcome

LEMMA ReferenceCounted ==
  ASSUME NEW counter
  PROVE  Reference!Counted(counter)
           = Outcome(reference_orders, reference_matches, <<>>, <<>>, counter)
  BY ReferenceUnchanged DEF Reference!Counted, Outcome

LEMMA ReferenceEmitted ==
  ASSUME NEW type, NEW id, NEW side, NEW price, NEW volume, NEW order
  PROVE  Reference!Emitted(type, id, side, price, volume, order)
           = IF volume = 0 \/ order = MaxId
             THEN Outcome(reference_orders, reference_matches, <<>>, <<>>, "errors")
             ELSE Outcome(reference_orders, reference_matches, <<>>,
                     <<Transaction(type, id, side_of(side), price, volume, order)>>, "none")
  <1>1. Reference!Transaction(type, id, Reference!side_of(side), price, volume, order)
          = Transaction(type, id, side_of(side), price, volume, order)
    BY DEF Reference!Transaction, Transaction, Reference!side_of, side_of
  <1>2. Reference!Emitted(type, id, side, price, volume, order)
          = IF volume = 0 \/ order = MaxId THEN Reference!Counted("errors")
            ELSE [Reference!Unchanged EXCEPT !.transactions =
                    <<Transaction(type, id, side_of(side), price, volume, order)>>]
    BY <1>1 DEF Reference!Emitted
  <1> QED  BY <1>2, ReferenceUnchanged, ReferenceCounted DEF Outcome

\* The trade that is published for a match of the reference.
Trade(id, match) ==
    <<Transaction("Trade", id, side_of(match.side), match.price, match.quantity, match.order)>>

LEMMA ReferenceFirstPrint ==
  ASSUME NEW id, NEW match
  PROVE  Reference!FirstPrint(id, match)
           = IF id = MaxId \/ match.quantity = 0 \/ match.order = MaxId
             THEN Outcome(reference_orders, reference_matches, <<>>, <<>>, "errors")
             ELSE Outcome(reference_orders, reference_matches, <<>>, Trade(id, match), "none")
  <1>1. Reference!Emitted("Trade", id, match.side, match.price, match.quantity, match.order)
          = IF match.quantity = 0 \/ match.order = MaxId
            THEN Outcome(reference_orders, reference_matches, <<>>, <<>>, "errors")
            ELSE Outcome(reference_orders, reference_matches, <<>>, Trade(id, match), "none")
    BY ReferenceEmitted DEF Trade
  <1> QED  BY <1>1, ReferenceCounted DEF Reference!FirstPrint

(***************************************************************************)
(* The handlers of the reference.                                          *)
(***************************************************************************)
Refused == Outcome(reference_orders, reference_matches, <<>>, <<>>, "errors")

InvalidAdd(m) ==
    \/ m.order = NoId \/ m.quantity = 0 \/ m.price = 0 \/ m.side \notin {"B", "S"}
    \/ m.order \in DOMAIN reference_orders

LEMMA ReferenceAdd ==
  ASSUME NEW m, m.type = "A"
  PROVE  Reference!on_message(m)
           = IF InvalidAdd(m) THEN Refused
             ELSE Outcome(Put(reference_orders, m.order, Order(m.price, m.quantity, m.side)),
                          reference_matches,
                          <<Detail(m.order, Order(m.price, m.quantity, m.side))>>, <<>>,
                          "none")
  <1>1. Reference!on_message(m) = Reference!add(m)  BY DEF Reference!on_message
  <1> DEFINE order == Order(m.price, m.quantity, m.side)
  <1>2. Reference!Order(m.price, m.quantity, m.side) = order
        /\ Reference!Put(reference_orders, m.order, order)
             = Put(reference_orders, m.order, order)
        /\ Reference!Detail(m.order, order) = Detail(m.order, order)
    BY ReferenceOperators
  <1> HIDE DEF order
  <1>3. Reference!add(m)
          = IF InvalidAdd(m) THEN Reference!Counted("errors")
            ELSE [Reference!Unchanged EXCEPT !.orders = Put(reference_orders, m.order, order),
                                             !.details = <<Detail(m.order, order)>>]
    BY <1>2 DEF Reference!add, InvalidAdd
  <1>4. QED
    BY <1>1, <1>3, ReferenceUnchanged, ReferenceCounted DEF Outcome, Refused, order

\* The price and the print flag of an execution.
ExecutionPrice(m) == IF m.type = "C" THEN m.price ELSE reference_orders[m.order].price
Printable(m) == m.type # "C" \/ m.printable = "Y"
ExecutionMatch(m) ==
    Match(ExecutionPrice(m), m.quantity, m.order, reference_orders[m.order].side,
          Printable(m))
Emplaced(table, id, match) == IF id \in DOMAIN table THEN table ELSE Put(table, id, match)

\* The order shrinks and the match is kept whatever is published.
ExecuteOutcome(m, transactions, counted) ==
    Outcome(Reduced(reference_orders, m.order, m.quantity),
            Emplaced(reference_matches, m.match, ExecutionMatch(m)), <<>>, transactions,
            counted)

LEMMA ReferenceExecute ==
  ASSUME NEW m, m.type \in {"E", "C"}
  PROVE  Reference!on_message(m)
           = IF ~Reducible(reference_orders, m.order, m.quantity) THEN Refused
             ELSE IF ~Printable(m)
             THEN ExecuteOutcome(m, <<>>, "non_printable_suppressed")
             ELSE IF m.match \in DOMAIN reference_matches
             THEN ExecuteOutcome(m, <<>>, "duplicate_matches_suppressed")
             ELSE IF m.match = MaxId \/ m.quantity = 0 \/ m.order = MaxId
             THEN ExecuteOutcome(m, <<>>, "errors")
             ELSE ExecuteOutcome(m, Trade(m.match, ExecutionMatch(m)), "none")
  <1> DEFINE orders == Reduced(reference_orders, m.order, m.quantity)
             match == ExecutionMatch(m)
             matches == Emplaced(reference_matches, m.match, match)
             print == IF ~Printable(m) THEN Reference!Counted("non_printable_suppressed")
                      ELSE IF m.match \in DOMAIN reference_matches
                      THEN Reference!Counted("duplicate_matches_suppressed")
                      ELSE Reference!FirstPrint(m.match, match)
             trade == Trade(m.match, match)
  <1>1. Reference!on_message(m) = Reference!execute(m)  BY DEF Reference!on_message
  <1>2. Reference!Match(ExecutionPrice(m), m.quantity, m.order,
                        reference_orders[m.order].side, Printable(m)) = match
    BY ReferenceOperators DEF ExecutionMatch
  <1>3. Reference!Emplaced(m.match, match) = matches
    <2>1. Reference!Put(reference_matches, m.match, match)
            = Put(reference_matches, m.match, match)
      BY ReferenceOperators
    <2> QED  BY <2>1 DEF Reference!Emplaced, Emplaced
  <1>4. Reference!Executed(m) = orders
        /\ Reference!Reducible(reference_orders, m.order, m.quantity)
             = Reducible(reference_orders, m.order, m.quantity)
    <2>1. Reference!Reduced(reference_orders, m.order, m.quantity) = orders
      BY ReferenceOperators
    <2>2. Reference!Executed(m) = orders  BY <2>1 DEF Reference!Executed
    <2>3. Reference!Reducible(reference_orders, m.order, m.quantity)
             = Reducible(reference_orders, m.order, m.quantity)
      BY ReferenceOperators
    <2> QED  BY <2>2, <2>3
  <1>5. Reference!FirstPrint(m.match, match)
          = IF m.match = MaxId \/ m.quantity = 0 \/ m.order = MaxId THEN Refused
            ELSE Outcome(reference_orders, reference_matches, <<>>, trade, "none")
    <2>1. match.quantity = m.quantity /\ match.order = m.order
      BY DEF ExecutionMatch, Match
    <2> HIDE DEF match
    <2> QED  BY <2>1, ReferenceFirstPrint DEF Refused
  <1>6. Reference!execute(m)
          = IF ~Reducible(reference_orders, m.order, m.quantity)
            THEN Reference!Counted("errors")
            ELSE [print EXCEPT !.matches = matches, !.orders = orders]
    <2>1. print = IF ~Printable(m) THEN Reference!Counted("non_printable_suppressed")
                  ELSE IF m.match \in DOMAIN reference_matches
                  THEN Reference!Counted("duplicate_matches_suppressed")
                  ELSE Reference!FirstPrint(m.match, match)
      OBVIOUS
    <2> HIDE DEF print, match, matches, orders
    <2> QED  BY <2>1, <1>2, <1>3, <1>4 DEF Reference!execute, ExecutionPrice, Printable
  <1>7. /\ Reference!Counted("errors") = Refused
        /\ Reference!Counted("non_printable_suppressed")
             = Outcome(reference_orders, reference_matches, <<>>, <<>>,
                       "non_printable_suppressed")
        /\ Reference!Counted("duplicate_matches_suppressed")
             = Outcome(reference_orders, reference_matches, <<>>, <<>>,
                       "duplicate_matches_suppressed")
    BY ReferenceCounted DEF Refused
  <1>8. ASSUME NEW d, NEW t, NEW c
        PROVE  [Outcome(reference_orders, reference_matches, d, t, c)
                  EXCEPT !.matches = matches, !.orders = orders]
                 = Outcome(orders, matches, d, t, c)
    <2> HIDE DEF orders, matches
    <2>1. [Outcome(reference_orders, reference_matches, d, t, c)
             EXCEPT !.matches = matches, !.orders = orders]
            = [[Outcome(reference_orders, reference_matches, d, t, c)
                  EXCEPT !.matches = matches] EXCEPT !.orders = orders]
      OBVIOUS
    <2>2. [Outcome(reference_orders, reference_matches, d, t, c) EXCEPT !.matches = matches]
            = Outcome(reference_orders, matches, d, t, c)
      BY OutcomeExcept
    <2>3. [Outcome(reference_orders, matches, d, t, c) EXCEPT !.orders = orders]
            = Outcome(orders, matches, d, t, c)
      BY OutcomeExcept
    <2> QED  BY <2>1, <2>2, <2>3
  <1> HIDE DEF match, matches, orders, trade
  <1>9. Reference!execute(m)
          = IF ~Reducible(reference_orders, m.order, m.quantity) THEN Refused
            ELSE IF ~Printable(m)
            THEN Outcome(orders, matches, <<>>, <<>>, "non_printable_suppressed")
            ELSE IF m.match \in DOMAIN reference_matches
            THEN Outcome(orders, matches, <<>>, <<>>, "duplicate_matches_suppressed")
            ELSE IF m.match = MaxId \/ m.quantity = 0 \/ m.order = MaxId
            THEN Outcome(orders, matches, <<>>, <<>>, "errors")
            ELSE Outcome(orders, matches, <<>>, trade, "none")
    <2>1. CASE ~Reducible(reference_orders, m.order, m.quantity)
      BY <2>1, <1>6, <1>7
    <2> SUFFICES ASSUME Reducible(reference_orders, m.order, m.quantity)
                 PROVE  [print EXCEPT !.matches = matches, !.orders = orders]
                          = IF ~Printable(m)
                            THEN Outcome(orders, matches, <<>>, <<>>,
                                         "non_printable_suppressed")
                            ELSE IF m.match \in DOMAIN reference_matches
                            THEN Outcome(orders, matches, <<>>, <<>>,
                                         "duplicate_matches_suppressed")
                            ELSE IF m.match = MaxId \/ m.quantity = 0 \/ m.order = MaxId
                            THEN Outcome(orders, matches, <<>>, <<>>, "errors")
                            ELSE Outcome(orders, matches, <<>>, trade, "none")
      BY <1>6, <2>1
    <2>2. CASE ~Printable(m)
      <3>1. print = Outcome(reference_orders, reference_matches, <<>>, <<>>,
                            "non_printable_suppressed")
        BY <2>2, <1>7
      <3> HIDE DEF print
      <3> QED  BY <2>2, <3>1, <1>8
    <2>3. CASE Printable(m) /\ m.match \in DOMAIN reference_matches
      <3>1. print = Outcome(reference_orders, reference_matches, <<>>, <<>>,
                            "duplicate_matches_suppressed")
        BY <2>3, <1>7
      <3> HIDE DEF print
      <3> QED  BY <2>3, <3>1, <1>8
    <2>4. CASE Printable(m) /\ m.match \notin DOMAIN reference_matches
      <3>1. print = Reference!FirstPrint(m.match, match)  BY <2>4
      <3>2. CASE m.match = MaxId \/ m.quantity = 0 \/ m.order = MaxId
        <4>1. print = Outcome(reference_orders, reference_matches, <<>>, <<>>, "errors")
          BY <2>4, <3>1, <3>2, <1>5 DEF Refused
        <4> HIDE DEF print
        <4> QED  BY <2>4, <3>2, <4>1, <1>8
      <3>3. CASE ~(m.match = MaxId \/ m.quantity = 0 \/ m.order = MaxId)
        <4>1. print = Outcome(reference_orders, reference_matches, <<>>, trade, "none")
          BY <2>4, <3>1, <3>3, <1>5
        <4> HIDE DEF print
        <4> QED  BY <2>4, <3>3, <4>1, <1>8
      <3> QED  BY <3>2, <3>3
    <2> QED  BY <2>2, <2>3, <2>4
  <1> QED  BY <1>1, <1>9 DEF match, matches, orders, trade, ExecuteOutcome

\* What is left when an order is cancelled: the order is taken off whether
\* its cancel is published or not.
CancelOutcome(id, quantity, left, details) ==
    IF quantity = 0 \/ id = MaxId
    THEN Outcome(left, reference_matches, details, <<>>, "errors")
    ELSE Outcome(left, reference_matches, details,
            <<Transaction("Cancel", NoId, side_of(reference_orders[id].side),
                          reference_orders[id].price, quantity, id)>>, "none")

LEMMA ReferenceCancelled ==
  ASSUME NEW id, NEW quantity, NEW left
  PROVE  [Reference!Cancelled(id, quantity) EXCEPT !.orders = left]
           = CancelOutcome(id, quantity, left, <<>>)
  <1> DEFINE cancel == <<Transaction("Cancel", NoId, side_of(reference_orders[id].side),
                                     reference_orders[id].price, quantity, id)>>
  <1>1. Reference!Cancelled(id, quantity)
          = IF quantity = 0 \/ id = MaxId THEN Refused
            ELSE Outcome(reference_orders, reference_matches, <<>>, cancel, "none")
    BY ReferenceEmitted DEF Reference!Cancelled, Refused
  <1>2. CancelOutcome(id, quantity, left, <<>>)
          = IF quantity = 0 \/ id = MaxId
            THEN Outcome(left, reference_matches, <<>>, <<>>, "errors")
            ELSE Outcome(left, reference_matches, <<>>, cancel, "none")
    BY DEF CancelOutcome
  <1> HIDE DEF cancel
  <1> QED  BY <1>1, <1>2, OutcomeExcept DEF Refused

LEMMA ReferenceCancelPartial ==
  ASSUME NEW m, m.type = "X"
  PROVE  Reference!on_message(m)
           = IF ~Reducible(reference_orders, m.order, m.quantity) THEN Refused
             ELSE CancelOutcome(m.order, m.quantity,
                                Reduced(reference_orders, m.order, m.quantity), <<>>)
  <1>1. Reference!on_message(m) = Reference!cancel_partial(m)  BY DEF Reference!on_message
  <1> DEFINE left == Reduced(reference_orders, m.order, m.quantity)
  <1>2. Reference!Reduced(reference_orders, m.order, m.quantity) = left
        /\ Reference!Reducible(reference_orders, m.order, m.quantity)
             = Reducible(reference_orders, m.order, m.quantity)
    BY ReferenceOperators
  <1> HIDE DEF left
  <1>3. Reference!cancel_partial(m)
          = IF ~Reducible(reference_orders, m.order, m.quantity)
            THEN Reference!Counted("errors")
            ELSE [Reference!Cancelled(m.order, m.quantity) EXCEPT !.orders = left]
    BY <1>2 DEF Reference!cancel_partial
  <1> QED  BY <1>1, <1>3, ReferenceCounted, ReferenceCancelled DEF Refused, left

LEMMA ReferenceCancelAll ==
  ASSUME NEW m, m.type = "D"
  PROVE  Reference!on_message(m)
           = IF m.order \notin DOMAIN reference_orders THEN Refused
             ELSE CancelOutcome(m.order, reference_orders[m.order].remaining,
                                Drop(reference_orders, m.order), <<>>)
  <1>1. Reference!on_message(m) = Reference!cancel_all(m)  BY DEF Reference!on_message
  <1> DEFINE left == Drop(reference_orders, m.order)
  <1>2. Reference!Drop(reference_orders, m.order) = left
    BY ReferenceOperators
  <1> HIDE DEF left
  <1>3. Reference!cancel_all(m)
          = IF m.order \notin DOMAIN reference_orders
            THEN Reference!Counted("errors")
            ELSE [Reference!Cancelled(m.order, reference_orders[m.order].remaining)
                    EXCEPT !.orders = left]
    BY <1>2 DEF Reference!cancel_all
  <1> QED  BY <1>1, <1>3, ReferenceCounted, ReferenceCancelled DEF Refused, left

InvalidReplace(m) ==
    \/ m.order \notin DOMAIN reference_orders \/ m.new = NoId \/ m.quantity = 0
    \/ m.price = 0 \/ m.new \in DOMAIN reference_orders
Replacement(m) == Order(m.price, m.quantity, reference_orders[m.order].side)

LEMMA ReferenceReplace ==
  ASSUME NEW m, m.type = "U"
  PROVE  Reference!on_message(m)
           = IF InvalidReplace(m) THEN Refused
             ELSE CancelOutcome(m.order, reference_orders[m.order].remaining,
                     Put(Drop(reference_orders, m.order), m.new, Replacement(m)),
                     <<Detail(m.new, Replacement(m))>>)
  <1>1. Reference!on_message(m) = Reference!replace(m)  BY DEF Reference!on_message
  <1> DEFINE dropped == Drop(reference_orders, m.order)
             new == Replacement(m)
             left == Put(dropped, m.new, new)
             details == <<Detail(m.new, new)>>
  <1>2. Reference!Drop(reference_orders, m.order) = dropped
        /\ Reference!Order(m.price, m.quantity, reference_orders[m.order].side) = new
    BY ReferenceOperators DEF Replacement
  <1>3. Reference!Put(dropped, m.new, new) = left
        /\ Reference!Detail(m.new, new) = Detail(m.new, new)
    BY ReferenceOperators
  <1>4. Reference!replace(m)
          = IF InvalidReplace(m) THEN Reference!Counted("errors")
            ELSE [Reference!Cancelled(m.order, reference_orders[m.order].remaining)
                    EXCEPT !.orders = left, !.details = details]
    <2> HIDE DEF dropped, new, left
    <2> QED  BY <1>2, <1>3 DEF Reference!replace, InvalidReplace
  <1>5. [Reference!Cancelled(m.order, reference_orders[m.order].remaining)
            EXCEPT !.orders = left, !.details = details]
          = CancelOutcome(m.order, reference_orders[m.order].remaining, left, details)
    <2> DEFINE cancelled == Reference!Cancelled(m.order, reference_orders[m.order].remaining)
    <2>1. [cancelled EXCEPT !.orders = left]
            = CancelOutcome(m.order, reference_orders[m.order].remaining, left, <<>>)
      BY ReferenceCancelled
    <2> HIDE DEF left, details
    <2>2. [cancelled EXCEPT !.orders = left, !.details = details]
            = [[cancelled EXCEPT !.orders = left] EXCEPT !.details = details]
      OBVIOUS
    <2> HIDE DEF cancelled
    <2>3. [CancelOutcome(m.order, reference_orders[m.order].remaining, left, <<>>)
             EXCEPT !.details = details]
            = CancelOutcome(m.order, reference_orders[m.order].remaining, left, details)
      BY OutcomeExcept DEF CancelOutcome
    <2> QED  BY <2>1, <2>2, <2>3 DEF cancelled
  <1>6. Reference!Counted("errors") = Refused  BY ReferenceCounted DEF Refused
  <1> HIDE DEF left, details
  <1> QED  BY <1>1, <1>4, <1>5, <1>6 DEF left, details

PrintOutcome(id, match, transactions, counted) ==
    Outcome(reference_orders, Put(reference_matches, id, match), <<>>, transactions, counted)

LEMMA ReferencePrinted ==
  ASSUME NEW id, NEW match
  PROVE  Reference!Printed(id, match)
           = IF id \in DOMAIN reference_matches
             THEN Outcome(reference_orders, reference_matches, <<>>, <<>>,
                          "duplicate_matches_suppressed")
             ELSE IF id = MaxId \/ match.quantity = 0 \/ match.order = MaxId
             THEN PrintOutcome(id, match, <<>>, "errors")
             ELSE PrintOutcome(id, match, Trade(id, match), "none")
  <1> DEFINE matches == Put(reference_matches, id, match)
  <1>1. Reference!Put(reference_matches, id, match) = matches
    BY ReferenceOperators
  <1> HIDE DEF matches
  <1>2. Reference!Printed(id, match)
          = IF id \in DOMAIN reference_matches
            THEN Reference!Counted("duplicate_matches_suppressed")
            ELSE [Reference!FirstPrint(id, match) EXCEPT !.matches = matches]
    BY <1>1 DEF Reference!Printed, Reference!Emplaced
  <1>3. Reference!Printed(id, match)
          = IF id \in DOMAIN reference_matches
            THEN Outcome(reference_orders, reference_matches, <<>>, <<>>,
                         "duplicate_matches_suppressed")
            ELSE IF id = MaxId \/ match.quantity = 0 \/ match.order = MaxId
            THEN Outcome(reference_orders, matches, <<>>, <<>>, "errors")
            ELSE Outcome(reference_orders, matches, <<>>, Trade(id, match), "none")
    BY <1>2, ReferenceFirstPrint, ReferenceCounted, OutcomeExcept
  <1> QED  BY <1>3 DEF matches, PrintOutcome

LEMMA ReferenceNonCrossTrade ==
  ASSUME NEW m, m.type = "P"
  PROVE  Reference!on_message(m)
           = Reference!Printed(m.match, Match(m.price, m.quantity, m.order, m.side, TRUE))
  <1>1. Reference!Match(m.price, m.quantity, m.order, m.side, TRUE)
          = Match(m.price, m.quantity, m.order, m.side, TRUE)
    BY DEF Reference!Match, Match
  <1>2. Reference!on_message(m) = Reference!non_cross_trade(m)  BY DEF Reference!on_message
  <1> QED  BY <1>1, <1>2 DEF Reference!non_cross_trade

LEMMA ReferenceCrossTrade ==
  ASSUME NEW m, m.type = "Q"
  PROVE  Reference!on_message(m)
           = IF m.quantity = 0 \/ m.quantity > MaxShares \/ m.match = MaxId THEN Refused
             ELSE Reference!Printed(m.match,
                                    Match(m.price, m.quantity, NoId, "unknown", TRUE))
  <1>1. Reference!Match(m.price, m.quantity, NoId, "unknown", TRUE)
          = Match(m.price, m.quantity, NoId, "unknown", TRUE)
    BY DEF Reference!Match, Match
  <1>2. Reference!Counted("errors") = Refused  BY ReferenceCounted DEF Refused
  <1>3. Reference!on_message(m) = Reference!cross_trade(m)  BY DEF Reference!on_message
  <1> QED  BY <1>1, <1>2, <1>3 DEF Reference!cross_trade

LEMMA ReferenceBrokenTrade ==
  ASSUME NEW m, m.type = "B"
  PROVE  LET match == reference_matches[m.match]
             matches == Drop(reference_matches, m.match)
         IN  Reference!on_message(m)
           = IF m.match \notin DOMAIN reference_matches
             THEN Outcome(reference_orders, reference_matches, <<>>, <<>>,
                          "unknown_broken_trades")
             ELSE IF ~match.emitted
             THEN Outcome(reference_orders, matches, <<>>, <<>>,
                          "broken_trades_without_output")
             ELSE IF match.quantity = 0 \/ match.order = MaxId
             THEN Outcome(reference_orders, matches, <<>>, <<>>, "errors")
             ELSE Outcome(reference_orders, matches, <<>>,
                          <<Transaction("TradeBust", m.match, side_of(match.side),
                                        match.price, match.quantity, match.order)>>,
                          "none")
  <1> DEFINE match == reference_matches[m.match]
             matches == Drop(reference_matches, m.match)
             bust == <<Transaction("TradeBust", m.match, side_of(match.side),
                                   match.price, match.quantity, match.order)>>
             print == IF match.emitted
                      THEN Reference!Emitted("TradeBust", m.match, match.side, match.price,
                                             match.quantity, match.order)
                      ELSE Reference!Counted("broken_trades_without_output")
  <1>1. Reference!on_message(m) = Reference!broken_trade(m)  BY DEF Reference!on_message
  <1>2. Reference!Drop(reference_matches, m.match) = matches  BY ReferenceOperators
  <1>3. Reference!Emitted("TradeBust", m.match, match.side, match.price, match.quantity,
                          match.order)
          = IF match.quantity = 0 \/ match.order = MaxId THEN Refused
            ELSE Outcome(reference_orders, reference_matches, <<>>, bust, "none")
    BY ReferenceEmitted DEF Refused
  <1> HIDE DEF matches, bust, match
  <1>4. Reference!broken_trade(m)
          = IF m.match \notin DOMAIN reference_matches
            THEN Reference!Counted("unknown_broken_trades")
            ELSE [print EXCEPT !.matches = matches]
    BY <1>2 DEF Reference!broken_trade, match
  <1>5. Reference!Counted("broken_trades_without_output")
          = Outcome(reference_orders, reference_matches, <<>>, <<>>,
                    "broken_trades_without_output")
        /\ Reference!Counted("unknown_broken_trades")
          = Outcome(reference_orders, reference_matches, <<>>, <<>>,
                    "unknown_broken_trades")
    BY ReferenceCounted
  <1>6. [print EXCEPT !.matches = matches]
          = IF ~match.emitted
            THEN Outcome(reference_orders, matches, <<>>, <<>>,
                         "broken_trades_without_output")
            ELSE IF match.quantity = 0 \/ match.order = MaxId
            THEN Outcome(reference_orders, matches, <<>>, <<>>, "errors")
            ELSE Outcome(reference_orders, matches, <<>>, bust, "none")
    BY <1>3, <1>5, OutcomeExcept DEF Refused
  <1> HIDE DEF print
  <1> QED  BY <1>1, <1>4, <1>5, <1>6 DEF match, matches, bust

\* Types of messages that concern neither orders nor trades.
LEMMA ReferenceOther ==
  ASSUME NEW m, m.type \notin {"A", "E", "C", "X", "D", "U", "P", "Q", "B"}
  PROVE  Reference!on_message(m)
           = IF m.type = "wrong_size" THEN Refused
             ELSE Outcome(reference_orders, reference_matches, <<>>, <<>>, "none")
  BY ReferenceUnchanged, ReferenceCounted DEF Reference!on_message, Refused

-----------------------------------------------------------------------------
(***************************************************************************)
(* The audit follows the reference.                                        *)
(***************************************************************************)

LEMMA OutcomeFields ==
  ASSUME NEW o, NEW ms, NEW d, NEW t, NEW c
  PROVE  /\ Outcome(o, ms, d, t, c).orders = o /\ Outcome(o, ms, d, t, c).matches = ms
         /\ Outcome(o, ms, d, t, c).details = d
         /\ Outcome(o, ms, d, t, c).transactions = t
         /\ Outcome(o, ms, d, t, c).counted = c
  BY DEF Outcome

\* The orders the reference keeps after each kind of message.
LEMMA ReferenceOrders ==
  ASSUME NEW m
  PROVE  /\ m.type = "A" =>
              Reference!on_message(m).orders
                = IF InvalidAdd(m) THEN reference_orders
                  ELSE Put(reference_orders, m.order, Order(m.price, m.quantity, m.side))
         /\ m.type \in {"E", "C", "X"} =>
              Reference!on_message(m).orders
                = IF ~Reducible(reference_orders, m.order, m.quantity) THEN reference_orders
                  ELSE Reduced(reference_orders, m.order, m.quantity)
         /\ m.type = "D" =>
              Reference!on_message(m).orders
                = IF m.order \notin DOMAIN reference_orders THEN reference_orders
                  ELSE Drop(reference_orders, m.order)
         /\ m.type = "U" =>
              Reference!on_message(m).orders
                = IF InvalidReplace(m) THEN reference_orders
                  ELSE Put(Drop(reference_orders, m.order), m.new, Replacement(m))
         /\ m.type \notin {"A", "E", "C", "X", "D", "U"} =>
              Reference!on_message(m).orders = reference_orders
  <1>1. Refused.orders = reference_orders  BY OutcomeFields DEF Refused
  <1>2. ASSUME NEW id, NEW quantity, NEW left, NEW d
        PROVE  CancelOutcome(id, quantity, left, d).orders = left
    BY OutcomeFields DEF CancelOutcome
  <1>3. CASE m.type = "A"
    <2> DEFINE order == Order(m.price, m.quantity, m.side)
               left == Put(reference_orders, m.order, order)
               details == <<Detail(m.order, order)>>
    <2>1. Reference!on_message(m)
            = IF InvalidAdd(m) THEN Refused
              ELSE Outcome(left, reference_matches, details, <<>>, "none")
      BY <1>3, ReferenceAdd
    <2>2. Outcome(left, reference_matches, details, <<>>, "none").orders = left
      BY OutcomeFields
    <2> HIDE DEF left, details
    <2>3. Reference!on_message(m).orders = IF InvalidAdd(m) THEN reference_orders ELSE left
      BY <1>1, <2>1, <2>2
    <2> QED  BY <1>3, <2>3 DEF left
  <1>4. CASE m.type \in {"E", "C"}
    <2>1. ASSUME NEW t, NEW c
          PROVE  ExecuteOutcome(m, t, c).orders
                   = Reduced(reference_orders, m.order, m.quantity)
      BY OutcomeFields DEF ExecuteOutcome
    <2>2. Reference!on_message(m).orders
            = IF ~Reducible(reference_orders, m.order, m.quantity) THEN reference_orders
              ELSE Reduced(reference_orders, m.order, m.quantity)
      BY <1>1, <1>4, <2>1, ReferenceExecute
    <2> QED  BY <1>4, <2>2
  <1>5. CASE m.type = "X"  BY <1>1, <1>2, <1>5, ReferenceCancelPartial
  <1>6. CASE m.type = "D"  BY <1>1, <1>2, <1>6, ReferenceCancelAll
  <1>7. CASE m.type = "U"
    <2> DEFINE left == Put(Drop(reference_orders, m.order), m.new, Replacement(m))
               details == <<Detail(m.new, Replacement(m))>>
    <2>1. Reference!on_message(m)
            = IF InvalidReplace(m) THEN Refused
              ELSE CancelOutcome(m.order, reference_orders[m.order].remaining, left, details)
      BY <1>7, ReferenceReplace
    <2> HIDE DEF left, details
    <2>2. Reference!on_message(m).orders
            = IF InvalidReplace(m) THEN reference_orders ELSE left
      BY <1>1, <1>2, <2>1
    <2> QED  BY <1>7, <2>2 DEF left
  <1>8. ASSUME NEW id, NEW match
        PROVE  Reference!Printed(id, match).orders = reference_orders
    BY ReferencePrinted, OutcomeFields DEF PrintOutcome
  <1>9. CASE m.type = "P"
    <2> DEFINE match == Match(m.price, m.quantity, m.order, m.side, TRUE)
    <2>1. Reference!on_message(m) = Reference!Printed(m.match, match)
      BY <1>9, ReferenceNonCrossTrade
    <2> HIDE DEF match
    <2> QED  BY <1>8, <1>9, <2>1
  <1>10. CASE m.type = "Q"
    <2> DEFINE match == Match(m.price, m.quantity, NoId, "unknown", TRUE)
    <2>1. Reference!on_message(m) = Refused
          \/ Reference!on_message(m) = Reference!Printed(m.match, match)
      BY <1>10, ReferenceCrossTrade
    <2> HIDE DEF match
    <2> QED  BY <1>1, <1>8, <1>10, <2>1
  <1>11. CASE m.type = "B"
    <2>1. \E ms, t, c : Reference!on_message(m) = Outcome(reference_orders, ms, <<>>, t, c)
      BY <1>11, ReferenceBrokenTrade
    <2> QED  BY <1>11, <2>1, OutcomeFields
  <1>12. CASE m.type \notin {"A", "E", "C", "X", "D", "U", "P", "Q", "B"}
    BY <1>1, <1>12, ReferenceOther, OutcomeFields
  <1> QED
    BY <1>3, <1>4, <1>5, <1>6, <1>7, <1>9, <1>10, <1>11, <1>12

\* A message leaves the same orders in the audit as in the reference.
LEMMA AuditFollows ==
  ASSUME NEW m, audited = reference_orders, TablesOK,
         m.type \in {"E", "C", "X"} => m.quantity \in Nat
  PROVE  Audit!on_message(m).orders = Reference!on_message(m).orders
  <1>1. ASSUME NEW left, NEW counter
        PROVE  Audit!After(left, counter).orders = left
               /\ Audit!Anomaly(counter).orders = reference_orders
               /\ Audit!Unchanged.orders = reference_orders
    BY DEF Audit!After, Audit!Anomaly, Audit!Unchanged
  <1>2. CASE m.type = "A"
    <2>1. Audit!on_message(m) = Audit!add(m)  BY <1>2 DEF Audit!on_message
    <2>2. Audit!Order(m.price, m.quantity, m.side) = Order(m.price, m.quantity, m.side)
          /\ Audit!Put(reference_orders, m.order, Order(m.price, m.quantity, m.side))
               = Put(reference_orders, m.order, Order(m.price, m.quantity, m.side))
      BY AuditOperators
    <2>3. Audit!add(m).orders
            = IF InvalidAdd(m) THEN reference_orders
              ELSE Put(reference_orders, m.order, Order(m.price, m.quantity, m.side))
      BY <1>1, <2>2 DEF Audit!add, InvalidAdd
    <2> QED  BY <1>2, <2>1, <2>3, ReferenceOrders
  <1>3. CASE m.type \in {"E", "C", "X"}
    <2>1. Audit!on_message(m) = Audit!reduce(m)  BY <1>3 DEF Audit!on_message
    <2>2. Audit!Reduced(reference_orders, m.order, m.quantity)
            = Reduced(reference_orders, m.order, m.quantity)
      BY AuditOperators
    <2>3. Audit!reduce(m).orders
            = IF ~Reducible(reference_orders, m.order, m.quantity) THEN reference_orders
              ELSE Reduced(reference_orders, m.order, m.quantity)
      <3>1. CASE m.order \notin DOMAIN reference_orders
        BY <1>1, <3>1 DEF Audit!reduce, Reducible
      <3>2. CASE m.order \in DOMAIN reference_orders
        <4>1. reference_orders[m.order].remaining \in Int /\ m.quantity \in Int
          BY <1>3, <3>2 DEF TablesOK, IsOrder
        <4>2. Reducible(reference_orders, m.order, m.quantity)
                <=> ~(m.quantity = 0 \/ m.quantity > reference_orders[m.order].remaining)
          BY <3>2, <4>1 DEF Reducible
        <4> QED  BY <1>1, <2>2, <3>2, <4>2 DEF Audit!reduce
      <3> QED  BY <3>1, <3>2
    <2> QED  BY <1>3, <2>1, <2>3, ReferenceOrders
  <1>4. CASE m.type = "D"
    <2>1. Audit!on_message(m) = Audit!erase(m)  BY <1>4 DEF Audit!on_message
    <2>2. Audit!Drop(reference_orders, m.order) = Drop(reference_orders, m.order)
      BY AuditOperators
    <2>3. Audit!erase(m).orders
            = IF m.order \notin DOMAIN reference_orders THEN reference_orders
              ELSE Drop(reference_orders, m.order)
      BY <1>1, <2>2 DEF Audit!erase
    <2> QED  BY <1>4, <2>1, <2>3, ReferenceOrders
  <1>5. CASE m.type = "U"
    <2>1. Audit!on_message(m) = Audit!replace(m)  BY <1>5 DEF Audit!on_message
    <2> DEFINE dropped == Drop(reference_orders, m.order)
    <2>2. Audit!Drop(reference_orders, m.order) = dropped
          /\ Audit!Order(m.price, m.quantity, reference_orders[m.order].side)
               = Replacement(m)
      BY AuditOperators DEF Replacement
    <2>3. Audit!Put(dropped, m.new, Replacement(m)) = Put(dropped, m.new, Replacement(m))
      BY AuditOperators
    <2> HIDE DEF dropped
    <2>4. Audit!replace(m).orders
            = IF InvalidReplace(m) THEN reference_orders
              ELSE Put(dropped, m.new, Replacement(m))
      BY <1>1, <2>2, <2>3 DEF Audit!replace, InvalidReplace
    <2> QED  BY <1>5, <2>1, <2>4, ReferenceOrders DEF dropped
  <1>6. CASE m.type \notin {"A", "E", "C", "X", "D", "U"}
    <2>1. Audit!on_message(m) = Audit!Unchanged  BY <1>6 DEF Audit!on_message
    <2> QED  BY <1>1, <1>6, <2>1, ReferenceOrders
  <1> QED  BY <1>2, <1>3, <1>4, <1>5, <1>6

-----------------------------------------------------------------------------
(***************************************************************************)
(* The tables of the reference stay tables.                                *)
(***************************************************************************)

\* The shape of the messages of a day: quantities are numbers, and what names
\* an order or a match has the field.
IsDay(day) ==
    \A m \in day : /\ m.type \in {"A", "E", "C", "X", "U"} => m.quantity \in Nat
                   /\ m.type \in {"E", "C"} => {"order", "match"} \subseteq DOMAIN m

\* A message leaves the matches, or keeps one more, or drops one.
LEMMA ReferenceMatches ==
  ASSUME NEW m
  PROVE  \/ Reference!on_message(m).matches = reference_matches
         \/ \E match : /\ IsMatch(match)
                       /\ Reference!on_message(m).matches
                            = Put(reference_matches, m.match, match)
         \/ Reference!on_message(m).matches = Drop(reference_matches, m.match)
  <1>1. Refused.matches = reference_matches  BY OutcomeFields DEF Refused
  <1>2. ASSUME NEW id, NEW quantity, NEW left, NEW d
        PROVE  CancelOutcome(id, quantity, left, d).matches = reference_matches
    BY OutcomeFields DEF CancelOutcome
  <1>3. CASE m.type = "A"
    <2>1. Reference!on_message(m) = Refused
          \/ \E left, d : Reference!on_message(m)
                            = Outcome(left, reference_matches, d, <<>>, "none")
      BY <1>3, ReferenceAdd
    <2> QED  BY <1>1, <2>1, OutcomeFields
  <1>4. CASE m.type \in {"E", "C"}
    <2>1. IsMatch(ExecutionMatch(m))
      BY NewMatch DEF ExecutionMatch
    <2>2. ASSUME NEW t, NEW c
          PROVE  ExecuteOutcome(m, t, c).matches
                   = IF m.match \in DOMAIN reference_matches THEN reference_matches
                     ELSE Put(reference_matches, m.match, ExecutionMatch(m))
      BY OutcomeFields DEF ExecuteOutcome, Emplaced
    <2>3. \/ Reference!on_message(m).matches = reference_matches
          \/ Reference!on_message(m).matches
               = Put(reference_matches, m.match, ExecutionMatch(m))
      BY <1>1, <1>4, <2>2, ReferenceExecute
    <2> QED  BY <2>1, <2>3
  <1>5. CASE m.type = "X"  BY <1>1, <1>2, <1>5, ReferenceCancelPartial
  <1>6. CASE m.type = "D"  BY <1>1, <1>2, <1>6, ReferenceCancelAll
  <1>7. CASE m.type = "U"
    <2> DEFINE left == Put(Drop(reference_orders, m.order), m.new, Replacement(m))
               details == <<Detail(m.new, Replacement(m))>>
    <2>1. Reference!on_message(m)
            = IF InvalidReplace(m) THEN Refused
              ELSE CancelOutcome(m.order, reference_orders[m.order].remaining, left, details)
      BY <1>7, ReferenceReplace
    <2> HIDE DEF left, details
    <2> QED  BY <1>1, <1>2, <2>1
  <1>8. ASSUME NEW id, NEW match
        PROVE  \/ Reference!Printed(id, match).matches = reference_matches
               \/ Reference!Printed(id, match).matches = Put(reference_matches, id, match)
    BY ReferencePrinted, OutcomeFields DEF PrintOutcome
  <1>9. CASE m.type = "P"
    <2> DEFINE match == Match(m.price, m.quantity, m.order, m.side, TRUE)
    <2>1. Reference!on_message(m) = Reference!Printed(m.match, match)
      BY <1>9, ReferenceNonCrossTrade
    <2>2. IsMatch(match)  BY DEF IsMatch, Match
    <2> HIDE DEF match
    <2> QED  BY <1>8, <2>1, <2>2
  <1>10. CASE m.type = "Q"
    <2> DEFINE match == Match(m.price, m.quantity, NoId, "unknown", TRUE)
    <2>1. Reference!on_message(m) = Refused
          \/ Reference!on_message(m) = Reference!Printed(m.match, match)
      BY <1>10, ReferenceCrossTrade
    <2>2. IsMatch(match)  BY DEF IsMatch, Match
    <2> HIDE DEF match
    <2> QED  BY <1>1, <1>8, <2>1, <2>2
  <1>11. CASE m.type = "B"
    <2>1. \E t, c : \/ Reference!on_message(m)
                         = Outcome(reference_orders, reference_matches, <<>>, t, c)
                    \/ Reference!on_message(m)
                         = Outcome(reference_orders, Drop(reference_matches, m.match),
                                   <<>>, t, c)
      BY <1>11, ReferenceBrokenTrade
    <2> QED  BY <2>1, OutcomeFields
  <1>12. CASE m.type \notin {"A", "E", "C", "X", "D", "U", "P", "Q", "B"}
    BY <1>1, <1>12, ReferenceOther, OutcomeFields
  <1> QED
    BY <1>3, <1>4, <1>5, <1>6, <1>7, <1>9, <1>10, <1>11, <1>12

LEMMA TablesKept ==
  ASSUME NEW m, TablesOK, reference_orders' = Reference!on_message(m).orders,
         reference_matches' = Reference!on_message(m).matches,
         m.type \in {"A", "E", "C", "X", "U"} => m.quantity \in Nat
  PROVE  TablesOK'
  <1> DEFINE orders == reference_orders
  <1> USE DEF TablesOK
  <1>1. IsTable(reference_matches')
        /\ \A id \in DOMAIN reference_matches' : IsMatch(reference_matches'[id])
    <2>1. CASE Reference!on_message(m).matches = reference_matches  BY <2>1
    <2>2. ASSUME NEW match, IsMatch(match),
                 Reference!on_message(m).matches = Put(reference_matches, m.match, match)
          PROVE  IsTable(reference_matches')
                 /\ \A id \in DOMAIN reference_matches' : IsMatch(reference_matches'[id])
      BY <2>2, TableKept, MatchesKept
    <2>3. CASE Reference!on_message(m).matches = Drop(reference_matches, m.match)
      <3>1. \A k \in DOMAIN Drop(reference_matches, m.match) :
              IsMatch(Drop(reference_matches, m.match)[k])
        BY DEF Drop
      <3> QED  BY <2>3, <3>1, TableKept
    <2> QED  BY <2>1, <2>2, <2>3, ReferenceMatches
  <1>2. ASSUME NEW id, NEW order, IsOrder(order)
        PROVE  IsTable(Put(orders, id, order))
               /\ \A k \in DOMAIN Put(orders, id, order) : IsOrder(Put(orders, id, order)[k])
    <2>1. IsTable(Put(orders, id, order))  BY TableKept
    <2>2. \A k \in DOMAIN Put(orders, id, order) : IsOrder(Put(orders, id, order)[k])
      BY <1>2 DEF Put
    <2> QED  BY <2>1, <2>2
  <1>3. ASSUME NEW id
        PROVE  IsTable(Drop(orders, id))
               /\ \A k \in DOMAIN Drop(orders, id) : IsOrder(Drop(orders, id)[k])
    BY TableKept DEF Drop
  <1>4. IsTable(reference_orders')
        /\ \A id \in DOMAIN reference_orders' : IsOrder(reference_orders'[id])
    <2>1. CASE reference_orders' = reference_orders  BY <2>1
    <2>2. CASE m.type = "A"
      <3>1. IsOrder(Order(m.price, m.quantity, m.side))  BY <2>2, NewOrder
      <3> QED  BY <2>1, <2>2, <3>1, <1>2, ReferenceOrders
    <2>3. CASE m.type \in {"E", "C", "X"}
      <3>1. reference_orders' = reference_orders
            \/ reference_orders' = Reduced(orders, m.order, m.quantity)
        BY <2>3, ReferenceOrders
      <3>2. m.quantity \in Int  BY <2>3
      <3>3. IsOrder(Order(0, 0, 0))  BY NewOrder
      <3>4. IsTable(Reduced(orders, m.order, m.quantity))  BY TableKept
      <3>5. \A k \in DOMAIN Reduced(orders, m.order, m.quantity) :
              IsOrder(Reduced(orders, m.order, m.quantity)[k])
        BY <3>2, <3>3, OrdersKept
      <3> QED  BY <2>1, <3>1, <3>4, <3>5
    <2>4. CASE m.type = "D"  BY <2>1, <2>4, <1>3, ReferenceOrders
    <2>5. CASE m.type = "U"
      <3> DEFINE dropped == Drop(orders, m.order)
                 left == Put(dropped, m.new, Replacement(m))
      <3>1. IsOrder(Replacement(m))  BY <2>5, NewOrder DEF Replacement
      <3>2. IsTable(dropped) /\ \A k \in DOMAIN dropped : IsOrder(dropped[k])  BY <1>3
      <3> HIDE DEF dropped
      <3>3. IsTable(left)  BY <3>2, TableKept
      <3>4. \A k \in DOMAIN left : IsOrder(left[k])  BY <3>1, <3>2 DEF Put
      <3>5. reference_orders' = reference_orders \/ reference_orders' = left
        BY <2>5, ReferenceOrders DEF dropped
      <3> QED  BY <2>1, <3>3, <3>4, <3>5
    <2>6. CASE m.type \notin {"A", "E", "C", "X", "D", "U"}
      BY <2>1, <2>6, ReferenceOrders
    <2> QED  BY <2>2, <2>3, <2>4, <2>5, <2>6
  <1> QED  BY <1>1, <1>4

LEMMA EmptyTables ==
  ASSUME reference_orders = Empty, reference_matches = Empty
  PROVE  TablesOK
  BY DEF TablesOK, IsTable, Empty

\* OrderLifecycle keeps the orders PsxWtsAdapter keeps, whatever the messages
\* of the day are and in whatever order they come.
THEOREM AuditIsReferenceAlways ==
  ASSUME NEW day, IsDay(day)
  PROVE  DifferentialSpec(day) => []AuditIsReference
  <1>1. DifferentialInit => TablesOK /\ AuditIsReference
    BY EmptyTables DEF DifferentialInit, AuditIsReference
  <1>2. TablesOK /\ AuditIsReference /\ [DifferentialNext(day)]_differential
          => TablesOK' /\ AuditIsReference'
    <2> SUFFICES ASSUME TablesOK, AuditIsReference, [DifferentialNext(day)]_differential
                 PROVE  TablesOK' /\ AuditIsReference'
      OBVIOUS
    <2>1. ASSUME NEW m \in day, Replay(m) PROVE TablesOK' /\ AuditIsReference'
      <3>1. /\ reference_orders' = Reference!on_message(m).orders
            /\ reference_matches' = Reference!on_message(m).matches
            /\ audited' = Audit!on_message(m).orders
        BY <2>1 DEF Replay
      <3>2. m.type \in {"A", "E", "C", "X", "U"} => m.quantity \in Nat  BY DEF IsDay
      <3>3. TablesOK'  BY <3>1, <3>2, TablesKept
      <3>4. Audit!on_message(m).orders = Reference!on_message(m).orders
        BY <3>2, AuditFollows DEF AuditIsReference
      <3> QED  BY <3>1, <3>3, <3>4 DEF AuditIsReference
    <2>2. CASE Directory
      <3>1. TablesOK'  BY <2>2 DEF Directory, TablesOK, IsTable, Empty
      <3> QED  BY <2>2, <3>1 DEF Directory, AuditIsReference
    <2>3. CASE UNCHANGED differential
      BY <2>3 DEF differential, AuditIsReference, TablesOK
    <2> QED  BY <2>1, <2>2, <2>3 DEF DifferentialNext
  <1> QED  BY <1>1, <1>2, PTL DEF DifferentialSpec

-----------------------------------------------------------------------------
(***************************************************************************)
(* The handlers of the candidate: what each refuses, and what it does when *)
(* it does not.                                                            *)
(***************************************************************************)

LEMMA CandidateRefusals ==
  ASSUME NEW result
  PROVE  /\ Candidate!Malformed.counted = "malformed_or_missing_orders"
         /\ Candidate!Malformed.orders = candidate_orders
         /\ Candidate!InsertFailure(result).orders = candidate_orders
         /\ Candidate!InsertFailure(result).counted
              = IF result = "Full" THEN "capacity_exhaustions"
                ELSE "malformed_or_missing_orders"
  BY DEF Candidate!Malformed, Candidate!InsertFailure, Candidate!Unchanged

LEMMA CandidateAdd ==
  ASSUME NEW m, m.type = "A"
  PROVE  LET order == Order(m.price, m.quantity, side_of(m.side))
             valid == /\ side_of(m.side) # "Unknown" /\ m.quantity # 0 /\ m.price # 0
                      /\ Candidate!InsertResult(candidate_orders, m.order, MaxOrders)
                           = "Inserted"
             new == Candidate!on_message(m)
         IN  /\ valid => /\ new.orders = Put(candidate_orders, m.order, order)
                         /\ new.matches = candidate_matches
                         /\ new.details = <<Detail(m.order, order)>>
                         /\ new.transactions = <<>> /\ new.counted = "none"
             /\ ~valid =>
                  /\ new.orders = candidate_orders
                  /\ new.counted
                       = IF /\ side_of(m.side) # "Unknown" /\ m.quantity # 0 /\ m.price # 0
                            /\ Candidate!InsertResult(candidate_orders, m.order, MaxOrders)
                                 = "Full"
                         THEN "capacity_exhaustions" ELSE "malformed_or_missing_orders"
  <1> DEFINE side == side_of(m.side)
             order == Order(m.price, m.quantity, side)
             result == Candidate!InsertResult(candidate_orders, m.order, MaxOrders)
  <1>1. Candidate!on_message(m) = Candidate!add(m)  BY DEF Candidate!on_message
  <1>2. Candidate!side_of(m.side) = side
        /\ Candidate!Order(m.price, m.quantity, side) = order
        /\ Candidate!Put(candidate_orders, m.order, order)
             = Put(candidate_orders, m.order, order)
        /\ Candidate!Detail(m.order, order) = Detail(m.order, order)
    BY CandidateOperators
  <1> HIDE DEF side, order, result
  <1>3. CASE ~(side # "Unknown" /\ m.quantity # 0 /\ m.price # 0)
    <2>1. Candidate!add(m) = Candidate!Malformed  BY <1>2, <1>3 DEF Candidate!add
    <2> QED  BY <1>1, <1>3, <2>1, CandidateRefusals DEF side
  <1>4. CASE side # "Unknown" /\ m.quantity # 0 /\ m.price # 0 /\ result # "Inserted"
    <2>1. Candidate!add(m) = Candidate!InsertFailure(result)
      BY <1>2, <1>4 DEF Candidate!add, result
    <2> QED  BY <1>1, <1>4, <2>1, CandidateRefusals DEF side, result
  <1>5. CASE side # "Unknown" /\ m.quantity # 0 /\ m.price # 0 /\ result = "Inserted"
    <2>1. Candidate!add(m)
            = [Candidate!Unchanged EXCEPT
                 !.orders = Put(candidate_orders, m.order, order),
                 !.details = <<Detail(m.order, order)>>,
                 !.update = Candidate!Update("Add", m.order, NoId, NoId, m.price, m.quantity,
                                             side, FALSE)]
      BY <1>2, <1>5 DEF Candidate!add, result
    <2>2. /\ Candidate!add(m).orders = Put(candidate_orders, m.order, order)
          /\ Candidate!add(m).matches = candidate_matches
          /\ Candidate!add(m).details = <<Detail(m.order, order)>>
          /\ Candidate!add(m).transactions = <<>> /\ Candidate!add(m).counted = "none"
      BY <2>1 DEF Candidate!Unchanged
    <2> QED  BY <1>1, <1>5, <2>2 DEF side, result, order
  <1> QED  BY <1>3, <1>4, <1>5

CandidatePrice(m) == IF m.type = "C" THEN m.price ELSE candidate_orders[m.order].price
CandidatePrintable(m) == m.type = "E" \/ m.printable = "Y"
FirstSeen(id) == Candidate!InsertResult(candidate_matches, id, MaxMatches)

\* The candidate takes an execution.
Executable(m) ==
    /\ Reducible(candidate_orders, m.order, m.quantity)
    /\ CandidatePrice(m) # 0 /\ (m.type = "C" => m.printable \in {"Y", "N"})
    /\ FirstSeen(m.match) \notin {"Full", "InvalidKey"}

\* The orders after an execution, taken or not.
ExecuteOrders(m) ==
    IF Executable(m)
    THEN Candidate!on_message(m).orders = Reduced(candidate_orders, m.order, m.quantity)
    ELSE /\ Candidate!on_message(m).orders = candidate_orders
         /\ Candidate!on_message(m).counted
              \in {"capacity_exhaustions", "malformed_or_missing_orders"}

\* What else an execution that is taken does.
ExecuteFields(m) ==
    LET order == candidate_orders[m.order]
        match == Match(CandidatePrice(m), m.quantity, m.order, order.side,
                       CandidatePrintable(m))
        first == FirstSeen(m.match)
        new == Candidate!on_message(m)
    IN  /\ new.matches = IF first = "Inserted" THEN Put(candidate_matches, m.match, match)
                         ELSE candidate_matches
        /\ new.details = <<>>
        /\ new.transactions = IF ~CandidatePrintable(m) \/ first = "Duplicate" THEN <<>>
             ELSE <<Transaction("Trade", m.match, order.side, CandidatePrice(m), m.quantity,
                                m.order)>>
        /\ new.counted = IF ~CandidatePrintable(m) THEN "non_printable_suppressed"
                         ELSE IF first = "Duplicate"
                         THEN "duplicate_matches_suppressed" ELSE "none"

LEMMA CandidateExecute ==
  ASSUME NEW m, m.type \in {"E", "C"}
  PROVE  ExecuteOrders(m) /\ (Executable(m) => ExecuteFields(m))
  <1> DEFINE order == candidate_orders[m.order]
             price == CandidatePrice(m)
             printable == CandidatePrintable(m)
             match == Match(price, m.quantity, m.order, order.side, printable)
             first == FirstSeen(m.match)
             left == Reduced(candidate_orders, m.order, m.quantity)
             matches == IF first = "Inserted" THEN Put(candidate_matches, m.match, match)
                        ELSE candidate_matches
             trade == Transaction("Trade", m.match, order.side, price, m.quantity, m.order)
             reducible == Reducible(candidate_orders, m.order, m.quantity)
             flagged == m.type = "C" => m.printable \in {"Y", "N"}
  <1>1. Candidate!on_message(m) = Candidate!execute(m)  BY DEF Candidate!on_message
  <1>2. /\ Candidate!Reducible(candidate_orders, m.order, m.quantity) = reducible
        /\ Candidate!Executed(m, first) = left
        /\ Candidate!Transaction("Trade", m.match, order.side, price, m.quantity, m.order)
             = trade
    <2>1. Candidate!Reducible(candidate_orders, m.order, m.quantity) = reducible
      BY CandidateOperators
    <2>2. Candidate!Reduced(candidate_orders, m.order, m.quantity) = left
      BY CandidateOperators
    <2>3. Candidate!Executed(m, first) = left  BY <2>2 DEF Candidate!Executed
    <2>4. Candidate!Transaction("Trade", m.match, order.side, price, m.quantity, m.order)
             = trade
      BY CandidateOperators
    <2> QED  BY <2>1, <2>3, <2>4
  <1>3. /\ Candidate!Match(price, m.quantity, m.order, order.side, printable) = match
        /\ Candidate!Put(candidate_matches, m.match, match)
             = Put(candidate_matches, m.match, match)
    <2>1. Candidate!Match(price, m.quantity, m.order, order.side, printable) = match
      BY DEF Candidate!Match, Match
    <2> HIDE DEF match
    <2> QED  BY <2>1, CandidateOperators
  <1>4. CASE ~(reducible /\ price # 0)
    <2>1. Candidate!execute(m) = Candidate!Malformed
      <3> HIDE DEF reducible
      <3> QED  BY <1>2, <1>4 DEF Candidate!execute, CandidatePrice
    <2> QED  BY <1>1, <1>4, <2>1, CandidateRefusals DEF Executable, ExecuteOrders
  <1>5. CASE reducible /\ price # 0 /\ ~flagged
    <2>1. Candidate!execute(m) = Candidate!Malformed
      <3> HIDE DEF reducible
      <3> QED  BY <1>2, <1>5 DEF Candidate!execute, CandidatePrice
    <2> QED  BY <1>1, <1>5, <2>1, CandidateRefusals DEF Executable, ExecuteOrders
  <1>6. CASE reducible /\ price # 0 /\ flagged /\ first \in {"Full", "InvalidKey"}
    <2>1. Candidate!execute(m) = Candidate!InsertFailure(first)
      <3> HIDE DEF reducible
      <3> QED  BY <1>2, <1>6 DEF Candidate!execute, CandidatePrice, FirstSeen
    <2>2. Candidate!InsertFailure(first).orders = candidate_orders
          /\ Candidate!InsertFailure(first).counted
               \in {"capacity_exhaustions", "malformed_or_missing_orders"}
      BY CandidateRefusals
    <2> QED  BY <1>1, <1>6, <2>1, <2>2 DEF Executable, ExecuteOrders
  <1>7. CASE reducible /\ price # 0 /\ flagged /\ first \notin {"Full", "InvalidKey"}
    <2> DEFINE transactions == IF ~printable \/ first = "Duplicate" THEN <<>> ELSE <<trade>>
               counted == IF ~printable THEN "non_printable_suppressed"
                          ELSE IF first = "Duplicate" THEN "duplicate_matches_suppressed"
                          ELSE "none"
    <2>1. \E update :
            Candidate!execute(m)
              = [Candidate!Unchanged EXCEPT
                   !.matches = matches, !.transactions = transactions, !.counted = counted,
                   !.update = update, !.orders = left]
      <3>1. Candidate!Unchanged.matches = candidate_matches  BY DEF Candidate!Unchanged
      <3>2. Candidate!execute(m)
              = [Candidate!Unchanged EXCEPT
                   !.matches = matches, !.transactions = transactions, !.counted = counted,
                   !.update = Candidate!Update("Execution", m.order, NoId, m.match, price,
                                               m.quantity, order.side, printable),
                   !.orders = left]
        <4> HIDE DEF reducible, match, left, trade
        <4> QED
          BY <1>2, <1>3, <1>7, <3>1
             DEF Candidate!execute, CandidatePrice, CandidatePrintable, FirstSeen
      <3> QED  BY <3>2
    <2> HIDE DEF matches, left, trade, transactions, counted
    <2>2. /\ Candidate!execute(m).orders = left /\ Candidate!execute(m).matches = matches
          /\ Candidate!execute(m).details = <<>>
          /\ Candidate!execute(m).transactions = transactions
          /\ Candidate!execute(m).counted = counted
      BY <2>1 DEF Candidate!Unchanged
    <2>3. Executable(m)  BY <1>7 DEF Executable
    <2> QED  BY <1>1, <2>2, <2>3 DEF left, ExecuteOrders, ExecuteFields, matches, transactions, counted, trade
  <1> QED  BY <1>4, <1>5, <1>6, <1>7

\* What a handler of the candidate that cancels does: the orders it leaves and
\* the order detail and the cancel it publishes.
Cancels(new, orders, details, id, quantity) ==
    LET order == candidate_orders[id]
    IN  /\ new.orders = orders /\ new.matches = candidate_matches /\ new.details = details
        /\ new.transactions
             = <<Transaction("Cancel", NoId, order.side, order.price, quantity, id)>>
        /\ new.counted = "none"

Refuses(new) ==
    new.orders = candidate_orders /\ new.counted = "malformed_or_missing_orders"

LEMMA CandidateCancel ==
  ASSUME NEW side, NEW price, NEW quantity, NEW id
  PROVE  Candidate!Cancel(side, price, quantity, id)
           = <<Transaction("Cancel", NoId, side, price, quantity, id)>>
  BY DEF Candidate!Cancel, Candidate!Transaction, Transaction

LEMMA CandidateCancelPartial ==
  ASSUME NEW m, m.type = "X"
  PROVE  IF Reducible(candidate_orders, m.order, m.quantity)
         THEN Cancels(Candidate!on_message(m),
                      Reduced(candidate_orders, m.order, m.quantity), <<>>, m.order,
                      m.quantity)
         ELSE Refuses(Candidate!on_message(m))
  <1> DEFINE order == candidate_orders[m.order]
             left == Reduced(candidate_orders, m.order, m.quantity)
             cancel == <<Transaction("Cancel", NoId, order.side, order.price, m.quantity,
                                     m.order)>>
             reducible == Reducible(candidate_orders, m.order, m.quantity)
  <1>1. Candidate!on_message(m) = Candidate!cancel_partial(m)  BY DEF Candidate!on_message
  <1>2. /\ Candidate!Reducible(candidate_orders, m.order, m.quantity) = reducible
        /\ Candidate!Reduced(candidate_orders, m.order, m.quantity) = left
        /\ Candidate!Cancel(order.side, order.price, m.quantity, m.order) = cancel
    BY CandidateOperators, CandidateCancel
  <1>3. CASE ~reducible
    <2>1. Candidate!cancel_partial(m) = Candidate!Malformed
      <3> HIDE DEF reducible
      <3> QED  BY <1>2, <1>3 DEF Candidate!cancel_partial
    <2> QED  BY <1>1, <1>3, <2>1, CandidateRefusals DEF Refuses
  <1>4. CASE reducible
    <2>1. \E update :
            Candidate!cancel_partial(m)
              = [Candidate!Unchanged EXCEPT !.transactions = cancel, !.update = update,
                                            !.orders = left]
      <3> HIDE DEF reducible, left, cancel
      <3> QED  BY <1>2, <1>4 DEF Candidate!cancel_partial
    <2> HIDE DEF left, cancel
    <2>2. /\ Candidate!cancel_partial(m).orders = left
          /\ Candidate!cancel_partial(m).matches = candidate_matches
          /\ Candidate!cancel_partial(m).details = <<>>
          /\ Candidate!cancel_partial(m).transactions = cancel
          /\ Candidate!cancel_partial(m).counted = "none"
      BY <2>1 DEF Candidate!Unchanged
    <2>3. Cancels(Candidate!on_message(m), left, <<>>, m.order, m.quantity)
      BY <1>1, <2>2 DEF Cancels, cancel
    <2> QED  BY <1>4, <2>3 DEF left
  <1> QED  BY <1>3, <1>4

LEMMA CandidateCancelAll ==
  ASSUME NEW m, m.type = "D"
  PROVE  IF m.order \in DOMAIN candidate_orders
         THEN Cancels(Candidate!on_message(m), Drop(candidate_orders, m.order), <<>>,
                      m.order, candidate_orders[m.order].remaining)
         ELSE Refuses(Candidate!on_message(m))
  <1> DEFINE order == candidate_orders[m.order]
             left == Drop(candidate_orders, m.order)
             cancel == <<Transaction("Cancel", NoId, order.side, order.price,
                                     order.remaining, m.order)>>
  <1>1. Candidate!on_message(m) = Candidate!cancel_all(m)  BY DEF Candidate!on_message
  <1>2. /\ Candidate!Drop(candidate_orders, m.order) = left
        /\ Candidate!Cancel(order.side, order.price, order.remaining, m.order) = cancel
    BY CandidateOperators, CandidateCancel
  <1>3. CASE m.order \notin DOMAIN candidate_orders
    <2>1. Candidate!cancel_all(m) = Candidate!Malformed
      BY <1>3 DEF Candidate!cancel_all
    <2> QED  BY <1>1, <1>3, <2>1, CandidateRefusals DEF Refuses
  <1>4. CASE m.order \in DOMAIN candidate_orders
    <2>1. \E update :
            Candidate!cancel_all(m)
              = [Candidate!Unchanged EXCEPT !.transactions = cancel, !.update = update,
                                            !.orders = left]
      <3> HIDE DEF left, cancel
      <3> QED  BY <1>2, <1>4 DEF Candidate!cancel_all
    <2> HIDE DEF left, cancel
    <2>2. /\ Candidate!cancel_all(m).orders = left
          /\ Candidate!cancel_all(m).matches = candidate_matches
          /\ Candidate!cancel_all(m).details = <<>>
          /\ Candidate!cancel_all(m).transactions = cancel
          /\ Candidate!cancel_all(m).counted = "none"
      BY <2>1 DEF Candidate!Unchanged
    <2>3. Cancels(Candidate!on_message(m), left, <<>>, m.order, order.remaining)
      BY <1>1, <2>2 DEF Cancels, cancel
    <2> QED  BY <1>4, <2>3 DEF left
  <1> QED  BY <1>3, <1>4

CandidateRefusesReplace(m) ==
    \/ m.order \notin DOMAIN candidate_orders \/ m.new = NoId \/ m.quantity = 0
    \/ m.price = 0 \/ m.new \in DOMAIN candidate_orders

\* The insert of the new order finds room for its id.
LEMMA ReplaceFits ==
  ASSUME NEW m, ~CandidateRefusesReplace(m)
  PROVE  Candidate!ReplaceInserts(m) \in {"Inserted", "Full"}
  <1> DEFINE dropped == Drop(candidate_orders, m.order)
  <1>1. Candidate!Drop(candidate_orders, m.order) = dropped  BY CandidateOperators
  <1>2. m.new # NoId /\ m.new \notin DOMAIN dropped
    BY DEF CandidateRefusesReplace, Drop
  <1> HIDE DEF dropped
  <1>3. Candidate!ReplaceInserts(m) = Candidate!InsertResult(dropped, m.new, MaxOrders)
    BY <1>1 DEF Candidate!ReplaceInserts
  <1> QED  BY <1>2, <1>3 DEF Candidate!InsertResult

LEMMA CandidateReplace ==
  ASSUME NEW m, m.type = "U"
  PROVE  LET new == Order(m.price, m.quantity, candidate_orders[m.order].side)
         IN  IF CandidateRefusesReplace(m) THEN Refuses(Candidate!on_message(m))
             ELSE \/ Candidate!on_message(m).counted = "capacity_exhaustions"
                  \/ Cancels(Candidate!on_message(m),
                             Put(Drop(candidate_orders, m.order), m.new, new),
                             <<Detail(m.new, new)>>, m.order,
                             candidate_orders[m.order].remaining)
  <1> DEFINE order == candidate_orders[m.order]
             new == Order(m.price, m.quantity, order.side)
             dropped == Drop(candidate_orders, m.order)
             left == Put(dropped, m.new, new)
             details == <<Detail(m.new, new)>>
             cancel == <<Transaction("Cancel", NoId, order.side, order.price,
                                     order.remaining, m.order)>>
  <1>1. Candidate!on_message(m) = Candidate!replace(m)  BY DEF Candidate!on_message
  <1>2. /\ Candidate!Drop(candidate_orders, m.order) = dropped
        /\ Candidate!Order(m.price, m.quantity, order.side) = new
        /\ Candidate!Put(dropped, m.new, new) = left
        /\ Candidate!Cancel(order.side, order.price, order.remaining, m.order) = cancel
        /\ Candidate!Detail(m.new, new) = Detail(m.new, new)
    BY CandidateOperators, CandidateCancel
  <1>3. CASE CandidateRefusesReplace(m)
    <2>1. Candidate!replace(m) = Candidate!Malformed
      BY <1>3 DEF Candidate!replace, CandidateRefusesReplace
    <2> QED  BY <1>1, <1>3, <2>1, CandidateRefusals DEF Refuses
  <1>4. CASE ~CandidateRefusesReplace(m) /\ Candidate!ReplaceInserts(m) = "Full"
    <2>1. Candidate!replace(m) = Candidate!InsertFailure("Full")
      BY <1>4 DEF Candidate!replace, CandidateRefusesReplace
    <2> QED  BY <1>1, <1>4, <2>1, CandidateRefusals
  <1>5. CASE ~CandidateRefusesReplace(m) /\ Candidate!ReplaceInserts(m) = "Inserted"
    <2>1. \E update :
            Candidate!replace(m)
              = [Candidate!Unchanged EXCEPT !.orders = left, !.transactions = cancel,
                                            !.details = details, !.update = update]
      <3> HIDE DEF left, cancel, dropped, new
      <3> QED  BY <1>2, <1>5 DEF Candidate!replace, CandidateRefusesReplace
    <2> HIDE DEF left, cancel, details
    <2>2. /\ Candidate!replace(m).orders = left
          /\ Candidate!replace(m).matches = candidate_matches
          /\ Candidate!replace(m).details = details
          /\ Candidate!replace(m).transactions = cancel
          /\ Candidate!replace(m).counted = "none"
      BY <2>1 DEF Candidate!Unchanged
    <2>3. Cancels(Candidate!on_message(m), left, details, m.order, order.remaining)
      BY <1>1, <2>2 DEF Cancels, cancel
    <2> QED  BY <1>5, <2>3 DEF left, details
  <1> QED  BY <1>3, <1>4, <1>5, ReplaceFits

\* The trades of hidden orders and of crosses.
LEMMA CandidatePrinted ==
  ASSUME NEW m, NEW order, NEW side
  PROVE  LET match == Match(m.price, m.quantity, order, side, TRUE)
             first == FirstSeen(m.match)
             new == Candidate!Printed(m, order, side)
         IN  /\ new.orders = candidate_orders
             /\ first \in {"Full", "InvalidKey"} =>
                  new.counted \in {"capacity_exhaustions", "malformed_or_missing_orders"}
             /\ first = "Duplicate" =>
                  /\ new.matches = candidate_matches /\ new.details = <<>>
                  /\ new.transactions = <<>>
                  /\ new.counted = "duplicate_matches_suppressed"
             /\ first = "Inserted" =>
                  /\ new.matches = Put(candidate_matches, m.match, match)
                  /\ new.details = <<>>
                  /\ new.transactions
                       = <<Transaction("Trade", m.match, side, m.price, m.quantity, order)>>
                  /\ new.counted = "none"
  <1> DEFINE match == Match(m.price, m.quantity, order, side, TRUE)
             first == FirstSeen(m.match)
             new == Candidate!Printed(m, order, side)
             matches == Put(candidate_matches, m.match, match)
             trade == <<Transaction("Trade", m.match, side, m.price, m.quantity, order)>>
  <1>1. Candidate!Match(m.price, m.quantity, order, side, TRUE) = match
    BY DEF Candidate!Match, Match
  <1>2. Candidate!Transaction("Trade", m.match, side, m.price, m.quantity, order)
          = Transaction("Trade", m.match, side, m.price, m.quantity, order)
    BY CandidateOperators
  <1> HIDE DEF match
  <1>3. Candidate!Put(candidate_matches, m.match, match) = matches  BY CandidateOperators
  <1>4. first \in {"Full", "InvalidKey", "Duplicate", "Inserted"}
    BY DEF FirstSeen, Candidate!InsertResult
  <1>5. CASE first \in {"Full", "InvalidKey"}
    <2>1. new = Candidate!InsertFailure(first)
      BY <1>5 DEF Candidate!Printed, FirstSeen
    <2>2. Candidate!InsertFailure(first).orders = candidate_orders
          /\ Candidate!InsertFailure(first).counted
               \in {"capacity_exhaustions", "malformed_or_missing_orders"}
      BY CandidateRefusals
    <2> HIDE DEF new
    <2> QED  BY <1>5, <2>1, <2>2 DEF new
  <1>6. CASE first = "Duplicate"
    <2>1. new = [Candidate!Unchanged EXCEPT !.counted = "duplicate_matches_suppressed"]
      BY <1>6 DEF Candidate!Printed, FirstSeen, Candidate!Prints
    <2>2. /\ new.orders = candidate_orders /\ new.matches = candidate_matches
          /\ new.details = <<>> /\ new.transactions = <<>>
          /\ new.counted = "duplicate_matches_suppressed"
      <3> HIDE DEF new
      <3> QED  BY <2>1 DEF Candidate!Unchanged
    <2> QED  BY <1>6, <2>2
  <1>7. CASE first = "Inserted"
    <2>1. Candidate!Unchanged.matches = candidate_matches  BY DEF Candidate!Unchanged
    <2>2. \E update :
            new = [Candidate!Unchanged EXCEPT !.matches = matches, !.update = update,
                                              !.transactions = trade]
      <3> HIDE DEF matches, trade
      <3>1. Candidate!Printed(m, order, side)
              = [Candidate!Unchanged EXCEPT
                   !.matches = matches,
                   !.update = Candidate!Update("Trade", order, NoId, m.match, m.price,
                                               m.quantity, side, TRUE),
                   !.transactions = trade]
        BY <1>1, <1>2, <1>3, <1>7, <2>1
           DEF Candidate!Printed, FirstSeen, Candidate!Prints, trade
      <3> QED  BY <3>1
    <2> HIDE DEF matches, trade, new
    <2>3. /\ new.orders = candidate_orders /\ new.matches = matches
          /\ new.details = <<>> /\ new.transactions = trade /\ new.counted = "none"
      BY <2>2 DEF Candidate!Unchanged
    <2> QED  BY <1>7, <2>3 DEF matches, trade, match, new
  <1> QED  BY <1>4, <1>5, <1>6, <1>7

LEMMA CandidatePrintedOrders ==
  ASSUME NEW m, NEW order, NEW side
  PROVE  Candidate!Printed(m, order, side).orders = candidate_orders
  BY CandidatePrinted

LEMMA CandidateBrokenTrade ==
  ASSUME NEW m, m.type = "B"
  PROVE  LET match == candidate_matches[m.match]
             new == Candidate!on_message(m)
         IN  /\ new.orders = candidate_orders
             /\ m.match \notin DOMAIN candidate_matches =>
                  new.counted = "unknown_broken_trades"
             /\ m.match \in DOMAIN candidate_matches =>
                  /\ new.matches = Drop(candidate_matches, m.match) /\ new.details = <<>>
                  /\ new.transactions = IF ~match.emitted THEN <<>>
                       ELSE <<Transaction("TradeBust", m.match, match.side, match.price,
                                          match.quantity, match.order)>>
                  /\ new.counted = IF match.emitted THEN "none"
                                   ELSE "broken_trades_without_output"
  <1> DEFINE match == candidate_matches[m.match]
             new == Candidate!on_message(m)
             matches == Drop(candidate_matches, m.match)
             bust == Transaction("TradeBust", m.match, match.side, match.price,
                                 match.quantity, match.order)
             transactions == IF ~match.emitted THEN <<>> ELSE <<bust>>
             counted == IF match.emitted THEN "none" ELSE "broken_trades_without_output"
  <1>1. new = Candidate!broken_trade(m)  BY DEF Candidate!on_message
  <1>2. /\ Candidate!MatchesWithout(m.match) = matches
        /\ Candidate!Transaction("TradeBust", m.match, match.side, match.price,
                                 match.quantity, match.order) = bust
    <2>1. Candidate!Drop(candidate_matches, m.match) = matches  BY CandidateOperators
    <2>2. Candidate!MatchesWithout(m.match) = matches
      BY <2>1 DEF Candidate!MatchesWithout
    <2> QED  BY <2>2, CandidateOperators
  <1>3. CASE m.match \notin DOMAIN candidate_matches
    <2>1. new = [Candidate!Unchanged EXCEPT !.counted = "unknown_broken_trades"]
      BY <1>1, <1>3 DEF Candidate!broken_trade
    <2> HIDE DEF new
    <2>2. new.orders = candidate_orders /\ new.counted = "unknown_broken_trades"
      BY <2>1 DEF Candidate!Unchanged
    <2> QED  BY <1>3, <2>2 DEF new
  <1>4. CASE m.match \in DOMAIN candidate_matches
    <2>1. \E update :
            Candidate!broken_trade(m)
              = [Candidate!Unchanged EXCEPT !.update = update, !.transactions = transactions,
                                            !.counted = counted, !.matches = matches]
      <3>1. Candidate!broken_trade(m)
              = [Candidate!Unchanged EXCEPT
                   !.update = Candidate!Update("TradeBust", match.order, NoId, m.match,
                                match.price, match.quantity, match.side, match.emitted),
                   !.transactions = transactions, !.counted = counted, !.matches = matches]
        <4> HIDE DEF matches, bust
        <4> QED  BY <1>2, <1>4 DEF Candidate!broken_trade
      <3> QED  BY <3>1
    <2> HIDE DEF matches, transactions, counted, new
    <2>2. /\ new.orders = candidate_orders /\ new.matches = matches /\ new.details = <<>>
          /\ new.transactions = transactions /\ new.counted = counted
      BY <1>1, <2>1 DEF Candidate!Unchanged
    <2> QED  BY <1>4, <2>2 DEF matches, transactions, counted, new
  <1> QED  BY <1>3, <1>4

\* The orders the candidate keeps after a message that concerns none.
LEMMA CandidateTrades ==
  ASSUME NEW m
  PROVE  /\ m.type = "P" =>
              IF m.quantity = 0 \/ m.price = 0 \/ side_of(m.side) = "Unknown"
              THEN Refuses(Candidate!on_message(m))
              ELSE Candidate!on_message(m) = Candidate!Printed(m, m.order, side_of(m.side))
         /\ m.type = "Q" =>
              IF m.quantity = 0 \/ m.price = 0 THEN Refuses(Candidate!on_message(m))
              ELSE Candidate!on_message(m) = Candidate!Printed(m, NoId, "Unknown")
  <1>1. Candidate!side_of(m.side) = side_of(m.side)  BY CandidateOperators
  <1>2. Refuses(Candidate!Malformed)  BY CandidateRefusals DEF Refuses
  <1>3. CASE m.type = "P"
    <2>1. Candidate!on_message(m) = Candidate!non_cross_trade(m)
      BY <1>3 DEF Candidate!on_message
    <2> QED  BY <1>1, <1>2, <1>3, <2>1 DEF Candidate!non_cross_trade
  <1>4. CASE m.type = "Q"
    <2>1. Candidate!on_message(m) = Candidate!cross_trade(m)
      BY <1>4 DEF Candidate!on_message
    <2> QED  BY <1>2, <1>4, <2>1 DEF Candidate!cross_trade
  <1> QED  BY <1>3, <1>4

LEMMA CandidateOther ==
  ASSUME NEW m, m.type \notin {"A", "E", "C", "X", "D", "U", "P", "Q", "B"}
  PROVE  IF m.type = "wrong_size" THEN Refuses(Candidate!on_message(m))
         ELSE /\ Candidate!on_message(m).orders = candidate_orders
              /\ Candidate!on_message(m).matches = candidate_matches
              /\ Candidate!on_message(m).details = <<>>
              /\ Candidate!on_message(m).transactions = <<>>
              /\ Candidate!on_message(m).counted = "none"
  <1>1. Candidate!on_message(m)
          = IF m.type = "wrong_size" THEN Candidate!Malformed ELSE Candidate!Unchanged
    BY DEF Candidate!on_message
  <1> QED  BY <1>1, CandidateRefusals DEF Refuses, Candidate!Unchanged

-----------------------------------------------------------------------------
(***************************************************************************)
(* While neither counts an error, the adapters publish the same and keep   *)
(* the same.                                                               *)
(***************************************************************************)
Detailed(events) ==
    [i \in DOMAIN events |-> Detail(events[i].id, AsUft(events[i].order))]

Agree(old, new) ==
    /\ new.orders = UftTable(old.orders) /\ new.matches = UftTable(old.matches)
    /\ new.details = Detailed(old.details) /\ Len(new.details) = Len(old.details)
    /\ new.transactions = old.transactions
    /\ new.counted = Counter(old.counted)

Same == candidate_orders = UftTable(reference_orders)
SameMatches == candidate_matches = UftTable(reference_matches)

\* Neither counts an error for the message.
Taken(m) ==
    /\ Reference!on_message(m).counted # "errors"
    /\ Candidate!on_message(m).counted \notin Candidate!Errors

LEMMA DetailedEvents ==
  ASSUME NEW id, NEW order
  PROVE  /\ Detailed(<<>>) = <<>> /\ Len(<<>>) = 0
         /\ Detailed(<<Detail(id, order)>>) = <<Detail(id, AsUft(order))>>
         /\ Len(<<Detail(id, order)>>) = 1 /\ Len(<<Detail(id, AsUft(order))>>) = 1
  <1>1. Detailed(<<>>) = <<>> /\ Len(<<>>) = 0  BY DEF Detailed
  <1>2. Detail(id, order).id = id /\ Detail(id, order).order = order  BY DEF Detail
  <1> DEFINE d == Detail(id, order)
  <1> HIDE DEF d
  <1>3. Detailed(<<d>>) = <<Detail(d.id, AsUft(d.order))>>  BY DEF Detailed
  <1> QED  BY <1>1, <1>2, <1>3 DEF d

LEMMA SameDomains ==
  ASSUME NEW table, NEW uft, uft = UftTable(table)
  PROVE  DOMAIN uft = DOMAIN table
  BY DEF UftTable

LEMMA SameOrder ==
  ASSUME TablesOK, Same, NEW id \in DOMAIN reference_orders
  PROVE  /\ id \in DOMAIN candidate_orders
         /\ candidate_orders[id].price = reference_orders[id].price
         /\ candidate_orders[id].remaining = reference_orders[id].remaining
         /\ candidate_orders[id].side = side_of(reference_orders[id].side)
  <1>1. candidate_orders[id]
          = Order(reference_orders[id].price, reference_orders[id].remaining,
                  side_of(reference_orders[id].side))
    BY UftOrder DEF TablesOK, Same
  <1>2. DOMAIN candidate_orders = DOMAIN reference_orders  BY SameDomains DEF Same
  <1> QED  BY <1>1, <1>2 DEF Order

LEMMA SameReducible ==
  ASSUME TablesOK, Same, NEW id, NEW quantity
  PROVE  Reducible(candidate_orders, id, quantity) <=> Reducible(reference_orders, id, quantity)
  <1>1. DOMAIN candidate_orders = DOMAIN reference_orders  BY SameDomains DEF Same
  <1>2. id \in DOMAIN reference_orders =>
          candidate_orders[id].remaining = reference_orders[id].remaining
    BY SameOrder
  <1> QED  BY <1>1, <1>2 DEF Reducible

\* An outcome of the reference and the fields of one of the candidate.
LEMMA Agreement ==
  ASSUME NEW new, NEW o, NEW ms, NEW d, NEW t, NEW c,
         new.orders = UftTable(o), new.matches = UftTable(ms), new.details = Detailed(d),
         Len(new.details) = Len(d), new.transactions = t, new.counted = c, c # "errors"
  PROVE  Agree(Outcome(o, ms, d, t, c), new)
  BY OutcomeFields DEF Agree, Counter

LEMMA RefusedIsError ==
  Refused.counted = "errors"
  BY OutcomeFields DEF Refused

LEMMA CandidateErrors ==
  /\ "malformed_or_missing_orders" \in Candidate!Errors
  /\ "capacity_exhaustions" \in Candidate!Errors
  /\ "unknown_broken_trades" \in Candidate!Errors
  BY DEF Candidate!Errors

LEMMA AgreeAdd ==
  ASSUME NEW m, m.type = "A", TablesOK, Same, SameMatches, Taken(m)
  PROVE  Agree(Reference!on_message(m), Candidate!on_message(m))
  <1> DEFINE order == Order(m.price, m.quantity, m.side)
             uft == Order(m.price, m.quantity, side_of(m.side))
             left == Put(reference_orders, m.order, order)
             new == Candidate!on_message(m)
  <1>1. ~InvalidAdd(m)  BY RefusedIsError, ReferenceAdd DEF Taken
  <1>2. Reference!on_message(m)
          = Outcome(left, reference_matches, <<Detail(m.order, order)>>, <<>>, "none")
    BY <1>1, ReferenceAdd
  <1>3. new.counted # "capacity_exhaustions" /\ new.counted # "malformed_or_missing_orders"
    BY CandidateErrors DEF Taken
  <1>4. /\ new.orders = Put(candidate_orders, m.order, uft)
        /\ new.matches = candidate_matches /\ new.details = <<Detail(m.order, uft)>>
        /\ new.transactions = <<>> /\ new.counted = "none"
    <2> HIDE DEF new
    <2> QED  BY <1>3, CandidateAdd DEF new
  <1>5. AsUft(order) = uft  BY NewOrder
  <1>6. UftTable(left) = Put(candidate_orders, m.order, uft)
    <2> HIDE DEF order, uft
    <2> QED  BY <1>5, UftPut DEF Same
  <1>7. Detailed(<<Detail(m.order, order)>>) = <<Detail(m.order, uft)>>
        /\ Len(<<Detail(m.order, order)>>) = Len(<<Detail(m.order, uft)>>)
    <2> HIDE DEF order, uft
    <2> QED  BY <1>5, DetailedEvents
  <1> HIDE DEF order, uft, left, new
  <1>8. Agree(Outcome(left, reference_matches, <<Detail(m.order, order)>>, <<>>, "none"), new)
    BY <1>4, <1>6, <1>7, Agreement DEF SameMatches
  <1> QED  BY <1>2, <1>8 DEF new

LEMMA AgreeCancel ==
  ASSUME NEW new, NEW id \in DOMAIN reference_orders, NEW quantity, NEW left, NEW orders,
         NEW d, NEW details, TablesOK, Same, SameMatches,
         Cancels(new, orders, details, id, quantity), orders = UftTable(left),
         details = Detailed(d), Len(details) = Len(d),
         CancelOutcome(id, quantity, left, d).counted # "errors"
  PROVE  Agree(CancelOutcome(id, quantity, left, d), new)
  <1> DEFINE cancel == <<Transaction("Cancel", NoId, side_of(reference_orders[id].side),
                                     reference_orders[id].price, quantity, id)>>
  <1>1. CancelOutcome(id, quantity, left, d)
          = Outcome(left, reference_matches, d, cancel, "none")
    BY OutcomeFields DEF CancelOutcome
  <1>2. new.transactions = cancel  BY SameOrder DEF Cancels
  <1>3. /\ new.orders = UftTable(left) /\ new.matches = UftTable(reference_matches)
        /\ new.details = Detailed(d) /\ Len(new.details) = Len(d) /\ new.counted = "none"
    BY DEF Cancels, SameMatches
  <1> HIDE DEF cancel
  <1> QED  BY <1>1, <1>2, <1>3, Agreement

LEMMA AgreeCancelPartial ==
  ASSUME NEW m, m.type = "X", TablesOK, Same, SameMatches, Taken(m)
  PROVE  Agree(Reference!on_message(m), Candidate!on_message(m))
  <1> DEFINE left == Reduced(reference_orders, m.order, m.quantity)
             orders == Reduced(candidate_orders, m.order, m.quantity)
  <1>1. Reducible(reference_orders, m.order, m.quantity)
    BY RefusedIsError, ReferenceCancelPartial DEF Taken
  <1>2. Reference!on_message(m) = CancelOutcome(m.order, m.quantity, left, <<>>)
    BY <1>1, ReferenceCancelPartial
  <1>3. Cancels(Candidate!on_message(m), orders, <<>>, m.order, m.quantity)
    <2>1. Reducible(candidate_orders, m.order, m.quantity)  BY <1>1, SameReducible
    <2> QED  BY <2>1, CandidateCancelPartial
  <1>4. m.order \in DOMAIN reference_orders  BY <1>1 DEF Reducible
  <1>5. orders = UftTable(left)  BY <1>4, UftReduced DEF TablesOK, Same
  <1>6. <<>> = Detailed(<<>>)  BY DetailedEvents
  <1>7. CancelOutcome(m.order, m.quantity, left, <<>>).counted # "errors"
    BY <1>2 DEF Taken
  <1> HIDE DEF left, orders
  <1> QED  BY <1>2, <1>3, <1>4, <1>5, <1>6, <1>7, AgreeCancel

LEMMA AgreeCancelAll ==
  ASSUME NEW m, m.type = "D", TablesOK, Same, SameMatches, Taken(m)
  PROVE  Agree(Reference!on_message(m), Candidate!on_message(m))
  <1> DEFINE left == Drop(reference_orders, m.order)
             orders == Drop(candidate_orders, m.order)
             quantity == reference_orders[m.order].remaining
  <1>1. m.order \in DOMAIN reference_orders
    BY RefusedIsError, ReferenceCancelAll DEF Taken
  <1>2. Reference!on_message(m) = CancelOutcome(m.order, quantity, left, <<>>)
    BY <1>1, ReferenceCancelAll
  <1>3. m.order \in DOMAIN candidate_orders
        /\ candidate_orders[m.order].remaining = quantity
    BY <1>1, SameOrder
  <1>4. Cancels(Candidate!on_message(m), orders, <<>>, m.order, quantity)
    <2>1. Cancels(Candidate!on_message(m), orders, <<>>, m.order,
                  candidate_orders[m.order].remaining)
      BY <1>3, CandidateCancelAll
    <2> QED  BY <1>3, <2>1
  <1>5. orders = UftTable(left)  BY UftDrop DEF Same
  <1>6. <<>> = Detailed(<<>>)  BY DetailedEvents
  <1>7. CancelOutcome(m.order, quantity, left, <<>>).counted # "errors"
    BY <1>2 DEF Taken
  <1> HIDE DEF left, orders, quantity
  <1> QED  BY <1>1, <1>2, <1>4, <1>5, <1>6, <1>7, AgreeCancel

LEMMA AgreeReplace ==
  ASSUME NEW m, m.type = "U", TablesOK, Same, SameMatches, Taken(m)
  PROVE  Agree(Reference!on_message(m), Candidate!on_message(m))
  <1> DEFINE new == Replacement(m)
             uft == Order(m.price, m.quantity, candidate_orders[m.order].side)
             left == Put(Drop(reference_orders, m.order), m.new, new)
             orders == Put(Drop(candidate_orders, m.order), m.new, uft)
             quantity == reference_orders[m.order].remaining
             d == <<Detail(m.new, new)>>
             details == <<Detail(m.new, uft)>>
  <1>1. ~InvalidReplace(m)  BY RefusedIsError, ReferenceReplace DEF Taken
  <1>2. Reference!on_message(m) = CancelOutcome(m.order, quantity, left, d)
    BY <1>1, ReferenceReplace
  <1>3. m.order \in DOMAIN reference_orders  BY <1>1 DEF InvalidReplace
  <1>4. candidate_orders[m.order].remaining = quantity
        /\ candidate_orders[m.order].side = side_of(reference_orders[m.order].side)
    BY <1>3, SameOrder
  <1>5. Cancels(Candidate!on_message(m), orders, details, m.order, quantity)
    <2>1. Candidate!on_message(m).counted # "capacity_exhaustions"
      BY CandidateErrors DEF Taken
    <2>2. ~CandidateRefusesReplace(m)
      BY <1>1, SameDomains DEF InvalidReplace, CandidateRefusesReplace, Same
    <2>3. Cancels(Candidate!on_message(m), orders, details, m.order,
                  candidate_orders[m.order].remaining)
      BY <2>1, <2>2, CandidateReplace
    <2> QED  BY <1>4, <2>3
  <1>6. AsUft(new) = uft  BY <1>4, NewOrder DEF Replacement
  <1>7. orders = UftTable(left)
    <2> HIDE DEF new, uft
    <2>1. UftTable(left) = Put(UftTable(Drop(reference_orders, m.order)), m.new, AsUft(new))
      BY UftPut
    <2>2. UftTable(Drop(reference_orders, m.order)) = Drop(candidate_orders, m.order)
      BY UftDrop DEF Same
    <2> QED  BY <2>1, <2>2, <1>6
  <1>8. details = Detailed(d) /\ Len(details) = Len(d)
    <2> HIDE DEF new, uft
    <2> QED  BY <1>6, DetailedEvents
  <1>9. CancelOutcome(m.order, quantity, left, d).counted # "errors"  BY <1>2 DEF Taken
  <1> HIDE DEF left, orders, quantity, d, details
  <1> QED  BY <1>2, <1>3, <1>5, <1>7, <1>8, <1>9, AgreeCancel

LEMMA SameSeen ==
  ASSUME SameMatches, NEW id, FirstSeen(id) \notin {"Full", "InvalidKey"}
  PROVE  FirstSeen(id) = IF id \in DOMAIN reference_matches THEN "Duplicate" ELSE "Inserted"
  <1>1. DOMAIN candidate_matches = DOMAIN reference_matches
    BY SameDomains DEF SameMatches
  <1> QED  BY <1>1 DEF FirstSeen, Candidate!InsertResult

LEMMA AgreeExecute ==
  ASSUME NEW m, m.type \in {"E", "C"}, TablesOK, Same, SameMatches, Taken(m)
  PROVE  Agree(Reference!on_message(m), Candidate!on_message(m))
  <1> DEFINE left == Reduced(reference_orders, m.order, m.quantity)
             match == ExecutionMatch(m)
             matches == Emplaced(reference_matches, m.match, match)
             order == candidate_orders[m.order]
             uft == Match(CandidatePrice(m), m.quantity, m.order, order.side,
                          CandidatePrintable(m))
             trade == <<Transaction("Trade", m.match, order.side, CandidatePrice(m),
                                    m.quantity, m.order)>>
             first == FirstSeen(m.match)
             new == Candidate!on_message(m)
  <1>1. Reducible(reference_orders, m.order, m.quantity)
    BY RefusedIsError, ReferenceExecute DEF Taken
  <1>2. m.order \in DOMAIN reference_orders  BY <1>1 DEF Reducible
  <1>3. /\ Reducible(candidate_orders, m.order, m.quantity) /\ CandidatePrice(m) # 0
        /\ (m.type = "C" => m.printable \in {"Y", "N"})
        /\ first \notin {"Full", "InvalidKey"}
    <2>1. new.counted \notin {"capacity_exhaustions", "malformed_or_missing_orders"}
      BY CandidateErrors DEF Taken
    <2>2. ~Executable(m) => new.counted \in {"capacity_exhaustions",
                                             "malformed_or_missing_orders"}
      BY CandidateExecute DEF ExecuteOrders
    <2> QED  BY <2>1, <2>2 DEF Executable
  <1>4. /\ new.orders = Reduced(candidate_orders, m.order, m.quantity)
        /\ new.matches = IF first = "Inserted" THEN Put(candidate_matches, m.match, uft)
                         ELSE candidate_matches
        /\ new.details = <<>>
        /\ new.transactions = IF ~CandidatePrintable(m) \/ first = "Duplicate" THEN <<>>
                              ELSE trade
        /\ new.counted = IF ~CandidatePrintable(m) THEN "non_printable_suppressed"
                         ELSE IF first = "Duplicate"
                         THEN "duplicate_matches_suppressed" ELSE "none"
    <2>1. Executable(m)  BY <1>3 DEF Executable
    <2> QED  BY <2>1, CandidateExecute DEF ExecuteOrders, ExecuteFields
  <1>5. first = IF m.match \in DOMAIN reference_matches THEN "Duplicate" ELSE "Inserted"
    BY <1>3, SameSeen
  <1>6. CandidatePrintable(m) = Printable(m)
    BY DEF CandidatePrintable, Printable
  <1>7. CandidatePrice(m) = ExecutionPrice(m)
        /\ order.side = side_of(reference_orders[m.order].side)
    BY <1>2, SameOrder DEF CandidatePrice, ExecutionPrice
  <1>8. AsUft(match) = uft /\ trade = Trade(m.match, match)
    <2>1. AsUft(match) = Match(ExecutionPrice(m), m.quantity, m.order,
                               side_of(reference_orders[m.order].side), Printable(m))
      BY DEF ExecutionMatch, AsUft, Match
    <2>2. uft = Match(ExecutionPrice(m), m.quantity, m.order,
                      side_of(reference_orders[m.order].side), Printable(m))
      BY <1>6, <1>7 DEF Match
    <2>3. match.side = reference_orders[m.order].side /\ match.price = ExecutionPrice(m)
          /\ match.quantity = m.quantity /\ match.order = m.order
      BY DEF ExecutionMatch, Match
    <2>4. trade = Trade(m.match, match)
      <3> HIDE DEF match
      <3> QED  BY <1>7, <2>3 DEF Trade
    <2> QED  BY <2>1, <2>2, <2>4
  <1>9. new.orders = UftTable(left)
    <2>1. UftTable(left) = Reduced(candidate_orders, m.order, m.quantity)
      BY <1>2, UftReduced DEF TablesOK, Same
    <2> QED  BY <1>4, <2>1
  <1>10. new.matches = UftTable(matches)
    <2> HIDE DEF match, uft, new
    <2>1. UftTable(Put(reference_matches, m.match, match))
            = Put(candidate_matches, m.match, uft)
      BY <1>8, UftPut DEF SameMatches
    <2> QED  BY <1>4, <1>5, <2>1 DEF Emplaced, SameMatches
  <1>11. new.details = Detailed(<<>>) /\ Len(new.details) = Len(<<>>)
    BY <1>4, DetailedEvents
  <1>12. ASSUME NEW t, NEW c, Reference!on_message(m) = ExecuteOutcome(m, t, c),
                new.transactions = t, new.counted = c, c # "errors"
         PROVE  Agree(Reference!on_message(m), new)
    <2>1. ExecuteOutcome(m, t, c) = Outcome(left, matches, <<>>, t, c)
      BY DEF ExecuteOutcome
    <2> HIDE DEF left, matches, new
    <2>2. Agree(Outcome(left, matches, <<>>, t, c), new)
      BY <1>9, <1>10, <1>11, <1>12, Agreement
    <2> QED  BY <1>12, <2>1, <2>2
  <1>13. CASE ~Printable(m)
    <2>1. Reference!on_message(m) = ExecuteOutcome(m, <<>>, "non_printable_suppressed")
      BY <1>1, <1>13, ReferenceExecute
    <2>2. new.transactions = <<>> /\ new.counted = "non_printable_suppressed"
      BY <1>4, <1>6, <1>13
    <2> HIDE DEF new
    <2>3. Agree(Reference!on_message(m), new)  BY <1>12, <2>1, <2>2
    <2> QED  BY <2>3 DEF new
  <1>14. CASE Printable(m) /\ m.match \in DOMAIN reference_matches
    <2>1. Reference!on_message(m) = ExecuteOutcome(m, <<>>, "duplicate_matches_suppressed")
      BY <1>1, <1>14, ReferenceExecute
    <2>2. new.transactions = <<>> /\ new.counted = "duplicate_matches_suppressed"
      BY <1>4, <1>5, <1>6, <1>14
    <2> HIDE DEF new
    <2>3. Agree(Reference!on_message(m), new)  BY <1>12, <2>1, <2>2
    <2> QED  BY <2>3 DEF new
  <1>15. CASE Printable(m) /\ m.match \notin DOMAIN reference_matches
    <2>1. \/ Reference!on_message(m) = ExecuteOutcome(m, <<>>, "errors")
          \/ Reference!on_message(m) = ExecuteOutcome(m, Trade(m.match, match), "none")
      BY <1>1, <1>15, ReferenceExecute
    <2>2. ExecuteOutcome(m, <<>>, "errors").counted = "errors"
      BY OutcomeFields DEF ExecuteOutcome
    <2>3. Reference!on_message(m) = ExecuteOutcome(m, trade, "none")
      BY <1>8, <2>1, <2>2 DEF Taken
    <2>4. new.transactions = trade /\ new.counted = "none"
      BY <1>4, <1>5, <1>6, <1>15
    <2> HIDE DEF new, trade
    <2>5. Agree(Reference!on_message(m), new)  BY <1>12, <2>3, <2>4
    <2> QED  BY <2>5 DEF new
  <1> QED  BY <1>13, <1>14, <1>15

LEMMA AgreePrinted ==
  ASSUME NEW m, NEW order, NEW side, TablesOK, Same, SameMatches, Taken(m),
         Reference!on_message(m)
           = Reference!Printed(m.match, Match(m.price, m.quantity, order, side, TRUE)),
         Candidate!on_message(m) = Candidate!Printed(m, order, side_of(side))
  PROVE  Agree(Reference!on_message(m), Candidate!on_message(m))
  <1> DEFINE match == Match(m.price, m.quantity, order, side, TRUE)
             uft == Match(m.price, m.quantity, order, side_of(side), TRUE)
             trade == <<Transaction("Trade", m.match, side_of(side), m.price, m.quantity,
                                    order)>>
             new == Candidate!on_message(m)
  <1>1. AsUft(match) = uft
    <2> DEFINE emitted == TRUE
    <2>1. match = Match(m.price, m.quantity, order, side, emitted)
          /\ uft = Match(m.price, m.quantity, order, side_of(side), emitted)
      OBVIOUS
    <2> HIDE DEF emitted, match, uft
    <2> QED  BY <2>1, NewMatch
  <1>2. trade = Trade(m.match, match)
    <2>1. match.price = m.price /\ match.quantity = m.quantity /\ match.order = order
          /\ match.side = side
      BY DEF Match
    <2> HIDE DEF match
    <2> QED  BY <2>1 DEF Trade
  <1>3. FirstSeen(m.match) \notin {"Full", "InvalidKey"}
    BY CandidatePrinted, CandidateErrors DEF Taken
  <1>4. FirstSeen(m.match)
          = IF m.match \in DOMAIN reference_matches THEN "Duplicate" ELSE "Inserted"
    BY <1>3, SameSeen
  <1>5. new.orders = UftTable(reference_orders)  BY CandidatePrinted DEF Same
  <1>6. CASE m.match \in DOMAIN reference_matches
    <2>1. Reference!on_message(m) = Outcome(reference_orders, reference_matches, <<>>, <<>>,
                                            "duplicate_matches_suppressed")
      <3> HIDE DEF match
      <3>1. Reference!on_message(m) = Reference!Printed(m.match, match)  BY DEF match
      <3> QED  BY <1>6, <3>1, ReferencePrinted
    <2>2. /\ new.matches = candidate_matches /\ new.details = <<>>
          /\ new.transactions = <<>> /\ new.counted = "duplicate_matches_suppressed"
      BY <1>4, <1>6, CandidatePrinted
    <2> HIDE DEF new
    <2>3. Agree(Outcome(reference_orders, reference_matches, <<>>, <<>>,
                        "duplicate_matches_suppressed"), new)
      BY <1>5, <2>2, Agreement, DetailedEvents DEF SameMatches
    <2> QED  BY <2>1, <2>3 DEF new
  <1>7. CASE m.match \notin DOMAIN reference_matches
    <2> DEFINE matches == Put(reference_matches, m.match, match)
    <2>1. Reference!on_message(m) = Outcome(reference_orders, matches, <<>>, trade, "none")
      <3> HIDE DEF match, trade
      <3>1. Reference!on_message(m) = Reference!Printed(m.match, match)  BY DEF match
      <3>2. \/ Reference!on_message(m) = PrintOutcome(m.match, match, <<>>, "errors")
            \/ Reference!on_message(m)
                 = PrintOutcome(m.match, match, Trade(m.match, match), "none")
        BY <1>7, <3>1, ReferencePrinted
      <3>3. PrintOutcome(m.match, match, <<>>, "errors").counted = "errors"
        BY OutcomeFields DEF PrintOutcome
      <3> QED  BY <1>2, <3>2, <3>3 DEF PrintOutcome, Taken
    <2>2. /\ new.matches = Put(candidate_matches, m.match, uft) /\ new.details = <<>>
          /\ new.transactions = trade /\ new.counted = "none"
      BY <1>4, <1>7, CandidatePrinted
    <2>3. UftTable(matches) = Put(candidate_matches, m.match, uft)
      <3> HIDE DEF match, uft
      <3> QED  BY <1>1, UftPut DEF SameMatches
    <2> HIDE DEF new, matches, trade, uft
    <2>4. Agree(Outcome(reference_orders, matches, <<>>, trade, "none"), new)
      BY <1>5, <2>2, <2>3, Agreement, DetailedEvents
    <2> QED  BY <2>1, <2>4 DEF new
  <1> QED  BY <1>6, <1>7

LEMMA AgreeTrades ==
  ASSUME NEW m, m.type \in {"P", "Q"}, TablesOK, Same, SameMatches, Taken(m)
  PROVE  Agree(Reference!on_message(m), Candidate!on_message(m))
  <1>1. ~Refuses(Candidate!on_message(m))  BY CandidateErrors DEF Taken, Refuses
  <1>2. CASE m.type = "P"
    <2>1. Reference!on_message(m)
            = Reference!Printed(m.match, Match(m.price, m.quantity, m.order, m.side, TRUE))
      BY <1>2, ReferenceNonCrossTrade
    <2>2. Candidate!on_message(m) = Candidate!Printed(m, m.order, side_of(m.side))
      BY <1>1, <1>2, CandidateTrades
    <2> QED  BY <2>1, <2>2, AgreePrinted
  <1>3. CASE m.type = "Q"
    <2>1. Reference!on_message(m)
            = Reference!Printed(m.match, Match(m.price, m.quantity, NoId, "unknown", TRUE))
      BY <1>3, ReferenceCrossTrade, RefusedIsError DEF Taken
    <2>2. Candidate!on_message(m) = Candidate!Printed(m, NoId, "Unknown")
      BY <1>1, <1>3, CandidateTrades
    <2>3. side_of("unknown") = "Unknown"  BY DEF side_of
    <2> QED  BY <2>1, <2>2, <2>3, AgreePrinted
  <1> QED  BY <1>2, <1>3

LEMMA AgreeBrokenTrade ==
  ASSUME NEW m, m.type = "B", TablesOK, Same, SameMatches, Taken(m)
  PROVE  Agree(Reference!on_message(m), Candidate!on_message(m))
  <1> DEFINE match == reference_matches[m.match]
             uft == candidate_matches[m.match]
             matches == Drop(reference_matches, m.match)
             bust == <<Transaction("TradeBust", m.match, uft.side, uft.price, uft.quantity,
                                   uft.order)>>
             new == Candidate!on_message(m)
  <1>1. DOMAIN candidate_matches = DOMAIN reference_matches
    BY SameDomains DEF SameMatches
  <1>2. m.match \in DOMAIN reference_matches
    BY <1>1, CandidateBrokenTrade, CandidateErrors DEF Taken
  <1>3. uft = Match(match.price, match.quantity, match.order, side_of(match.side),
                    match.emitted)
    BY <1>2, UftMatch DEF TablesOK, SameMatches
  <1>4. /\ uft.price = match.price /\ uft.quantity = match.quantity
        /\ uft.order = match.order /\ uft.side = side_of(match.side)
        /\ uft.emitted = match.emitted
    <2> HIDE DEF uft, match
    <2> QED  BY <1>3 DEF Match
  <1>5. /\ new.orders = candidate_orders /\ new.matches = Drop(candidate_matches, m.match)
        /\ new.details = <<>>
        /\ new.transactions = IF ~uft.emitted THEN <<>> ELSE bust
        /\ new.counted = IF uft.emitted THEN "none" ELSE "broken_trades_without_output"
    BY <1>1, <1>2, CandidateBrokenTrade
  <1>6. UftTable(matches) = Drop(candidate_matches, m.match)  BY UftDrop DEF SameMatches
  <1>7. CASE ~match.emitted
    <2>1. Reference!on_message(m) = Outcome(reference_orders, matches, <<>>, <<>>,
                                            "broken_trades_without_output")
      BY <1>2, <1>7, ReferenceBrokenTrade
    <2>2. new.transactions = <<>> /\ new.counted = "broken_trades_without_output"
      <3> HIDE DEF new, uft, match, bust
      <3> QED  BY <1>4, <1>5, <1>7
    <2> HIDE DEF new, matches
    <2>3. Agree(Outcome(reference_orders, matches, <<>>, <<>>,
                        "broken_trades_without_output"), new)
      BY <1>5, <1>6, <2>2, Agreement, DetailedEvents DEF Same
    <2> QED  BY <2>1, <2>3 DEF new
  <1>8. CASE match.emitted
    <2>1. Reference!on_message(m) = Outcome(reference_orders, matches, <<>>, <<>>, "errors")
          \/ Reference!on_message(m) = Outcome(reference_orders, matches, <<>>, bust, "none")
      <3>1. bust = <<Transaction("TradeBust", m.match, side_of(match.side), match.price,
                                 match.quantity, match.order)>>
        <4> HIDE DEF uft, match
        <4> QED  BY <1>4
      <3> HIDE DEF bust
      <3> QED  BY <1>2, <1>8, <3>1, ReferenceBrokenTrade
    <2>2. Reference!on_message(m) = Outcome(reference_orders, matches, <<>>, bust, "none")
      <3> HIDE DEF bust, matches
      <3> QED  BY <2>1, OutcomeFields DEF Taken
    <2>3. new.transactions = bust /\ new.counted = "none"
      <3> HIDE DEF new, uft, match, bust
      <3> QED  BY <1>4, <1>5, <1>8
    <2> HIDE DEF new, matches, bust
    <2>4. Agree(Outcome(reference_orders, matches, <<>>, bust, "none"), new)
      BY <1>5, <1>6, <2>3, Agreement, DetailedEvents DEF Same
    <2> QED  BY <2>2, <2>4 DEF new
  <1> QED  BY <1>7, <1>8

LEMMA AgreeOther ==
  ASSUME NEW m, m.type \notin {"A", "E", "C", "X", "D", "U", "P", "Q", "B"},
         TablesOK, Same, SameMatches, Taken(m)
  PROVE  Agree(Reference!on_message(m), Candidate!on_message(m))
  <1> DEFINE new == Candidate!on_message(m)
  <1>1. Reference!on_message(m)
          = Outcome(reference_orders, reference_matches, <<>>, <<>>, "none")
        /\ m.type # "wrong_size"
    BY ReferenceOther, RefusedIsError DEF Taken
  <1>2. /\ new.orders = candidate_orders /\ new.matches = candidate_matches
        /\ new.details = <<>> /\ new.transactions = <<>> /\ new.counted = "none"
    BY <1>1, CandidateOther
  <1> HIDE DEF new
  <1>3. Agree(Outcome(reference_orders, reference_matches, <<>>, <<>>, "none"), new)
    BY <1>2, Agreement, DetailedEvents DEF Same, SameMatches
  <1> QED  BY <1>1, <1>3 DEF new

LEMMA AgreeMessage ==
  ASSUME NEW m, TablesOK, Same, SameMatches, Taken(m)
  PROVE  Agree(Reference!on_message(m), Candidate!on_message(m))
  BY AgreeAdd, AgreeExecute, AgreeCancelPartial, AgreeCancelAll, AgreeReplace, AgreeTrades,
     AgreeBrokenTrade, AgreeOther

-----------------------------------------------------------------------------
(***************************************************************************)
(* Whatever is refused, a difference between the orders has shown.         *)
(***************************************************************************)

\* A message that shows no difference leaves the orders the same, unless it
\* has an id the reference does not publish.
LEMMA SameOrders ==
  ASSUME NEW m, TablesOK, Same, ~Wide(m),
         m.type \in {"E", "C"} => {"order", "match"} \subseteq DOMAIN m,
         Counter(Reference!on_message(m).counted) = Candidate!on_message(m).counted,
         Candidate!on_message(m).counted # "capacity_exhaustions"
  PROVE  Candidate!on_message(m).orders = UftTable(Reference!on_message(m).orders)
  <1> DEFINE new == Candidate!on_message(m)
             old == Reference!on_message(m)
  <1>1. DOMAIN candidate_orders = DOMAIN reference_orders  BY SameDomains DEF Same
  <1>2. CASE m.type = "A"
    <2> DEFINE order == Order(m.price, m.quantity, m.side)
               uft == Order(m.price, m.quantity, side_of(m.side))
    <2>1. side_of(m.side) = "Unknown" <=> m.side \notin {"B", "S"}  BY DEF side_of
    <2>2. CASE InvalidAdd(m)
      <3>1. old.orders = reference_orders  BY <1>2, <2>2, ReferenceOrders
      <3>2. ~(/\ side_of(m.side) # "Unknown" /\ m.quantity # 0 /\ m.price # 0
              /\ Candidate!InsertResult(candidate_orders, m.order, MaxOrders) = "Inserted")
        BY <1>1, <2>1, <2>2 DEF InvalidAdd, Candidate!InsertResult
      <3>3. new.orders = candidate_orders  BY <1>2, <3>2, CandidateAdd
      <3> QED  BY <3>1, <3>3 DEF Same
    <2>3. CASE ~InvalidAdd(m)
      <3>1. old.orders = Put(reference_orders, m.order, order)
        BY <1>2, <2>3, ReferenceOrders
      <3>2. /\ side_of(m.side) # "Unknown" /\ m.quantity # 0 /\ m.price # 0
            /\ Candidate!InsertResult(candidate_orders, m.order, MaxOrders)
                 \in {"Inserted", "Full"}
        BY <1>1, <2>1, <2>3 DEF InvalidAdd, Candidate!InsertResult
      <3>3. new.orders = Put(candidate_orders, m.order, uft)
        BY <1>2, <3>2, CandidateAdd
      <3>4. AsUft(order) = uft  BY NewOrder
      <3> HIDE DEF order, uft, new, old
      <3>5. UftTable(old.orders) = new.orders  BY <3>1, <3>3, <3>4, UftPut DEF Same
      <3> QED  BY <3>5 DEF new, old
    <2> QED  BY <2>2, <2>3
  <1>3. CASE m.type \in {"E", "C"}
    <2>1. m.order # MaxId /\ m.match # MaxId  BY <1>3 DEF Wide
    <2>2. CASE ~Reducible(reference_orders, m.order, m.quantity)
      <3>1. old.orders = reference_orders  BY <1>3, <2>2, ReferenceOrders
      <3>2. ~Reducible(candidate_orders, m.order, m.quantity)  BY <2>2, SameReducible
      <3>3. new.orders = candidate_orders
        BY <1>3, <3>2, CandidateExecute DEF Executable, ExecuteOrders
      <3> QED  BY <3>1, <3>3 DEF Same
    <2>3. CASE Reducible(reference_orders, m.order, m.quantity)
      <3>1. old.orders = Reduced(reference_orders, m.order, m.quantity)
        BY <1>3, <2>3, ReferenceOrders
      <3>2. m.quantity # 0 /\ m.order \in DOMAIN reference_orders
        BY <2>3 DEF Reducible
      <3>3. old.counted \in {"non_printable_suppressed", "duplicate_matches_suppressed",
                             "none"}
        <4>1. \A t, c : ExecuteOutcome(m, t, c).counted = c
          BY OutcomeFields DEF ExecuteOutcome
        <4> QED  BY <1>3, <2>1, <2>3, <3>2, <4>1, ReferenceExecute
      <3>4. new.counted \notin {"capacity_exhaustions", "malformed_or_missing_orders"}
        <4> HIDE DEF new, old
        <4>1. Counter(old.counted) = new.counted /\ new.counted # "capacity_exhaustions"
          BY DEF new, old
        <4> QED  BY <3>3, <4>1 DEF Counter
      <3>5. new.orders = Reduced(candidate_orders, m.order, m.quantity)
        BY <1>3, <3>4, CandidateExecute DEF ExecuteOrders
      <3>6. UftTable(Reduced(reference_orders, m.order, m.quantity))
              = Reduced(candidate_orders, m.order, m.quantity)
        BY <3>2, UftReduced DEF TablesOK, Same
      <3> QED  BY <3>1, <3>5, <3>6
    <2> QED  BY <2>2, <2>3
  <1>4. CASE m.type = "X"
    <2>1. CASE ~Reducible(reference_orders, m.order, m.quantity)
      <3>1. old.orders = reference_orders  BY <1>4, <2>1, ReferenceOrders
      <3>2. ~Reducible(candidate_orders, m.order, m.quantity)  BY <2>1, SameReducible
      <3>3. new.orders = candidate_orders
        BY <1>4, <3>2, CandidateCancelPartial DEF Refuses
      <3> QED  BY <3>1, <3>3 DEF Same
    <2>2. CASE Reducible(reference_orders, m.order, m.quantity)
      <3>1. old.orders = Reduced(reference_orders, m.order, m.quantity)
        BY <1>4, <2>2, ReferenceOrders
      <3>2. Reducible(candidate_orders, m.order, m.quantity)  BY <2>2, SameReducible
      <3>3. new.orders = Reduced(candidate_orders, m.order, m.quantity)
        BY <1>4, <3>2, CandidateCancelPartial DEF Cancels
      <3>4. m.order \in DOMAIN reference_orders  BY <2>2 DEF Reducible
      <3>5. UftTable(Reduced(reference_orders, m.order, m.quantity))
              = Reduced(candidate_orders, m.order, m.quantity)
        BY <3>4, UftReduced DEF TablesOK, Same
      <3> QED  BY <3>1, <3>3, <3>5
    <2> QED  BY <2>1, <2>2
  <1>5. CASE m.type = "D"
    <2>1. old.orders = IF m.order \notin DOMAIN reference_orders THEN reference_orders
                       ELSE Drop(reference_orders, m.order)
      BY <1>5, ReferenceOrders
    <2>2. new.orders = IF m.order \notin DOMAIN candidate_orders THEN candidate_orders
                       ELSE Drop(candidate_orders, m.order)
      BY <1>5, CandidateCancelAll DEF Cancels, Refuses
    <2> HIDE DEF new, old
    <2>3. UftTable(old.orders) = new.orders  BY <1>1, <2>1, <2>2, UftDrop DEF Same
    <2> QED  BY <2>3 DEF new, old
  <1>6. CASE m.type = "U"
    <2> DEFINE uft == Order(m.price, m.quantity, candidate_orders[m.order].side)
               dropped == Drop(reference_orders, m.order)
    <2>1. CandidateRefusesReplace(m) <=> InvalidReplace(m)
      BY <1>1 DEF CandidateRefusesReplace, InvalidReplace
    <2>2. CASE InvalidReplace(m)
      <3>1. old.orders = reference_orders  BY <1>6, <2>2, ReferenceOrders
      <3>2. new.orders = candidate_orders
        BY <1>6, <2>1, <2>2, CandidateReplace DEF Refuses
      <3> QED  BY <3>1, <3>2 DEF Same
    <2>3. CASE ~InvalidReplace(m)
      <3>1. old.orders = Put(dropped, m.new, Replacement(m))
        BY <1>6, <2>3, ReferenceOrders
      <3>2. new.orders = Put(Drop(candidate_orders, m.order), m.new, uft)
        BY <1>6, <2>1, <2>3, CandidateReplace DEF Cancels
      <3>3. candidate_orders[m.order].side = side_of(reference_orders[m.order].side)
        BY <2>3, SameOrder DEF InvalidReplace
      <3>4. AsUft(Replacement(m)) = uft  BY <3>3, NewOrder DEF Replacement
      <3>5. UftTable(dropped) = Drop(candidate_orders, m.order)  BY UftDrop DEF Same
      <3> HIDE DEF uft, dropped
      <3>6. UftTable(Put(dropped, m.new, Replacement(m)))
              = Put(UftTable(dropped), m.new, AsUft(Replacement(m)))
        BY UftPut
      <3> QED  BY <3>1, <3>2, <3>4, <3>5, <3>6
    <2> QED  BY <2>2, <2>3
  <1>7. CASE m.type \notin {"A", "E", "C", "X", "D", "U"}
    <2>1. old.orders = reference_orders  BY <1>7, ReferenceOrders
    <2>2. new.orders = candidate_orders
      <3>1. CASE m.type \in {"P", "Q"}
        BY <3>1, CandidateTrades, CandidatePrintedOrders DEF Refuses
      <3>2. CASE m.type = "B"  BY <3>2, CandidateBrokenTrade
      <3>3. CASE m.type \notin {"A", "E", "C", "X", "D", "U", "P", "Q", "B"}
        BY <3>3, CandidateOther DEF Refuses
      <3> QED  BY <1>7, <3>1, <3>2, <3>3
    <2> QED  BY <2>1, <2>2 DEF Same
  <1> QED  BY <1>2, <1>3, <1>4, <1>5, <1>6, <1>7

(***************************************************************************)
(* What the adapters promise, as an inductive invariant.                   *)
(***************************************************************************)
AdaptersInv ==
    /\ TablesOK
    /\ "error" \notin past => Same /\ SameMatches /\ discrepancies = {}
    /\ "wide" \notin past /\ discrepancies = {} => Same

LEMMA AdaptersInvIsAgreement ==
  AdaptersInv => AdaptersAgree
  BY DEF AdaptersInv, AdaptersAgree, Same, SameMatches

\* What the tool finds against a message the adapters agree on: nothing.
LEMMA NothingFound ==
  ASSUME NEW old, NEW new, Agree(old, new), new.counted # "capacity_exhaustions"
  PROVE  /\ Compared(Detailed(old.details), new.details) = {}
         /\ Compared(old.transactions, new.transactions) = {}
         /\ counts_equal(old, new)
         /\ {new.counted} \cap {"capacity_exhaustions"} = {}
  <1>1. Compared(Detailed(old.details), new.details) = {}
        /\ Compared(old.transactions, new.transactions) = {}
    BY DEF Agree, Compared
  <1>2. counts_equal(old, new)  BY DEF Agree, counts_equal
  <1> QED  BY <1>1, <1>2

LEMMA ReplayStep ==
  ASSUME NEW m, AdaptersInv, Replay(m),
         m.type \in {"A", "E", "C", "X", "U"} => m.quantity \in Nat,
         m.type \in {"E", "C"} => {"order", "match"} \subseteq DOMAIN m
  PROVE  AdaptersInv'
  <1> DEFINE old == Reference!on_message(m)
             new == Candidate!on_message(m)
             found == Compared(Detailed(old.details), new.details)
                        \cup Compared(old.transactions, new.transactions)
                        \cup (IF counts_equal(old, new) THEN {} ELSE {"counts"})
                        \cup ({new.counted} \cap {"capacity_exhaustions"})
  <1>1. /\ reference_orders' = old.orders /\ reference_matches' = old.matches
        /\ candidate_orders' = new.orders /\ candidate_matches' = new.matches
    BY DEF Replay
  <1>2. discrepancies' = discrepancies \cup found
    BY DEF Replay, Detailed
  <1>3. past' = past
          \cup (IF old.counted = "errors" \/ new.counted \in Candidate!Errors
                THEN {"error"} ELSE {})
          \cup (IF Wide(m) THEN {"wide"} ELSE {})
    BY DEF Replay
  <1>4. TablesOK'  BY <1>1, TablesKept DEF AdaptersInv
  <1>5. ASSUME "error" \notin past'
        PROVE  Same' /\ SameMatches' /\ discrepancies' = {}
    <2>1. Taken(m) /\ "error" \notin past  BY <1>3, <1>5 DEF Taken
    <2>2. Agree(old, new)  BY <2>1, AgreeMessage DEF AdaptersInv
    <2>3. new.counted # "capacity_exhaustions"  BY <2>1, CandidateErrors DEF Taken
    <2> HIDE DEF old, new
    <2>4. found = {}  BY <2>2, <2>3, NothingFound
    <2> HIDE DEF found
    <2>5. discrepancies' = {}  BY <1>2, <2>1, <2>4 DEF AdaptersInv
    <2>6. Same' /\ SameMatches'
      BY <1>1, <2>2 DEF Agree, Same, SameMatches, UftTable, AsUft, side_of
    <2> QED  BY <2>5, <2>6
  <1>6. ASSUME "wide" \notin past', discrepancies' = {}
        PROVE  Same'
    <2>1. ~Wide(m) /\ "wide" \notin past  BY <1>3, <1>6
    <2>2. found = {} /\ discrepancies = {}
      <3> HIDE DEF found
      <3> QED  BY <1>2, <1>6
    <2>3. Same  BY <2>1, <2>2 DEF AdaptersInv
    <2>4. counts_equal(old, new) /\ new.counted # "capacity_exhaustions"
      <3> HIDE DEF old, new
      <3> QED  BY <2>2
    <2>5. Counter(old.counted) = new.counted
      <3> HIDE DEF old, new
      <3> QED  BY <2>4 DEF counts_equal
    <2>6. new.orders = UftTable(old.orders)
      BY <2>1, <2>3, <2>4, <2>5, SameOrders DEF AdaptersInv
    <2> HIDE DEF old, new
    <2> QED  BY <1>1, <2>6 DEF Same, UftTable, AsUft, side_of
  <1> QED  BY <1>4, <1>5, <1>6 DEF AdaptersInv

\* NasdaqItchUftAdapter and PsxWtsAdapter agree, whatever the messages of the
\* day are, in whatever order they come and whatever the capacities: without
\* an error they publish the same events and keep the same tables, and with
\* ids up to INT64_MAX no difference between their orders goes unnoticed.
THEOREM AdaptersAgreeAlways ==
  ASSUME NEW day, IsDay(day)
  PROVE  DifferentialSpec(day) => []AdaptersAgree
  <1>1. DifferentialInit => AdaptersInv
    <2> SUFFICES ASSUME DifferentialInit PROVE AdaptersInv  OBVIOUS
    <2>1. TablesOK  BY EmptyTables DEF DifferentialInit
    <2>2. Same /\ SameMatches
      BY DEF DifferentialInit, Same, SameMatches, UftTable, Empty
    <2> QED  BY <2>1, <2>2 DEF DifferentialInit, AdaptersInv
  <1>2. AdaptersInv /\ [DifferentialNext(day)]_differential => AdaptersInv'
    <2> SUFFICES ASSUME AdaptersInv, [DifferentialNext(day)]_differential
                 PROVE  AdaptersInv'
      OBVIOUS
    <2>1. ASSUME NEW m \in day, Replay(m) PROVE AdaptersInv'
      BY <2>1, ReplayStep DEF IsDay
    <2>2. CASE Directory
      <3>1. TablesOK'  BY <2>2 DEF Directory, TablesOK, IsTable, Empty
      <3>2. Same' /\ SameMatches'
        BY <2>2 DEF Directory, Same, SameMatches, UftTable, Empty
      <3>3. past' = past /\ (discrepancies = {} => discrepancies' = {})
        BY <2>2 DEF Directory
      <3> QED  BY <3>1, <3>2, <3>3 DEF AdaptersInv
    <2>3. CASE UNCHANGED differential
      <3>1. TablesOK' /\ (Same' <=> Same) /\ (SameMatches' <=> SameMatches)
        BY <2>3 DEF differential, TablesOK, Same, SameMatches, AdaptersInv
      <3>2. past' = past /\ discrepancies' = discrepancies  BY <2>3 DEF differential
      <3> QED  BY <3>1, <3>2 DEF AdaptersInv
    <2> QED  BY <2>1, <2>2, <2>3 DEF DifferentialNext
  <1> QED  BY <1>1, <1>2, AdaptersInvIsAgreement, PTL DEF DifferentialSpec
=============================================================================
