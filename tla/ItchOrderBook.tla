---------------------------- MODULE ItchOrderBook ----------------------------
(***************************************************************************)
(* What UftOrderBookPipeline does with the content of a message that is in *)
(* sequence: the adapter turns it into a book update, apply() carries that *)
(* out on the book and on the pipeline's own match table, and ingest()     *)
(* compares error counters and order counts and faults on any difference.  *)
(* (UftOrderBookPipeline.tla has the sequencing, and this as one of three  *)
(* effects.)  The book is a map of orders: that DensePriceOrderBook keeps  *)
(* one, with time priority, is what MCDenseOrderBook checks.               *)
(***************************************************************************)
EXTENDS NasdaqItchUftAdapter, FiniteSetsExt

CONSTANTS
    Messages,     \* the ITCH messages the feed may carry
    GridPrices,   \* the prices of the book's grid
    MaxVolume     \* the largest Quantity

\* Quantities and prices are unsigned fields of the message.
ASSUME ItchAssumption ==
    /\ MaxVolume \in Nat
    /\ \A m \in Messages :
          /\ m.type \in {"A", "E", "C", "X", "U", "P", "Q"} => m.quantity \in Nat
          /\ m.type \in {"A", "C", "U", "P", "Q"} => m.price \in Nat

VARIABLES
    book,         \* book_: id -> [price, remaining, side]
    recorded,     \* matches_ of the pipeline: id -> [quantity, printable, busted]
    net_volume,   \* net_volume_
    faulted,      \* state_ = Faulted
    tape,         \* the trades a listener of the adapter's transactions holds
    exchange      \* the resting orders the messages so far describe

itch == <<orders, matches, book, recorded, net_volume, faulted, tape, exchange>>

ItchInit ==
    /\ AdapterInit
    /\ book = Empty
    /\ recorded = Empty
    /\ net_volume = 0
    /\ faulted = FALSE
    /\ tape = Empty
    /\ exchange = Empty

-----------------------------------------------------------------------------
(***************************************************************************)
(* The book's feed operations: what they accept and what they leave.       *)
(***************************************************************************)
Resting(id) == id \in DOMAIN book

BookAccepts(e) ==
    CASE e.action = "Add" ->
           /\ e.side \in {"Buy", "Sell"}
           /\ e.order \notin {NoId, MaxId} /\ ~Resting(e.order)
           /\ e.price \in GridPrices /\ Cardinality(DOMAIN book) < MaxOrders
      [] e.action \in {"Reduce", "Execution"} ->
           Resting(e.order) /\ e.quantity <= book[e.order].remaining
      [] e.action = "Delete" ->
           Resting(e.order) /\ e.quantity = book[e.order].remaining
      [] e.action = "Replace" ->
           /\ Resting(e.order) /\ ~Resting(e.new) /\ e.new \notin {NoId, MaxId}
           /\ e.price \in GridPrices
      [] OTHER -> TRUE

BookAfter(e) ==
    CASE e.action = "Add" -> Put(book, e.order, Order(e.price, e.quantity, e.side))
      [] e.action \in {"Reduce", "Execution"} ->
           Reduced(book, e.order, e.quantity)
      [] e.action = "Delete" -> Drop(book, e.order)
      [] e.action = "Replace" ->
           Put(Drop(book, e.order), e.new, Order(e.price, e.quantity, book[e.order].side))
      [] OTHER -> book

\* record: the first message of a match counts, if it is printable.
Recordable(e) ==
    \/ e.match \in DOMAIN recorded /\ ~recorded[e.match].busted
    \/ /\ e.match \notin DOMAIN recorded
       /\ InsertResult(recorded, e.match, MaxMatches) = "Inserted"
       /\ e.printable => e.quantity <= MaxVolume - net_volume

Recorded(e) ==
    IF e.match \in DOMAIN recorded THEN recorded
    ELSE Put(recorded, e.match,
             [quantity |-> e.quantity, printable |-> e.printable, busted |-> FALSE])

VolumeAfterRecord(e) ==
    IF e.match \in DOMAIN recorded \/ ~e.printable THEN net_volume
    ELSE net_volume + e.quantity

Bustable(e) == e.match \in DOMAIN recorded /\ ~recorded[e.match].busted

\* Mutant: the volume is taken back for trades that were never printed.
VolumeAfterAnyBust(e) == net_volume - recorded[e.match].quantity

VolumeAfterBust(e) ==
    IF recorded[e.match].printable THEN net_volume - recorded[e.match].quantity
    ELSE net_volume

\* apply: the outcome on book, match table and volume; a refused update leaves
\* the book as it is, except that a refused record keeps the reduction.
Refused == [ok |-> FALSE, book |-> book, recorded |-> recorded, volume |-> net_volume]

apply(e) ==
    CASE e.action = "none" ->
           [ok |-> TRUE, book |-> book, recorded |-> recorded, volume |-> net_volume]
      [] e.action \in {"Add", "Reduce", "Delete", "Replace"} ->
           IF ~BookAccepts(e) THEN Refused
           ELSE [ok |-> TRUE, book |-> BookAfter(e), recorded |-> recorded,
                 volume |-> net_volume]
      [] e.action \in {"Execution", "Trade"} ->
           IF ~BookAccepts(e) THEN Refused
           ELSE IF ~Recordable(e) THEN [Refused EXCEPT !.book = BookAfter(e)]
           ELSE [ok |-> TRUE, book |-> BookAfter(e), recorded |-> Recorded(e),
                 volume |-> VolumeAfterRecord(e)]
      [] e.action = "TradeBust" ->
           IF ~Bustable(e) THEN Refused
           ELSE [ok |-> TRUE, book |-> book,
                 recorded |-> [recorded EXCEPT ![e.match].busted = TRUE],
                 volume |-> VolumeAfterBust(e)]

-----------------------------------------------------------------------------
\* A listener keeps every trade until its bust.
Listen(transactions) ==
    IF transactions = <<>> \/ transactions[1].type = "Cancel" THEN tape
    ELSE LET t == transactions[1]
             order == IF t.side = "Buy" THEN t.bid ELSE t.ask
             trade == Match(t.price, t.quantity, order, t.side, TRUE)
         IN  IF t.type = "Trade" THEN Put(tape, t.id, trade)
             ELSE IF t.id \in DOMAIN tape /\ tape[t.id] = trade THEN Drop(tape, t.id)
             ELSE tape

\* The exchange's own book after a legal message: ITCH gives the changes of the
\* displayed orders one by one; trades and busts change none.
ExchangeAfter(m) ==
    CASE m.type = "A" -> Put(exchange, m.order, Order(m.price, m.quantity, side_of(m.side)))
      [] m.type \in {"E", "C", "X"} -> Reduced(exchange, m.order, m.quantity)
      [] m.type = "D" -> Drop(exchange, m.order)
      [] m.type = "U" -> Put(Drop(exchange, m.order), m.new,
                             Order(m.price, m.quantity, exchange[m.order].side))
      [] OTHER -> exchange

\* The part of ingest() from on_message to the comparison of the counters.
Ingest(m) ==
    /\ ~faulted
    /\ LET adapted == on_message(m)
           applied == apply(adapted.update)
       IN  /\ orders' = adapted.orders /\ matches' = adapted.matches
           /\ tape' = Listen(adapted.transactions)
           /\ book' = applied.book /\ recorded' = applied.recorded
           /\ net_volume' = applied.volume
           /\ faulted' = \/ adapted.counted \in Errors \/ ~applied.ok
                         \/ Cardinality(DOMAIN applied.book) #
                              Cardinality(DOMAIN adapted.orders)
           /\ exchange' = IF faulted' THEN exchange ELSE ExchangeAfter(m)

OfType(types) == {m \in Messages : m.type \in types}

ItchNext ==
    \/ \E m \in OfType({"A"}) : Ingest(m)
    \/ \E m \in OfType({"E", "C"}) : Ingest(m)
    \/ \E m \in OfType({"X"}) : Ingest(m)
    \/ \E m \in OfType({"D"}) : Ingest(m)
    \/ \E m \in OfType({"U"}) : Ingest(m)
    \/ \E m \in OfType({"P"}) : Ingest(m)
    \/ \E m \in OfType({"Q"}) : Ingest(m)
    \/ \E m \in OfType({"B"}) : Ingest(m)
    \/ \E m \in OfType({"other", "wrong_size"}) : Ingest(m)

ItchSpec == ItchInit /\ [][ItchNext]_itch

-----------------------------------------------------------------------------
(***************************************************************************)
(* Properties.                                                             *)
(***************************************************************************)

\* As long as the feed is not faulted, the book and the adapter's table hold
\* the orders of the exchange; ingest() only compares how many there are.
BookIsExchange == ~faulted => book = exchange /\ orders = exchange

\* The adapter forgets a busted match, the pipeline remembers it; the other
\* matches are the same in both tables.
MatchesAgree ==
    ~faulted =>
       /\ DOMAIN matches = {id \in DOMAIN recorded : ~recorded[id].busted}
       /\ \A id \in DOMAIN matches :
             /\ recorded[id].quantity = matches[id].quantity
             /\ recorded[id].printable = matches[id].emitted

\* A listener of the transactions holds exactly the printed matches, and every
\* bust repeats the trade it takes back.
TapeIsMatches ==
    ~faulted =>
       tape = [id \in {i \in DOMAIN matches : matches[i].emitted} |-> matches[id]]

\* The volume given to the strategy is the volume on the tape.
NetVolumeIsTape ==
    ~faulted => LET quantity(id) == tape[id].quantity
                IN  net_volume = MapThenSumSet(quantity, DOMAIN tape)

(***************************************************************************)
(* What an exchange that follows the protocol sends, told from the resting *)
(* orders and the matches so far, within the configured limits.            *)
(***************************************************************************)
NewMatch(id, quantity, printable) ==
    /\ Cardinality(DOMAIN recorded) < MaxMatches
    /\ printable => net_volume + quantity <= MaxVolume
Matchable(id, quantity, printable) ==
    /\ id # NoId
    /\ id \in DOMAIN recorded => ~recorded[id].busted
    /\ id \notin DOMAIN recorded => NewMatch(id, quantity, printable)
Orderable(id, price, quantity) ==
    /\ id \notin {NoId, MaxId} \cup DOMAIN book
    /\ price \in GridPrices /\ price > 0 /\ quantity > 0
Shrinkable(id, quantity) ==
    id \in DOMAIN book /\ quantity \in 1 .. book[id].remaining

Legal(m) ==
    CASE m.type = "A" -> /\ m.side \in {"B", "S"} /\ Orderable(m.order, m.price, m.quantity)
                         /\ Cardinality(DOMAIN book) < MaxOrders
      [] m.type = "E" -> /\ Shrinkable(m.order, m.quantity)
                         /\ Matchable(m.match, m.quantity, TRUE)
      [] m.type = "C" -> /\ Shrinkable(m.order, m.quantity)
                         /\ m.printable \in {"Y", "N"} /\ m.price > 0
                         /\ Matchable(m.match, m.quantity, m.printable = "Y")
      [] m.type = "X" -> Shrinkable(m.order, m.quantity)
      [] m.type = "D" -> m.order \in DOMAIN book
      [] m.type = "U" -> m.order \in DOMAIN book /\ Orderable(m.new, m.price, m.quantity)
      [] m.type = "P" -> /\ m.side \in {"B", "S"} /\ m.quantity > 0 /\ m.price > 0
                         /\ Matchable(m.match, m.quantity, TRUE)
      [] m.type = "Q" -> /\ m.quantity > 0 /\ m.price > 0
                         /\ Matchable(m.match, m.quantity, TRUE)
      [] m.type = "B" -> m.match \in DOMAIN recorded /\ ~recorded[m.match].busted
      [] OTHER -> m.type # "wrong_size"

\* A legal message never faults the feed, and an illegal one always does: no
\* table that is full or out of step goes unnoticed, and none gives an alarm.
VerdictIsLegality ==
    ~faulted => \A m \in Messages :
       Legal(m) <=> LET adapted == on_message(m)
                        applied == apply(adapted.update)
                    IN  adapted.counted \notin Errors /\ applied.ok
=============================================================================
