------------------------- MODULE PriceTimeOrderBook --------------------------
(***************************************************************************)
(* PriceTimeOrderBook (components/include/qtrader/PriceTimeOrderBook.hpp), *)
(* the reference matching book: a map from prices to FIFO queues per side. *)
(*                                                                         *)
(* The intrusive lists and the maps that hold them are sequences here: a   *)
(* level that is not in the map is an empty sequence, the order index is   *)
(* the set of the orders in the queues.  submit and modify start a taker,  *)
(* each pass of the inner matching loop is a step, and so is what follows  *)
(* the loop, because the sink is called in each of them.                   *)
(***************************************************************************)
EXTENDS Integers, Sequences, FiniteSets

CONSTANTS
    Prices,          \* the prices of limit orders that are not refused
    OrderCapacity,   \* _capacity
    NoId,            \* order id 0
    Requests,        \* the OrderRequests callers make
    Quantities,      \* the quantities callers give
    NoTaker

VARIABLES
    queues,   \* _bids and _asks: the orders at every price, oldest first
    taker,    \* the order that submit or modify is matching
    events    \* the calls of the sink in the last step

book == <<queues, taker, events>>

Sides == {"Buy", "Sell"}
Other(side) == IF side = "Buy" THEN "Sell" ELSE "Buy"

TradeEvent(maker, with, price, quantity) ==
    [call |-> "on_trade", maker |-> maker, taker |-> with, price |-> price,
     quantity |-> quantity]
OrderEvent(id, state, remaining) ==
    [call |-> "on_order", id |-> id, state |-> state, remaining |-> remaining]
\* A rejection repeats the id and quantity of its request; they are left out.
Rejection == [call |-> "on_order", state |-> "Rejected"]

Taker(r) ==
    [id |-> r.id, side |-> r.side, type |-> r.type, price |-> r.price,
     quantity |-> r.quantity, remaining |-> r.quantity]

Places ==
    {place \in Sides \X Prices \X (1 .. OrderCapacity) : place[3] <= Len(queues[place[1]][place[2]])}
At(place) == queues[place[1]][place[2]][place[3]]
Resting == {At(place).id : place \in Places}
PlaceOf(id) == CHOOSE place \in Places : At(place).id = id

BookInit ==
    /\ queues = [s \in Sides |-> [p \in Prices |-> <<>>]]
    /\ taker = NoTaker
    /\ events = <<>>

\* unlink: the order leaves its queue, the others keep their order.
Without(place) ==
    [queues EXCEPT ![place[1]][place[2]] =
        [i \in 1 .. Len(@) - 1 |-> IF i < place[3] THEN @[i] ELSE @[i + 1]]]

-----------------------------------------------------------------------------
Refused(r) ==
    \/ r.id = NoId \/ r.quantity = 0
    \/ r.type = "Limit" /\ r.price <= 0
    \/ r.id \in Resting
    \/ Cardinality(Resting) = OrderCapacity

Submit(r) ==
    /\ taker = NoTaker
    /\ UNCHANGED queues
    /\ \/ /\ events' = <<Rejection>> /\ taker' = NoTaker
          /\ Refused(r)
       \/ /\ events' = <<>> /\ taker' = Taker(r)
          /\ ~Refused(r)

\* An unknown id returns false and calls nobody.
Cancel(id) ==
    /\ taker = NoTaker
    /\ id \in Resting
    /\ events' = <<OrderEvent(id, "Canceled", At(PlaceOf(id)).remaining)>>
    /\ queues' = Without(PlaceOf(id))
    /\ UNCHANGED taker

\* The order leaves the book and is submitted again, without its time priority.
Modify(id, price, quantity) ==
    /\ taker = NoTaker
    /\ id \in Resting /\ price > 0 /\ quantity > 0
    /\ queues' = Without(PlaceOf(id))
    /\ taker' = Taker([id |-> id, side |-> PlaceOf(id)[1], type |-> "Limit",
                       price |-> price, quantity |-> quantity])
    /\ events' = <<>>

-----------------------------------------------------------------------------
(***************************************************************************)
(* match_levels and what follows it in submit.                             *)
(***************************************************************************)
Occupied(side) == {p \in Prices : queues[side][p] # <<>>}

\* begin() of a map that is sorted from the best price on
Best(side) ==
    CHOOSE p \in Occupied(side) :
        \A o \in Occupied(side) : IF side = "Buy" THEN p >= o ELSE p <= o

Crosses ==
    LET opposite == Other(taker.side)
    IN  /\ Occupied(opposite) # {}
        /\ \/ taker.type = "Market"
           \/ IF taker.side = "Buy" THEN taker.price >= Best(opposite)
              ELSE taker.price <= Best(opposite)

Fill ==
    /\ taker # NoTaker
    /\ taker.remaining # 0 /\ Crosses
    /\ LET side  == Other(taker.side)
           price == Best(side)
           maker == Head(queues[side][price])
           traded == IF taker.remaining < maker.remaining THEN taker.remaining
                     ELSE maker.remaining
           left  == maker.remaining - traded
       IN  /\ taker' = [taker EXCEPT !.remaining = @ - traded]
           /\ queues' = [queues EXCEPT ![side][price] =
                 IF left = 0 THEN Tail(@) ELSE [@ EXCEPT ![1].remaining = left]]
           /\ events' = << TradeEvent(maker.id, taker.id, price, traded),
                           OrderEvent(maker.id,
                              IF left = 0 THEN "Filled" ELSE "PartiallyFilled", left) >>

Finish ==
    /\ taker # NoTaker
    /\ taker.remaining = 0 \/ ~Crosses
    /\ LET rests == taker.remaining # 0 /\ taker.type = "Limit"
           state == CASE taker.remaining = 0 -> "Filled"
                      [] taker.type = "Market" /\ taker.remaining # 0 -> "Canceled"
                      [] rests /\ taker.remaining = taker.quantity -> "New"
                      [] OTHER -> "PartiallyFilled"
       IN  /\ events' = <<OrderEvent(taker.id, state, taker.remaining)>>
           /\ queues' = IF ~rests THEN queues
                        ELSE [queues EXCEPT ![taker.side][taker.price] =
                                Append(@, [id |-> taker.id, remaining |-> taker.remaining])]
    /\ taker' = NoTaker

TradingStep ==
    \/ \E r \in Requests : Submit(r)
    \/ \E id \in Resting : Cancel(id)
    \/ \E id \in Resting, price \in Prices, quantity \in Quantities :
          Modify(id, price, quantity)
    \/ Fill
    \/ Finish
=============================================================================
