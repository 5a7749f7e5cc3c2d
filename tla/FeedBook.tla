------------------------------ MODULE FeedBook -------------------------------
(***************************************************************************)
(* What the order book promises its two kinds of users: the matching of    *)
(* the reference book PriceTimeOrderBook, and for a market-data feed the   *)
(* FIFO queues the exchange's messages describe.                           *)
(***************************************************************************)
EXTENDS PriceTimeOrderBook

CONSTANT MaxId     \* UINT64_MAX, an id the dense book does not take

\* A limit order off the grid and the id UINT64_MAX are rejected, which the
\* reference book would take.
Reject(r) ==
    /\ taker = NoTaker
    /\ r.id = MaxId \/ (r.type = "Limit" /\ r.price \notin Prices)
    /\ events' = <<Rejection>>
    /\ UNCHANGED <<queues, taker>>

\* A new order queues up behind the others at its price.
FeedAdd(id, side, price, quantity) ==
    /\ queues' = [queues EXCEPT ![side][price] =
                     Append(@, [id |-> id, remaining |-> quantity])]
    /\ quantity > 0 /\ id \notin Resting
    /\ Cardinality(Resting) < OrderCapacity

\* An order shrinks where it stands, and leaves when nothing remains.
FeedReduce(id, quantity) ==
    /\ id \in Resting
    /\ LET place == PlaceOf(id)
           left  == At(place).remaining - quantity
       IN  /\ quantity > 0 /\ left >= 0
           /\ queues' = IF left = 0 THEN Without(place)
                        ELSE [queues EXCEPT ![place[1]][place[2]][place[3]].remaining = left]

FeedDelete(id) ==
    /\ id \in Resting
    /\ queues' = Without(PlaceOf(id))

\* A replacement takes a new id and the last place at its price.
FeedReplace(old_id, new_id, price, quantity) ==
    /\ old_id \in Resting /\ new_id \notin Resting /\ quantity > 0
    /\ queues' = [Without(PlaceOf(old_id)) EXCEPT ![PlaceOf(old_id)[1]][price] =
                     Append(@, [id |-> new_id, remaining |-> quantity])]

FeedStep ==
    /\ taker = NoTaker
    /\ UNCHANGED <<taker, events>>
    /\ \/ \E id \in {r.id : r \in Requests} \ Resting, side \in Sides, price \in Prices,
             quantity \in Quantities : FeedAdd(id, side, price, quantity)
       \/ \E id \in Resting, quantity \in Quantities : FeedReduce(id, quantity)
       \/ \E id \in Resting : FeedDelete(id)
       \/ \E id \in Resting, new_id \in {r.id : r \in Requests} \ Resting, price \in Prices,
             quantity \in Quantities : FeedReplace(id, new_id, price, quantity)

BookNext ==
    \/ TradingStep
    \/ \E r \in Requests : Reject(r)
    \/ FeedStep

BookSpec == BookInit /\ [][BookNext]_book
=============================================================================
