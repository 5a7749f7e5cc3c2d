------------------------ MODULE DensePriceOrderBook -------------------------
(***************************************************************************)
(* DensePriceOrderBook (components/include/qtrader/DensePriceOrderBook.hpp)*)
(* : the book of the hot path.  Orders are nodes of a preallocated pool,   *)
(* threaded on a free list or on the doubly linked queue of a price level; *)
(* a bitmap and the best level on each side find the next level to match.  *)
(*                                                                         *)
(* The state is the record b of the class's fields; unlink, append,        *)
(* release... are functions of it and a method is their composition.  A    *)
(* bitmap is the set of its ones, and the order index a partial function   *)
(* (FixedOrderIndex is an open-addressing table, see FixedHashTable).      *)
(* A program uses the book either for matching (submit, cancel, modify) or *)
(* for a feed (feed_...), never for both.                                  *)
(***************************************************************************)
EXTENDS Integers, Sequences, FiniteSets

CONSTANTS
    OrderCapacity,                          \* _order_capacity
    MinimumPrice, TickSize, LevelCount,     \* the price grid
    kInvalid,                               \* UINT32_MAX, no node or level
    NoId, MaxId,                            \* 0 and UINT64_MAX, never an order's id
    Requests,                               \* the OrderRequests callers make
    Quantities,                             \* the quantities callers give
    FeedPrices,                             \* the prices a feed sends
    NoTaker

ASSUME DenseAssumption ==
    /\ OrderCapacity \in Nat /\ LevelCount \in Nat
    /\ MinimumPrice \in Nat \ {0} /\ TickSize \in Nat \ {0}
    /\ kInvalid \in Nat /\ kInvalid > OrderCapacity /\ kInvalid > LevelCount
    /\ Quantities \subseteq Nat /\ FeedPrices \subseteq Int
    /\ \A r \in Requests : /\ r.side \in {"Buy", "Sell"} /\ r.type \in {"Limit", "Market"}
                          /\ r.price \in Int /\ r.quantity \in Nat

VARIABLES
    b,          \* the fields of the class
    use,        \* what the program uses the book for: "matching" or "feed"
    request,    \* the arguments of submit or modify while it runs, or NoTaker
    taking,     \* the taker's node while submit or modify runs, or kInvalid
    calls       \* the calls of the sink in the last step

dense == <<b, use, request, taking, calls>>

Sides == {"Buy", "Sell"}
Other(side) == IF side = "Buy" THEN "Sell" ELSE "Buy"
Pool == 0 .. OrderCapacity - 1
LevelIndices == 0 .. LevelCount - 1
OrderIds == {r.id : r \in Requests}

\* NoTaker is not an order.
ASSUME TakerAssumption ==
    NoTaker \notin [id : OrderIds, side : Sides, type : {"Limit", "Market"}, price : Int,
                    quantity : Nat, remaining : Nat]

Node == [id |-> NoId, side |-> "Buy", price |-> 0, remaining |-> 0, previous |-> kInvalid,
         next |-> kInvalid, free_next |-> kInvalid, level |-> kInvalid]

DenseInit ==
    /\ b = [ nodes    |-> [i \in Pool |-> [Node EXCEPT !.free_next =
                              IF i + 1 < OrderCapacity THEN i + 1 ELSE kInvalid]],
             levels   |-> [s \in Sides |-> [l \in LevelIndices |->
                              [head |-> kInvalid, tail |-> kInvalid, total |-> 0]]],
             bitmap   |-> [s \in Sides |-> {}],
             best     |-> [s \in Sides |-> kInvalid],
             index    |-> [id \in {} |-> kInvalid],
             free     |-> IF OrderCapacity = 0 THEN kInvalid ELSE 0,
             active   |-> 0 ]
    /\ use \in {"matching", "feed"}
    /\ request = NoTaker /\ taking = kInvalid
    /\ calls = <<>>

-----------------------------------------------------------------------------
(***************************************************************************)
(* The price grid, the index, the pool and the queues.                     *)
(***************************************************************************)
OnGrid(price) ==
    /\ price >= MinimumPrice
    /\ (price - MinimumPrice) % TickSize = 0
    /\ (price - MinimumPrice) \div TickSize < LevelCount
price_index(price) == (price - MinimumPrice) \div TickSize
level_price(level) == MinimumPrice + level * TickSize

Known(id) == id \in DOMAIN b.index

Insert(k, id, i) ==
    [k EXCEPT !.index = [x \in DOMAIN @ \cup {id} |-> IF x = id THEN i ELSE @[x]]]
Erase(k, id) ==
    [k EXCEPT !.index = [x \in DOMAIN @ \ {id} |-> @[x]]]

Allocate(k) ==
    [k EXCEPT !.free = k.nodes[k.free].free_next,
              !.nodes[k.free] = Node,
              !.active = @ + 1]

\* Mutant: the order stays in the index.
ReleaseIndexed(k, i) ==
    [k EXCEPT !.nodes[i] = [Node EXCEPT !.free_next = k.free],
              !.free = i,
              !.active = @ - 1]

\* The other fields of a free node keep their values in the code; nothing
\* reads them before allocate resets the node, so they are reset here.
Release(k, i) ==
    [Erase(k, k.nodes[i].id) EXCEPT !.nodes[i] = [Node EXCEPT !.free_next = k.free],
                                    !.free = i,
                                    !.active = @ - 1]

\* set_occupied
SetOccupied(k, side, level) ==
    [k EXCEPT !.bitmap[side] = @ \cup {level},
              !.best[side] = IF \/ @ = kInvalid
                                \/ IF side = "Buy" THEN level > @ ELSE level < @
                             THEN level ELSE @]

\* find_best, from the highest bid or the lowest ask on
FindBest(side, occupied) ==
    IF occupied = {} THEN kInvalid
    ELSE CHOOSE l \in occupied :
           \A o \in occupied : IF side = "Buy" THEN l >= o ELSE l <= o

\* Mutant: the best level is not looked for again.
ClearKeepsBest(k, side, level) ==
    IF k.levels[side][level].head # kInvalid THEN k
    ELSE [k EXCEPT !.bitmap[side] = @ \ {level}]

\* clear_occupied, if the level has become empty
ClearIfEmpty(k, side, level) ==
    IF k.levels[side][level].head # kInvalid THEN k
    ELSE [k EXCEPT !.bitmap[side] = @ \ {level},
                   !.best[side] = IF @ = level THEN FindBest(side, k.bitmap[side] \ {level})
                                  ELSE @]

\* append does not touch order.next: it relies on unlink and allocate.
AppendTo(k, i, level) ==
    LET side == k.nodes[i].side
        last == k.levels[side][level].tail
        linked == [k EXCEPT
            !.nodes = [n \in Pool |-> CASE n = i -> [@[n] EXCEPT !.previous = last]
                                        [] n = last -> [@[n] EXCEPT !.next = i]
                                        [] OTHER -> @[n]],
            !.levels[side][level] =
                [head |-> IF last = kInvalid THEN i ELSE @.head, tail |-> i,
                 total |-> @.total + k.nodes[i].remaining]]
    IN  SetOccupied(linked, side, level)

Unlink(k, i) ==
    LET o == k.nodes[i]
        unlinked == [k EXCEPT
            !.nodes = [n \in Pool |->
                CASE n = i -> [@[n] EXCEPT !.previous = kInvalid, !.next = kInvalid]
                  [] n = o.previous -> [@[n] EXCEPT !.next = o.next]
                  [] n = o.next -> [@[n] EXCEPT !.previous = o.previous]
                  [] OTHER -> @[n]],
            !.levels[o.side][o.level] =
                [head  |-> IF o.previous = kInvalid THEN o.next ELSE @.head,
                 tail  |-> IF o.next = kInvalid THEN o.previous ELSE @.tail,
                 total |-> @.total - o.remaining]]
    IN  ClearIfEmpty(unlinked, o.side, o.level)

\* unlink_filled: the head of a level, of which nothing remains
UnlinkFilled(k, i, level) ==
    LET o == k.nodes[i]
        unlinked == [k EXCEPT
            !.nodes = [n \in Pool |->
                CASE n = i -> [@[n] EXCEPT !.previous = kInvalid, !.next = kInvalid]
                  [] n = o.next -> [@[n] EXCEPT !.previous = kInvalid]
                  [] OTHER -> @[n]],
            !.levels[o.side][level] =
                [head  |-> o.next,
                 tail  |-> IF o.next = kInvalid THEN kInvalid ELSE @.tail,
                 total |-> @.total]]
    IN  ClearIfEmpty(unlinked, o.side, level)

\* The node of a new order, and what a replaced or modified order becomes.
Fresh(id, side, price, quantity, level) ==
    [Node EXCEPT !.id = id, !.side = side, !.price = price, !.remaining = quantity,
                 !.level = level]
Renewed(k, i, id, price, quantity) ==
    [k EXCEPT !.nodes[i].id = id, !.nodes[i].price = price,
              !.nodes[i].remaining = quantity, !.nodes[i].level = price_index(price)]

-----------------------------------------------------------------------------
(***************************************************************************)
(* The feed's operations.  A refused one returns false and changes nothing.*)
(***************************************************************************)
Feeding == use = "feed" /\ UNCHANGED <<use, request, taking, calls>>

feed_add(id, side, price, quantity) ==
    /\ Feeding
    /\ id \notin {NoId, MaxId} /\ quantity # 0 /\ ~Known(id) /\ OnGrid(price)
    /\ b.free # kInvalid
    /\ LET i == b.free
           k == [Insert(Allocate(b), id, i) EXCEPT
                    !.nodes[i] = Fresh(id, side, price, quantity, price_index(price))]
       IN  b' = AppendTo(k, i, price_index(price))

feed_reduce(id, quantity) ==
    /\ Feeding
    /\ Known(id) /\ quantity # 0
    /\ LET i == b.index[id]
           o == b.nodes[i]
           k == [b EXCEPT !.nodes[i].remaining = @ - quantity,
                          !.levels[o.side][o.level].total = @ - quantity]
       IN  /\ quantity <= o.remaining
           /\ b' = IF quantity = o.remaining THEN Release(Unlink(k, i), i) ELSE k

feed_delete(id) ==
    /\ Feeding
    /\ Known(id)
    /\ b' = Release(Unlink(b, b.index[id]), b.index[id])

\* Mutant: a replacement at the same price keeps its place.
replace_in_place(old_id, new_id, price, quantity) ==
    /\ Feeding
    /\ Known(old_id) /\ new_id \notin {NoId, MaxId} /\ quantity # 0
    /\ ~Known(new_id) /\ OnGrid(price)
    /\ LET i == b.index[old_id]
           o == b.nodes[i]
           k == Erase(Insert(b, new_id, i), old_id)
       IN  /\ o.price = price
           /\ b' = [Renewed(k, i, new_id, price, quantity) EXCEPT
                      !.levels[o.side][o.level].total = @ - o.remaining + quantity]

feed_replace(old_id, new_id, price, quantity) ==
    /\ Feeding
    /\ Known(old_id) /\ new_id \notin {NoId, MaxId} /\ quantity # 0
    /\ ~Known(new_id) /\ OnGrid(price)
    /\ LET i == b.index[old_id]
           k == Erase(Unlink(Insert(b, new_id, i), i), old_id)
       IN  b' = AppendTo(Renewed(k, i, new_id, price, quantity), i, price_index(price))

-----------------------------------------------------------------------------
(***************************************************************************)
(* Matching.                                                               *)
(***************************************************************************)
TradeEvent(maker, with, price, quantity) ==
    [call |-> "on_trade", maker |-> maker, taker |-> with, price |-> price,
     quantity |-> quantity]
OrderEvent(id, state, remaining) ==
    [call |-> "on_order", id |-> id, state |-> state, remaining |-> remaining]
\* A rejection repeats the id and quantity of its request; they are left out.
Rejection == [call |-> "on_order", state |-> "Rejected"]

Idle == use = "matching" /\ taking = kInvalid

Rejects(r) ==
    \/ r.id \in {NoId, MaxId} \/ r.quantity = 0 \/ Known(r.id)
    \/ r.type = "Limit" /\ ~OnGrid(r.price)
    \/ b.free = kInvalid

submit(r) ==
    /\ Idle
    /\ IF Rejects(r)
       THEN /\ calls' = <<Rejection>>
            /\ UNCHANGED <<b, request, taking>>
       ELSE /\ b' = [Insert(Allocate(b), r.id, b.free) EXCEPT
                        !.nodes[b.free] = Fresh(r.id, r.side, r.price, r.quantity,
                            IF r.type = "Limit" THEN price_index(r.price) ELSE kInvalid)]
            /\ request' = r /\ taking' = b.free
            /\ calls' = <<>>
    /\ UNCHANGED use

cancel(id) ==
    /\ Idle
    /\ Known(id)
    /\ LET i == b.index[id]
       IN  /\ calls' = <<OrderEvent(id, "Canceled", b.nodes[i].remaining)>>
           /\ b' = Release(Unlink(b, i), i)
    /\ UNCHANGED <<use, request, taking>>

modify(id, price, quantity) ==
    /\ Idle
    /\ Known(id) /\ quantity # 0 /\ OnGrid(price)
    /\ LET i == b.index[id]
       IN  /\ b' = Renewed(Unlink(b, i), i, id, price, quantity)
           /\ taking' = i
           /\ request' = [id |-> id, side |-> b.nodes[i].side, type |-> "Limit",
                          price |-> price, quantity |-> quantity]
    /\ calls' = <<>>
    /\ UNCHANGED use

\* match() goes on: something is left, and the best opposite level crosses.
Matches ==
    LET o    == b.nodes[taking]
        best == b.best[Other(o.side)]
    IN  /\ o.remaining # 0 /\ best # kInvalid
        /\ \/ request.type = "Market"
           \/ IF o.side = "Buy" THEN o.price >= level_price(best)
              ELSE o.price <= level_price(best)

\* One pass of the inner loop of match(): a trade with the head of the level.
match ==
    /\ taking # kInvalid /\ Matches
    /\ LET t      == b.nodes[taking]
           side   == Other(t.side)
           level  == b.best[side]
           i      == b.levels[side][level].head
           maker  == b.nodes[i]
           traded == IF t.remaining < maker.remaining THEN t.remaining ELSE maker.remaining
           left   == maker.remaining - traded
           k      == [b EXCEPT !.nodes[taking].remaining = @ - traded,
                               !.nodes[i].remaining = left,
                               !.levels[side][level].total = @ - traded]
       IN  /\ b' = IF left = 0 THEN Release(UnlinkFilled(k, i, level), i) ELSE k
           /\ calls' = << TradeEvent(maker.id, t.id, level_price(level), traded),
                          OrderEvent(maker.id,
                             IF left = 0 THEN "Filled" ELSE "PartiallyFilled", left) >>
    /\ UNCHANGED <<use, request, taking>>

\* What follows match() in submit and modify.
Conclude ==
    /\ taking # kInvalid /\ ~Matches
    /\ LET o     == b.nodes[taking]
           rests == o.remaining # 0 /\ request.type = "Limit"
           state == IF o.remaining = 0 THEN "Filled"
                    ELSE IF request.type = "Market" THEN "Canceled"
                    ELSE IF o.remaining = request.quantity THEN "New"
                    ELSE "PartiallyFilled"
       IN  /\ calls' = <<OrderEvent(o.id, state, o.remaining)>>
           /\ b' = IF rests THEN AppendTo(b, taking, o.level) ELSE Release(b, taking)
    /\ taking' = kInvalid /\ request' = NoTaker
    /\ UNCHANGED use

DenseNext ==
    \/ \E id \in OrderIds, side \in Sides, price \in FeedPrices, quantity \in Quantities :
          feed_add(id, side, price, quantity)
    \/ \E id \in OrderIds, quantity \in Quantities : feed_reduce(id, quantity)
    \/ \E id \in OrderIds : feed_delete(id)
    \/ \E id, new_id \in OrderIds, price \in FeedPrices, quantity \in Quantities :
          feed_replace(id, new_id, price, quantity)
    \/ \E r \in Requests : submit(r)
    \/ \E id \in OrderIds : cancel(id)
    \/ \E id \in OrderIds, price \in FeedPrices, quantity \in Quantities :
          modify(id, price, quantity)
    \/ match
    \/ Conclude

DenseSpec == DenseInit /\ [][DenseNext]_dense

-----------------------------------------------------------------------------
(***************************************************************************)
(* Properties.                                                             *)
(***************************************************************************)

\* The nodes reached from one of them along a link: the k-th, or kInvalid.
Walk(first, link(_)) ==
    LET at[k \in 0 .. OrderCapacity] ==
          IF k = 0 THEN first
          ELSE IF at[k - 1] = kInvalid THEN kInvalid ELSE link(at[k - 1])
    IN  at
Along(first, link(_)) ==
    LET at  == Walk(first, link)
        len == Cardinality({k \in 0 .. OrderCapacity : at[k] # kInvalid})
    IN  [k \in 1 .. len |-> at[k - 1]]

Forward(i)  == b.nodes[i].next
Freed(i)    == b.nodes[i].free_next

\* The orders of a level in time priority.
Queue(side, level) == Along(b.levels[side][level].head, Forward)
Members(seq) == {seq[k] : k \in DOMAIN seq}

\* Every node is either on the free list or indexed under its own id, and
\* active_orders() counts the latter: the pool never leaks an order.
PoolIsExact ==
    LET indexed == {b.index[id] : id \in DOMAIN b.index}
        freed   == Along(b.free, Freed)
    IN  /\ Members(freed) = Pool \ indexed
        /\ Len(freed) = OrderCapacity - b.active
        /\ b.active = Cardinality(DOMAIN b.index)
        /\ \A id \in DOMAIN b.index : b.nodes[b.index[id]].id = id

\* level_quantity is the sum of what remains of the level's orders, and the
\* bitmap and the best levels name exactly the levels that have orders.
DepthIsExact ==
    \A side \in Sides :
       /\ \A level \in LevelIndices :
             LET q == Queue(side, level)
                 sum[k \in 0 .. Len(q)] ==
                    IF k = 0 THEN 0 ELSE sum[k - 1] + b.nodes[q[k]].remaining
             IN  /\ b.levels[side][level].total = sum[Len(q)]
                 /\ level \in b.bitmap[side] <=> q # <<>>
       /\ b.best[side] = FindBest(side, b.bitmap[side])

GridPrices == {level_price(l) : l \in LevelIndices}

\* The queues of the book as the reference book keeps them.
View ==
    [s \in Sides |-> [p \in GridPrices |->
        LET q == Queue(s, price_index(p))
        IN  [k \in 1 .. Len(q) |-> [id |-> b.nodes[q[k]].id,
                                    remaining |-> b.nodes[q[k]].remaining]]]]
=============================================================================
