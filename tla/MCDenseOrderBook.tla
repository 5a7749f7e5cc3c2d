-------------------------- MODULE MCDenseOrderBook ---------------------------
(***************************************************************************)
(* DensePriceOrderBook for TLC: three levels two ticks apart, prices on    *)
(* and off the grid, and requests that must be rejected.                   *)
(***************************************************************************)
EXTENDS DensePriceOrderBook, TLC

CONSTANTS SomeIds, MostQuantity

SomeQuantities == 0 .. MostQuantity

Bad(id, price, quantity) ==
    [id |-> id, side |-> "Buy", type |-> "Limit", price |-> price, quantity |-> quantity]

SomeRequests ==
    [id : SomeIds, side : Sides, type : {"Limit"}, price : GridPrices,
     quantity : 1 .. MostQuantity]
      \cup [id : SomeIds, side : Sides, type : {"Market"}, price : {0},
            quantity : {MostQuantity}]
      \cup {Bad(NoId, MinimumPrice, 1), Bad(MaxId, MinimumPrice, 1)}
      \cup {Bad(id, MinimumPrice + 1, 1) : id \in SomeIds}
      \cup {Bad(id, 0, 1) : id \in SomeIds} \cup {Bad(id, MinimumPrice, 0) : id \in SomeIds}

\* The ids are interchangeable.
IdSymmetry == Permutations(SomeIds)

SomePrices == GridPrices \cup {MinimumPrice - 1, MinimumPrice + 1,
                              MinimumPrice + LevelCount * TickSize}

\* TLC evaluates the queues once per step, not at every use: view is View.
VARIABLE view

MCInit == DenseInit /\ view = View
MCNext == DenseNext /\ view' = View'
MCSpec == MCInit /\ [][MCNext]_<<dense, view>>

\* The order that submit or modify is matching, as the reference book keeps it.
TakerOrder ==
    IF taking = kInvalid THEN NoTaker
    ELSE [id |-> request.id, side |-> request.side, type |-> request.type,
          price |-> request.price, quantity |-> request.quantity,
          remaining |-> b.nodes[taking].remaining]

Reference ==
    INSTANCE FeedBook WITH
       Prices <- GridPrices,
       queues <- view,
       taker  <- TakerOrder,
       events <- calls

\* The dense book is the reference book: the same trades and order updates in
\* the same order, and price-time priority kept through every operation.
ImplementsReference == Reference!BookSpec
=============================================================================
