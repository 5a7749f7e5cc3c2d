------------------------------ MODULE MCEngine -------------------------------
(***************************************************************************)
(* UftMarketDataEngine for TLC: strategies that subscribe in their on_init *)
(* and strategies without one, which get their context in a session.       *)
(***************************************************************************)
EXTENDS UftMarketDataEngine

SomeCallbackSets == {{"Init", "OrderDetail", "Transaction"}, {"Transaction", "Session"}}
=============================================================================
