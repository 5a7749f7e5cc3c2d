----------------------------- MODULE BoundedFifo -----------------------------
(***************************************************************************)
(* What a bounded single-producer single-consumer queue promises: items    *)
(* come out once each, in the order they went in, and no more than Bound   *)
(* are inside.                                                             *)
(***************************************************************************)
EXTENDS Integers, Sequences

CONSTANTS Items, Bound

VARIABLES entered,  \* the items put in, in order
          left      \* the items taken out, in order

ends == <<entered, left>>

FifoInit == entered = <<>> /\ left = <<>>

Enqueue == /\ Len(entered) - Len(left) < Bound
           /\ \E v \in Items : entered' = Append(entered, v)
           /\ UNCHANGED left

Dequeue == /\ Len(left) < Len(entered)
           /\ left' = Append(left, entered[Len(left) + 1])
           /\ UNCHANGED entered

FifoSpec == FifoInit /\ [][Enqueue \/ Dequeue]_ends
=============================================================================
