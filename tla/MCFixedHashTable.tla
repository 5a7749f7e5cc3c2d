-------------------------- MODULE MCFixedHashTable ---------------------------
(***************************************************************************)
(* FixedHashTable for TLC: a table of three entries in eight slots, with   *)
(* buckets on both sides of the end of the array.                          *)
(***************************************************************************)
EXTENDS FixedHashTable

CapacityOfThree == rounded_capacity(MaximumEntries)
AroundTheEnd == {Capacity - 2, Capacity - 1, 0}

\* The keys are interchangeable: only which of them share a bucket matters.
MCInit == TableInit /\ \A k, l \in Keys : k < l => bucket[k] <= bucket[l]

MCSpec == MCInit /\ [][TableNext]_table /\ WF_table(Step)
=============================================================================
