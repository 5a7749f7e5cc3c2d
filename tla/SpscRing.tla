------------------------------ MODULE SpscRing -------------------------------
(***************************************************************************)
(* SpscRing (components/include/qtrader/SpscRing.hpp): the lock-free ring  *)
(* between one producer and one consumer thread.                           *)
(*                                                                         *)
(* try_push and try_pop are split at every access to shared memory: the    *)
(* acquire load of the other side's index, the access to the cell, and the *)
(* release store of the own index.  The load and what is done with it are  *)
(* separate steps, so an index that is out of date when it is used is      *)
(* covered.  NoDataRace shows that the cells are never accessed by both    *)
(* threads at once, which makes the interleaving semantics exact for them. *)
(***************************************************************************)
EXTENDS Integers, Sequences

CONSTANTS
    Capacity,   \* number of cells, a power of two
    Items,      \* what a cell can hold
    Blank       \* the value-initialised cell

ASSUME CapacityAssumption ==
    /\ Capacity \in Nat
    /\ Capacity >= 2
    /\ \E k \in 1 .. Capacity : Capacity = 2 ^ k

VARIABLES
    buffer,       \* _buffer
    head,         \* _producer.head, the producer's own copy
    published,    \* _producer.published
    tail,         \* _consumer.tail
    local_tail,   \* _consumer.local_tail, the consumer's own copy
    ppc,          \* where try_push is: "idle", "write", "publish"
    pushing,      \* the value argument of try_push
    cpc,          \* where try_pop is: "idle", "read", "advance"
    taken,        \* the value try_pop has copied out
    pushed,       \* history: the items pushed
    popped        \* history: the items popped

producer == <<head, published, ppc, pushing, pushed>>
consumer == <<tail, local_tail, cpc, taken, popped>>
ring     == <<buffer, producer, consumer>>

Cells == 0 .. Capacity - 1

RingInit ==
    /\ buffer = [i \in Cells |-> Blank]
    /\ head = 0 /\ published = 0 /\ tail = 0 /\ local_tail = 0
    /\ ppc = "idle" /\ pushing = Blank
    /\ cpc = "idle" /\ taken = Blank
    /\ pushed = <<>> /\ popped = <<>>

\* (index + 1) & (Capacity - 1)
Wrap(index) == (index + 1) % Capacity

-----------------------------------------------------------------------------
\* Mutant: the ring is never full.
NeverFull == FALSE

\* try_push: the acquire load of tail finds the ring full, or not.
IsFull == Wrap(head) = tail

PushFull ==
    /\ ppc = "idle"
    /\ IsFull
    /\ UNCHANGED ring

\* Mutant: the item is published before it is written.
PushBeginPublishes(v) ==
    /\ ppc = "idle"
    /\ ~IsFull
    /\ ppc' = "write" /\ pushing' = v
    /\ published' = Wrap(head)
    /\ UNCHANGED <<buffer, head, pushed, consumer>>

PushBegin(v) ==
    /\ ppc = "idle"
    /\ ~IsFull
    /\ ppc' = "write" /\ pushing' = v
    /\ UNCHANGED <<buffer, head, published, pushed, consumer>>

PushWrite ==
    /\ ppc = "write"
    /\ buffer' = [buffer EXCEPT ![head] = pushing]
    /\ ppc' = "publish"
    /\ UNCHANGED <<head, published, pushing, pushed, consumer>>

PushPublish ==
    /\ ppc = "publish"
    /\ head' = Wrap(head)
    /\ published' = Wrap(head)
    /\ ppc' = "idle" /\ pushing' = Blank
    /\ pushed' = Append(pushed, pushing)
    /\ UNCHANGED <<buffer, consumer>>

-----------------------------------------------------------------------------
\* try_pop: the acquire load of published finds the ring empty, or not.
IsEmpty == local_tail = published

PopEmpty ==
    /\ cpc = "idle"
    /\ IsEmpty
    /\ UNCHANGED ring

PopBegin ==
    /\ cpc = "idle"
    /\ ~IsEmpty
    /\ cpc' = "read"
    /\ UNCHANGED <<buffer, tail, local_tail, taken, popped, producer>>

PopRead ==
    /\ cpc = "read"
    /\ taken' = buffer[local_tail]
    /\ cpc' = "advance"
    /\ UNCHANGED <<buffer, tail, local_tail, popped, producer>>

PopAdvance ==
    /\ cpc = "advance"
    /\ local_tail' = Wrap(local_tail)
    /\ tail' = Wrap(local_tail)
    /\ cpc' = "idle" /\ taken' = Blank
    /\ popped' = Append(popped, taken)
    /\ UNCHANGED <<buffer, producer>>

RingNext ==
    \/ PushFull \/ (\E v \in Items : PushBegin(v)) \/ PushWrite \/ PushPublish
    \/ PopEmpty \/ PopBegin \/ PopRead \/ PopAdvance

RingSpec == RingInit /\ [][RingNext]_ring

-----------------------------------------------------------------------------
(***************************************************************************)
(* Properties.                                                             *)
(***************************************************************************)

\* The producer never writes the cell the consumer is reading.
NoDataRace == ~ (ppc = "write" /\ cpc = "read" /\ head = local_tail)

Fifo == INSTANCE BoundedFifo
           WITH Bound <- Capacity - 1, entered <- pushed, left <- popped

\* The ring is a FIFO queue of Capacity - 1 items: nothing is lost, repeated,
\* reordered or overwritten, however the two threads interleave.
ImplementsFifo == Fifo!FifoSpec
=============================================================================
