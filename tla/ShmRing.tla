------------------------------- MODULE ShmRing -------------------------------
(***************************************************************************)
(* The broadcast ring of components/include/qtrader/ShmRingProtocol.hpp:   *)
(* one publisher stamps slots with sequence numbers, any number of         *)
(* SequenceReaders follow it and count what they lose.                     *)
(*                                                                         *)
(* publish and try_read are split at every access to shared memory.  The   *)
(* payload is copied without synchronisation, so it has two halves that    *)
(* are written and copied separately: a half holds the number of the item  *)
(* it was written for.                                                     *)
(***************************************************************************)
EXTENDS Integers, Sequences

CONSTANTS
    ShmCapacity,  \* kCapacity
    Count,        \* bound: the items published, numbered from 0
    NoSequence,   \* kNoSequence, larger than every sequence number
    Readers

ASSUME ShmAssumption ==
    /\ ShmCapacity \in Nat /\ ShmCapacity >= 2
    /\ Count \in Nat
    /\ NoSequence \in Nat /\ NoSequence > Count

VARIABLES
    slots_,         \* SequenceQueue::slots: sequence and the item's halves
    shm_published,  \* header.published
    sequence,       \* the publisher's next sequence number
    wpc,            \* where publish is: "idle", "second", "stamp", "announce"
    reader          \* SequenceReader and the locals of try_read, per reader

shm == <<slots_, shm_published, sequence, wpc, reader>>
writer == <<slots_, shm_published, sequence, wpc>>

SlotOf(n) == n % ShmCapacity

FreshReader ==
    [pc |-> "detached", next |-> 0, dropped |-> 0, joined |-> 0, received |-> <<>>,
     before |-> NoSequence, first |-> NoSequence, second |-> NoSequence]

ShmInit ==
    /\ slots_ = [i \in 0 .. ShmCapacity - 1 |->
                   [sequence |-> NoSequence, first |-> NoSequence, second |-> NoSequence]]
    /\ shm_published = NoSequence
    /\ sequence = 0 /\ wpc = "idle"
    /\ reader = [r \in Readers |-> FreshReader]

-----------------------------------------------------------------------------
(***************************************************************************)
(* publish: copy the payload, stamp the slot, announce the sequence.       *)
(***************************************************************************)
\* Mutant: the item is stamped and announced before its payload is complete.
WriteFirstAnnounces ==
    /\ wpc = "idle" /\ sequence < Count
    /\ slots_' = [slots_ EXCEPT ![SlotOf(sequence)].first = sequence,
                                ![SlotOf(sequence)].sequence = sequence]
    /\ shm_published' = sequence
    /\ wpc' = "second"
    /\ UNCHANGED <<sequence, reader>>

WriteFirst ==
    /\ wpc = "idle" /\ sequence < Count
    /\ slots_' = [slots_ EXCEPT ![SlotOf(sequence)].first = sequence]
    /\ wpc' = "second"
    /\ UNCHANGED <<shm_published, sequence, reader>>

WriteSecond ==
    /\ wpc = "second"
    /\ slots_' = [slots_ EXCEPT ![SlotOf(sequence)].second = sequence]
    /\ wpc' = "stamp"
    /\ UNCHANGED <<shm_published, sequence, reader>>

StampSlot ==
    /\ wpc = "stamp"
    /\ slots_' = [slots_ EXCEPT ![SlotOf(sequence)].sequence = sequence]
    /\ wpc' = "announce"
    /\ UNCHANGED <<shm_published, sequence, reader>>

Announce ==
    /\ wpc = "announce"
    /\ shm_published' = sequence
    /\ sequence' = sequence + 1
    /\ wpc' = "idle"
    /\ UNCHANGED <<slots_, reader>>

-----------------------------------------------------------------------------
\* SequenceReader::oldest
Oldest(latest) ==
    IF latest >= ShmCapacity - 1 THEN latest - (ShmCapacity - 1) ELSE 0

\* attach, at the latest item or at the oldest one still in the ring.
Attach(r, start_at_latest) ==
    /\ reader[r].pc = "detached"
    /\ LET n == IF shm_published = NoSequence THEN 0
                ELSE IF start_at_latest THEN shm_published + 1
                ELSE Oldest(shm_published)
       IN  reader' = [reader EXCEPT ![r].pc = "idle", ![r].next = n, ![r].joined = n]
    /\ UNCHANGED writer

\* Mutant: items overwritten before they were read are not counted.
LoadPublishedUncounted(r) ==
    /\ reader[r].pc = "idle"
    /\ shm_published # NoSequence /\ reader[r].next <= shm_published
    /\ LET o == Oldest(shm_published)
       IN  reader' = [reader EXCEPT ![r].pc = "before",
                                    ![r].next = IF @ < o THEN o ELSE @]
    /\ UNCHANGED writer

\* try_read: the load of published.  Nothing new: it returns false and the
\* reader stays idle.  Otherwise it first skips what was overwritten.
LoadPublished(r) ==
    /\ reader[r].pc = "idle"
    /\ shm_published # NoSequence /\ reader[r].next <= shm_published
    /\ LET o    == Oldest(shm_published)
           lost == IF reader[r].next < o THEN o - reader[r].next ELSE 0
       IN  reader' = [reader EXCEPT ![r].pc = "before",
                                    ![r].next = @ + lost, ![r].dropped = @ + lost]
    /\ UNCHANGED writer

\* The sequence of the slot before the copy; a newer one moves the reader on.
LoadBefore(r) ==
    /\ reader[r].pc = "before"
    /\ LET n    == reader[r].next
           b    == slots_[SlotOf(n)].sequence
           lost == IF b > n /\ b # NoSequence THEN b - n ELSE 0
       IN  reader' = IF b = n
                     THEN [reader EXCEPT ![r].pc = "first", ![r].before = b]
                     ELSE [reader EXCEPT ![r].pc = "idle",
                                         ![r].next = @ + lost, ![r].dropped = @ + lost]
    /\ UNCHANGED writer

CopyFirst(r) ==
    /\ reader[r].pc = "first"
    /\ reader' = [reader EXCEPT ![r].pc = "second",
                                ![r].first = slots_[SlotOf(reader[r].next)].first]
    /\ UNCHANGED writer

CopySecond(r) ==
    /\ reader[r].pc = "second"
    /\ reader' = [reader EXCEPT ![r].pc = "after",
                                ![r].second = slots_[SlotOf(reader[r].next)].second]
    /\ UNCHANGED writer

\* The sequence after the copy: the item is taken only if it is unchanged.
Accept(r) ==
    /\ reader[r].pc = "after"
    /\ slots_[SlotOf(reader[r].next)].sequence = reader[r].before
    /\ reader' = [reader EXCEPT ![r].pc = "done", ![r].next = @ + 1]
    /\ UNCHANGED writer

Reject(r) ==
    /\ reader[r].pc = "after"
    /\ LET n == reader[r].next
           a == slots_[SlotOf(n)].sequence
       IN  /\ a # reader[r].before
           /\ reader' = [reader EXCEPT
                 ![r].pc = "idle",
                 ![r].dropped = @ + (IF a > n THEN a - n ELSE 1),
                 ![r].next = IF a = NoSequence THEN n + 1 ELSE a]
    /\ UNCHANGED writer

\* try_read has returned true; the caller has used the item.
Release(r) ==
    /\ reader[r].pc = "done"
    /\ reader' = [reader EXCEPT ![r].pc = "idle",
                    ![r].received = Append(@, [number |-> reader[r].next - 1,
                                               first |-> reader[r].first,
                                               second |-> reader[r].second]),
                    ![r].before = NoSequence, ![r].first = NoSequence,
                    ![r].second = NoSequence]
    /\ UNCHANGED writer

WriterStep == WriteFirst \/ WriteSecond \/ StampSlot \/ Announce

TryRead(r) ==
    \/ LoadPublished(r) \/ LoadBefore(r) \/ CopyFirst(r) \/ CopySecond(r)
    \/ Accept(r) \/ Reject(r)

ShmNext ==
    \/ WriterStep
    \/ \E r \in Readers :
          \/ \E start_at_latest \in BOOLEAN : Attach(r, start_at_latest)
          \/ TryRead(r)
          \/ Release(r)

ShmSpec == ShmInit /\ [][ShmNext]_shm

-----------------------------------------------------------------------------
(***************************************************************************)
(* Properties.                                                             *)
(***************************************************************************)

\* Every item since a reader joined is either received or counted as dropped,
\* exactly once: the overrun count is exact for every pace of the publisher.
DropsAreExact ==
    \A r \in Readers :
       Len(reader[r].received) + (IF reader[r].pc = "done" THEN 1 ELSE 0)
          + reader[r].dropped = reader[r].next - reader[r].joined

\* No half of an item that is older than the item's number is ever handed on:
\* publish stamps a slot only after its payload, so what a reader can get
\* wrong is a newer half, never a stale one.
NeverStale ==
    \A r \in Readers : \A i \in 1 .. Len(reader[r].received) :
       LET x == reader[r].received[i] IN x.first >= x.number /\ x.second >= x.number
=============================================================================
