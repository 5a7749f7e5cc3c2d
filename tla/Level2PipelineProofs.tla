------------------------ MODULE Level2PipelineProofs -------------------------
(***************************************************************************)
(* Proofs about the two rings and the program that joins them: SpscRing,   *)
(* ShmRing and Level2Pipeline, for every capacity, any number of items and *)
(* of readers.                                                             *)
(***************************************************************************)
EXTENDS Level2Pipeline, TLAPS

-----------------------------------------------------------------------------
(***************************************************************************)
(* A counter and its place in a ring of C cells.                           *)
(***************************************************************************)
LEMMA PlaceInRing ==
    ASSUME NEW C \in Nat, C >= 2, NEW a \in Nat
    PROVE  a % C \in 0 .. C - 1
OBVIOUS

LEMMA Division ==
    ASSUME NEW C \in Nat, C >= 2, NEW a \in Nat
    PROVE  a = C * (a \div C) + (a % C) /\ a \div C \in Nat
OBVIOUS

LEMMA LapsApart ==
    ASSUME NEW C \in Nat, C >= 2, NEW p \in Nat, NEW q \in Nat, p < q
    PROVE  C * p \in Nat /\ C * q \in Nat /\ C * q >= C * p + C
<1>1. q >= p + 1
  OBVIOUS
<1>2. C * q >= C * (p + 1)
  BY <1>1
<1>3. C * (p + 1) = C * p + C
  OBVIOUS
<1>4. C * p \in Nat /\ C * q \in Nat
  OBVIOUS
<1> QED
  BY <1>2, <1>3, <1>4

LEMMA DivisionUnique ==
    ASSUME NEW C \in Nat, C >= 2, NEW a \in Nat, NEW q \in Nat, NEW r \in 0 .. C - 1,
           a = C * q + r
    PROVE  a % C = r
<1> DEFINE p == a \div C
           s == a % C
<1>1. a = C * p + s /\ p \in Nat /\ s \in 0 .. C - 1
  BY Division, PlaceInRing
<1>2. C * p \in Nat /\ C * q \in Nat
  BY <1>1
<1> HIDE DEF p, s
<1>3. CASE p < q
  BY <1>1, <1>2, <1>3, LapsApart
<1>4. CASE q < p
  BY <1>1, <1>2, <1>4, LapsApart
<1>5. CASE p = q
  BY <1>1, <1>2, <1>5 DEF s
<1> QED
  BY <1>1, <1>3, <1>4, <1>5

\* The masked increment follows the counter.
LEMMA NextPlace ==
    ASSUME NEW C \in Nat, C >= 2, NEW a \in Nat
    PROVE  ((a % C) + 1) % C = (a + 1) % C
<1> DEFINE q == a \div C
           r == a % C
<1>1. a = C * q + r /\ q \in Nat /\ r \in 0 .. C - 1
  BY Division, PlaceInRing
<1>2. C * (q + 1) = C * q + C /\ C * q \in Nat
  BY <1>1
<1> HIDE DEF q, r
<1>3. CASE r + 1 = C
  <2>1. (a + 1) % C = 0
    BY <1>1, <1>2, <1>3, DivisionUnique
  <2>2. (r + 1) % C = 0
    BY <1>3
  <2> QED
    BY <2>1, <2>2 DEF r
<1>4. CASE r + 1 < C
  <2>1. a + 1 = C * q + (r + 1) /\ r + 1 \in 0 .. C - 1 /\ a + 1 \in Nat
    BY <1>1, <1>2, <1>4
  <2>3. (a + 1) % C = r + 1
    BY <2>1, <1>1, DivisionUnique
  <2>2. (r + 1) % C = r + 1
    BY <1>1, <1>4
  <2> QED
    BY <2>2, <2>3 DEF r
<1> QED
  BY <1>1, <1>3, <1>4

\* Counters less than a lap apart have different places.
LEMMA PlacesDiffer ==
    ASSUME NEW C \in Nat, C >= 2, NEW a \in Nat, NEW b \in Nat, a < b, b - a < C
    PROVE  a % C # b % C
<1> DEFINE p == a \div C
           q == b \div C
           r == a % C
           s == b % C
<1> SUFFICES ASSUME r = s PROVE FALSE
  OBVIOUS
<1>1. /\ a = C * p + r /\ p \in Nat /\ r \in 0 .. C - 1
      /\ b = C * q + s /\ q \in Nat
  BY Division, PlaceInRing
<1>2. C * p \in Nat /\ C * q \in Nat
  BY <1>1
<1> HIDE DEF p, q, r, s
<1>3. CASE p < q
  BY <1>1, <1>2, <1>3, LapsApart
<1>4. CASE q < p
  BY <1>1, <1>2, <1>4, LapsApart
<1>5. CASE p = q
  BY <1>1, <1>2, <1>5
<1> QED
  BY <1>1, <1>3, <1>4, <1>5

LEMMA FullLap ==
    ASSUME NEW C \in Nat, C >= 2, NEW a \in Nat
    PROVE  (a + C) % C = a % C
<1> DEFINE q == a \div C
           r == a % C
<1>1. a = C * q + r /\ q \in Nat /\ r \in 0 .. C - 1
  BY Division, PlaceInRing
<1>2. C * (q + 1) = C * q + C /\ C * q \in Nat
  BY <1>1
<1> HIDE DEF q, r
<1>3. a + C = C * (q + 1) + r /\ q + 1 \in Nat /\ a + C \in Nat
  BY <1>1, <1>2
<1>4. (a + C) % C = r
  BY <1>1, <1>3, DivisionUnique
<1> QED
  BY <1>4 DEF r

-----------------------------------------------------------------------------
(***************************************************************************)
(* SpscRing.  The two indices are counters taken modulo the capacity: the  *)
(* producer's follows the items pushed, the consumer's those popped.  The  *)
(* cells between them hold what is pushed and not popped, and a thread in  *)
(* the middle of a call has room, or an item, of its own.                  *)
(***************************************************************************)
RingTypeOK ==
    /\ buffer \in [Cells -> Items \cup {Blank}]
    /\ pushed \in Seq(Items) /\ popped \in Seq(Items)
    /\ ppc \in {"idle", "write", "publish"}
    /\ cpc \in {"idle", "read", "advance"}
    /\ ppc # "idle" => pushing \in Items

IndicesCount ==
    /\ head = Len(pushed) % Capacity /\ published = head
    /\ local_tail = Len(popped) % Capacity /\ tail = local_tail

FillIsBounded ==
    /\ Len(popped) <= Len(pushed)
    /\ Len(pushed) - Len(popped) <= Capacity - 1
    /\ ppc # "idle" => Len(pushed) - Len(popped) < Capacity - 1
    /\ cpc # "idle" => Len(popped) < Len(pushed)

CellsHold ==
    /\ \A i \in Len(popped) + 1 .. Len(pushed) : buffer[(i - 1) % Capacity] = pushed[i]
    /\ ppc = "publish" => buffer[head] = pushing
    /\ cpc = "advance" => taken = pushed[Len(popped) + 1]

PoppedArePushed == \A i \in 1 .. Len(popped) : popped[i] = pushed[i]

RingInv == RingTypeOK /\ IndicesCount /\ FillIsBounded /\ CellsHold /\ PoppedArePushed

LEMMA RingNumbers ==
    ASSUME RingInv
    PROVE  /\ Capacity \in Nat /\ Capacity >= 2
           /\ Len(pushed) \in Nat /\ Len(popped) \in Nat
           /\ head \in Cells /\ local_tail \in Cells
BY CapacityAssumption, PlaceInRing DEF RingInv, RingTypeOK, IndicesCount, Cells

LEMMA RingInitInv == RingInit => RingInv
<1> SUFFICES ASSUME RingInit PROVE RingInv
  OBVIOUS
<1>1. /\ pushed \in Seq(Items) /\ popped \in Seq(Items)
      /\ Len(pushed) = 0 /\ Len(popped) = 0
  BY DEF RingInit
<1>2. 0 % Capacity = 0 /\ Capacity \in Nat /\ Capacity >= 2
  BY CapacityAssumption
<1> QED
  BY <1>1, <1>2 DEF RingInit, RingInv, RingTypeOK, IndicesCount, FillIsBounded, CellsHold,
       PoppedArePushed

LEMMA PushBeginInv ==
    ASSUME RingInv, NEW v \in Items, PushBegin(v)
    PROVE  RingInv'
<1>1. Len(pushed) - Len(popped) < Capacity - 1
  <2> SUFFICES ASSUME Len(pushed) - Len(popped) = Capacity - 1 PROVE FALSE
    BY RingNumbers DEF RingInv, FillIsBounded
  <2>1. Len(pushed) + 1 = Len(popped) + Capacity
    BY RingNumbers
  <2>2. (Len(pushed) + 1) % Capacity = Len(popped) % Capacity
    BY <2>1, RingNumbers, FullLap
  <2>3. Wrap(head) = (Len(pushed) + 1) % Capacity
    BY RingNumbers, NextPlace DEF Wrap, RingInv, IndicesCount
  <2> QED
    BY <2>2, <2>3 DEF PushBegin, IsFull, RingInv, IndicesCount
<1> QED
  BY <1>1 DEF PushBegin, consumer, RingInv, RingTypeOK, IndicesCount, FillIsBounded,
       CellsHold, PoppedArePushed

LEMMA PushWriteInv ==
    ASSUME RingInv, PushWrite
    PROVE  RingInv'
<1>1. /\ ppc = "write" /\ ppc' = "publish" /\ buffer' = [buffer EXCEPT ![head] = pushing]
      /\ UNCHANGED <<head, published, pushing, pushed, tail, local_tail, cpc, taken, popped>>
  BY DEF PushWrite, consumer
<1>2. /\ RingTypeOK' /\ buffer'[head] = pushing
  BY <1>1, RingNumbers DEF RingInv, RingTypeOK
<1>3. ASSUME NEW i \in Len(popped) + 1 .. Len(pushed)
      PROVE  buffer'[(i - 1) % Capacity] = pushed[i]
  <2>1. (i - 1) \in Nat /\ i - 1 < Len(pushed) /\ Len(pushed) - (i - 1) < Capacity
    BY <1>1, RingNumbers DEF RingInv, FillIsBounded
  <2>2. (i - 1) % Capacity # head /\ (i - 1) % Capacity \in Cells
    BY <2>1, RingNumbers, PlacesDiffer, PlaceInRing DEF RingInv, IndicesCount, Cells
  <2>3. buffer[(i - 1) % Capacity] = pushed[i]
    BY DEF RingInv, CellsHold
  <2> QED
    BY <1>1, <2>2, <2>3 DEF RingInv, RingTypeOK
<1> QED
  BY <1>1, <1>2, <1>3 DEF RingInv, IndicesCount, FillIsBounded, CellsHold, PoppedArePushed

LEMMA PushPublishInv ==
    ASSUME RingInv, PushPublish
    PROVE  RingInv' /\ Len(pushed') = Len(pushed) + 1
<1>1. /\ ppc = "publish" /\ ppc' = "idle" /\ pushed' = Append(pushed, pushing)
      /\ head' = Wrap(head) /\ published' = Wrap(head)
      /\ UNCHANGED <<buffer, tail, local_tail, cpc, taken, popped>>
  BY DEF PushPublish, consumer
<1>2. /\ pushing \in Items /\ pushed' \in Seq(Items) /\ Len(pushed') = Len(pushed) + 1
      /\ \A i \in 1 .. Len(pushed) : pushed'[i] = pushed[i]
      /\ pushed'[Len(pushed) + 1] = pushing
  BY <1>1, RingNumbers DEF RingInv, RingTypeOK
<1>3. head' = Len(pushed') % Capacity /\ published' = head'
  BY <1>1, <1>2, RingNumbers, NextPlace DEF Wrap, RingInv, IndicesCount
<1>4. ASSUME NEW i \in Len(popped) + 1 .. Len(pushed) + 1
      PROVE  buffer[(i - 1) % Capacity] = pushed'[i]
  <2>1. CASE i = Len(pushed) + 1
    BY <2>1, <1>1, <1>2, RingNumbers DEF RingInv, CellsHold, IndicesCount
  <2>2. CASE i <= Len(pushed)
    BY <2>2, <1>2, RingNumbers DEF RingInv, CellsHold
  <2> QED
    BY <2>1, <2>2, RingNumbers
<1>5. RingTypeOK' /\ IndicesCount'
  BY <1>1, <1>2, <1>3 DEF RingInv, RingTypeOK, IndicesCount
<1>6. FillIsBounded' /\ PoppedArePushed'
  BY <1>1, <1>2, RingNumbers DEF RingInv, FillIsBounded, PoppedArePushed
<1>7. CellsHold'
  <2>1. cpc = "advance" => taken = pushed'[Len(popped) + 1]
    BY <1>2, RingNumbers DEF RingInv, CellsHold, FillIsBounded
  <2> QED
    BY <1>1, <1>2, <1>4, <2>1 DEF CellsHold
<1> QED
  BY <1>2, <1>5, <1>6, <1>7 DEF RingInv

LEMMA PopInv ==
    ASSUME RingInv, PopBegin \/ PopRead \/ PopAdvance
    PROVE  RingInv'
<1>1. CASE PopBegin
  <2>1. Len(popped) < Len(pushed)
    BY <1>1, RingNumbers DEF PopBegin, IsEmpty, RingInv, IndicesCount, FillIsBounded
  <2> QED
    BY <1>1, <2>1 DEF PopBegin, producer, RingInv, RingTypeOK, IndicesCount, FillIsBounded,
         CellsHold, PoppedArePushed
<1>2. CASE PopRead
  <2>1. /\ cpc = "read" /\ cpc' = "advance" /\ taken' = buffer[local_tail]
        /\ UNCHANGED <<buffer, tail, local_tail, popped, head, published, ppc, pushing,
                       pushed>>
    BY <1>2 DEF PopRead, producer
  <2>2. taken' = pushed[Len(popped) + 1]
    BY <2>1, RingNumbers DEF RingInv, IndicesCount, FillIsBounded, CellsHold
  <2> QED
    BY <2>1, <2>2 DEF RingInv, RingTypeOK, IndicesCount, FillIsBounded, CellsHold,
         PoppedArePushed
<1>3. CASE PopAdvance
  <2>1. /\ cpc = "advance" /\ cpc' = "idle" /\ popped' = Append(popped, taken)
        /\ local_tail' = Wrap(local_tail) /\ tail' = Wrap(local_tail)
        /\ UNCHANGED <<buffer, head, published, ppc, pushing, pushed>>
    BY <1>3 DEF PopAdvance, producer
  <2>2. taken = pushed[Len(popped) + 1] /\ taken \in Items /\ Len(popped) < Len(pushed)
    BY <2>1, RingNumbers DEF RingInv, RingTypeOK, CellsHold, FillIsBounded
  <2>3. /\ popped' \in Seq(Items) /\ Len(popped') = Len(popped) + 1
        /\ \A i \in 1 .. Len(popped) : popped'[i] = popped[i]
        /\ popped'[Len(popped) + 1] = taken
    BY <2>1, <2>2, RingNumbers DEF RingInv, RingTypeOK
  <2>4. local_tail' = Len(popped') % Capacity /\ tail' = local_tail'
    BY <2>1, <2>3, RingNumbers, NextPlace DEF Wrap, RingInv, IndicesCount
  <2>5. RingTypeOK' /\ IndicesCount'
    BY <2>1, <2>3, <2>4 DEF RingInv, RingTypeOK, IndicesCount
  <2>6. FillIsBounded' /\ CellsHold'
    BY <2>1, <2>2, <2>3, RingNumbers DEF RingInv, FillIsBounded, CellsHold
  <2>7. PoppedArePushed'
    BY <2>1, <2>2, <2>3, RingNumbers DEF RingInv, PoppedArePushed
  <2> QED
    BY <2>5, <2>6, <2>7 DEF RingInv
<1> QED
  BY <1>1, <1>2, <1>3

LEMMA RingUnchangedInv ==
    ASSUME RingInv, UNCHANGED ring
    PROVE  RingInv'
BY DEF ring, producer, consumer, RingInv, RingTypeOK, IndicesCount, FillIsBounded,
       CellsHold, PoppedArePushed

LEMMA RingNextInv == RingInv /\ [RingNext]_ring => RingInv'
<1> SUFFICES ASSUME RingInv, [RingNext]_ring PROVE RingInv'
  OBVIOUS
<1>1. CASE UNCHANGED ring \/ PushFull \/ PopEmpty
  BY <1>1, RingUnchangedInv DEF PushFull, PopEmpty
<1> QED
  BY <1>1, PushBeginInv, PushWriteInv, PushPublishInv, PopInv DEF RingNext

\* Between any two accesses of try_push and try_pop the cells from tail to head
\* hold what was pushed and not yet popped.
THEOREM RingInvariance == RingSpec => []RingInv
BY RingInitInv, RingNextInv, PTL DEF RingSpec

LEMMA RingInvNoRace == RingInv => NoDataRace
<1> SUFFICES ASSUME RingInv, ppc = "write", cpc = "read" PROVE head # local_tail
  BY DEF NoDataRace
<1>1. Len(popped) < Len(pushed) /\ Len(pushed) - Len(popped) < Capacity
  BY RingNumbers DEF RingInv, FillIsBounded
<1> QED
  BY <1>1, RingNumbers, PlacesDiffer DEF RingInv, IndicesCount

\* In a ring of any capacity the two threads never access the same cell at
\* once, although each works with an index that may be out of date.
THEOREM RingHasNoRace == RingSpec => []NoDataRace
BY RingInvariance, RingInvNoRace, PTL

\* A step of the ring puts in an item, takes one out, or is invisible.
LEMMA RingStepIsFifo ==
    ASSUME RingInv, [RingNext]_ring
    PROVE  [Fifo!Enqueue \/ Fifo!Dequeue]_(Fifo!ends)
<1>1. CASE PushPublish
  <2>1. Fifo!Enqueue
    BY <1>1, RingNumbers
       DEF PushPublish, consumer, Fifo!Enqueue, RingInv, RingTypeOK, FillIsBounded
  <2> QED
    BY <2>1
<1>2. CASE PopAdvance
  <2>1. Fifo!Dequeue
    BY <1>2, RingNumbers
       DEF PopAdvance, producer, Fifo!Dequeue, RingInv, RingTypeOK, FillIsBounded, CellsHold
  <2> QED
    BY <2>1
<1>3. CASE ~PushPublish /\ ~PopAdvance
  BY <1>3 DEF RingNext, PushFull, PushBegin, PushWrite, PopEmpty, PopBegin, PopRead, ring,
       producer, consumer, Fifo!ends
<1> QED
  BY <1>1, <1>2, <1>3

\* SpscRing implements the bounded FIFO queue of BoundedFifo.
THEOREM RingImplementsFifo == RingSpec => ImplementsFifo
<1>1. RingInit => Fifo!FifoInit
  BY DEF RingInit, Fifo!FifoInit
<1>2. RingInv /\ [RingNext]_ring => [Fifo!Enqueue \/ Fifo!Dequeue]_(Fifo!ends)
  BY RingStepIsFifo
<1> QED
  BY <1>1, <1>2, RingInvariance, PTL DEF RingSpec, ImplementsFifo, Fifo!FifoSpec

-----------------------------------------------------------------------------
(***************************************************************************)
(* ShmRing.  The stamp of a slot only grows, and its payload is never      *)
(* older than its stamp: that is what a reader relies on between the two   *)
(* loads of the stamp.                                                     *)
(***************************************************************************)
Slots == 0 .. ShmCapacity - 1
Slot  == [sequence : Nat, first : Nat, second : Nat]
Item  == [number : Nat, first : Nat, second : Nat]

ReaderState ==
    [pc : {"detached", "idle", "before", "first", "second", "after", "done"},
     next : Nat, dropped : Nat, joined : Nat, received : Seq(Item),
     before : Nat, first : Nat, second : Nat]

ShmTypeOK ==
    /\ slots_ \in [Slots -> Slot]
    /\ shm_published \in Nat
    /\ sequence \in 0 .. Count
    /\ wpc \in {"idle", "second", "stamp", "announce"}
    /\ reader \in [Readers -> ReaderState]

\* publish: what it has written of the item it is at.
WriterInv ==
    /\ wpc # "idle" => sequence < Count /\ slots_[SlotOf(sequence)].first = sequence
    /\ wpc \in {"stamp", "announce"} => slots_[SlotOf(sequence)].second = sequence
    /\ shm_published # NoSequence => shm_published < sequence

PayloadCoversStamp ==
    \A i \in Slots : slots_[i].sequence # NoSequence =>
       /\ slots_[i].sequence <= sequence
       /\ slots_[i].first >= slots_[i].sequence
       /\ slots_[i].second >= slots_[i].sequence

\* try_read: the item it is at is announced, and once its stamp has been seen
\* the slot, and each half copied from it, is at least as new.
ReaderAt(x) ==
    /\ x.next <= sequence
    /\ x.pc = "detached" => x.received = <<>> /\ x.dropped = 0 /\ x.next = x.joined
    /\ x.pc \in {"before", "first", "second", "after"} => x.next < sequence
    /\ x.pc \in {"first", "second", "after"} =>
          /\ x.before = x.next
          /\ slots_[SlotOf(x.next)].sequence # NoSequence
          /\ slots_[SlotOf(x.next)].sequence >= x.next
    /\ x.pc \in {"second", "after"} => x.first >= x.next
    /\ x.pc = "after" => x.second >= x.next
    /\ x.pc = "done" => x.next >= 1 /\ x.first >= x.next - 1 /\ x.second >= x.next - 1

ReaderCounts(x) ==
    Len(x.received) + (IF x.pc = "done" THEN 1 ELSE 0) + x.dropped = x.next - x.joined

ReaderIsFresh(x) ==
    \A i \in 1 .. Len(x.received) :
       x.received[i].first >= x.received[i].number /\ x.received[i].second >= x.received[i].number

ReaderInv(x) == ReaderAt(x) /\ ReaderCounts(x) /\ ReaderIsFresh(x)

ShmInv ==
    /\ ShmTypeOK /\ WriterInv /\ PayloadCoversStamp
    /\ \A r \in Readers : ReaderInv(reader[r])

LEMMA SlotInRing ==
    ASSUME NEW n \in Nat
    PROVE  SlotOf(n) \in Slots
BY ShmAssumption, PlaceInRing DEF SlotOf, Slots

LEMMA ShmInitInv == ShmInit => ShmInv
<1> SUFFICES ASSUME ShmInit PROVE ShmInv
  OBVIOUS
<1>1. FreshReader \in ReaderState
  BY ShmAssumption DEF FreshReader, ReaderState
<1>2. ShmTypeOK
  BY <1>1, ShmAssumption DEF ShmInit, ShmTypeOK, Slots, Slot
<1>3. WriterInv /\ PayloadCoversStamp
  BY ShmAssumption DEF ShmInit, WriterInv, PayloadCoversStamp, Slots
<1>4. ASSUME NEW r \in Readers PROVE ReaderInv(reader[r])
  BY ShmAssumption DEF ShmInit, FreshReader, ReaderInv, ReaderAt, ReaderCounts, ReaderIsFresh
<1> QED
  BY <1>2, <1>3, <1>4 DEF ShmInv

\* A reader does not notice a step that lets stamps and sequence only grow.
LEMMA ReaderStays ==
    ASSUME ShmInv, UNCHANGED reader, sequence' \in Nat, sequence' >= sequence,
           slots_' \in [Slots -> Slot],
           \A i \in Slots : slots_[i].sequence # NoSequence =>
              slots_'[i].sequence # NoSequence /\ slots_'[i].sequence >= slots_[i].sequence
    PROVE  \A r \in Readers : ReaderInv(reader[r])'
<1> SUFFICES ASSUME NEW r \in Readers PROVE ReaderInv(reader[r])'
  OBVIOUS
<1>1. reader[r] \in ReaderState /\ reader'[r] = reader[r] /\ ReaderInv(reader[r])
  BY DEF ShmInv, ShmTypeOK
<1>2. SlotOf(reader[r].next) \in Slots
  BY <1>1, SlotInRing DEF ReaderState
<1> DEFINE x == reader[r]
           b == slots_[SlotOf(x.next)].sequence
           c == slots_'[SlotOf(x.next)].sequence
<1>3. /\ x.next \in Nat /\ sequence \in Nat /\ b \in Nat /\ c \in Nat
      /\ b # NoSequence => c # NoSequence /\ c >= b
  BY <1>1, <1>2 DEF ReaderState, ShmInv, ShmTypeOK, Slot
<1>4. ReaderAt(x)'
  <2>1. ReaderAt(x) /\ x' = x /\ SlotOf(x.next)' = SlotOf(x.next)
    BY <1>1 DEF ReaderInv, SlotOf
  <2>2. x.next <= sequence'
    BY <1>3, <2>1 DEF ReaderAt
  <2>3. x.pc \in {"before", "first", "second", "after"} => x.next < sequence'
    BY <1>3, <2>1 DEF ReaderAt
  <2>4. x.pc \in {"first", "second", "after"} => c # NoSequence /\ c >= x.next
    BY <1>3, <2>1 DEF ReaderAt
  <2> QED
    BY <2>1, <2>2, <2>3, <2>4 DEF ReaderAt
<1> QED
  BY <1>1, <1>4 DEF ReaderInv, ReaderCounts, ReaderIsFresh

LEMMA WriterStepInv ==
    ASSUME ShmInv, WriterStep
    PROVE  ShmInv'
<1> DEFINE k == SlotOf(sequence)
<1>1. k \in Slots /\ sequence \in Nat /\ sequence <= Count /\ Count < NoSequence
      /\ slots_ \in [Slots -> Slot] /\ UNCHANGED reader
  BY SlotInRing, ShmAssumption
     DEF ShmInv, ShmTypeOK, WriterStep, WriteFirst, WriteSecond, StampSlot, Announce
<1>2. CASE WriteFirst
  <2>1. slots_' = [slots_ EXCEPT ![k].first = sequence]
        /\ UNCHANGED <<shm_published, sequence>> /\ wpc' = "second" /\ sequence < Count
    BY <1>2 DEF WriteFirst
  <2> HIDE DEF k
  <2>2. /\ slots_' \in [Slots -> Slot] /\ slots_'[k].first = sequence
        /\ \A i \in Slots : slots_'[i].sequence = slots_[i].sequence
                            /\ slots_'[i].second = slots_[i].second
                            /\ (i # k => slots_'[i] = slots_[i])
    BY <1>1, <2>1 DEF Slot
  <2>3. PayloadCoversStamp'
    BY <1>1, <2>1, <2>2 DEF PayloadCoversStamp, ShmInv, Slot
  <2>4. \A r \in Readers : ReaderInv(reader[r])'
    BY <1>1, <2>1, <2>2, ReaderStays DEF Slot
  <2>5. WriterInv'
    BY <1>1, <2>1, <2>2 DEF WriterInv, ShmInv, k, SlotOf
  <2> QED
    BY <1>1, <2>1, <2>2, <2>3, <2>4, <2>5 DEF ShmInv, ShmTypeOK
<1>3. CASE WriteSecond
  <2>1. slots_' = [slots_ EXCEPT ![k].second = sequence]
        /\ UNCHANGED <<shm_published, sequence>> /\ wpc = "second" /\ wpc' = "stamp"
    BY <1>3 DEF WriteSecond
  <2> HIDE DEF k
  <2>2. /\ slots_' \in [Slots -> Slot] /\ slots_'[k].second = sequence
        /\ \A i \in Slots : slots_'[i].sequence = slots_[i].sequence
                            /\ slots_'[i].first = slots_[i].first
                            /\ (i # k => slots_'[i] = slots_[i])
    BY <1>1, <2>1 DEF Slot
  <2>3. PayloadCoversStamp'
    BY <1>1, <2>1, <2>2 DEF PayloadCoversStamp, ShmInv, Slot
  <2>4. \A r \in Readers : ReaderInv(reader[r])'
    BY <1>1, <2>1, <2>2, ReaderStays DEF Slot
  <2>5. WriterInv'
    BY <1>1, <2>1, <2>2 DEF WriterInv, ShmInv, k, SlotOf
  <2> QED
    BY <1>1, <2>1, <2>2, <2>3, <2>4, <2>5 DEF ShmInv, ShmTypeOK
<1>4. CASE StampSlot
  <2>1. slots_' = [slots_ EXCEPT ![k].sequence = sequence]
        /\ UNCHANGED <<shm_published, sequence>> /\ wpc = "stamp" /\ wpc' = "announce"
    BY <1>4 DEF StampSlot
  <2>6. slots_[k].first = sequence /\ slots_[k].second = sequence /\ sequence < Count
    BY <2>1 DEF ShmInv, WriterInv
  <2> HIDE DEF k
  <2>2. /\ slots_' \in [Slots -> Slot] /\ slots_'[k].sequence = sequence
        /\ \A i \in Slots : slots_'[i].first = slots_[i].first
                            /\ slots_'[i].second = slots_[i].second
                            /\ (i # k => slots_'[i] = slots_[i])
    BY <1>1, <2>1 DEF Slot
  <2>3. PayloadCoversStamp'
    BY <1>1, <2>1, <2>2, <2>6 DEF PayloadCoversStamp, ShmInv, Slot
  <2>7. ASSUME NEW i \in Slots, slots_[i].sequence # NoSequence
        PROVE  slots_'[i].sequence # NoSequence /\ slots_'[i].sequence >= slots_[i].sequence
    <3>1. slots_[i].sequence <= sequence
      BY <2>7 DEF PayloadCoversStamp, ShmInv
    <3>2. slots_[i].sequence \in Nat
      BY <1>1 DEF Slot
    <3>3. CASE i = k
      BY <1>1, <2>2, <3>1, <3>2, <3>3, ShmAssumption
    <3>4. CASE i # k
      BY <2>2, <2>7, <3>2, <3>4
    <3> QED
      BY <3>3, <3>4
  <2>4. \A r \in Readers : ReaderInv(reader[r])'
    BY <1>1, <2>1, <2>2, <2>7, ReaderStays
  <2>5. WriterInv'
    BY <1>1, <2>1, <2>2, <2>6 DEF WriterInv, ShmInv, k, SlotOf
  <2> QED
    BY <1>1, <2>1, <2>2, <2>3, <2>4, <2>5 DEF ShmInv, ShmTypeOK
<1>5. CASE Announce
  <2>1. shm_published' = sequence /\ sequence' = sequence + 1 /\ wpc = "announce"
        /\ wpc' = "idle" /\ UNCHANGED slots_
    BY <1>5 DEF Announce
  <2> HIDE DEF k
  <2>2. sequence' \in 0 .. Count
    BY <1>1, <2>1, ShmAssumption DEF WriterInv, ShmInv
  <2>3. PayloadCoversStamp'
    BY <1>1, <2>1 DEF PayloadCoversStamp, ShmInv, Slot
  <2>4. \A r \in Readers : ReaderInv(reader[r])'
    BY <1>1, <2>1, <2>2, ReaderStays DEF Slot
  <2>5. WriterInv'
    BY <1>1, <2>1 DEF WriterInv
  <2> QED
    BY <1>1, <2>1, <2>2, <2>3, <2>4, <2>5 DEF ShmInv, ShmTypeOK
<1> QED
  BY <1>2, <1>3, <1>4, <1>5 DEF WriterStep

\* A step of reader r is correct when its own record stays correct.
LEMMA ReaderFrame ==
    ASSUME ShmInv, NEW r \in Readers, UNCHANGED writer, NEW y \in ReaderState,
           reader' = [reader EXCEPT ![r] = y], ReaderInv(y)
    PROVE  ShmInv'
<1>1. /\ reader' \in [Readers -> ReaderState] /\ reader'[r] = y
      /\ \A q \in Readers : q # r => reader'[q] = reader[q]
      /\ UNCHANGED <<slots_, shm_published, sequence, wpc>>
  BY DEF ShmInv, ShmTypeOK, writer
<1>2. ASSUME NEW q \in Readers PROVE ReaderInv(reader[q])'
  <2>1. ReaderInv(reader'[q])
    BY <1>1 DEF ShmInv
  <2> QED
    BY <1>1, <2>1 DEF ReaderInv, ReaderAt, ReaderCounts, ReaderIsFresh, SlotOf
<1> QED
  BY <1>1, <1>2 DEF ShmInv, ShmTypeOK, WriterInv, PayloadCoversStamp, SlotOf

\* What the proofs below use of the state before a reader's step.
LEMMA ReaderFacts ==
    ASSUME ShmInv, NEW r \in Readers
    PROVE  /\ reader[r] \in ReaderState /\ ReaderInv(reader[r])
           /\ slots_[SlotOf(reader[r].next)] \in Slot
           /\ SlotOf(reader[r].next) \in Slots
           /\ sequence \in Nat /\ sequence < NoSequence /\ shm_published \in Nat
           /\ ShmCapacity \in Nat /\ ShmCapacity >= 2 /\ NoSequence \in Nat
           /\ shm_published # NoSequence => shm_published < sequence
<1>1. reader[r] \in ReaderState /\ ReaderInv(reader[r])
  BY DEF ShmInv, ShmTypeOK
<1>2. SlotOf(reader[r].next) \in Slots
  BY <1>1, SlotInRing DEF ReaderState
<1> QED
  BY <1>1, <1>2, ShmAssumption DEF ShmInv, ShmTypeOK, WriterInv

LEMMA OldestBounds ==
    ASSUME NEW latest \in Nat
    PROVE  Oldest(latest) \in 0 .. latest
BY ShmAssumption DEF Oldest

\* The fields of a reader's record, and how a step may set them.
LEMMA ReaderFields ==
    ASSUME NEW x \in ReaderState
    PROVE  x.next \in Nat /\ x.dropped \in Nat /\ x.joined \in Nat /\ Len(x.received) \in Nat
BY DEF ReaderState

LEMMA ReaderMoves ==
    ASSUME NEW x \in ReaderState, NEW n \in Nat, NEW d \in Nat, NEW j \in Nat,
           NEW p \in {"idle", "before", "done"}
    PROVE  [x EXCEPT !.pc = p, !.next = n, !.dropped = d, !.joined = j] \in ReaderState
BY DEF ReaderState

LEMMA CountsMove ==
    ASSUME NEW x \in ReaderState, ReaderCounts(x), x.pc # "done", NEW y, NEW lost \in Nat,
           y.received = x.received, y.joined = x.joined,
           \/ y.pc # "done" /\ y.dropped = x.dropped + lost /\ y.next = x.next + lost
           \/ y.pc = "done" /\ y.dropped = x.dropped /\ y.next = x.next + 1
    PROVE  ReaderCounts(y)
<1> DEFINE c == Len(x.received)
           d == x.dropped
           n == x.next
           j == x.joined
<1>1. c \in Nat /\ d \in Nat /\ n \in Nat /\ j \in Nat
  BY ReaderFields
<1>2. c + 0 + d = n - j
  BY DEF ReaderCounts
<1>3. c = Len(y.received) /\ j = y.joined
  OBVIOUS
<1>4. CASE y.pc # "done" /\ y.dropped = d + lost /\ y.next = n + lost
  <2> HIDE DEF c, d, n, j
  <2>1. c + 0 + (d + lost) = (n + lost) - j
    BY <1>1, <1>2
  <2> QED
    BY <1>3, <1>4, <2>1 DEF ReaderCounts
<1>5. CASE y.pc = "done" /\ y.dropped = d /\ y.next = n + 1
  <2> HIDE DEF c, d, n, j
  <2>1. c + 1 + d = (n + 1) - j
    BY <1>1, <1>2
  <2> QED
    BY <1>3, <1>5, <2>1 DEF ReaderCounts
<1> QED
  BY <1>4, <1>5

LEMMA AttachInv ==
    ASSUME ShmInv, NEW r \in Readers, NEW start_at_latest \in BOOLEAN,
           Attach(r, start_at_latest)
    PROVE  ShmInv'
<1> DEFINE n == IF shm_published = NoSequence THEN 0
                ELSE IF start_at_latest THEN shm_published + 1 ELSE Oldest(shm_published)
           x == reader[r]
           y == [x EXCEPT !.pc = "idle", !.next = n, !.joined = n]
<1>1. n \in 0 .. sequence
  BY ReaderFacts, OldestBounds
<1>2. reader' = [reader EXCEPT ![r] = y] /\ x.pc = "detached" /\ UNCHANGED writer
  BY DEF Attach, ShmInv, ShmTypeOK
<1>3. x \in ReaderState /\ ReaderInv(x)
  BY ReaderFacts
<1> HIDE DEF n
<1>6. n \in Nat /\ x.dropped \in Nat
  BY <1>1, <1>3, ReaderFields, ReaderFacts
<1>4. y \in ReaderState
  <2>1. [x EXCEPT !.pc = "idle", !.next = n, !.dropped = x.dropped, !.joined = n] \in ReaderState
    BY <1>3, <1>6, ReaderMoves
  <2>2. y = [x EXCEPT !.pc = "idle", !.next = n, !.dropped = x.dropped, !.joined = n]
    BY <1>3 DEF ReaderState
  <2> QED
    BY <2>1, <2>2
<1>5. ReaderInv(y)
  BY <1>1, <1>2, <1>3, ReaderFacts
     DEF ReaderInv, ReaderAt, ReaderCounts, ReaderIsFresh, ReaderState
<1> HIDE DEF y
<1> QED
  BY <1>2, <1>4, <1>5, ReaderFrame

\* The two moves that skip lost items count every one of them.
LEMMA SkipInv ==
    ASSUME ShmInv, NEW r \in Readers, UNCHANGED writer, NEW lost \in Nat,
           NEW p \in {"idle", "before"}, reader[r].pc \in {"idle", "before", "after"},
           reader[r].next + lost <= sequence,
           p = "before" => reader[r].next + lost < sequence,
           reader' = [reader EXCEPT ![r] = [reader[r] EXCEPT
              !.pc = p, !.next = reader[r].next + lost, !.dropped = reader[r].dropped + lost]]
    PROVE  ShmInv'
<1> DEFINE x == reader[r]
           y == [x EXCEPT !.pc = p, !.next = x.next + lost, !.dropped = x.dropped + lost]
<1>1. x \in ReaderState /\ ReaderInv(x) /\ sequence \in Nat
  BY ReaderFacts
<1>7. /\ x.next + lost \in Nat /\ x.dropped + lost \in Nat /\ x.joined \in Nat
      /\ x.next \in Nat /\ x.dropped \in Nat /\ Len(x.received) \in Nat
  BY <1>1, ReaderFields
<1>8. y = [x EXCEPT !.pc = p, !.next = x.next + lost, !.dropped = x.dropped + lost,
                    !.joined = x.joined]
  BY <1>1 DEF ReaderState
<1>2. y \in ReaderState
  <2> HIDE DEF x, y
  <2> QED
    BY <1>1, <1>7, <1>8, ReaderMoves, Zenon
<1>3. ReaderAt(y)
  BY <1>1 DEF ReaderInv, ReaderAt, ReaderState
<1>4. ReaderCounts(y)
  <2>1. /\ y.received = x.received /\ y.dropped = x.dropped + lost /\ y.next = x.next + lost
        /\ y.joined = x.joined /\ y.pc # "done"
    BY <1>1 DEF ReaderState
  <2>2. ReaderCounts(x) /\ x.pc # "done"
    BY <1>1 DEF ReaderInv
  <2> HIDE DEF x, y
  <2> QED
    BY <1>1, <2>1, <2>2, CountsMove, Zenon
<1>5. ReaderIsFresh(y)
  BY <1>1 DEF ReaderInv, ReaderIsFresh, ReaderState
<1>6. reader' = [reader EXCEPT ![r] = y]
  OBVIOUS
<1> HIDE DEF y
<1> QED
  BY <1>2, <1>3, <1>4, <1>5, <1>6, ReaderFrame DEF ReaderInv

LEMMA LoadPublishedInv ==
    ASSUME ShmInv, NEW r \in Readers, LoadPublished(r)
    PROVE  ShmInv'
<1> DEFINE x == reader[r]
           o == Oldest(shm_published)
           lost == IF x.next < o THEN o - x.next ELSE 0
<1>1. /\ x.pc = "idle" /\ shm_published # NoSequence /\ x.next <= shm_published
      /\ UNCHANGED writer
      /\ reader' = [reader EXCEPT ![r] = [x EXCEPT
            !.pc = "before", !.next = x.next + lost, !.dropped = x.dropped + lost]]
  BY DEF LoadPublished, ShmInv, ShmTypeOK
<1>2. x.next \in Nat /\ o \in 0 .. shm_published /\ shm_published < sequence
  BY <1>1, ReaderFacts, OldestBounds DEF ReaderState
<1> HIDE DEF o
<1>3. lost \in Nat /\ x.next + lost < sequence /\ x.next + lost <= sequence
  BY <1>1, <1>2, ReaderFacts
<1> HIDE DEF lost, x
<1> QED
  BY <1>1, <1>3, SkipInv DEF x

LEMMA LoadBeforeInv ==
    ASSUME ShmInv, NEW r \in Readers, LoadBefore(r)
    PROVE  ShmInv'
<1> DEFINE x == reader[r]
           b == slots_[SlotOf(x.next)].sequence
           lost == IF b > x.next /\ b # NoSequence THEN b - x.next ELSE 0
           y == [x EXCEPT !.pc = "first", !.before = b]
<1>1. /\ x.pc = "before" /\ UNCHANGED writer
      /\ b = x.next => reader' = [reader EXCEPT ![r] = y]
      /\ b # x.next => reader' = [reader EXCEPT ![r] = [x EXCEPT
            !.pc = "idle", !.next = x.next + lost, !.dropped = x.dropped + lost]]
  BY DEF LoadBefore, ShmInv, ShmTypeOK
<1>2. /\ x \in ReaderState /\ ReaderInv(x) /\ x.next \in Nat /\ b \in Nat
      /\ sequence \in Nat /\ sequence < NoSequence /\ x.next < sequence
      /\ b # NoSequence => b <= sequence
  BY <1>1, ReaderFacts DEF ReaderState, Slot, ReaderInv, ReaderAt, ShmInv, PayloadCoversStamp
<1>3. CASE b = x.next
  <2>1. y \in ReaderState
    BY <1>2 DEF ReaderState
  <2>2. ReaderInv(y)
    <3>1. /\ y.pc = "first" /\ y.before = b /\ y.next = x.next /\ y.dropped = x.dropped
          /\ y.joined = x.joined /\ y.received = x.received
          /\ y.first = x.first /\ y.second = x.second
      BY <1>2 DEF ReaderState
    <3>2. ReaderAt(y)
      <4>1. slots_[SlotOf(y.next)].sequence = b
        BY <3>1
      <4>2. b # NoSequence /\ b >= x.next /\ x.next <= sequence
        BY <1>2, <1>3, ShmAssumption
      <4> HIDE DEF x, y, b
      <4> QED
        BY <1>2, <1>3, <3>1, <4>1, <4>2 DEF ReaderAt
    <3> HIDE DEF x, y, b
    <3>3. ReaderCounts(y)
      BY <1>1, <1>2, <3>1 DEF ReaderInv, ReaderCounts
    <3>4. ReaderIsFresh(y)
      BY <1>1, <1>2, <1>3, <3>1 DEF ReaderInv, ReaderIsFresh
    <3> QED
      BY <3>2, <3>3, <3>4 DEF ReaderInv
  <2> HIDE DEF y
  <2> QED
    BY <1>1, <1>3, <2>1, <2>2, ReaderFrame
<1>4. CASE b # x.next
  <2> HIDE DEF b
  <2>1. lost \in Nat /\ x.next + lost <= sequence
    BY <1>2
  <2> HIDE DEF lost, x
  <2> QED
    BY <1>1, <1>4, <2>1, SkipInv DEF x
<1> QED
  BY <1>3, <1>4

LEMMA CopyInv ==
    ASSUME ShmInv, NEW r \in Readers, CopyFirst(r) \/ CopySecond(r)
    PROVE  ShmInv'
<1> DEFINE x == reader[r]
           s == slots_[SlotOf(x.next)]
<1>1. /\ x \in ReaderState /\ ReaderInv(x) /\ s \in Slot /\ UNCHANGED writer
      /\ x.pc \in {"first", "second"}
  BY ReaderFacts DEF CopyFirst, CopySecond
<1>2. s.first \in Nat /\ s.second \in Nat /\ s.first >= x.next /\ s.second >= x.next
  <2>1. s.sequence # NoSequence /\ s.sequence >= x.next
    BY <1>1 DEF ReaderInv, ReaderAt
  <2>2. s.first >= s.sequence /\ s.second >= s.sequence
    BY <2>1, ReaderFacts DEF ShmInv, PayloadCoversStamp
  <2> QED
    BY <1>1, <2>1, <2>2 DEF Slot, ReaderState
<1>3. CASE CopyFirst(r)
  <2> DEFINE y == [x EXCEPT !.pc = "second", !.first = s.first]
  <2>1. reader' = [reader EXCEPT ![r] = y] /\ x.pc = "first"
    BY <1>3 DEF CopyFirst, ShmInv, ShmTypeOK
  <2> HIDE DEF s
  <2>2. y \in ReaderState
    BY <1>1, <1>2 DEF ReaderState
  <2>3. ReaderInv(y)
    BY <1>1, <1>2, <2>1 DEF ReaderInv, ReaderAt, ReaderCounts, ReaderIsFresh, ReaderState
  <2> HIDE DEF y
  <2> QED
    BY <1>1, <2>1, <2>2, <2>3, ReaderFrame
<1>4. CASE CopySecond(r)
  <2> DEFINE y == [x EXCEPT !.pc = "after", !.second = s.second]
  <2>1. reader' = [reader EXCEPT ![r] = y] /\ x.pc = "second"
    BY <1>4 DEF CopySecond, ShmInv, ShmTypeOK
  <2> HIDE DEF s
  <2>2. y \in ReaderState
    BY <1>1, <1>2 DEF ReaderState
  <2>3. ReaderInv(y)
    BY <1>1, <1>2, <2>1 DEF ReaderInv, ReaderAt, ReaderCounts, ReaderIsFresh, ReaderState
  <2> HIDE DEF y
  <2> QED
    BY <1>1, <2>1, <2>2, <2>3, ReaderFrame
<1> QED
  BY <1>3, <1>4

LEMMA AcceptInv ==
    ASSUME ShmInv, NEW r \in Readers, Accept(r)
    PROVE  ShmInv'
<1> DEFINE x == reader[r]
           y == [x EXCEPT !.pc = "done", !.next = x.next + 1]
<1>1. x \in ReaderState /\ ReaderInv(x) /\ sequence \in Nat
  BY ReaderFacts
<1>2. reader' = [reader EXCEPT ![r] = y] /\ x.pc = "after" /\ UNCHANGED writer
  BY DEF Accept, ShmInv, ShmTypeOK
<1>6. /\ x.next + 1 \in Nat /\ x.dropped \in Nat /\ x.joined \in Nat /\ x.next \in Nat
      /\ Len(x.received) \in Nat
  BY <1>1, ReaderFields
<1>7. y = [x EXCEPT !.pc = "done", !.next = x.next + 1, !.dropped = x.dropped,
                    !.joined = x.joined]
  BY <1>1 DEF ReaderState
<1>3. y \in ReaderState
  <2> HIDE DEF x, y
  <2> QED
    BY <1>1, <1>6, <1>7, ReaderMoves, Zenon
<1>4. ReaderAt(y)
  BY <1>1, <1>2 DEF ReaderInv, ReaderAt, ReaderState
<1>5. ReaderCounts(y) /\ ReaderIsFresh(y)
  <2>1. /\ y.received = x.received /\ y.dropped = x.dropped /\ y.next = x.next + 1
        /\ y.joined = x.joined /\ y.pc = "done"
    BY <1>1 DEF ReaderState
  <2>2. ReaderCounts(x) /\ x.pc # "done" /\ ReaderIsFresh(x)
    BY <1>1, <1>2 DEF ReaderInv
  <2> HIDE DEF x, y
  <2>3. ReaderCounts(y)
    BY <1>1, <1>6, <2>1, <2>2, CountsMove, Zenon
  <2> QED
    BY <2>1, <2>2, <2>3 DEF ReaderIsFresh
<1> HIDE DEF y
<1> QED
  BY <1>2, <1>3, <1>4, <1>5, ReaderFrame DEF ReaderInv

\* The stamp after the copy is newer: it can be neither blank nor older.
LEMMA RejectInv ==
    ASSUME ShmInv, NEW r \in Readers, Reject(r)
    PROVE  ShmInv'
<1> DEFINE x == reader[r]
           a == slots_[SlotOf(x.next)].sequence
           lost == a - x.next
<1>1. /\ x.pc = "after" /\ a # x.before /\ UNCHANGED writer
      /\ reader' = [reader EXCEPT ![r] = [x EXCEPT !.pc = "idle",
            !.dropped = x.dropped + (IF a > x.next THEN a - x.next ELSE 1),
            !.next = IF a = NoSequence THEN x.next + 1 ELSE a]]
  BY DEF Reject, ShmInv, ShmTypeOK
<1>2. /\ x \in ReaderState /\ x.next \in Nat /\ a \in Nat /\ a # NoSequence
      /\ a > x.next /\ a <= sequence
  <2>1. /\ x \in ReaderState /\ x.next \in Nat /\ a \in Nat
    BY ReaderFacts DEF ReaderState, Slot
  <2>2. a # NoSequence /\ a >= x.next /\ x.before = x.next
    BY <1>1, ReaderFacts DEF ReaderInv, ReaderAt
  <2>3. a <= sequence
    BY <2>2, ReaderFacts DEF ShmInv, PayloadCoversStamp
  <2> QED
    BY <1>1, <2>1, <2>2, <2>3
<1> HIDE DEF a
<1>3. lost \in Nat /\ x.next + lost = a
  BY <1>2
<1>4. reader' = [reader EXCEPT ![r] = [x EXCEPT
         !.pc = "idle", !.next = x.next + lost, !.dropped = x.dropped + lost]]
  BY <1>1, <1>2, <1>3 DEF ReaderState
<1> HIDE DEF lost, x
<1> QED
  BY <1>1, <1>2, <1>3, <1>4, SkipInv DEF x

LEMMA ReleaseInv ==
    ASSUME ShmInv, NEW r \in Readers, Release(r)
    PROVE  ShmInv'
<1> DEFINE x == reader[r]
           m == [number |-> x.next - 1, first |-> x.first, second |-> x.second]
           y == [x EXCEPT !.pc = "idle", !.received = Append(x.received, m),
                          !.before = NoSequence, !.first = NoSequence, !.second = NoSequence]
<1>1. x \in ReaderState /\ ReaderInv(x) /\ sequence \in Nat /\ NoSequence \in Nat
  BY ReaderFacts
<1>2. reader' = [reader EXCEPT ![r] = y] /\ x.pc = "done" /\ UNCHANGED writer
  BY DEF Release, ShmInv, ShmTypeOK
<1>3. m \in Item /\ m.first >= m.number /\ m.second >= m.number
  BY <1>1, <1>2 DEF Item, ReaderState, ReaderInv, ReaderAt
<1>4. x.received \in Seq(Item)
  BY <1>1 DEF ReaderState
<1> HIDE DEF m
<1>5. /\ y.received \in Seq(Item) /\ Len(y.received) = Len(x.received) + 1
      /\ \A i \in 1 .. Len(x.received) : y.received[i] = x.received[i]
      /\ y.received[Len(x.received) + 1] = m
  BY <1>1, <1>3, <1>4 DEF ReaderState
<1>6. y \in ReaderState
  BY <1>1, <1>5 DEF ReaderState
<1>7. ReaderAt(y)
  BY <1>1, <1>2 DEF ReaderInv, ReaderAt, ReaderState
<1>8. ReaderCounts(y)
  BY <1>1, <1>2, <1>4, <1>5 DEF ReaderInv, ReaderCounts, ReaderState
<1>9. ReaderIsFresh(y)
  BY <1>1, <1>3, <1>4, <1>5 DEF ReaderInv, ReaderIsFresh
<1> HIDE DEF y
<1> QED
  BY <1>2, <1>6, <1>7, <1>8, <1>9, ReaderFrame DEF ReaderInv

LEMMA TryReadInv ==
    ASSUME ShmInv, NEW r \in Readers, TryRead(r)
    PROVE  ShmInv'
BY LoadPublishedInv, LoadBeforeInv, CopyInv, AcceptInv, RejectInv DEF TryRead

LEMMA ShmUnchangedInv ==
    ASSUME ShmInv, UNCHANGED shm
    PROVE  ShmInv'
BY DEF shm, ShmInv, ShmTypeOK, WriterInv, PayloadCoversStamp, ReaderInv, ReaderAt,
       ReaderCounts, ReaderIsFresh, SlotOf

LEMMA ShmNextInv == ShmInv /\ [ShmNext]_shm => ShmInv'
BY ShmUnchangedInv, WriterStepInv, AttachInv, TryReadInv, ReleaseInv DEF ShmNext

\* Whatever publish has overwritten, a payload is at least as new as its stamp,
\* and a reader's counters add up wherever it is in try_read.
THEOREM ShmInvariance == ShmSpec => []ShmInv
BY ShmInitInv, ShmNextInv, PTL DEF ShmSpec

LEMMA ShmInvDrops == ShmInv => DropsAreExact /\ NeverStale
BY DEF ShmInv, ReaderInv, ReaderCounts, ReaderIsFresh, DropsAreExact, NeverStale

\* For any number of readers and every pace of the publisher, a reader counts
\* each item since it joined exactly once, as received or as dropped.
THEOREM ReadersDropsAreExact == ShmSpec => []DropsAreExact
BY ShmInvariance, ShmInvDrops, PTL

\* No reader of the ring ever hands on a half older than its item.
THEOREM ReadersAreNeverStale == ShmSpec => []NeverStale
BY ShmInvariance, ShmInvDrops, PTL

-----------------------------------------------------------------------------
(***************************************************************************)
(* Level2Pipeline.  Neither ring alone keeps an event whole.  What does is *)
(* where the threads are relative to each other: main is less than a lap   *)
(* ahead of shm_consumed, and the item shm_reader is at is exactly the one *)
(* shm_consumed counts up to.                                              *)
(***************************************************************************)
Stamped(k) == [sequence |-> k, first |-> k, second |-> k]

\* main: what it has announced, and how far it may be ahead.
MainInv ==
    /\ shm_published = (IF sequence = 0 THEN NoSequence ELSE sequence - 1)
    /\ sequence <= shm_consumed + ShmCapacity - 1
    /\ wpc # "idle" => sequence < shm_consumed + ShmCapacity - 1
    /\ wpc = "announce" => slots_[SlotOf(sequence)] = Stamped(sequence)
    /\ \A k \in shm_consumed .. sequence - 1 : slots_[SlotOf(k)] = Stamped(k)

\* shm_reader: which item it is at, in the shared-memory ring and in the SPSC ring.
ReaderPlace ==
    /\ shm_consumed \in Nat
    /\ rpc \in {"starting", "reading", "push", "store", "joined"}
    /\ (rpc = "starting") <=> (item.pc = "detached")
    /\ (rpc \in {"push", "store"}) <=> (item.pc = "done")
    /\ rpc = "starting" => shm_consumed = 0
    /\ rpc \in {"starting", "reading", "joined"} =>
          item.next = shm_consumed /\ Len(pushed) = shm_consumed
    /\ rpc \in {"push", "store"} => item.next = shm_consumed + 1
    /\ rpc = "push" => Len(pushed) = shm_consumed
    /\ rpc = "store" => Len(pushed) = shm_consumed + 1
    /\ rpc # "push" => ppc = "idle"

\* What it has copied, and what it is pushing.
CopyIsWhole ==
    /\ item.pc \in {"second", "after"} => item.first = item.next
    /\ item.pc = "after" => item.second = item.next
    /\ rpc = "push" => item.first = shm_consumed /\ item.second = shm_consumed
    /\ ppc # "idle" => pushing = Whole(shm_consumed)

PushedAreWhole == \A i \in 1 .. Len(pushed) : pushed[i] = Whole(i - 1)

ThreadsInv == MainInv /\ ReaderPlace /\ CopyIsWhole /\ PushedAreWhole

Level2Inv == ShmInv /\ RingInv /\ ThreadsInv

LEMMA Level2Facts ==
    ASSUME Level2Inv
    PROVE  /\ shm_reader \in Readers
           /\ item \in ReaderState /\ item.next \in Nat /\ item.next <= sequence
           /\ sequence \in Nat /\ sequence <= Count /\ Count \in Nat /\ shm_consumed \in Nat
           /\ shm_consumed <= sequence
           /\ ShmCapacity \in Nat /\ ShmCapacity >= 2
           /\ NoSequence \in Nat /\ NoSequence > Count
           /\ slots_ \in [Slots -> Slot]
           /\ Len(pushed) \in Nat /\ Len(popped) \in Nat
<1>1. shm_reader \in Readers
  BY Level2Assumption
<1>2. item \in ReaderState /\ ReaderInv(item) /\ sequence \in Nat
  BY <1>1, ReaderFacts DEF item, Level2Inv
<1>3. item.next \in Nat /\ item.next <= sequence
  BY <1>2, ReaderFields DEF ReaderInv, ReaderAt
<1>4. shm_consumed \in Nat /\ shm_consumed <= sequence
  BY <1>2, <1>3 DEF Level2Inv, ThreadsInv, ReaderPlace
<1> QED
  BY <1>1, <1>2, <1>3, <1>4, RingNumbers, ShmAssumption DEF Level2Inv, ShmInv, ShmTypeOK

LEMMA Level2InitInv == Level2Init => Level2Inv
<1> SUFFICES ASSUME Level2Init PROVE Level2Inv
  OBVIOUS
<1>1. ShmInv /\ RingInv
  BY ShmInitInv, RingInitInv DEF Level2Init
<1>2. item = FreshReader
  BY Level2Assumption DEF Level2Init, ShmInit, item
<1>3. MainInv
  BY ShmAssumption DEF Level2Init, ShmInit, MainInv
<1>4. ReaderPlace /\ CopyIsWhole /\ PushedAreWhole
  BY <1>2 DEF Level2Init, ShmInit, RingInit, FreshReader, ReaderPlace, CopyIsWhole,
       PushedAreWhole
<1> QED
  BY <1>1, <1>3, <1>4 DEF Level2Inv, ThreadsInv

\* An item that is announced and not consumed lies in another slot than the
\* one main is about to write.
LEMMA SlotsApart ==
    ASSUME Level2Inv, sequence < shm_consumed + ShmCapacity - 1,
           NEW k \in shm_consumed .. sequence - 1
    PROVE  SlotOf(k) # SlotOf(sequence) /\ SlotOf(k) \in Slots
<1>1. k \in Nat /\ k < sequence /\ sequence - k < ShmCapacity
  BY Level2Facts
<1> QED
  BY <1>1, Level2Facts, PlacesDiffer, SlotInRing DEF SlotOf

LEMMA WriterThreads ==
    ASSUME Level2Inv, UNCHANGED <<ring, locals>>,
           \/ WriteFirst /\ HasRoom
           \/ WriteSecond \/ StampSlot \/ Announce
    PROVE  Level2Inv'
<1> DEFINE s == SlotOf(sequence)
<1>1. ShmInv'
  BY WriterStepInv DEF Level2Inv, WriterStep
<1>2. RingInv'
  BY RingUnchangedInv DEF Level2Inv
<1>3. UNCHANGED <<reader, shm_consumed, rpc, ppc, pushing, pushed>>
  BY DEF WriteFirst, WriteSecond, StampSlot, Announce, locals, ring, producer
<1>4. ReaderPlace' /\ CopyIsWhole' /\ PushedAreWhole'
  BY <1>3 DEF Level2Inv, ThreadsInv, ReaderPlace, CopyIsWhole, PushedAreWhole, item
<1>5. s \in Slots
  BY SlotInRing, Level2Facts
<1>6. MainInv'
  <2>1. CASE ~Announce
    <3>1. /\ UNCHANGED <<shm_published, sequence>>
          /\ sequence < shm_consumed + ShmCapacity - 1
      BY <2>1 DEF WriteFirst, WriteSecond, StampSlot, HasRoom, Level2Inv, ThreadsInv, MainInv
    <3>2. \A i \in Slots : i # s => slots_'[i] = slots_[i]
      BY <2>1, <1>5, Level2Facts DEF WriteFirst, WriteSecond, StampSlot
    <3>3. ASSUME NEW k \in shm_consumed .. sequence - 1
          PROVE  slots_'[SlotOf(k)] = Stamped(k)
      BY <3>1, <3>2, SlotsApart DEF Level2Inv, ThreadsInv, MainInv
    <3>4. wpc' = "announce" => slots_'[s] = Stamped(sequence)
      <4> SUFFICES ASSUME wpc' = "announce" PROVE slots_'[s] = Stamped(sequence)
        OBVIOUS
      <4>1. StampSlot
        BY <2>1 DEF WriteFirst, WriteSecond
      <4>2. slots_' = [slots_ EXCEPT ![s].sequence = sequence] /\ wpc = "stamp"
        BY <4>1 DEF StampSlot
      <4>3. slots_[s].first = sequence /\ slots_[s].second = sequence
        BY <4>2 DEF Level2Inv, ShmInv, WriterInv
      <4>4. slots_[s] \in Slot
        BY <1>5, Level2Facts
      <4> HIDE DEF s
      <4> QED
        BY <1>5, <4>2, <4>3, <4>4, Level2Facts DEF Slot, Stamped
    <3> QED
      BY <1>3, <3>1, <3>3, <3>4, Level2Facts DEF MainInv, Level2Inv, ThreadsInv, SlotOf
  <2>2. CASE Announce
    <3>1. /\ shm_published' = sequence /\ sequence' = sequence + 1 /\ wpc = "announce"
          /\ wpc' = "idle" /\ UNCHANGED slots_
      BY <2>2 DEF Announce
    <3>2. /\ sequence < shm_consumed + ShmCapacity - 1
          /\ slots_[s] = Stamped(sequence)
          /\ \A k \in shm_consumed .. sequence - 1 : slots_[SlotOf(k)] = Stamped(k)
      BY <3>1 DEF Level2Inv, ThreadsInv, MainInv
    <3>3. ASSUME NEW k \in shm_consumed .. sequence
          PROVE  slots_[SlotOf(k)] = Stamped(k)
      <4>1. CASE k = sequence
        BY <3>2, <4>1
      <4>2. CASE k # sequence
        BY <3>2, <4>2, Level2Facts
      <4> QED
        BY <4>1, <4>2
    <3>4. /\ shm_published' = (IF sequence' = 0 THEN NoSequence ELSE sequence' - 1)
          /\ sequence' <= shm_consumed + ShmCapacity - 1
          /\ sequence' - 1 = sequence
      BY <3>1, <3>2, Level2Facts
    <3> QED
      BY <1>3, <3>1, <3>3, <3>4 DEF MainInv, SlotOf
  <2> QED
    BY <2>1, <2>2
<1> QED
  BY <1>1, <1>2, <1>4, <1>6 DEF Level2Inv, ThreadsInv

\* The slot of the item shm_reader is at holds that item, whole.
LEMMA SlotAtReader ==
    ASSUME Level2Inv, rpc = "reading", item.pc \in {"before", "first", "second", "after"}
    PROVE  /\ item.next = shm_consumed /\ item.next < sequence
           /\ slots_[SlotOf(item.next)] = Stamped(item.next)
<1>1. item.next < sequence /\ item.next = shm_consumed
  BY Level2Assumption DEF Level2Inv, ShmInv, ReaderInv, ReaderAt, ThreadsInv, ReaderPlace, item
<1>2. item.next \in shm_consumed .. sequence - 1
  BY <1>1, Level2Facts
<1> QED
  BY <1>1, <1>2 DEF Level2Inv, ThreadsInv, MainInv

\* So try_read skips nothing, sees the stamp it expects before and after the
\* copy, and copies both halves of that item.
LEMMA TryReadCopies ==
    ASSUME Level2Inv, rpc = "reading", TryRead(shm_reader)
    PROVE  /\ UNCHANGED writer
           /\ item'.pc \in {"before", "first", "second", "after", "done"}
           /\ item'.next = (IF item'.pc = "done" THEN shm_consumed + 1 ELSE shm_consumed)
           /\ item'.pc \in {"second", "after", "done"} => item'.first = shm_consumed
           /\ item'.pc \in {"after", "done"} => item'.second = shm_consumed
<1> DEFINE x == item
<1>1. x \in ReaderState /\ x.next = shm_consumed /\ UNCHANGED writer /\ shm_reader \in Readers
  BY Level2Facts DEF Level2Inv, ThreadsInv, ReaderPlace, TryRead, LoadPublished, LoadBefore,
       CopyFirst, CopySecond, Accept, Reject
<1>2. reader \in [Readers -> ReaderState]
  BY DEF Level2Inv, ShmInv, ShmTypeOK
<1>3. CASE LoadPublished(shm_reader)
  <2>1. sequence # 0 /\ shm_published = sequence - 1
    BY <1>3 DEF LoadPublished, Level2Inv, ThreadsInv, MainInv
  <2>2. Oldest(shm_published) <= x.next /\ Oldest(shm_published) \in Nat
    BY <1>1, <2>1, Level2Facts DEF Oldest, Level2Inv, ThreadsInv, MainInv
  <2>3. ~(x.next < Oldest(shm_published))
    BY <2>2, Level2Facts
  <2>4. item' = [x EXCEPT !.pc = "before", !.next = x.next + 0, !.dropped = x.dropped + 0]
    BY <1>1, <1>2, <1>3, <2>3 DEF LoadPublished, item
  <2>5. x.next + 0 = x.next
    BY Level2Facts
  <2> QED
    BY <1>1, <2>4, <2>5 DEF ReaderState
<1>4. CASE LoadBefore(shm_reader)
  <2>1. x.pc = "before"
    BY <1>4 DEF LoadBefore, item
  <2>2. slots_[SlotOf(x.next)].sequence = x.next
    BY <2>1, SlotAtReader DEF Stamped
  <2>3. item' = [x EXCEPT !.pc = "first", !.before = x.next]
    BY <1>1, <1>2, <1>4, <2>2 DEF LoadBefore, item
  <2> QED
    BY <1>1, <2>3 DEF ReaderState
<1>5. CASE CopyFirst(shm_reader)
  <2>1. x.pc = "first"
    BY <1>5 DEF CopyFirst, item
  <2>2. slots_[SlotOf(x.next)].first = x.next
    BY <2>1, SlotAtReader DEF Stamped
  <2>3. item' = [x EXCEPT !.pc = "second", !.first = x.next]
    BY <1>1, <1>2, <1>5, <2>2 DEF CopyFirst, item
  <2> QED
    BY <1>1, <2>3 DEF ReaderState
<1>6. CASE CopySecond(shm_reader)
  <2>1. x.pc = "second"
    BY <1>6 DEF CopySecond, item
  <2>2. slots_[SlotOf(x.next)].second = x.next /\ x.first = x.next
    BY <2>1, SlotAtReader DEF Stamped, Level2Inv, ThreadsInv, CopyIsWhole
  <2>3. item' = [x EXCEPT !.pc = "after", !.second = x.next]
    BY <1>1, <1>2, <1>6, <2>2 DEF CopySecond, item
  <2> QED
    BY <1>1, <2>2, <2>3 DEF ReaderState
<1>7. CASE Accept(shm_reader)
  <2>1. x.pc = "after"
    BY <1>7 DEF Accept, item
  <2>2. x.first = x.next /\ x.second = x.next
    BY <2>1 DEF Level2Inv, ThreadsInv, CopyIsWhole
  <2>3. item' = [x EXCEPT !.pc = "done", !.next = x.next + 1]
    BY <1>1, <1>2, <1>7 DEF Accept, item
  <2> QED
    BY <1>1, <2>2, <2>3 DEF ReaderState
<1>8. CASE Reject(shm_reader)
  <2>1. x.pc = "after" /\ slots_[SlotOf(x.next)].sequence # x.before
    BY <1>8 DEF Reject, item
  <2>2. slots_[SlotOf(x.next)].sequence = x.next
    BY <2>1, SlotAtReader DEF Stamped
  <2>3. x.before = x.next
    BY <1>1, <2>1 DEF Level2Inv, ShmInv, ReaderInv, ReaderAt, item
  <2> QED
    BY <2>1, <2>2, <2>3
<1> QED
  BY <1>3, <1>4, <1>5, <1>6, <1>7, <1>8 DEF TryRead

LEMMA ReaderTryReadInv ==
    ASSUME Level2Inv, ReaderTryRead
    PROVE  Level2Inv'
<1>1. /\ rpc = "reading" /\ TryRead(shm_reader)
      /\ rpc' = (IF item'.pc = "done" THEN "push" ELSE "reading")
      /\ UNCHANGED <<ring, shm_consumed>>
  BY DEF ReaderTryRead
<1>2. ShmInv' /\ RingInv'
  BY <1>1, TryReadInv, RingUnchangedInv, Level2Facts DEF Level2Inv
<1>3. UNCHANGED <<slots_, shm_published, sequence, wpc, ppc, pushing, pushed>>
  BY <1>1, TryReadCopies DEF writer, ring, producer
<1>4. MainInv'
  BY <1>1, <1>3 DEF MainInv, Level2Inv, ThreadsInv, SlotOf
<1>5. ReaderPlace' /\ CopyIsWhole'
  <2>1. /\ shm_consumed \in Nat /\ Len(pushed) = shm_consumed /\ ppc = "idle"
    BY <1>1 DEF Level2Inv, ThreadsInv, ReaderPlace
  <2>2. CASE item'.pc = "done"
    BY <1>1, <1>3, <2>1, <2>2, TryReadCopies DEF ReaderPlace, CopyIsWhole
  <2>3. CASE item'.pc # "done"
    BY <1>1, <1>3, <2>1, <2>3, TryReadCopies DEF ReaderPlace, CopyIsWhole
  <2> QED
    BY <2>2, <2>3
<1>6. PushedAreWhole'
  BY <1>3 DEF PushedAreWhole, Level2Inv, ThreadsInv
<1> QED
  BY <1>2, <1>4, <1>5, <1>6 DEF Level2Inv, ThreadsInv

\* shm_reader attaches before main can be a lap ahead: at item 0.
LEMMA ReaderAttachInv ==
    ASSUME Level2Inv, ReaderAttach
    PROVE  Level2Inv'
<1> DEFINE x == item
<1>1. /\ rpc = "starting" /\ rpc' = "reading" /\ Attach(shm_reader, FALSE)
      /\ UNCHANGED <<ring, shm_consumed>>
  BY DEF ReaderAttach
<1>2. ShmInv' /\ RingInv'
  BY <1>1, AttachInv, RingUnchangedInv, Level2Facts DEF Level2Inv
<1>3. UNCHANGED <<slots_, shm_published, sequence, wpc, ppc, pushing, pushed>>
  BY <1>1 DEF Attach, writer, ring, producer
<1>4. shm_consumed = 0 /\ Len(pushed) = 0 /\ ppc = "idle"
  BY <1>1 DEF Level2Inv, ThreadsInv, ReaderPlace
<1>5. (IF shm_published = NoSequence THEN 0 ELSE Oldest(shm_published)) = 0
  BY <1>4, Level2Facts DEF Level2Inv, ThreadsInv, MainInv, Oldest
<1>6. item' = [x EXCEPT !.pc = "idle", !.next = 0, !.joined = 0]
  BY <1>1, <1>5, Level2Facts DEF Attach, item, Level2Inv, ShmInv, ShmTypeOK
<1>7. item'.pc = "idle" /\ item'.next = 0
  BY <1>6, Level2Facts DEF ReaderState
<1>8. MainInv' /\ PushedAreWhole'
  BY <1>1, <1>3 DEF MainInv, PushedAreWhole, Level2Inv, ThreadsInv, SlotOf
<1>9. ReaderPlace' /\ CopyIsWhole'
  BY <1>1, <1>3, <1>4, <1>7 DEF ReaderPlace, CopyIsWhole
<1> QED
  BY <1>2, <1>8, <1>9 DEF Level2Inv, ThreadsInv

LEMMA ReaderPushInv ==
    ASSUME Level2Inv, ReaderPush
    PROVE  Level2Inv' /\ [RingNext]_ring
<1> DEFINE n == shm_consumed
<1>1. /\ rpc = "push" /\ UNCHANGED <<slots_, shm_published, sequence, wpc, reader>>
      /\ UNCHANGED shm /\ UNCHANGED shm_consumed /\ UNCHANGED item
  BY DEF ReaderPush, shm, item
<1>2. /\ item.next = n + 1 /\ item.first = n /\ item.second = n /\ Len(pushed) = n
      /\ item.pc = "done" /\ n \in Nat /\ n < Count
  <2>1. item.next = n + 1 /\ item.first = n /\ item.second = n /\ Len(pushed) = n
        /\ item.pc = "done" /\ n \in Nat
    BY <1>1 DEF Level2Inv, ThreadsInv, ReaderPlace, CopyIsWhole
  <2> QED
    BY <2>1, Level2Facts
<1>3. Event(item.next - 1, item.first, item.second) = Whole(n) /\ Whole(n) \in Items
  <2>1. item.next - 1 = n /\ n \in 0 .. Count - 1
    BY <1>2, Level2Facts
  <2> QED
    BY <1>2, <2>1, Level2Assumption DEF Whole
<1>4. ShmInv' /\ MainInv'
  BY <1>1, ShmUnchangedInv DEF Level2Inv, ThreadsInv, MainInv, SlotOf
<1>5. CASE PushBegin(Whole(n)) /\ rpc' = rpc
  <2>1. RingInv' /\ RingNext
    BY <1>3, <1>5, PushBeginInv DEF Level2Inv, RingNext
  <2>2. ppc' = "write" /\ pushing' = Whole(n) /\ UNCHANGED pushed
    BY <1>5 DEF PushBegin
  <2>3. ReaderPlace' /\ CopyIsWhole' /\ PushedAreWhole'
    BY <1>1, <1>5, <2>2 DEF Level2Inv, ThreadsInv, ReaderPlace, CopyIsWhole, PushedAreWhole, Whole, Event
  <2> QED
    BY <1>4, <2>1, <2>3 DEF Level2Inv, ThreadsInv
<1>6. CASE PushWrite /\ rpc' = rpc
  <2>1. RingInv' /\ RingNext
    BY <1>6, PushWriteInv DEF Level2Inv, RingNext
  <2>2. ppc = "write" /\ ppc' = "publish" /\ UNCHANGED <<pushed, pushing>>
    BY <1>6 DEF PushWrite
  <2>3. ReaderPlace' /\ CopyIsWhole' /\ PushedAreWhole'
    BY <1>1, <1>6, <2>2 DEF Level2Inv, ThreadsInv, ReaderPlace, CopyIsWhole, PushedAreWhole, Whole, Event
  <2> QED
    BY <1>4, <2>1, <2>3 DEF Level2Inv, ThreadsInv
<1>7. CASE PushPublish /\ rpc' = "store"
  <2>1. RingInv' /\ RingNext /\ Len(pushed') = n + 1
    BY <1>2, <1>7, PushPublishInv DEF Level2Inv, RingNext
  <2>2. ppc = "publish" /\ ppc' = "idle" /\ pushed' = Append(pushed, pushing)
    BY <1>7 DEF PushPublish
  <2>3. pushing = Whole(n) /\ pushing \in Items /\ pushed \in Seq(Items)
    BY <2>2, <1>3 DEF Level2Inv, ThreadsInv, CopyIsWhole, RingInv, RingTypeOK
  <2>4. ReaderPlace' /\ CopyIsWhole'
    BY <1>1, <1>2, <1>7, <2>1, <2>2 DEF ReaderPlace, CopyIsWhole
  <2>5. ASSUME NEW i \in 1 .. n + 1 PROVE pushed'[i] = Whole(i - 1)
    <3>1. CASE i = n + 1
      <4>1. pushed'[n + 1] = Whole(n) /\ (n + 1) - 1 = n
        BY <1>2, <2>2, <2>3
      <4> QED
        BY <3>1, <4>1
    <3>2. CASE i # n + 1
      <4>1. i \in 1 .. Len(pushed)
        BY <1>2, <3>2
      <4>2. pushed'[i] = pushed[i]
        BY <2>2, <2>3, <4>1
      <4> QED
        BY <4>1, <4>2 DEF Level2Inv, ThreadsInv, PushedAreWhole
    <3> QED
      BY <3>1, <3>2
  <2>6. PushedAreWhole'
    <3>1. \A m : Whole(m)' = Whole(m)
      BY DEF Whole, Event
    <3> QED
      BY <2>1, <2>5 DEF PushedAreWhole, Whole, Event
  <2> QED
    BY <1>4, <2>1, <2>4, <2>6 DEF Level2Inv, ThreadsInv
<1> QED
  BY <1>3, <1>5, <1>6, <1>7 DEF ReaderPush

LEMMA ReaderStoreInv ==
    ASSUME Level2Inv, ReaderStore
    PROVE  Level2Inv'
<1> DEFINE x == item
<1>1. /\ rpc = "store" /\ rpc' = "reading" /\ shm_consumed' = x.next /\ Release(shm_reader)
      /\ UNCHANGED ring
  BY DEF ReaderStore
<1>2. ShmInv' /\ RingInv'
  BY <1>1, ReleaseInv, RingUnchangedInv, Level2Facts DEF Level2Inv
<1>3. UNCHANGED <<slots_, shm_published, sequence, wpc, ppc, pushing, pushed>>
  BY <1>1 DEF Release, writer, ring, producer
<1>4. /\ x.next = shm_consumed + 1 /\ Len(pushed) = shm_consumed + 1 /\ ppc = "idle"
      /\ shm_consumed \in Nat
  BY <1>1 DEF Level2Inv, ThreadsInv, ReaderPlace
<1>5. item'.pc = "idle" /\ item'.next = x.next
  BY <1>1, Level2Facts DEF Release, item, Level2Inv, ShmInv, ShmTypeOK, ReaderState
<1>6. MainInv'
  <2>1. \A k \in shm_consumed' .. sequence - 1 : k \in shm_consumed .. sequence - 1
    BY <1>1, <1>4, Level2Facts
  <2>2. /\ sequence <= shm_consumed' + ShmCapacity - 1
        /\ wpc # "idle" => sequence < shm_consumed' + ShmCapacity - 1
    BY <1>1, <1>4, Level2Facts DEF Level2Inv, ThreadsInv, MainInv
  <2> QED
    BY <1>3, <2>1, <2>2 DEF MainInv, Level2Inv, ThreadsInv, SlotOf
<1>7. ReaderPlace' /\ CopyIsWhole' /\ PushedAreWhole'
  BY <1>1, <1>3, <1>4, <1>5, Level2Facts
     DEF ReaderPlace, CopyIsWhole, PushedAreWhole, Level2Inv, ThreadsInv
<1> QED
  BY <1>2, <1>6, <1>7 DEF Level2Inv, ThreadsInv

\* The steps that touch neither the rings' producers nor the reader's place.
LEMMA OtherThreads ==
    ASSUME Level2Inv, UNCHANGED <<shm, shm_consumed>>, UNCHANGED <<ppc, pushing, pushed>>,
           RingInv', rpc' = rpc \/ (rpc = "reading" /\ item.pc = "idle" /\ rpc' = "joined")
    PROVE  Level2Inv'
<1>1. UNCHANGED <<slots_, shm_published, sequence, wpc, reader>> /\ UNCHANGED item
  BY DEF shm, item
<1>2. ShmInv'
  BY ShmUnchangedInv DEF Level2Inv
<1>3. MainInv' /\ PushedAreWhole'
  BY <1>1 DEF MainInv, PushedAreWhole, Level2Inv, ThreadsInv, SlotOf
<1>4. ReaderPlace' /\ CopyIsWhole'
  BY <1>1 DEF ReaderPlace, CopyIsWhole, Level2Inv, ThreadsInv
<1> QED
  BY <1>2, <1>3, <1>4 DEF Level2Inv, ThreadsInv

LEMMA Level2NextInv ==
    ASSUME Level2Inv, [Level2Next]_level2
    PROVE  Level2Inv' /\ [RingNext]_ring
<1>1. CASE UNCHANGED level2 \/ Begin \/ Validate \/ ReaderExit \/ ConsumerSubmit
  <2>1. /\ UNCHANGED <<shm, shm_consumed>> /\ UNCHANGED ring
        /\ rpc' = rpc \/ (rpc = "reading" /\ item.pc = "idle" /\ rpc' = "joined")
    BY <1>1 DEF level2, locals, Begin, Validate, ReaderExit, ConsumerSubmit
  <2>2. RingInv' /\ UNCHANGED <<ppc, pushing, pushed>>
    BY <2>1, RingUnchangedInv DEF Level2Inv, ring, producer
  <2> QED
    BY <2>1, <2>2, OtherThreads
<1>2. CASE PublishBegin \/ PublishStep
  BY <1>2, WriterThreads DEF PublishBegin, PublishStep, locals
<1>3. CASE ReaderAttach \/ ReaderTryRead \/ ReaderStore
  BY <1>3, ReaderAttachInv, ReaderTryReadInv, ReaderStoreInv
     DEF ReaderAttach, ReaderTryRead, ReaderStore
<1>4. CASE ReaderPush
  BY <1>4, ReaderPushInv
<1>5. CASE ConsumerPop
  <2>1. /\ PopBegin \/ PopRead \/ PopAdvance
        /\ UNCHANGED <<shm, shm_consumed>> /\ rpc' = rpc
    BY <1>5 DEF ConsumerPop, locals
  <2>2. RingInv' /\ RingNext /\ UNCHANGED <<ppc, pushing, pushed>>
    BY <2>1, PopInv DEF Level2Inv, RingNext, PopBegin, PopRead, PopAdvance, producer
  <2> QED
    BY <2>1, <2>2, OtherThreads
<1> QED
  BY <1>1, <1>2, <1>3, <1>4, <1>5 DEF Level2Next, Main, Reader, Consumer

\* main is never a whole ring ahead of shm_reader, and every slot between the
\* two holds its item whole.
THEOREM Level2Invariance == Level2Spec => []Level2Inv
BY Level2InitInv, Level2NextInv, PTL DEF Level2Spec

LEMMA Level2InvArrives == Level2Inv => EventsArriveWhole
<1> SUFFICES ASSUME Level2Inv PROVE EventsArriveWhole
  OBVIOUS
<1>1. popped \in Seq(Items) /\ Len(popped) <= Len(pushed)
  BY DEF Level2Inv, RingInv, RingTypeOK, FillIsBounded
<1>2. ASSUME NEW i \in 1 .. Len(popped) PROVE popped[i] = Whole(i - 1)
  <2>1. i \in 1 .. Len(pushed)
    BY <1>1, Level2Facts
  <2> QED
    BY <2>1 DEF Level2Inv, ThreadsInv, PushedAreWhole, RingInv, PoppedArePushed
<1> QED
  BY <1>1, <1>2 DEF EventsArriveWhole

LEMMA Level2InvNoSlotRace == Level2Inv => NoSlotRace
<1> SUFFICES ASSUME Level2Inv, wpc # "idle", item.pc \in {"first", "second", "after"}
             PROVE  SlotOf(sequence) # SlotOf(item.next)
  BY DEF NoSlotRace
<1>1. rpc \in {"reading", "joined"}
  BY DEF Level2Inv, ThreadsInv, ReaderPlace
<1>2. item.next = shm_consumed /\ item.next < sequence
  BY <1>1, Level2Facts DEF Level2Inv, ThreadsInv, ReaderPlace, ShmInv, ReaderInv, ReaderAt, item
<1>3. sequence < shm_consumed + ShmCapacity - 1 /\ item.next \in shm_consumed .. sequence - 1
  BY <1>2, Level2Facts DEF Level2Inv, ThreadsInv, MainInv
<1> QED
  BY <1>3, SlotsApart

\* For every capacity of the two rings and any number of events, the book gets
\* exactly the source events, whole and in order, however the threads run.
THEOREM BookGetsWholeEvents == Level2Spec => []EventsArriveWhole
BY Level2Invariance, Level2InvArrives, PTL

\* main and shm_reader never access the payload of one slot at the same time.
THEOREM PayloadHasNoRace == Level2Spec => []NoSlotRace
BY Level2Invariance, Level2InvNoSlotRace, PTL

\* Used by the three threads, the SPSC ring is still race free and a FIFO queue.
THEOREM PipelineRingIsFifo == Level2Spec => []NoDataRace /\ ImplementsFifo
<1>1. Level2Init => Fifo!FifoInit
  BY DEF Level2Init, RingInit, Fifo!FifoInit
<1>2. Level2Inv /\ [Level2Next]_level2 => [Fifo!Enqueue \/ Fifo!Dequeue]_(Fifo!ends)
  BY Level2NextInv, RingStepIsFifo DEF Level2Inv
<1>3. Level2Inv => NoDataRace
  BY RingInvNoRace DEF Level2Inv
<1> QED
  BY <1>1, <1>2, <1>3, Level2Invariance, PTL DEF Level2Spec, ImplementsFifo, Fifo!FifoSpec
=============================================================================
