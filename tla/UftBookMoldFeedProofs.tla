------------------------ MODULE UftBookMoldFeedProofs ------------------------
(***************************************************************************)
(* Proofs about RecoveryWindow and about UftBookMoldFeed, for every set of *)
(* packets, window size, boundary and width of sequence numbers.           *)
(*                                                                         *)
(* The first part is about the window alone.  A step of the feed is a step *)
(* of the window or leaves it alone, so what holds of the window holds in  *)
(* the feed; what the second part adds is the agreement of the two         *)
(* sequence counters and of what the two know to be missing.               *)
(***************************************************************************)
EXTENDS MCUftBookMoldFeed, FiniteSetTheorems, TLAPS

-----------------------------------------------------------------------------
(***************************************************************************)
(* Facts about the sequence rules.                                         *)
(***************************************************************************)

\* kind() of a data packet: its count is neither reserved value.
LEMMA DataCount ==
    ASSUME NEW p \in Datagram, Kind(p) = "data"
    PROVE  p.count \in 1 .. EndOfSession - 1 /\ Carried(p) = p.count
BY WidthAssumption DEF Datagram, Kind, Carried

\* inspect lets a data packet through only if it holds the expected message.
LEMMA ProcessedHoldsNext ==
    ASSUME NEW p \in Datagram, NEW own, NEW n \in Sequences64, Kind(p) = "data",
           MayProcess(SequenceState(p, own, n))
    PROVE  /\ p.first <= n /\ n < p.first + p.count
           /\ p.first + p.count <= SeqMax
           /\ p.first + SkipMessages(p, n) = n
           /\ p.session = own
<1>1. p.count \in 1 .. EndOfSession - 1 /\ Carried(p) = p.count
  BY DataCount
<1>2. p.first \in Nat /\ n \in Nat /\ SeqMax \in Nat /\ EndOfSession \in Nat
  BY WidthAssumption DEF Datagram, Sequences64
<1> QED
  BY <1>1, <1>2 DEF SequenceState, MayProcess, SkipMessages

\* A gap packet starts beyond the expected message and ends within range.
LEMMA GapIsBeyond ==
    ASSUME NEW p \in Datagram, NEW own, NEW n \in Sequences64,
           SequenceState(p, own, n) = "gap"
    PROVE  /\ p.first > n
           /\ Kind(p) = "data" => p.first + p.count <= SeqMax
<1>1. Kind(p) = "data" => p.count \in 1 .. EndOfSession - 1 /\ Carried(p) = p.count
  BY DataCount
<1>2. p.first \in Nat /\ n \in Nat /\ SeqMax \in Nat /\ EndOfSession \in Nat
  BY WidthAssumption DEF Datagram, Sequences64
<1> QED
  BY <1>1, <1>2 DEF SequenceState

-----------------------------------------------------------------------------
(***************************************************************************)
(* The inductive invariant.  TypeOK is not inductive by itself: that       *)
(* cursor stays a 64-bit number while a packet is walked rests on the      *)
(* overflow check made before the packet was walked or stored.             *)
(* InOrderDelivery is not either: that the walk starts at the expected     *)
(* message needs the tracker to be in step when the packet is accepted,    *)
(* and the first packet to find nothing handed over yet.                   *)
(***************************************************************************)
WalkInRange ==
    /\ pc = "deliver" => cursor <= EndOf(current) /\ EndOf(current) <= SeqMax
    /\ \A s \in slots : EndOf(s) <= SeqMax

Unstarted == ~initialized => pc = "idle" /\ delivered = <<>>

Inv == TypeOK /\ WalkInRange /\ Unstarted /\ InOrderDelivery

LEMMA InitInv == Init => Inv
<1> SUFFICES ASSUME Init PROVE Inv
  OBVIOUS
<1> USE WidthAssumption, WindowAssumption DEF Init
<1>1. IsFiniteSet({}) /\ Cardinality({}) = 0
  BY FS_EmptySet
<1>2. TypeOK
  <2>1. 0 \in Sequences64
    BY DEF Sequences64
  <2>2. current \in Walked /\ request \in Request
    BY <2>1 DEF Walked, NoPacket, Request
  <2>3. slots \subseteq Slot /\ IsFiniteSet(slots) /\ Cardinality(slots) <= ReorderSlots
    BY <1>1
  <2>4. delivered \in Seq(Sequences64)
    OBVIOUS
  <2> QED
    BY <2>1, <2>2, <2>3, <2>4 DEF TypeOK
<1>3. WalkInRange /\ Unstarted
  BY DEF WalkInRange, Unstarted
<1>4. InOrderDelivery
  BY DEF InOrderDelivery
<1> QED
  BY <1>2, <1>3, <1>4 DEF Inv

\* issue_request leaves a request the wire format can carry.
LEMMA RequestType ==
    ASSUME NEW n \in Sequences64, NEW S \in SUBSET Slot, NEW high \in Sequences64,
           NEW hasEnd \in BOOLEAN, NEW end \in Sequences64,
           NEW outstanding \in BOOLEAN, request \in Request,
           IssueRequest(n, S, high, hasEnd, end, outstanding)
    PROVE  request_outstanding' \in BOOLEAN /\ request' \in Request
<1> DEFINE F == Futures(n, S, high, hasEnd, end)
<1>1. F \subseteq Sequences64
  BY DEF Futures, Slot
<1>2. CASE outstanding \/ ~GapKnown(n, S, high, hasEnd, end)
  BY <1>2 DEF IssueRequest
<1>3. CASE ~(outstanding \/ ~GapKnown(n, S, high, hasEnd, end))
  <2>1. PICK target \in F :
           request' = [first |-> n,
                       count |-> IF target - n < EndOfSession - 1
                                 THEN target - n ELSE EndOfSession - 1]
    BY <1>3 DEF IssueRequest
  <2>2. target > n /\ target \in Nat /\ n \in Nat
    BY <1>1, <1>3, WidthAssumption DEF GapKnown, Sequences64
  <2>3. request' \in Request
    BY <2>1, <2>2, WidthAssumption DEF Request
  <2> QED
    BY <1>3, <2>3 DEF IssueRequest
<1> QED
  BY <1>2, <1>3

\* The tracker after inspect: the adopted header or the one it had.
LEMMA AdoptedTypes ==
    ASSUME Inv, NEW p \in Packets
    PROVE  /\ p \in Datagram
           /\ Own(p) \in Sessions \cup {NoSession}
           /\ Expected(p) \in Sequences64
           /\ (IF initialized THEN base ELSE p.first) \in Sequences64
BY PacketsAssumption DEF Inv, TypeOK, Datagram, Own, Expected

\* What inspect and the adoption of a header leave true when no message is
\* handed over: every outcome of ingest but the data packet.
LEMMA AdoptInv ==
    ASSUME Inv, NEW p \in Packets, pc = "idle", Adopt(p),
           UNCHANGED <<pc, current, delivered>>
    PROVE  /\ initialized' \in BOOLEAN /\ session' \in Sessions \cup {NoSession}
           /\ next_sequence' \in Sequences64 /\ cursor' \in Sequences64
           /\ base' \in Sequences64
           /\ pc' = "idle" /\ current' \in Walked /\ delivered' \in Seq(Sequences64)
           /\ Unstarted' /\ InOrderDelivery'
<1>1. /\ Own(p) \in Sessions \cup {NoSession}
      /\ Expected(p) \in Sequences64
      /\ (IF initialized THEN base ELSE p.first) \in Sequences64
  BY AdoptedTypes
<1>2. Unstarted'
  BY DEF Unstarted, Adopt
<1>3. InOrderDelivery'
  <2>1. CASE initialized
    BY <2>1 DEF Inv, InOrderDelivery, Adopt, Expected
  <2>2. CASE ~initialized
    <3>1. delivered' = <<>> /\ Len(delivered') = 0
      BY <2>2 DEF Inv, Unstarted
    <3>2. p.first \in Nat /\ p.first <= SeqMax
      BY AdoptedTypes, WidthAssumption DEF Datagram, Sequences64
    <3> QED
      BY <2>2, <3>1, <3>2 DEF Adopt, InOrderDelivery, Expected
  <2> QED
    BY <2>1, <2>2
<1> QED
  BY <1>1, <1>2, <1>3 DEF Inv, TypeOK, Adopt

LEMMA RejectedInv ==
    ASSUME Inv, NEW p \in Packets, IngestRejected(p)
    PROVE  Inv'
<1>1. pc = "idle" /\ Adopt(p) /\ UNCHANGED <<pc, current, delivered, window, control>>
  BY DEF IngestRejected
<1> QED
  BY <1>1, AdoptInv DEF Inv, TypeOK, WalkInRange, window, control

\* A gap packet: the announced sequence, and the tracker as AdoptInv has it.
LEMMA NoteGapFacts ==
    ASSUME Inv, NEW p \in Packets, NoteGap(p)
    PROVE  /\ gap_high_water' \in Sequences64
           /\ initialized /\ next_sequence \in Sequences64
           /\ p.first > next_sequence
           /\ Kind(p) = "data" => /\ p.first + p.count <= SeqMax
                                  /\ [first |-> p.first, count |-> p.count] \in Slot
<1>1. p \in Datagram /\ Expected(p) \in Sequences64
  BY AdoptedTypes
<1>2. gap_high_water' \in Sequences64
  BY <1>1 DEF NoteGap, Inv, TypeOK, Datagram
<1>3. p.first > Expected(p) /\ (Kind(p) = "data" => p.first + p.count <= SeqMax)
  BY <1>1, GapIsBeyond DEF NoteGap, Decision
<1>4. initialized /\ Expected(p) = next_sequence
  <2>1. p.first \in Nat
    BY <1>1 DEF Datagram, Sequences64
  <2> QED
    BY <1>3, <2>1 DEF Expected
<1>5. Kind(p) = "data" => [first |-> p.first, count |-> p.count] \in Slot
  BY <1>1, DataCount DEF Slot, Datagram
<1> QED
  BY <1>1, <1>2, <1>3, <1>4, <1>5

LEMMA GapStoredInv ==
    ASSUME Inv, NEW p \in Packets, IngestGapStored(p)
    PROVE  Inv'
<1> DEFINE s == [first |-> p.first, count |-> p.count]
<1>1. NoteGap(p) /\ Kind(p) = "data"
  BY DEF IngestGapStored
<1>2. pc = "idle" /\ Adopt(p) /\ UNCHANGED <<pc, current, delivered, ended>>
  BY <1>1 DEF NoteGap
<1>3. s \in Slot /\ EndOf(s) <= SeqMax
  BY <1>1, NoteGapFacts DEF EndOf
<1>4. slots' = slots \cup {s} /\ slots' \subseteq Slot
  BY <1>3 DEF IngestGapStored, Inv, TypeOK
<1>5. IsFiniteSet(slots') /\ Cardinality(slots') <= ReorderSlots
  <2>1. Cardinality(slots) < ReorderSlots
    BY DEF IngestGapStored, StoreResult
  <2>2. IsFiniteSet(slots) /\ Cardinality(slots) \in Nat
    BY FS_CardinalityType DEF Inv, TypeOK
  <2>3. /\ IsFiniteSet(slots \cup {s})
        /\ \/ Cardinality(slots \cup {s}) = Cardinality(slots)
           \/ Cardinality(slots \cup {s}) = Cardinality(slots) + 1
    BY <2>2, FS_AddElement
  <2> QED
    BY <1>4, <2>1, <2>2, <2>3, WindowAssumption
<1>6. request_outstanding' \in BOOLEAN /\ request' \in Request
  <2>1. IssueRequest(next_sequence, slots', gap_high_water', has_pending_end,
                     pending_end_sequence, request_outstanding)
    BY DEF IngestGapStored
  <2>2. /\ next_sequence \in Sequences64 /\ gap_high_water' \in Sequences64
        /\ slots' \in SUBSET Slot
    BY <1>1, <1>4, NoteGapFacts
  <2>3. /\ has_pending_end \in BOOLEAN /\ pending_end_sequence \in Sequences64
        /\ request_outstanding \in BOOLEAN /\ request \in Request
    BY DEF Inv, TypeOK
  <2> QED
    BY <2>1, <2>2, <2>3, RequestType
<1>7. WalkInRange'
  BY <1>2, <1>3, <1>4 DEF Inv, WalkInRange
<1>8. /\ unasked' = FALSE
      /\ UNCHANGED <<has_pending_end, pending_end_sequence, eos_seen, ended>>
  BY <1>2 DEF IngestGapStored
<1>9. gap_high_water' \in Sequences64
  BY <1>1, NoteGapFacts
<1> QED
  BY <1>2, <1>4, <1>5, <1>6, <1>7, <1>8, <1>9, AdoptInv DEF Inv, TypeOK

LEMMA GapRefusedInv ==
    ASSUME Inv, NEW p \in Packets, IngestGapRefused(p)
    PROVE  Inv'
<1>1. NoteGap(p)
  BY DEF IngestGapRefused
<1>2. pc = "idle" /\ Adopt(p) /\ UNCHANGED <<pc, current, delivered, ended>>
  BY <1>1 DEF NoteGap
<1>3. /\ gap_high_water' \in Sequences64
      /\ unasked' \in BOOLEAN
      /\ UNCHANGED <<slots, has_pending_end, pending_end_sequence, control>>
  BY <1>1, NoteGapFacts DEF IngestGapRefused
<1> QED
  BY <1>2, <1>3, AdoptInv DEF Inv, TypeOK, WalkInRange, control

LEMMA GapControlInv ==
    ASSUME Inv, NEW p \in Packets, IngestGapHeartbeat(p) \/ IngestGapEnd(p)
    PROVE  Inv'
<1>1. NoteGap(p)
  BY DEF IngestGapHeartbeat, IngestGapEnd
<1>2. pc = "idle" /\ Adopt(p) /\ UNCHANGED <<pc, current, delivered, ended>>
  BY <1>1 DEF NoteGap
<1>3. p.first \in Sequences64
  BY AdoptedTypes DEF Datagram
<1>4. gap_high_water' \in Sequences64 /\ next_sequence \in Sequences64
  BY <1>1, NoteGapFacts
<1>5. /\ has_pending_end' \in BOOLEAN /\ pending_end_sequence' \in Sequences64
      /\ eos_seen' \in BOOLEAN
      /\ unasked' = FALSE /\ UNCHANGED slots
  BY <1>3 DEF IngestGapHeartbeat, IngestGapEnd, Inv, TypeOK
<1>6. request_outstanding' \in BOOLEAN /\ request' \in Request
  <2>1. CASE IngestGapHeartbeat(p)
    BY <2>1, <1>4, RequestType DEF IngestGapHeartbeat, Inv, TypeOK
  <2>2. CASE IngestGapEnd(p)
    BY <2>2, <1>3, <1>4, RequestType DEF IngestGapEnd, Inv, TypeOK
  <2> QED
    BY <2>1, <2>2
<1> QED
  BY <1>2, <1>4, <1>5, <1>6, AdoptInv DEF Inv, TypeOK, WalkInRange

LEMMA ControlInv ==
    ASSUME Inv, NEW p \in Packets, IngestControl(p)
    PROVE  Inv'
<1>1. /\ pc = "idle" /\ Adopt(p)
      /\ UNCHANGED <<pc, current, delivered, window, request_outstanding, request>>
      /\ eos_seen' \in BOOLEAN /\ ended' \in BOOLEAN
  BY DEF IngestControl
<1> QED
  BY <1>1, AdoptInv DEF Inv, TypeOK, WalkInRange, window

\* The data packet: its walk starts at the expected message.
LEMMA DataInv ==
    ASSUME Inv, NEW p \in Packets, IngestData(p)
    PROVE  Inv'
<1>1. p \in Datagram /\ Expected(p) \in Sequences64
  BY AdoptedTypes
<1>2. /\ Kind(p) = "data" /\ MayProcess(SequenceState(p, Own(p), Expected(p)))
      /\ UNCHANGED <<window, control, delivered>>
      /\ initialized' = TRUE /\ session' = Own(p) /\ next_sequence' = Expected(p)
      /\ base' = (IF initialized THEN base ELSE p.first)
  BY DEF IngestData, Decision
<1>3. /\ Expected(p) < p.first + p.count /\ p.first + p.count <= SeqMax
      /\ p.first + SkipMessages(p, Expected(p)) = Expected(p)
  BY <1>1, <1>2, ProcessedHoldsNext
<1>4. /\ pc' = "deliver" /\ cursor' = Expected(p)
      /\ current' = [first |-> p.first, count |-> p.count, buffered |-> FALSE]
  BY <1>3 DEF IngestData, StartWalk
<1>5. current' \in Walked
  BY <1>1, <1>4 DEF Walked, Datagram
<1>6. TypeOK'
  BY <1>1, <1>2, <1>4, <1>5, AdoptedTypes DEF Inv, TypeOK, window, control
<1>7. WalkInRange'
  <2>1. Expected(p) \in Nat /\ p.first \in Nat /\ p.count \in Nat
    BY <1>1 DEF Datagram, Sequences64
  <2>2. EndOf(current') = p.first + p.count
    BY <1>4 DEF EndOf
  <2>3. cursor' <= EndOf(current') /\ EndOf(current') <= SeqMax
    BY <2>1, <2>2, <1>3, <1>4
  <2> QED
    BY <2>3, <1>2 DEF Inv, WalkInRange, window, EndOf
<1>8. Unstarted'
  BY <1>2 DEF Unstarted
<1>9. InOrderDelivery'
  <2>1. CASE initialized
    BY <2>1, <1>2, <1>4 DEF Inv, InOrderDelivery, Expected, IngestData
  <2>2. CASE ~initialized
    <3>1. delivered' = <<>> /\ Len(delivered') = 0
      BY <2>2, <1>2 DEF Inv, Unstarted
    <3>2. p.first \in Nat /\ p.first <= SeqMax
      BY <1>1, WidthAssumption DEF Datagram, Sequences64
    <3> QED
      BY <2>2, <3>1, <3>2, <1>2, <1>4 DEF InOrderDelivery, Expected
  <2> QED
    BY <2>1, <2>2
<1> QED
  BY <1>6, <1>7, <1>8, <1>9 DEF Inv

\* on_message: the message handed over is the next of the stream.
LEMMA DeliverInv ==
    ASSUME Inv, DeliverMessage
    PROVE  Inv'
<1>1. /\ pc = "deliver" /\ cursor < EndOf(current)
      /\ delivered' = Append(delivered, cursor) /\ cursor' = cursor + 1
      /\ UNCHANGED <<tracker, window, control, pc, current>>
  BY DEF DeliverMessage
<1>2. cursor \in Nat /\ EndOf(current) \in Nat /\ EndOf(current) <= SeqMax
  BY <1>1, WidthAssumption DEF Inv, TypeOK, WalkInRange, Sequences64, Walked, EndOf
<1>3. cursor' \in Sequences64
  BY <1>1, <1>2, WidthAssumption DEF Sequences64
<1>4. delivered \in Seq(Sequences64) /\ cursor \in Sequences64 /\ base \in Nat
  BY DEF Inv, TypeOK, Sequences64
<1>5. /\ delivered' \in Seq(Sequences64) /\ Len(delivered') = Len(delivered) + 1
      /\ \A i \in 1 .. Len(delivered) : delivered'[i] = delivered[i]
      /\ delivered'[Len(delivered) + 1] = cursor
  BY <1>1, <1>4
<1>6. TypeOK'
  BY <1>1, <1>3, <1>5 DEF Inv, TypeOK, tracker, window, control
<1>7. WalkInRange'
  BY <1>1, <1>2 DEF Inv, WalkInRange, window, EndOf
<1>8. Unstarted'
  BY <1>1 DEF Inv, Unstarted, tracker
<1>9. InOrderDelivery'
  <2>1. Len(delivered) \in Nat /\ cursor = base + Len(delivered) /\ base' = base
    BY <1>1, <1>4 DEF Inv, InOrderDelivery, tracker
  <2>2. \A i \in 1 .. Len(delivered') : delivered'[i] = base' + i - 1
    <3> SUFFICES ASSUME NEW i \in 1 .. Len(delivered')
                 PROVE  delivered'[i] = base' + i - 1
      OBVIOUS
    <3>1. CASE i \in 1 .. Len(delivered)
      BY <3>1, <2>1, <1>5 DEF Inv, InOrderDelivery
    <3>2. CASE i = Len(delivered) + 1
      BY <3>2, <2>1, <1>4, <1>5
    <3> QED
      BY <3>1, <3>2, <2>1, <1>5
  <2>3. cursor' = base' + Len(delivered') /\ cursor' <= SeqMax
    BY <1>1, <1>2, <1>4, <1>5, <2>1, WidthAssumption
  <2> QED
    BY <2>2, <2>3, <1>1 DEF InOrderDelivery
<1> QED
  BY <1>6, <1>7, <1>8, <1>9 DEF Inv

LEMMA CommitInv ==
    ASSUME Inv, CommitPacket
    PROVE  Inv'
<1>1. /\ pc = "deliver" /\ cursor = EndOf(current) /\ next_sequence' = cursor
      /\ pc' = "drain" /\ current' = NoPacket /\ request_outstanding' = FALSE
      /\ UNCHANGED <<initialized, session, base, gap_high_water, has_pending_end,
                     pending_end_sequence, unasked, request, eos_seen, ended,
                     cursor, delivered>>
  BY DEF CommitPacket
<1>2. slots' \subseteq slots
  BY DEF CommitPacket
<1>3. IsFiniteSet(slots') /\ Cardinality(slots') <= ReorderSlots
  <2>1. IsFiniteSet(slots)
    BY DEF Inv, TypeOK
  <2>2. IsFiniteSet(slots') /\ Cardinality(slots') <= Cardinality(slots)
    BY <1>2, <2>1, FS_Subset
  <2>3. Cardinality(slots) \in Nat /\ Cardinality(slots') \in Nat
    BY <2>1, <2>2, FS_CardinalityType
  <2> QED
    BY <2>2, <2>3, WindowAssumption DEF Inv, TypeOK
<1>4. NoPacket \in Walked
  BY WidthAssumption DEF NoPacket, Walked, Sequences64
<1>5. TypeOK'
  BY <1>1, <1>2, <1>3, <1>4 DEF Inv, TypeOK
<1>6. WalkInRange' /\ Unstarted'
  BY <1>1, <1>2 DEF Inv, WalkInRange, Unstarted, EndOf
<1>7. InOrderDelivery'
  BY <1>1 DEF Inv, InOrderDelivery
<1> QED
  BY <1>5, <1>6, <1>7 DEF Inv

LEMMA DrainInv ==
    ASSUME Inv, DrainSlot
    PROVE  Inv'
<1>1. PICK s \in Candidates : StartWalk(s, next_sequence, TRUE)
  BY DEF DrainSlot
<1>2. /\ pc = "drain" /\ UNCHANGED <<tracker, window, control, delivered>>
  BY DEF DrainSlot
<1>3. /\ s \in slots /\ s \in Slot /\ s.first <= next_sequence
      /\ next_sequence < EndOf(s) /\ EndOf(s) <= SeqMax
  BY DEF Candidates, Inv, TypeOK, WalkInRange
<1>4. s.first \in Nat /\ s.count \in Nat /\ next_sequence \in Nat
  BY <1>3 DEF Slot, Inv, TypeOK, Sequences64
<1>5. /\ pc' = "deliver" /\ cursor' = next_sequence
      /\ current' = [first |-> s.first, count |-> s.count, buffered |-> TRUE]
  BY <1>1, <1>3, <1>4 DEF StartWalk, SkipMessages
<1>6. current' \in Walked
  BY <1>3, <1>5, WidthAssumption DEF Walked, Slot
<1>7. TypeOK'
  BY <1>2, <1>5, <1>6 DEF Inv, TypeOK, tracker, window, control
<1>8. WalkInRange'
  <2>1. EndOf(current') = EndOf(s)
    BY <1>5 DEF EndOf
  <2> QED
    BY <2>1, <1>2, <1>3, <1>4, <1>5 DEF Inv, WalkInRange, window, EndOf
<1>9. Unstarted' /\ InOrderDelivery'
  BY <1>2, <1>5 DEF Inv, Unstarted, InOrderDelivery, tracker
<1> QED
  BY <1>7, <1>8, <1>9 DEF Inv

LEMMA FinishInv ==
    ASSUME Inv, FinishDrain
    PROVE  Inv'
<1>1. /\ pc = "drain" /\ pc' = "idle"
      /\ ended' \in BOOLEAN /\ has_pending_end' \in BOOLEAN
      /\ unasked' = FALSE
      /\ UNCHANGED <<tracker, slots, pending_end_sequence, eos_seen,
                     current, cursor, delivered>>
  BY DEF FinishDrain
<1>2. gap_high_water' \in Sequences64
  BY WidthAssumption DEF FinishDrain, Inv, TypeOK, Sequences64
<1>3. request_outstanding' \in BOOLEAN /\ request' \in Request
  <2>1. IssueRequest(next_sequence, slots, gap_high_water', has_pending_end',
                     pending_end_sequence, request_outstanding)
    BY DEF FinishDrain
  <2>2. /\ next_sequence \in Sequences64 /\ slots \in SUBSET Slot
        /\ pending_end_sequence \in Sequences64
        /\ request_outstanding \in BOOLEAN /\ request \in Request
    BY DEF Inv, TypeOK
  <2> QED
    BY <1>1, <1>2, <2>1, <2>2, RequestType
<1> QED
  BY <1>1, <1>2, <1>3 DEF Inv, TypeOK, WalkInRange, Unstarted, InOrderDelivery, tracker

LEMMA NextInv == Inv /\ [Next]_vars => Inv'
<1> SUFFICES ASSUME Inv, [Next]_vars PROVE Inv'
  OBVIOUS
<1>1. CASE UNCHANGED vars
  BY <1>1 DEF Inv, TypeOK, WalkInRange, Unstarted, InOrderDelivery, EndOf,
              vars, tracker, window, control, walk
<1>2. ASSUME NEW p \in Packets, Ingest(p) PROVE Inv'
  <2>1. CASE IngestMalformed(p)
    BY <2>1, <1>1 DEF IngestMalformed
  <2> QED
    BY <1>2, <2>1, RejectedInv, GapStoredInv, GapRefusedInv, GapControlInv,
       ControlInv, DataInv DEF Ingest
<1> QED
  BY <1>1, <1>2, DeliverInv, CommitInv, DrainInv, FinishInv DEF Next

-----------------------------------------------------------------------------
\* The inductive invariant holds in every reachable state.
THEOREM Invariance == Spec => []Inv
<1>1. Init => Inv
  BY InitInv
<1>2. Inv /\ [Next]_vars => Inv'
  BY NextInv
<1> QED
  BY <1>1, <1>2, PTL DEF Spec

\* Every field of the window keeps its type and the window its capacity:
\* sequence arithmetic in ingest, process and drain never leaves 64 bits.
THEOREM TypeCorrect == Spec => []TypeOK
<1>1. Inv => TypeOK
  BY DEF Inv
<1> QED
  BY <1>1, Invariance, PTL

\* For every set of packets and every window size, on_message receives the
\* messages from the adopted sequence on once each, in order, with no hole and
\* none beyond the last 64-bit number.
THEOREM DeliveryInOrder == Spec => []InOrderDelivery
<1>1. Inv => InOrderDelivery
  BY DEF Inv
<1> QED
  BY <1>1, Invariance, PTL

-----------------------------------------------------------------------------
(***************************************************************************)
(* Requests and the end of the session.  These properties need to know     *)
(* what the window remembers: nothing buffered or walked reaches beyond    *)
(* the stream, the announced high water and the pending end lie ahead      *)
(* between two calls, and drain starts with no request outstanding.        *)
(***************************************************************************)
WithinStream ==
    /\ \A s \in slots : EndOf(s) <= StreamEnd
    /\ pc = "deliver" => EndOf(current) <= StreamEnd
    /\ has_pending_end => pending_end_sequence = StreamEnd /\ cursor <= StreamEnd

Ahead ==
    /\ pc = "idle" => gap_high_water = 0 \/ gap_high_water > next_sequence
    /\ pc = "idle" /\ has_pending_end => next_sequence < StreamEnd
    /\ pc = "drain" => ~request_outstanding

EndTracked ==
    /\ eos_seen <=> ended \/ has_pending_end
    /\ ended => cursor = StreamEnd

Fresh == ~initialized => /\ slots = {} /\ gap_high_water = 0 /\ ~has_pending_end
                         /\ ~request_outstanding /\ ~unasked /\ ~eos_seen /\ ~ended

Inv2 == /\ WithinStream /\ Ahead /\ EndTracked /\ Fresh
        /\ NothingDeliverableBuffered /\ RequestIffGap

\* GapKnown without the set of candidates.
LEMMA GapKnownMeaning ==
    ASSUME NEW n \in Sequences64, NEW S \in SUBSET Slot, NEW high \in Sequences64,
           NEW hasEnd \in BOOLEAN, NEW end \in Sequences64
    PROVE  GapKnown(n, S, high, hasEnd, end)
             <=> /\ high # 0 \/ hasEnd \/ \E s \in S : s.first > n
                 /\ high = 0 \/ high > n
                 /\ hasEnd => end > n
<1> DEFINE F == Futures(n, S, high, hasEnd, end)
<1>1. \A f : f \in F <=> \/ f = high /\ high # 0
                         \/ f = end /\ hasEnd
                         \/ \E s \in S : s.first > n /\ f = s.first
  BY DEF Futures
<1>2. GapKnown(n, S, high, hasEnd, end) <=> F # {} /\ \A f \in F : f > n
  BY DEF GapKnown
<1> HIDE DEF F
<1> QED
  BY <1>1, <1>2

\* An empty window without announcements has nothing to ask for.
LEMMA NothingKnown ==
    ASSUME NEW n, NEW end
    PROVE  ~GapKnown(n, {}, 0, FALSE, end)
BY DEF GapKnown, Futures

\* What issue_request does: it asks unless a request is outstanding or
\* nothing is missing, from the expected sequence up to at most the first
\* sequence number that is known to be there.
LEMMA IssueOutcome ==
    ASSUME NEW n \in Sequences64, NEW S \in SUBSET Slot, NEW high \in Sequences64,
           NEW hasEnd \in BOOLEAN, NEW end \in Sequences64,
           NEW outstanding \in BOOLEAN,
           IssueRequest(n, S, high, hasEnd, end, outstanding)
    PROVE  /\ request_outstanding' = (outstanding \/ GapKnown(n, S, high, hasEnd, end))
           /\ outstanding => request' = request
           /\ ~outstanding /\ request_outstanding' =>
                 /\ request'.first = n
                 /\ request'.count \in 1 .. EndOfSession - 1
                 /\ \A s \in S : s.first > n => n + request'.count <= s.first
<1> DEFINE F == Futures(n, S, high, hasEnd, end)
<1>1. CASE outstanding \/ ~GapKnown(n, S, high, hasEnd, end)
  BY <1>1 DEF IssueRequest
<1>2. CASE ~outstanding /\ GapKnown(n, S, high, hasEnd, end)
  <2>1. PICK target \in F :
           /\ \A f \in F : target <= f
           /\ request' = [first |-> n,
                          count |-> IF target - n < EndOfSession - 1
                                    THEN target - n ELSE EndOfSession - 1]
    BY <1>2 DEF IssueRequest
  <2>2. F \subseteq Sequences64 /\ \A s \in S : s.first > n => s.first \in F
    BY DEF Futures, Slot
  <2>3. target > n /\ target \in Nat /\ n \in Nat /\ EndOfSession \in Nat
        /\ EndOfSession > 1
    BY <2>2, <1>2, WidthAssumption DEF GapKnown, Sequences64
  <2>4. /\ request'.first = n
        /\ request'.count \in 1 .. EndOfSession - 1
        /\ n + request'.count <= target
    BY <2>1, <2>3
  <2>5. \A s \in S : s.first > n => n + request'.count <= s.first
    <3> SUFFICES ASSUME NEW s \in S, s.first > n
                 PROVE  n + request'.count <= s.first
      OBVIOUS
    <3>1. target <= s.first /\ s.first \in Nat
      BY <2>1, <2>2 DEF Sequences64
    <3> HIDE DEF F
    <3> QED
      BY <3>1, <2>3, <2>4
  <2>6. request_outstanding' = TRUE
    BY <1>2 DEF IssueRequest
  <2> QED
    BY <1>2, <2>4, <2>5, <2>6
<1> QED
  BY <1>1, <1>2

\* A packet that is not rejected obeys the stream's bounds.
LEMMA AcceptedWithinStream ==
    ASSUME NEW p \in Packets, WellFormed(p), NEW own, NEW n \in Sequences64,
           SequenceState(p, own, n) \notin {"session_mismatch", "sequence_overflow"}
    PROVE  /\ p.first + Carried(p) <= StreamEnd
           /\ Kind(p) = "end_of_session" => p.first = StreamEnd
<1>1. p \in Datagram
  BY PacketsAssumption
<1>2. p.first \in Nat /\ Carried(p) \in Nat /\ SeqMax \in Nat /\ p.first <= SeqMax
  BY <1>1, WidthAssumption DEF Datagram, Sequences64, Carried
<1>3. p.first <= SeqMax - Carried(p)
  BY <1>2 DEF SequenceState
<1> QED
  BY <1>3, StreamAssumption DEF Representable

LEMMA InitInv2 == Init => Inv2
<1> SUFFICES ASSUME Init PROVE Inv2
  OBVIOUS
<1>1. ~GapKnown(0, {}, 0, FALSE, 0)
  BY NothingKnown
<1> QED
  BY <1>1 DEF Init, Inv2, WithinStream, Ahead, EndTracked, Fresh,
              NothingDeliverableBuffered, RequestIffGap, NoPacket, EndOf

-----------------------------------------------------------------------------
\* On an initialised tracker inspect changes nothing.
LEMMA AdoptKeeps ==
    ASSUME Inv, initialized, pc = "idle", NEW p \in Packets, Adopt(p)
    PROVE  UNCHANGED <<initialized, session, next_sequence, base, cursor>>
BY DEF Adopt, Own, Expected, Inv, InOrderDelivery, TypeOK

\* A rejected packet, or an in-order control packet short of the end.
LEMMA QuietInv2 ==
    ASSUME Inv, Inv2, NEW p \in Packets, pc = "idle", Adopt(p),
           UNCHANGED <<window, control, pc, current, delivered>>
    PROVE  Inv2'
<1>1. CASE initialized
  BY <1>1, AdoptKeeps DEF Inv2, WithinStream, Ahead, EndTracked, Fresh,
     NothingDeliverableBuffered, RequestIffGap, GapKnown, Futures, EndOf, window, control
<1>2. CASE ~initialized
  <2>1. /\ slots' = {} /\ gap_high_water' = 0 /\ has_pending_end' = FALSE
        /\ request_outstanding' = FALSE /\ unasked' = FALSE
        /\ eos_seen' = FALSE /\ ended' = FALSE
        /\ pc' = "idle" /\ initialized' = TRUE
        /\ next_sequence' \in Sequences64 /\ pending_end_sequence' \in Sequences64
    BY <1>2, AdoptInv DEF Inv, TypeOK, Inv2, Fresh, window, control, Adopt
  <2>2. ~GapKnown(next_sequence', {}, 0, FALSE, pending_end_sequence')
    BY NothingKnown
  <2> QED
    BY <2>1, <2>2 DEF Inv2, WithinStream, Ahead, EndTracked, Fresh,
       NothingDeliverableBuffered, RequestIffGap
<1> QED
  BY <1>1, <1>2

\* Every gap packet leaves the tracker alone and announces something ahead.
LEMMA GapFrame ==
    ASSUME Inv, Inv2, NEW p \in Packets, NoteGap(p)
    PROVE  /\ initialized /\ pc = "idle" /\ next_sequence = cursor
           /\ UNCHANGED <<initialized, session, next_sequence, base, cursor,
                          pc, current, delivered, ended>>
           /\ gap_high_water' \in Sequences64 /\ gap_high_water' > next_sequence
           /\ p.first > next_sequence /\ p.first <= StreamEnd
           /\ Kind(p) = "data" => p.first + p.count <= StreamEnd
           /\ Kind(p) = "end_of_session" => p.first = StreamEnd
           /\ next_sequence \in Nat /\ next_sequence < StreamEnd
<1>1. /\ pc = "idle" /\ WellFormed(p) /\ Decision(p) = "gap" /\ Adopt(p)
      /\ UNCHANGED <<pc, current, delivered, ended>>
  BY DEF NoteGap
<1>2. /\ initialized /\ next_sequence \in Sequences64
      /\ gap_high_water' \in Sequences64 /\ p.first > next_sequence
  BY NoteGapFacts
<1>3. UNCHANGED <<initialized, session, next_sequence, base, cursor>>
  BY <1>1, <1>2, AdoptKeeps
<1>4. /\ p.first + Carried(p) <= StreamEnd
      /\ Kind(p) = "end_of_session" => p.first = StreamEnd
  BY <1>1, <1>2, AcceptedWithinStream DEF Decision, Expected
<1>5. p \in Datagram /\ p.first \in Nat /\ Carried(p) \in Nat /\ StreamEnd \in Nat
      /\ next_sequence \in Nat /\ gap_high_water \in Nat
  BY PacketsAssumption, StreamAssumption, WidthAssumption, <1>2
     DEF Datagram, Carried, Sequences64, Inv, TypeOK
<1>6. gap_high_water' > next_sequence
  BY <1>2, <1>5 DEF NoteGap
<1>7. Kind(p) = "data" => p.first + p.count <= StreamEnd
  BY <1>4, <1>5, DataCount
<1>8. next_sequence = cursor
  BY <1>1 DEF Inv, InOrderDelivery
<1> QED
  BY <1>1, <1>2, <1>3, <1>4, <1>5, <1>6, <1>7, <1>8

\* So after a gap packet something is known to be missing.
LEMMA GapKnownAfter ==
    ASSUME Inv, Inv2, NEW p \in Packets, NoteGap(p), slots' \in SUBSET Slot,
           has_pending_end' \in BOOLEAN, pending_end_sequence' \in Sequences64,
           has_pending_end' => pending_end_sequence' = StreamEnd
    PROVE  GapKnown(next_sequence, slots', gap_high_water', has_pending_end',
                    pending_end_sequence')
<1>1. next_sequence \in Sequences64
  BY DEF Inv, TypeOK
<1>2. /\ gap_high_water' \in Sequences64 /\ gap_high_water' > next_sequence
      /\ next_sequence \in Nat /\ next_sequence < StreamEnd
  BY GapFrame
<1>3. gap_high_water' # 0
  BY <1>2
<1> QED
  BY <1>1, <1>2, <1>3, GapKnownMeaning

LEMMA GapStoredInv2 ==
    ASSUME Inv, Inv2, NEW p \in Packets, IngestGapStored(p)
    PROVE  Inv2'
<1> DEFINE s == [first |-> p.first, count |-> p.count]
<1>1. NoteGap(p) /\ Kind(p) = "data" /\ slots' = slots \cup {s}
  BY DEF IngestGapStored
<1>2. unasked' = FALSE /\ UNCHANGED <<has_pending_end, pending_end_sequence, eos_seen>>
  BY DEF IngestGapStored
<1>3. slots' \in SUBSET Slot /\ s \in Slot
  BY <1>1, NoteGapFacts DEF Inv, TypeOK
<1>4. GapKnown(next_sequence, slots', gap_high_water', has_pending_end,
               pending_end_sequence)
  BY <1>1, <1>2, <1>3, GapKnownAfter DEF Inv, TypeOK, Inv2, WithinStream
<1>5. /\ request_outstanding' = TRUE
      /\ request_outstanding => request' = request
      /\ ~request_outstanding => request'.first = next_sequence
  <2>1. IssueRequest(next_sequence, slots', gap_high_water', has_pending_end,
                     pending_end_sequence, request_outstanding)
    BY DEF IngestGapStored
  <2>2. /\ next_sequence \in Sequences64 /\ gap_high_water' \in Sequences64
        /\ has_pending_end \in BOOLEAN /\ pending_end_sequence \in Sequences64
        /\ request_outstanding \in BOOLEAN
    BY <1>1, NoteGapFacts DEF Inv, TypeOK
  <2> QED
    BY <2>1, <2>2, <1>3, <1>4, IssueOutcome
<1>6. RequestIffGap'
  BY <1>1, <1>2, <1>4, <1>5, GapFrame DEF Inv2, RequestIffGap
<1>7. WithinStream' /\ Ahead' /\ EndTracked' /\ Fresh'
  BY <1>1, <1>2, GapFrame
     DEF Inv2, WithinStream, Ahead, EndTracked, Fresh, EndOf
<1>8. NothingDeliverableBuffered'
  BY <1>1, <1>3, GapFrame DEF Inv2, NothingDeliverableBuffered, EndOf, Slot, Sequences64
<1> QED
  BY <1>6, <1>7, <1>8 DEF Inv2

LEMMA GapRefusedInv2 ==
    ASSUME Inv, Inv2, NEW p \in Packets, IngestGapRefused(p)
    PROVE  Inv2'
<1>1. /\ NoteGap(p)
      /\ UNCHANGED <<slots, has_pending_end, pending_end_sequence, control>>
      /\ unasked' = (unasked \/ (StoreResult(p) # "duplicate" /\ ~request_outstanding))
  BY DEF IngestGapRefused
<1>2. /\ initialized /\ pc = "idle" /\ next_sequence = cursor
      /\ UNCHANGED <<initialized, next_sequence, cursor, pc, current>>
      /\ gap_high_water' > next_sequence /\ p.first > next_sequence
      /\ next_sequence < StreamEnd
  BY <1>1, GapFrame
<1>3. RequestIffGap'
  <2>1. GapKnown(next_sequence, slots', gap_high_water', has_pending_end',
                 pending_end_sequence')
    BY <1>1, GapKnownAfter DEF Inv, TypeOK, Inv2, WithinStream
  <2>2. request_outstanding => request.first = next_sequence /\ ~unasked
    BY <1>2 DEF Inv2, RequestIffGap
  <2>3. CASE StoreResult(p) = "duplicate"
    <3>1. \E s \in slots : s.first = p.first
      BY <2>3 DEF StoreResult
    <3>2. /\ gap_high_water = 0 \/ gap_high_water > next_sequence
          /\ has_pending_end => pending_end_sequence > next_sequence
      BY <1>2 DEF Inv2, Ahead, WithinStream
    <3>3. \E s \in slots : s.first > next_sequence
      BY <3>1, <1>2
    <3>4. GapKnown(next_sequence, slots, gap_high_water, has_pending_end,
                   pending_end_sequence)
      BY <3>2, <3>3, GapKnownMeaning DEF Inv, TypeOK
    <3>5. request_outstanding \/ unasked
      BY <3>4, <1>2 DEF Inv2, RequestIffGap
    <3>6. unasked' <=> unasked
      BY <2>3, <1>1
    <3> QED
      BY <2>1, <2>2, <3>5, <3>6, <1>1, <1>2 DEF RequestIffGap, control
  <2>4. CASE StoreResult(p) # "duplicate"
    <3>1. unasked' <=> (unasked \/ ~request_outstanding)
      BY <2>4, <1>1
    <3> QED
      BY <2>1, <2>2, <3>1, <1>1, <1>2 DEF RequestIffGap, control
  <2> QED
    BY <2>3, <2>4
<1>4. WithinStream' /\ Ahead' /\ EndTracked' /\ Fresh' /\ NothingDeliverableBuffered'
  BY <1>1, <1>2 DEF Inv2, WithinStream, Ahead, EndTracked, Fresh,
     NothingDeliverableBuffered, EndOf, control
<1> QED
  BY <1>3, <1>4 DEF Inv2

LEMMA GapControlInv2 ==
    ASSUME Inv, Inv2, NEW p \in Packets, IngestGapHeartbeat(p) \/ IngestGapEnd(p)
    PROVE  Inv2'
<1>1. NoteGap(p) /\ unasked' = FALSE /\ UNCHANGED slots
  BY DEF IngestGapHeartbeat, IngestGapEnd
<1>2. /\ initialized /\ pc = "idle" /\ next_sequence = cursor
      /\ UNCHANGED <<initialized, next_sequence, cursor, pc, current, ended>>
      /\ gap_high_water' \in Sequences64
      /\ gap_high_water' > next_sequence /\ p.first > next_sequence
      /\ next_sequence \in Nat /\ StreamEnd \in Nat /\ next_sequence < StreamEnd
      /\ Kind(p) = "end_of_session" => p.first = StreamEnd
  BY <1>1, GapFrame, StreamAssumption DEF Sequences64
<1>3. /\ has_pending_end' \in BOOLEAN /\ pending_end_sequence' \in Sequences64
      /\ has_pending_end' => pending_end_sequence' = StreamEnd
      /\ eos_seen' <=> (ended \/ has_pending_end')
  <2>1. CASE IngestGapHeartbeat(p)
    <3>1. UNCHANGED <<has_pending_end, pending_end_sequence, eos_seen>>
      BY <2>1 DEF IngestGapHeartbeat
    <3>2. eos_seen <=> (ended \/ has_pending_end)
      BY DEF Inv2, EndTracked
    <3> QED
      BY <3>1, <3>2 DEF Inv, TypeOK, Inv2, WithinStream
  <2>2. CASE IngestGapEnd(p)
    BY <2>2, <1>2, StreamAssumption DEF IngestGapEnd
  <2> QED
    BY <2>1, <2>2
<1>4. GapKnown(next_sequence, slots', gap_high_water', has_pending_end',
               pending_end_sequence')
  BY <1>1, <1>3, GapKnownAfter DEF Inv, TypeOK
<1>5. /\ request_outstanding' = TRUE
      /\ request_outstanding => request' = request
      /\ ~request_outstanding => request'.first = next_sequence
  <2>1. IssueRequest(next_sequence, slots, gap_high_water', has_pending_end',
                     pending_end_sequence', request_outstanding)
    BY DEF IngestGapHeartbeat, IngestGapEnd
  <2>2. /\ next_sequence \in Sequences64 /\ slots \in SUBSET Slot
        /\ request_outstanding \in BOOLEAN
    BY DEF Inv, TypeOK
  <2>3. /\ request_outstanding' = (request_outstanding \/
             GapKnown(next_sequence, slots, gap_high_water', has_pending_end',
                      pending_end_sequence'))
        /\ request_outstanding => request' = request
        /\ ~request_outstanding /\ request_outstanding' => request'.first = next_sequence
    BY <2>1, <2>2, <1>2, <1>3, IssueOutcome
  <2>4. slots' = slots
    BY <1>1
  <2> QED
    BY <2>2, <2>3, <2>4, <1>4
<1>6. RequestIffGap'
  BY <1>1, <1>2, <1>4, <1>5 DEF Inv2, RequestIffGap
<1>7. WithinStream' /\ Ahead' /\ Fresh' /\ NothingDeliverableBuffered'
  BY <1>1, <1>2, <1>3 DEF Inv2, WithinStream, Ahead, Fresh,
     NothingDeliverableBuffered, EndOf
<1>8. EndTracked'
  BY <1>2, <1>3 DEF Inv2, EndTracked
<1> QED
  BY <1>6, <1>7, <1>8 DEF Inv2

\* An in-order control packet sits exactly at the expected sequence.
LEMMA ControlInv2 ==
    ASSUME Inv, Inv2, NEW p \in Packets, IngestControl(p)
    PROVE  Inv2'
<1>1. /\ pc = "idle" /\ WellFormed(p) /\ MayProcess(Decision(p)) /\ Kind(p) # "data"
      /\ Adopt(p)
      /\ UNCHANGED <<window, request_outstanding, request, pc, current, delivered>>
  BY DEF IngestControl
<1>2. p \in Datagram /\ Expected(p) \in Sequences64
  BY AdoptedTypes
<1>3. CASE Kind(p) = "heartbeat"
  <2>1. UNCHANGED <<eos_seen, ended>>
    BY <1>3 DEF IngestControl, Inv, TypeOK
  <2> QED
    BY <2>1, <1>1, QuietInv2 DEF control
<1>4. CASE Kind(p) = "end_of_session"
  <2>1. eos_seen' = TRUE /\ ended' = TRUE
    BY <1>4 DEF IngestControl
  <2>2. p.first = Expected(p) /\ p.first = StreamEnd
    <3>1. p.first = Expected(p)
      BY <1>1, <1>2 DEF Decision, MayProcess, SequenceState, Carried, Datagram, Sequences64
    <3>2. p.first = StreamEnd
      BY <1>1, <1>2, <1>4, AcceptedWithinStream DEF Decision, MayProcess
    <3> QED
      BY <3>1, <3>2
  <2>3. next_sequence' = StreamEnd /\ cursor' = StreamEnd /\ initialized' = TRUE
    BY <2>2, <1>1 DEF Adopt
  <2>4. ~has_pending_end
    <3>1. CASE initialized
      BY <3>1, <2>2, <1>1, <1>2 DEF Expected, Inv2, Ahead, Sequences64
    <3>2. CASE ~initialized
      BY <3>2 DEF Inv2, Fresh
    <3> QED
      BY <3>1, <3>2
  <2>5. WithinStream' /\ Fresh' /\ EndTracked'
    BY <2>1, <2>3, <2>4, <1>1
       DEF Inv2, WithinStream, EndTracked, Fresh, EndOf, window
  <2>6. Ahead' /\ NothingDeliverableBuffered' /\ RequestIffGap'
    <3>1. CASE initialized
      <4>1. UNCHANGED next_sequence
        BY <3>1, <1>1, AdoptKeeps
      <4> QED
        BY <4>1, <2>4, <1>1 DEF Inv2, Ahead, NothingDeliverableBuffered,
           RequestIffGap, GapKnown, Futures, EndOf, window
    <3>2. CASE ~initialized
      <4>1. /\ slots' = {} /\ gap_high_water' = 0 /\ has_pending_end' = FALSE
            /\ request_outstanding' = FALSE /\ unasked' = FALSE /\ pc' = "idle"
        BY <3>2, <2>4, <1>1 DEF Inv, TypeOK, Inv2, Fresh, window
      <4>2. ~GapKnown(next_sequence', {}, 0, FALSE, pending_end_sequence')
        BY NothingKnown
      <4> QED
        BY <4>1, <4>2 DEF Ahead, NothingDeliverableBuffered, RequestIffGap
    <3> QED
      BY <3>1, <3>2
  <2> QED
    BY <2>5, <2>6 DEF Inv2
<1> QED
  BY <1>1, <1>3, <1>4 DEF Kind

LEMMA DataInv2 ==
    ASSUME Inv, Inv2, NEW p \in Packets, IngestData(p)
    PROVE  Inv2'
<1>1. p \in Datagram /\ Expected(p) \in Sequences64
  BY AdoptedTypes
<1>2. /\ pc = "idle" /\ WellFormed(p)
      /\ Kind(p) = "data" /\ MayProcess(SequenceState(p, Own(p), Expected(p)))
      /\ UNCHANGED <<window, control, delivered>> /\ initialized' = TRUE
  BY DEF IngestData, Decision
<1>3. /\ Expected(p) < p.first + p.count
      /\ p.first + SkipMessages(p, Expected(p)) = Expected(p)
  BY <1>1, <1>2, ProcessedHoldsNext
<1>4. p.first + p.count <= StreamEnd
  BY <1>1, <1>2, AcceptedWithinStream, DataCount DEF MayProcess
<1>5. /\ pc' = "deliver" /\ cursor' = Expected(p)
      /\ EndOf(current') = p.first + p.count
  BY <1>3 DEF IngestData, StartWalk, EndOf
<1>6. initialized => Expected(p) = cursor /\ cursor = next_sequence
  BY <1>2 DEF Expected, Inv, InOrderDelivery
<1>7. WithinStream'
  <2>1. has_pending_end => cursor' <= StreamEnd
    <3> SUFFICES ASSUME has_pending_end PROVE cursor' <= StreamEnd
      OBVIOUS
    <3>1. initialized
      BY DEF Inv2, Fresh
    <3> QED
      BY <3>1, <1>5, <1>6 DEF Inv2, WithinStream
  <2> QED
    BY <2>1, <1>2, <1>4, <1>5 DEF Inv2, WithinStream, EndOf, window
<1>8. EndTracked'
  <2>1. ended => cursor' = StreamEnd
    BY <1>5, <1>6 DEF Inv2, Fresh, EndTracked
  <2> QED
    BY <2>1, <1>2 DEF Inv2, EndTracked, window, control
<1>9. Ahead' /\ Fresh' /\ NothingDeliverableBuffered' /\ RequestIffGap'
  BY <1>2, <1>5 DEF Ahead, Fresh, NothingDeliverableBuffered, RequestIffGap
<1> QED
  BY <1>7, <1>8, <1>9 DEF Inv2

LEMMA DeliverInv2 ==
    ASSUME Inv, Inv2, DeliverMessage
    PROVE  Inv2'
<1>1. /\ pc = "deliver" /\ cursor < EndOf(current) /\ cursor' = cursor + 1
      /\ UNCHANGED <<tracker, window, control, pc, current>>
  BY DEF DeliverMessage
<1>2. cursor \in Nat /\ EndOf(current) \in Nat /\ StreamEnd \in Nat
  BY StreamAssumption DEF Inv, TypeOK, Sequences64, Walked, EndOf
<1>3. EndOf(current) <= StreamEnd
  BY <1>1 DEF Inv2, WithinStream
<1>4. WithinStream'
  BY <1>1, <1>2, <1>3 DEF Inv2, WithinStream, EndOf, window
<1>5. EndTracked'
  <2>1. ~ended
    BY <1>1, <1>2, <1>3 DEF Inv2, EndTracked
  <2> QED
    BY <2>1, <1>1 DEF Inv2, EndTracked, window, control
<1>6. Ahead' /\ Fresh' /\ NothingDeliverableBuffered' /\ RequestIffGap'
  BY <1>1 DEF Inv2, Ahead, Fresh, NothingDeliverableBuffered, RequestIffGap,
     tracker, window, control
<1> QED
  BY <1>4, <1>5, <1>6 DEF Inv2

LEMMA CommitInv2 ==
    ASSUME Inv, Inv2, CommitPacket
    PROVE  Inv2'
<1>1. /\ pc' = "drain" /\ request_outstanding' = FALSE /\ slots' \subseteq slots
      /\ pc = "deliver"
      /\ UNCHANGED <<initialized, gap_high_water, has_pending_end,
                     pending_end_sequence, eos_seen, ended, cursor>>
  BY DEF CommitPacket
<1>2. initialized
  BY <1>1 DEF Inv, Unstarted
<1>3. WithinStream' /\ EndTracked'
  BY <1>1 DEF Inv2, WithinStream, EndTracked, EndOf
<1> QED
  BY <1>1, <1>2, <1>3 DEF Inv2, Ahead, Fresh, NothingDeliverableBuffered, RequestIffGap

LEMMA DrainInv2 ==
    ASSUME Inv, Inv2, DrainSlot
    PROVE  Inv2'
<1>1. PICK s \in Candidates : StartWalk(s, next_sequence, TRUE)
  BY DEF DrainSlot
<1>2. pc = "drain" /\ UNCHANGED <<tracker, window, control, delivered>>
  BY DEF DrainSlot
<1>3. s \in slots /\ s \in Slot /\ s.first <= next_sequence /\ EndOf(s) <= StreamEnd
  BY DEF Candidates, Inv, TypeOK, Inv2, WithinStream
<1>4. s.first \in Nat /\ next_sequence \in Nat
  BY <1>3 DEF Slot, Inv, TypeOK, Sequences64
<1>5. pc' = "deliver" /\ cursor' = next_sequence /\ EndOf(current') = EndOf(s)
  BY <1>1, <1>3, <1>4 DEF StartWalk, SkipMessages, EndOf
<1>6. cursor' = cursor
  BY <1>2, <1>5 DEF Inv, InOrderDelivery
<1>7. WithinStream' /\ EndTracked'
  BY <1>2, <1>3, <1>5, <1>6 DEF Inv2, WithinStream, EndTracked, EndOf, window, control
<1> QED
  BY <1>2, <1>5, <1>7 DEF Inv2, Ahead, Fresh, NothingDeliverableBuffered,
     RequestIffGap, tracker, window, control

LEMMA FinishInv2 ==
    ASSUME Inv, Inv2, FinishDrain
    PROVE  Inv2'
<1>1. /\ pc = "drain" /\ pc' = "idle" /\ Candidates = {}
      /\ ended' = (ended \/ EndDue) /\ has_pending_end' = (has_pending_end /\ ~EndDue)
      /\ unasked' = FALSE
      /\ UNCHANGED <<tracker, slots, pending_end_sequence, eos_seen,
                     current, cursor>>
  BY DEF FinishDrain
<1>2. /\ cursor = next_sequence /\ next_sequence \in Nat /\ gap_high_water \in Nat
      /\ StreamEnd \in Nat /\ initialized
  BY <1>1, StreamAssumption
     DEF Inv, InOrderDelivery, Unstarted, TypeOK, Sequences64
<1>3. gap_high_water' \in Sequences64
      /\ (gap_high_water' = 0 \/ gap_high_water' > next_sequence)
  BY <1>2, WidthAssumption DEF FinishDrain, Inv, TypeOK, Sequences64
<1>4. /\ has_pending_end' => pending_end_sequence = StreamEnd /\ next_sequence < StreamEnd
      /\ ended' => next_sequence = StreamEnd
  <2>1. has_pending_end' => has_pending_end /\ pending_end_sequence # next_sequence
    BY <1>1 DEF EndDue
  <2>2. ended' => ended \/ (has_pending_end /\ pending_end_sequence = next_sequence)
    BY <1>1 DEF EndDue
  <2>3. has_pending_end => pending_end_sequence = StreamEnd /\ cursor <= StreamEnd
    BY DEF Inv2, WithinStream
  <2>4. ended => cursor = StreamEnd
    BY DEF Inv2, EndTracked
  <2> QED
    BY <2>1, <2>2, <2>3, <2>4, <1>2
<1>5. eos_seen' <=> (ended' \/ has_pending_end')
  <2>1. eos_seen <=> (ended \/ has_pending_end)
    BY DEF Inv2, EndTracked
  <2>2. EndDue => has_pending_end
    BY DEF EndDue
  <2>3. ended' <=> (ended \/ EndDue)
    BY <1>1
  <2>4. has_pending_end' <=> (has_pending_end /\ ~EndDue)
    BY <1>1
  <2>5. eos_seen' = eos_seen
    BY <1>1
  <2> QED
    BY <2>1, <2>2, <2>3, <2>4, <2>5
<1>6. /\ request_outstanding' = GapKnown(next_sequence, slots, gap_high_water',
                                         has_pending_end', pending_end_sequence)
      /\ request_outstanding' => request'.first = next_sequence
  <2>1. IssueRequest(next_sequence, slots, gap_high_water', has_pending_end',
                     pending_end_sequence, request_outstanding)
    BY DEF FinishDrain
  <2>2. /\ next_sequence \in Sequences64 /\ slots \in SUBSET Slot
        /\ pending_end_sequence \in Sequences64 /\ has_pending_end' \in BOOLEAN
        /\ request_outstanding \in BOOLEAN
    BY <1>1 DEF Inv, TypeOK
  <2>3. ~request_outstanding
    BY <1>1, <2>2 DEF Inv2, Ahead
  <2>4. /\ request_outstanding' = (request_outstanding
             \/ GapKnown(next_sequence, slots, gap_high_water', has_pending_end',
                         pending_end_sequence))
        /\ ~request_outstanding /\ request_outstanding'
             => request'.first = next_sequence
    BY <2>1, <2>2, <1>3, IssueOutcome
  <2>5. GapKnown(next_sequence, slots, gap_high_water', has_pending_end',
                 pending_end_sequence) \in BOOLEAN
    BY DEF GapKnown
  <2> QED
    BY <2>3, <2>4, <2>5
<1>7. RequestIffGap'
  BY <1>1, <1>6 DEF RequestIffGap, tracker
<1>8. WithinStream' /\ EndTracked'
  BY <1>1, <1>2, <1>4, <1>5 DEF Inv2, WithinStream, EndTracked, EndOf
<1>9. Ahead' /\ Fresh' /\ NothingDeliverableBuffered'
  BY <1>1, <1>2, <1>3, <1>4 DEF Ahead, Fresh, NothingDeliverableBuffered,
     Candidates, EndOf, tracker
<1> QED
  BY <1>7, <1>8, <1>9 DEF Inv2

LEMMA NextInv2 == Inv /\ Inv2 /\ [Next]_vars => Inv2'
<1> SUFFICES ASSUME Inv, Inv2, [Next]_vars PROVE Inv2'
  OBVIOUS
<1>1. CASE UNCHANGED vars
  BY <1>1 DEF Inv2, WithinStream, Ahead, EndTracked, Fresh, NothingDeliverableBuffered,
     RequestIffGap, GapKnown, Futures, EndOf, vars, tracker, window, control, walk
<1>2. ASSUME NEW p \in Packets, Ingest(p) PROVE Inv2'
  <2>1. CASE IngestMalformed(p)
    BY <2>1, <1>1 DEF IngestMalformed
  <2>2. CASE IngestRejected(p)
    BY <2>2, QuietInv2 DEF IngestRejected
  <2> QED
    BY <1>2, <2>1, <2>2, GapStoredInv2, GapRefusedInv2, GapControlInv2,
       ControlInv2, DataInv2 DEF Ingest
<1> QED
  BY <1>1, <1>2, DeliverInv2, CommitInv2, DrainInv2, FinishInv2 DEF Next

\* The second layer of the inductive invariant holds in every reachable state.
THEOREM Invariance2 == Spec => []Inv2
<1>1. Init => Inv2
  BY InitInv2
<1>2. Inv /\ Inv2 /\ [Next]_vars => Inv2'
  BY NextInv2
<1> QED
  BY <1>1, <1>2, Invariance, PTL DEF Spec

\* Between two calls the window never holds back a message it could deliver.
THEOREM NothingHeldBack == Spec => []NothingDeliverableBuffered
<1>1. Inv2 => NothingDeliverableBuffered
  BY DEF Inv2
<1> QED
  BY <1>1, Invariance2, PTL

\* Between two calls a gap is known exactly when a request is outstanding, or
\* when a refusal for capacity kept ingest from asking and no packet has
\* reached issue_request since.
THEOREM RequestsMatchGaps == Spec => []RequestIffGap
<1>1. Inv2 => RequestIffGap
  BY DEF Inv2
<1> QED
  BY <1>1, Invariance2, PTL

\* The end of the session is reported exactly when all of it was handed over.
THEOREM EndIsComplete == Spec => []EndExactlyWhenComplete
<1>1. Inv /\ Inv2 => EndExactlyWhenComplete
  <2> SUFFICES ASSUME Inv, Inv2, pc = "idle"
               PROVE  ended <=> eos_seen /\ next_sequence = StreamEnd
    BY DEF EndExactlyWhenComplete
  <2>1. next_sequence = cursor /\ next_sequence \in Nat /\ StreamEnd \in Nat
    BY StreamAssumption DEF Inv, TypeOK, InOrderDelivery, Sequences64
  <2>2. ended => cursor = StreamEnd
    BY DEF Inv2, EndTracked
  <2>3. ~(has_pending_end /\ next_sequence = StreamEnd)
    BY <2>1 DEF Inv2, Ahead
  <2>4. eos_seen <=> (ended \/ has_pending_end)
    BY DEF Inv2, EndTracked
  <2> QED
    BY <2>1, <2>2, <2>3, <2>4
<1> QED
  BY <1>1, Invariance, Invariance2, PTL

-----------------------------------------------------------------------------
\* A step that raises a request asks for a range that begins at the expected
\* message and that no slot reaches into.
LEMMA RaisedRequest ==
    ASSUME Inv, Inv2, Inv', Inv2', Next, request_outstanding', ~request_outstanding
    PROVE  /\ request'.count \in 1 .. EndOfSession - 1
           /\ request'.first = base' + Len(delivered')
           /\ \A s \in slots' : \/ EndOf(s) <= request'.first
                                \/ s.first >= request'.first + request'.count
<1> DEFINE Raised ==
       /\ pc' = "idle"
       /\ IssueRequest(next_sequence', slots', gap_high_water', has_pending_end',
                       pending_end_sequence', request_outstanding)
<1>1. Raised
  <2>1. ASSUME NEW p \in Packets, Ingest(p) PROVE Raised
    <3>1. CASE IngestGapStored(p)
      BY <3>1, GapFrame DEF IngestGapStored
    <3>2. CASE IngestGapHeartbeat(p)
      BY <3>2, GapFrame DEF IngestGapHeartbeat
    <3>3. CASE IngestGapEnd(p)
      BY <3>3, GapFrame DEF IngestGapEnd
    <3>4. CASE IngestMalformed(p) \/ IngestRejected(p) \/ IngestGapRefused(p)
                 \/ IngestControl(p) \/ IngestData(p)
      BY <3>4 DEF IngestMalformed, IngestRejected, IngestGapRefused, IngestControl,
         IngestData, vars, control
    <3> QED
      BY <2>1, <3>1, <3>2, <3>3, <3>4 DEF Ingest
  <2>2. CASE FinishDrain
    BY <2>2 DEF FinishDrain, tracker
  <2>3. CASE DeliverMessage \/ CommitPacket \/ DrainSlot
    BY <2>3 DEF DeliverMessage, CommitPacket, DrainSlot, control
  <2> QED
    BY <2>1, <2>2, <2>3 DEF Next
<1>2. /\ next_sequence' \in Sequences64 /\ slots' \in SUBSET Slot
      /\ gap_high_water' \in Sequences64 /\ has_pending_end' \in BOOLEAN
      /\ pending_end_sequence' \in Sequences64 /\ request_outstanding \in BOOLEAN
  BY DEF Inv, TypeOK
<1>3. /\ request'.first = next_sequence'
      /\ request'.count \in 1 .. EndOfSession - 1
      /\ \A s \in slots' : s.first > next_sequence'
                             => next_sequence' + request'.count <= s.first
  BY <1>1, <1>2, IssueOutcome
<1>4. next_sequence' = base' + Len(delivered')
  BY <1>1 DEF Inv, InOrderDelivery
<1>5. \A s \in slots' : ~(s.first <= next_sequence' /\ next_sequence' < EndOf(s))
  BY <1>1 DEF Inv2, NothingDeliverableBuffered, EndOf
<1>6. \A s \in slots' : s.first \in Nat /\ EndOf(s) \in Nat /\ next_sequence' \in Nat
  BY <1>2, WidthAssumption DEF Slot, Sequences64, EndOf
<1> QED
  BY <1>3, <1>4, <1>5, <1>6

\* Requests never ask for what was handed over or sits in the window.
THEOREM RequestsAreNeeded == Spec => RequestsOnlyMissing
<1>1. Inv /\ Inv2 /\ Inv' /\ Inv2' /\ [Next]_vars =>
        [ request_outstanding' /\ ~request_outstanding =>
             /\ request'.count \in 1 .. EndOfSession - 1
             /\ request'.first = base' + Len(delivered')
             /\ \A s \in slots' : \/ EndOf(s) <= request'.first
                                  \/ s.first >= request'.first + request'.count ]_vars
  BY RaisedRequest
<1> QED
  BY <1>1, Invariance, Invariance2, PTL DEF Spec, RequestsOnlyMissing

-----------------------------------------------------------------------------
\* A step that hands nothing over opens the stream, closes it or is not seen.
LEMMA QuietStreamStep ==
    ASSUME Inv, Inv2, Inv', Inv2', UNCHANGED delivered, initialized',
           initialized => base' = base, ended => ended'
    PROVE  [Stream!StreamNext]_(Stream!abstract)
<1>1. /\ initialized \in BOOLEAN /\ initialized' = TRUE
      /\ ended \in BOOLEAN /\ ended' \in BOOLEAN
      /\ base \in Nat /\ base' \in 0 .. SeqMax /\ delivered \in Seq(Sequences64)
  BY DEF Inv, TypeOK, Sequences64
<1>2. ended' => base' + Len(delivered') = StreamEnd
  BY DEF Inv, Inv2, InOrderDelivery, EndTracked
<1>3. CASE ~initialized
  <2>1. delivered = <<>> /\ ended = FALSE
    BY <1>1, <1>3 DEF Inv, Inv2, Unstarted, Fresh
  <2>2. ended' => base' = StreamEnd
    BY <1>1, <1>2, <2>1
  <2>3. Stream!Open
    BY <1>1, <1>3, <2>2 DEF Stream!Open
  <2> QED
    BY <2>3 DEF Stream!StreamNext
<1>4. CASE initialized /\ ended' = ended
  BY <1>1, <1>4 DEF Stream!abstract
<1>5. CASE initialized /\ ended' # ended
  <2>1. Stream!Close
    BY <1>1, <1>2, <1>5 DEF Stream!Close, Stream!Position
  <2> QED
    BY <2>1 DEF Stream!StreamNext
<1> QED
  BY <1>1, <1>3, <1>4, <1>5

LEMMA WalkNumbers ==
    ASSUME Inv
    PROVE  cursor \in Nat /\ EndOf(current) \in Nat /\ StreamEnd \in Nat
BY StreamAssumption DEF Inv, TypeOK, Sequences64, Walked, EndOf

LEMMA StreamStep ==
    ASSUME Inv, Inv2, Inv', Inv2', [Next]_vars
    PROVE  [Stream!StreamNext]_(Stream!abstract)
<1>1. CASE UNCHANGED vars
  BY <1>1 DEF Stream!abstract, vars, tracker, control, walk
<1>2. ASSUME NEW p \in Packets, Ingest(p)
      PROVE  [Stream!StreamNext]_(Stream!abstract)
  <2>1. CASE IngestMalformed(p)
    BY <2>1, <1>1 DEF IngestMalformed
  <2>2. CASE ~IngestMalformed(p)
    <3>1. UNCHANGED delivered /\ initialized' /\ (initialized => base' = base)
      BY <1>2, <2>2 DEF Ingest, IngestRejected, IngestGapStored, IngestGapRefused,
         IngestGapHeartbeat, IngestGapEnd, IngestControl, IngestData, NoteGap, Adopt
    <3>2. ended => ended'
      BY <1>2, <2>2 DEF Ingest, IngestRejected, IngestGapStored, IngestGapRefused,
         IngestGapHeartbeat, IngestGapEnd, IngestControl, IngestData, NoteGap, control
    <3> QED
      BY <3>1, <3>2, QuietStreamStep
  <2> QED
    BY <2>1, <2>2
<1>3. CASE DeliverMessage
  <2>1. /\ pc = "deliver" /\ cursor < EndOf(current)
        /\ delivered' = Append(delivered, cursor)
        /\ UNCHANGED <<initialized, base, ended>>
    BY <1>3 DEF DeliverMessage, tracker, control
  <2>2. initialized /\ cursor = base + Len(delivered)
    BY <2>1 DEF Inv, Unstarted, InOrderDelivery
  <2>3. ~ended
    <3>1. cursor \in Nat /\ EndOf(current) \in Nat /\ StreamEnd \in Nat
      BY WalkNumbers
    <3>2. EndOf(current) <= StreamEnd
      BY <2>1 DEF Inv2, WithinStream
    <3> QED
      BY <2>1, <3>1, <3>2 DEF Inv2, EndTracked
  <2>4. Stream!HandOver
    BY <2>1, <2>2, <2>3 DEF Stream!HandOver, Stream!Position
  <2> QED
    BY <2>4 DEF Stream!StreamNext
<1>4. CASE CommitPacket \/ DrainSlot \/ FinishDrain
  <2>1. /\ UNCHANGED <<delivered, initialized, base>> /\ pc # "idle"
    BY <1>4 DEF CommitPacket, DrainSlot, FinishDrain, tracker
  <2>2. ended => ended'
    BY <1>4 DEF CommitPacket, DrainSlot, FinishDrain, control
  <2>3. initialized'
    BY <2>1 DEF Inv, Unstarted
  <2> QED
    BY <2>1, <2>2, <2>3, QuietStreamStep
<1> QED
  BY <1>1, <1>2, <1>3, <1>4 DEF Next

\* The window, on a network that loses, repeats, reorders and repacketises,
\* implements the reliable in-order stream.
THEOREM WindowImplementsStream == Spec => ImplementsStream
<1>1. Init => Stream!StreamInit
  BY DEF Init, Stream!StreamInit
<1>2. Inv /\ Inv2 /\ Inv' /\ Inv2' /\ [Next]_vars
        => [Stream!StreamNext]_(Stream!abstract)
  BY StreamStep
<1> QED
  BY <1>1, <1>2, Invariance, Invariance2, PTL
     DEF Spec, ImplementsStream, Stream!StreamSpec
-----------------------------------------------------------------------------
(***************************************************************************)
(* The feed: the window together with the pipeline.                        *)
(***************************************************************************)
States == {"Live", "Recovering", "Faulted"}

FeedTypeOK ==
    /\ state \in States /\ next \in Nat /\ high_water \in Nat
    /\ started \in BOOLEAN /\ in_ingest \in BOOLEAN

(***************************************************************************)
(* Whatever the window holds or was told of beyond the book's position,    *)
(* note_gap has reported to the pipeline.                                  *)
(***************************************************************************)
Reported(n, position, high) == n <= position \/ n <= high + 1

KnownIsReported ==
    state # "Faulted" =>
       /\ \A s \in slots : Reported(EndOf(s), next, high_water)
       /\ Reported(gap_high_water, next, high_water)
       /\ has_pending_end => Reported(pending_end_sequence, next, high_water)

LiveIsComplete == state = "Live" => high_water < next

FeedInv ==
    /\ Inv /\ Inv2 /\ initialized
    /\ FeedTypeOK
    /\ PipelineInStep /\ KnownIsReported /\ LiveIsComplete

-----------------------------------------------------------------------------
\* The constructor's heartbeat leaves the window in a state of its invariant.
LEMMA FeedInitInv == FeedInit => FeedInv
<1> SUFFICES ASSUME FeedInit PROVE FeedInv
  OBVIOUS
<1> USE WidthAssumption, WindowAssumption, FeedAssumption, StreamAssumption DEF FeedInit
<1>1. IsFiniteSet(slots) /\ Cardinality(slots) = 0 /\ slots \subseteq Slot
  BY FS_EmptySet
<1>2. FirstSequence \in Sequences64 /\ 0 \in Sequences64 /\ FirstSequence \in Nat
      /\ FirstSequence > 0 /\ FirstSequence <= StreamEnd
  BY DEF Sequences64
<1>3. delivered \in Seq(Sequences64) /\ Len(delivered) = 0
  OBVIOUS
<1>4. current \in Walked /\ request \in Request
  BY <1>2 DEF Walked, Request, NoPacket
<1>5. /\ initialized \in BOOLEAN /\ has_pending_end \in BOOLEAN
      /\ request_outstanding \in BOOLEAN /\ unasked \in BOOLEAN
      /\ eos_seen \in BOOLEAN /\ ended \in BOOLEAN /\ initialized
      /\ ~has_pending_end /\ ~request_outstanding /\ ~unasked /\ ~eos_seen /\ ~ended
  OBVIOUS
<1>6. TypeOK
  BY <1>1, <1>2, <1>3, <1>4, <1>5 DEF TypeOK
<1>7. Inv
  BY <1>1, <1>2, <1>3, <1>5, <1>6 DEF Inv, WalkInRange, Unstarted, InOrderDelivery
<1>8. ~GapKnown(next_sequence, slots, gap_high_water, has_pending_end,
                pending_end_sequence)
  BY <1>5, NothingKnown
<1>9. Inv2
  BY <1>1, <1>2, <1>5, <1>8 DEF Inv2, WithinStream, Ahead, EndTracked, Fresh,
       NothingDeliverableBuffered, RequestIffGap
<1>10. started \in BOOLEAN /\ in_ingest \in BOOLEAN
  BY DEF Pipeline!PipelineInit
<1>11. FeedTypeOK
  BY <1>2, <1>10 DEF FeedTypeOK, States, Pipeline!PipelineInit
<1>12. PipelineInStep /\ KnownIsReported /\ LiveIsComplete
  BY <1>2, <1>5 DEF PipelineInStep, KnownIsReported, LiveIsComplete, Reported,
       Pipeline!PipelineInit
<1> QED
  BY <1>5, <1>7, <1>9, <1>11, <1>12 DEF FeedInv

-----------------------------------------------------------------------------
LEMMA AcceptIsIngest ==
    ASSUME NEW p \in Packets, FeedAccept(p)
    PROVE  Ingest(p) /\ ~IngestMalformed(p)
BY DEF FeedAccept, Ingest, IngestMalformed

\* Every step of the feed is a step of its window, or none.
LEMMA FeedStepsWindow ==
    ASSUME [FeedStep(Packets)]_feed
    PROVE  [Next]_vars
<1>1. CASE UNCHANGED feed
  BY <1>1 DEF feed
<1>2. CASE FeedStart \/ FeedCallbackReturns
  BY <1>2 DEF FeedStart, FeedCallbackReturns
<1>3. ASSUME NEW p \in Packets, FeedReject(p) \/ FeedAccept(p) PROVE [Next]_vars
  BY <1>3, AcceptIsIngest DEF FeedReject, Next
<1>4. CASE FeedMessage \/ FeedWindowStep
  BY <1>4 DEF FeedMessage, FeedWindowStep, Next
<1> QED
  BY <1>1, <1>2, <1>3, <1>4 DEF FeedStep

LEMMA ReportedStays ==
    ASSUME NEW n \in Nat, NEW position \in Nat, NEW high \in Nat, NEW later \in Nat,
           Reported(n, position, high), later >= high
    PROVE  Reported(n, position, later)
BY DEF Reported

LEMMA KnownNumbers ==
    ASSUME Inv, FeedTypeOK
    PROVE  /\ next \in Nat /\ high_water \in Nat
           /\ gap_high_water \in Nat /\ pending_end_sequence \in Nat
           /\ \A s \in slots : EndOf(s) \in Nat
BY WidthAssumption DEF FeedTypeOK, Inv, TypeOK, Sequences64, Slot, EndOf

\* A window that hands nothing over stays where it is.
LEMMA CursorStays ==
    ASSUME Inv, Inv', UNCHANGED <<base, delivered>>
    PROVE  cursor' = cursor
BY DEF Inv, InOrderDelivery

\* What a datagram changes in the window: at most what it carries is added,
\* and only if it lies beyond the expected message.
LEMMA AcceptOutcome ==
    ASSUME Inv, Inv2, initialized, NEW p \in Packets, FeedAccept(p)
    PROVE  /\ pc = "idle" /\ next_sequence = cursor
           /\ initialized' /\ UNCHANGED <<base, delivered>>
           /\ \/ UNCHANGED window
              \/ /\ p.first > next_sequence /\ p \in Datagram
                 /\ \A s \in slots' : s \in slots \/ EndOf(s) = p.first + Carried(p)
                 /\ gap_high_water' \in {gap_high_water, p.first}
                 /\ has_pending_end' =>
                      \/ has_pending_end /\ pending_end_sequence' = pending_end_sequence
                      \/ pending_end_sequence' = p.first
<1>1. pc = "idle" /\ next_sequence = cursor /\ p \in Datagram
  BY PacketsAssumption DEF FeedAccept, Inv, InOrderDelivery
<1>2. CASE IngestRejected(p) \/ IngestControl(p)
  <2>1. Adopt(p) /\ UNCHANGED <<window, delivered>>
    BY <1>2 DEF IngestRejected, IngestControl
  <2> QED
    BY <2>1, <1>1, AdoptKeeps
<1>3. CASE IngestData(p)
  BY <1>1, <1>3 DEF IngestData
<1>4. CASE IngestGapStored(p) \/ IngestGapRefused(p) \/ IngestGapHeartbeat(p)
           \/ IngestGapEnd(p)
  <2>1. NoteGap(p)
    BY <1>4 DEF IngestGapStored, IngestGapRefused, IngestGapHeartbeat, IngestGapEnd
  <2>2. /\ initialized' /\ UNCHANGED <<base, delivered>>
        /\ p.first > next_sequence
    BY <2>1, GapFrame, NoteGapFacts
  <2>3. gap_high_water' \in {gap_high_water, p.first}
    BY <2>1 DEF NoteGap
  <2>4. ASSUME NEW s \in slots' PROVE s \in slots \/ EndOf(s) = p.first + Carried(p)
    <3>1. CASE IngestGapStored(p)
      BY <3>1, <2>4, <1>1, DataCount DEF IngestGapStored, EndOf
    <3>2. CASE ~IngestGapStored(p)
      BY <3>2, <2>4, <1>4 DEF IngestGapRefused, IngestGapHeartbeat, IngestGapEnd
    <3> QED
      BY <3>1, <3>2
  <2>5. has_pending_end' =>
           \/ has_pending_end /\ pending_end_sequence' = pending_end_sequence
           \/ pending_end_sequence' = p.first
    BY <1>4 DEF IngestGapStored, IngestGapRefused, IngestGapHeartbeat, IngestGapEnd
  <2> QED
    BY <1>1, <2>2, <2>3, <2>4, <2>5
<1> QED
  BY <1>2, <1>3, <1>4 DEF FeedAccept

\* What the feed tells the pipeline about a datagram.
LEMMA ReportOutcome ==
    ASSUME FeedTypeOK, NEW p \in Datagram, NEW failed \in BOOLEAN, Report(p, failed)
    PROVE  /\ FeedTypeOK'
           /\ UNCHANGED <<next, applied, in_ingest>>
           /\ state' # "Faulted" => state # "Faulted"
           /\ high_water' >= high_water
           /\ state' = "Live" => state = "Live" /\ high_water' = high_water
           /\ state' # "Faulted" /\ p.first > next =>
                 high_water' + 1 >= p.first + Carried(p)
<1>1. p.first \in Nat /\ Carried(p) \in Nat /\ LastKnown(p) = p.first + Carried(p) - 1
  BY WidthAssumption DEF Datagram, Carried, Sequences64, LastKnown
<1>2. /\ UNCHANGED <<next, applied, in_ingest, started>>
  BY DEF Report
<1>3. started' \in BOOLEAN /\ in_ingest' \in BOOLEAN
  BY <1>2 DEF FeedTypeOK
<1>4. CASE p.first > next
  <2>1. LastKnown(p) >= next /\ LastKnown(p) \in Nat
    BY <1>1, <1>4 DEF FeedTypeOK
  <2>2. /\ high_water' = Pipeline!HighWaterAfterNote(LastKnown(p))
        /\ state' = IF failed THEN "Faulted" ELSE Pipeline!StateAfterNote(LastKnown(p))
    BY <1>4 DEF Report
  <2> QED
    BY <1>1, <1>2, <1>3, <2>1, <2>2
       DEF FeedTypeOK, States, Pipeline!HighWaterAfterNote, Pipeline!StateAfterNote,
           Pipeline!GapIsNews
<1>5. CASE ~(p.first > next)
  <2>1. high_water' = high_water /\ state' = IF failed THEN "Faulted" ELSE state
    BY <1>5 DEF Report
  <2> QED
    BY <1>2, <1>3, <1>5, <2>1 DEF FeedTypeOK, States
<1> QED
  BY <1>4, <1>5

LEMMA FeedAcceptInv ==
    ASSUME FeedInv, Inv', Inv2', NEW p \in Packets, FeedAccept(p)
    PROVE  FeedInv'
<1> USE DEF FeedInv
<1>1. p \in Datagram
  BY PacketsAssumption
<1>2. PICK failed \in BOOLEAN : Report(p, failed)
  BY DEF FeedAccept
<1>3. /\ pc = "idle" /\ next_sequence = cursor
      /\ initialized' /\ UNCHANGED <<base, delivered>>
  BY AcceptOutcome
<1>4. cursor' = cursor
  BY <1>3, CursorStays
<1>5. /\ FeedTypeOK'
      /\ UNCHANGED <<next, applied, in_ingest>>
      /\ state' # "Faulted" => state # "Faulted"
      /\ high_water' >= high_water
      /\ state' = "Live" => state = "Live" /\ high_water' = high_water
      /\ state' # "Faulted" /\ p.first > next =>
            high_water' + 1 >= p.first + Carried(p)
  BY <1>1, <1>2, ReportOutcome
<1>6. PipelineInStep' /\ LiveIsComplete'
  BY <1>3, <1>4, <1>5 DEF PipelineInStep, LiveIsComplete
<1>7. KnownIsReported'
  <2> SUFFICES ASSUME state' # "Faulted"
               PROVE  /\ \A s \in slots' : Reported(EndOf(s), next', high_water')
                      /\ Reported(gap_high_water', next', high_water')
                      /\ has_pending_end' =>
                           Reported(pending_end_sequence', next', high_water')
    BY DEF KnownIsReported, EndOf
  <2>1. state # "Faulted" /\ next = next_sequence
    BY <1>3, <1>5 DEF PipelineInStep
  <2>2. p.first \in Nat /\ Carried(p) \in Nat /\ high_water' \in Nat
    BY <1>1, <1>5, WidthAssumption DEF FeedTypeOK, Sequences64, Datagram, Carried
  <2>3. /\ \A s \in slots : Reported(EndOf(s), next', high_water')
        /\ Reported(gap_high_water, next', high_water')
        /\ has_pending_end => Reported(pending_end_sequence, next', high_water')
    <3>1. ASSUME NEW n \in Nat, Reported(n, next, high_water)
          PROVE  Reported(n, next', high_water')
      <4>1. next' = next /\ high_water' >= high_water /\ next \in Nat /\ high_water \in Nat
        BY <1>5, KnownNumbers
      <4> QED
        BY <3>1, <4>1, <2>2, ReportedStays
    <3> QED
      BY <3>1, <2>1, KnownNumbers DEF KnownIsReported
  <2>4. CASE UNCHANGED window
    BY <2>3, <2>4 DEF window
  <2>5. CASE p.first > next
    <3>1. /\ Reported(p.first, next', high_water')
          /\ Reported(p.first + Carried(p), next', high_water')
      BY <2>2, <2>5, <1>5, KnownNumbers DEF Reported
    <3> QED
      BY <3>1, <2>1, <2>3, <2>4, AcceptOutcome
  <2> QED
    BY <2>1, <2>4, <2>5, AcceptOutcome
<1> QED
  BY <1>3, <1>5, <1>6, <1>7

-----------------------------------------------------------------------------
\* on_message: a live or recovering pipeline takes the message as the next one.
LEMMA FeedMessageInv ==
    ASSUME FeedInv, Inv', Inv2', FeedMessage
    PROVE  FeedInv'
<1> USE DEF FeedInv
<1>1. PICK effect \in Pipeline!Effects : Pipeline!Ingest(cursor, effect)
  BY DEF FeedMessage
<1>2. /\ cursor' = cursor + 1 /\ delivered' = Append(delivered, cursor)
      /\ UNCHANGED window /\ initialized'
      /\ cursor \in Nat /\ cursor < SeqMax
  BY WidthAssumption DEF FeedMessage, DeliverMessage, tracker, Inv, TypeOK, WalkInRange,
     Sequences64, EndOf, Walked
<1>3. started' \in BOOLEAN
  BY <1>1 DEF FeedTypeOK, Pipeline!Ingest, Pipeline!IngestRefused, Pipeline!IngestDuplicate,
       Pipeline!IngestGap, Pipeline!IngestError, Pipeline!IngestApply, Pipeline!Invalidate,
       Pipeline!pipeline
<1>4. CASE Pipeline!IngestApply(cursor, effect)
  <2>1. /\ state # "Faulted" /\ cursor = next /\ next' = next + 1
        /\ applied' = Append(applied, cursor) /\ high_water' = high_water
        /\ state' = IF Pipeline!Recovered THEN "Live" ELSE state
    BY <1>4 DEF Pipeline!IngestApply, Pipeline!Accepts
  <2>2. in_ingest' \in BOOLEAN
    BY <1>4 DEF Pipeline!IngestApply
  <2>3. FeedTypeOK' /\ PipelineInStep'
    BY <2>1, <2>2, <1>2, <1>3 DEF FeedTypeOK, States, PipelineInStep
  <2>4. LiveIsComplete'
    BY <2>1 DEF LiveIsComplete, Pipeline!Recovered, FeedTypeOK
  <2>5. KnownIsReported'
    BY <2>1, <1>2, KnownNumbers DEF KnownIsReported, Reported, window, EndOf
  <2> QED
    BY <1>2, <2>3, <2>4, <2>5
<1>5. CASE ~Pipeline!IngestApply(cursor, effect)
  <2>1. state = "Faulted" \/ cursor = next
    BY DEF PipelineInStep
  <2>2. ~Pipeline!IngestDuplicate(cursor) /\ ~Pipeline!IngestGap(cursor)
    BY <2>1, <1>2 DEF Pipeline!IngestDuplicate, Pipeline!IngestGap, Pipeline!Accepts
  <2>3. Pipeline!Invalidate
    BY <2>2, <1>1, <1>5 DEF Pipeline!Ingest, Pipeline!IngestRefused, Pipeline!IngestError
  <2> QED
    BY <2>3, <1>2, <1>3 DEF Pipeline!Invalidate, FeedTypeOK, States, PipelineInStep,
         KnownIsReported, LiveIsComplete
<1> QED
  BY <1>4, <1>5

\* The rest of the window's ingest only forgets.
LEMMA FeedWindowStepInv ==
    ASSUME FeedInv, Inv', Inv2', FeedWindowStep
    PROVE  FeedInv'
<1> USE DEF FeedInv
<1>1. CASE FinishDrain /\ EndDue /\ Pipeline!Invalidate
  BY <1>1 DEF FinishDrain, tracker, Pipeline!Invalidate, FeedTypeOK, States, PipelineInStep,
       KnownIsReported, LiveIsComplete
<1>2. CASE (CommitPacket \/ DrainSlot \/ FinishDrain) /\ UNCHANGED pipeline
  <2>1. UNCHANGED <<state, next, high_water, started, in_ingest, applied>>
    BY <1>2 DEF pipeline
  <2>2. initialized' /\ UNCHANGED <<base, delivered>>
    BY <1>2 DEF CommitPacket, DrainSlot, FinishDrain, tracker
  <2>3. cursor' = cursor
    BY <2>2, CursorStays
  <2>4. /\ slots' \subseteq slots /\ gap_high_water' \in {gap_high_water, 0}
        /\ pending_end_sequence' = pending_end_sequence
    BY <1>2 DEF CommitPacket, DrainSlot, FinishDrain, window
  <2>5. has_pending_end' => has_pending_end
    BY <1>2 DEF CommitPacket, DrainSlot, FinishDrain, window
  <2>6. KnownIsReported'
    BY <2>1, <2>4, <2>5 DEF KnownIsReported, Reported, FeedTypeOK, EndOf
  <2> QED
    BY <2>1, <2>2, <2>3, <2>6 DEF FeedTypeOK, PipelineInStep, LiveIsComplete
<1> QED
  BY <1>1, <1>2 DEF FeedWindowStep

LEMMA FeedNextInv == FeedInv /\ [FeedStep(Packets)]_feed => FeedInv'
<1> SUFFICES ASSUME FeedInv, [FeedStep(Packets)]_feed PROVE FeedInv'
  OBVIOUS
<1>1. Inv' /\ Inv2'
  BY FeedStepsWindow, NextInv, NextInv2 DEF FeedInv
<1>2. CASE UNCHANGED feed \/ FeedStart \/ FeedCallbackReturns
           \/ \E p \in Packets : FeedReject(p)
  <2>1. UNCHANGED <<initialized, cursor, delivered, slots, gap_high_water,
                    has_pending_end, pending_end_sequence, next, high_water, applied>>
    BY <1>2 DEF feed, pipeline, vars, tracker, window, control, walk, FeedStart, Pipeline!Start,
         FeedCallbackReturns, Pipeline!CallbackReturns, FeedReject, Pipeline!Invalidate
  <2>2. started' \in BOOLEAN /\ in_ingest' \in BOOLEAN
    BY <1>2 DEF FeedInv, FeedTypeOK, feed, pipeline, FeedStart, Pipeline!Start,
         FeedCallbackReturns, Pipeline!CallbackReturns, FeedReject, Pipeline!Invalidate
  <2>3. state' \in {state, "Faulted"}
    BY <1>2 DEF feed, pipeline, FeedStart, Pipeline!Start,
         FeedCallbackReturns, Pipeline!CallbackReturns, FeedReject, Pipeline!Invalidate
  <2> QED
    BY <1>1, <2>1, <2>2, <2>3 DEF FeedInv, FeedTypeOK, States, PipelineInStep,
         KnownIsReported, LiveIsComplete, EndOf
<1>3. ASSUME NEW p \in Packets, FeedAccept(p) PROVE FeedInv'
  BY <1>1, <1>3, FeedAcceptInv
<1>4. CASE FeedMessage \/ FeedWindowStep
  BY <1>1, <1>4, FeedMessageInv, FeedWindowStepInv
<1> QED
  BY <1>2, <1>3, <1>4 DEF FeedStep

\* The window's invariants hold inside the feed, and all the window knows of is
\* known to the pipeline too.
THEOREM FeedInvariance == FeedSpec => []FeedInv
BY FeedInitInv, FeedNextInv, PTL DEF FeedSpec

\* Window and pipeline never disagree about the next message: until the feed
\* faults the pipeline has applied exactly what the window has handed over.
THEOREM CountersInStep == FeedSpec => []PipelineInStep
<1>1. FeedInv => PipelineInStep
  BY DEF FeedInv
<1> QED
  BY <1>1, FeedInvariance, PTL

\* The strategy only runs while nothing the window holds or was told of is
\* missing from the book.
THEOREM NoKnownGapInCallback == FeedSpec => []StrategySeesNoKnownGap
<1>1. FeedInv => StrategySeesNoKnownGap
  <2> SUFFICES ASSUME FeedInv, state = "Live"
               PROVE  /\ \A s \in slots : EndOf(s) <= next
                      /\ gap_high_water <= next
                      /\ has_pending_end => pending_end_sequence <= next
    BY DEF StrategySeesNoKnownGap
  <2>1. high_water < next
    BY DEF FeedInv, LiveIsComplete
  <2> QED
    BY <2>1, KnownNumbers DEF FeedInv, KnownIsReported, Reported
<1> QED
  BY <1>1, FeedInvariance, PTL

-----------------------------------------------------------------------------
(***************************************************************************)
(* A feed that waits has asked.  note_gap counts the messages of a packet  *)
(* that store() then refuses as a duplicate, so this needs packets whose   *)
(* boundaries do not change when they are sent again: two data packets     *)
(* that start at the same message carry the same number of messages.       *)
(* (Packets may still overlap.)                                            *)
(***************************************************************************)
DataOf(p) == WellFormed(p) /\ p.session = FeedSession /\ Kind(p) = "data"

SameBoundaries(sent) ==
    \A p \in sent, q \in sent :
        DataOf(p) /\ DataOf(q) /\ p.first = q.first => p.count = q.count

(***************************************************************************)
(* The invariant.  KnownIsReported says that the pipeline knows of all the *)
(* window knows; this is the converse.  The last message the pipeline      *)
(* waits for lies in a slot, in the packet being walked, before the        *)
(* announced sequence or before the pending end, so that between two       *)
(* calls the window sees the gap too and has asked.  A slot is a packet    *)
(* that was sent, so a refused duplicate is in the window to its end; a    *)
(* datagram refused for capacity has faulted the pipeline.                 *)
(***************************************************************************)
IsSent(s, sent) == \E p \in sent : DataOf(p) /\ p.first = s.first /\ p.count = s.count

Sourced(sent) ==
    /\ \A s \in slots : IsSent(s, sent)
    /\ pc = "deliver" => IsSent(current, sent)

Covers(high) ==
    \/ \E s \in slots : high < EndOf(s)
    \/ high < gap_high_water
    \/ has_pending_end /\ high < pending_end_sequence
    \/ pc = "deliver" /\ high < EndOf(current)

RefusalFaults == unasked => state = "Faulted"

WaitsForKnown == state = "Recovering" => high_water >= next /\ Covers(high_water)

AskInv(sent) == Sourced(sent) /\ RefusalFaults /\ WaitsForKnown

LEMMA AskInit ==
    ASSUME NEW sent, FeedInit
    PROVE  AskInv(sent)
BY DEF FeedInit, Pipeline!PipelineInit, AskInv, Sourced, RefusalFaults, WaitsForKnown

\* Between two calls, what the pipeline waits for is a gap the window knows of.
LEMMA AskMeans ==
    ASSUME NEW sent, FeedInv, AskInv(sent)
    PROVE  RecoveringHasRequest
<1> SUFFICES ASSUME pc = "idle", state = "Recovering" PROVE request_outstanding
  BY DEF RecoveringHasRequest
<1>1. next = next_sequence
  BY DEF FeedInv, PipelineInStep, Inv, InOrderDelivery
<1>2. high_water >= next /\ Covers(high_water) /\ ~unasked
  BY DEF AskInv, RefusalFaults, WaitsForKnown
<1>3. /\ next_sequence \in Sequences64 /\ slots \in SUBSET Slot
      /\ gap_high_water \in Sequences64 /\ has_pending_end \in BOOLEAN
      /\ pending_end_sequence \in Sequences64
  BY DEF FeedInv, Inv, TypeOK
<1>4. /\ gap_high_water = 0 \/ gap_high_water > next_sequence
      /\ has_pending_end => pending_end_sequence > next_sequence
  BY <1>3, StreamAssumption, WidthAssumption
     DEF FeedInv, Inv2, Ahead, WithinStream, Sequences64
<1>5. gap_high_water # 0 \/ has_pending_end \/ \E s \in slots : s.first > next_sequence
  <2>1. ASSUME NEW s \in slots, high_water < EndOf(s) PROVE s.first > next_sequence
    <3>1. EndOf(s) > next_sequence
      BY <2>1, <1>1, <1>2, KnownNumbers DEF FeedInv
    <3>2. ~(s.first <= next_sequence /\ next_sequence < EndOf(s))
      BY DEF FeedInv, Inv2, NothingDeliverableBuffered
    <3>3. s.first \in Nat /\ next_sequence \in Nat /\ EndOf(s) \in Nat
      BY <1>3, WidthAssumption, KnownNumbers DEF Slot, Sequences64, FeedInv
    <3> QED
      BY <3>1, <3>2, <3>3
  <2>2. high_water < gap_high_water => gap_high_water # 0
    BY KnownNumbers DEF FeedInv
  <2> QED
    BY <1>2, <2>1, <2>2 DEF Covers
<1>6. GapKnown(next_sequence, slots, gap_high_water, has_pending_end,
               pending_end_sequence)
  BY <1>3, <1>4, <1>5, GapKnownMeaning
<1> QED
  BY <1>2, <1>6 DEF FeedInv, Inv2, RequestIffGap

\* What the feed tells a pipeline that does not fault: nothing, or the last
\* message that the datagram carries or announces.
LEMMA ReportExact ==
    ASSUME FeedTypeOK, LiveIsComplete, NEW p \in Datagram, NEW failed \in BOOLEAN,
           Report(p, failed), state' # "Faulted"
    PROVE  /\ failed = FALSE /\ next' = next /\ state # "Faulted"
           /\ ~(p.first > next) => state' = state /\ high_water' = high_water
           /\ p.first > next =>
                /\ high_water' >= next
                /\ \/ state = "Recovering" /\ high_water' = high_water
                   \/ high_water' = p.first + Carried(p) - 1
<1>1. p.first \in Nat /\ Carried(p) \in Nat /\ LastKnown(p) = p.first + Carried(p) - 1
  BY WidthAssumption DEF Datagram, Carried, Sequences64, LastKnown
<1>2. next' = next /\ ~failed
  BY DEF Report
<1>3. next \in Nat /\ high_water \in Nat /\ state \in States
  BY DEF FeedTypeOK
<1>4. CASE p.first > next
  <2>1. LastKnown(p) >= next /\ LastKnown(p) \in Nat
    BY <1>1, <1>3, <1>4
  <2>2. /\ high_water' = Pipeline!HighWaterAfterNote(LastKnown(p))
        /\ state' = Pipeline!StateAfterNote(LastKnown(p))
    BY <1>2, <1>4 DEF Report
  <2>3. state # "Faulted"
    BY <2>2 DEF Pipeline!StateAfterNote, Pipeline!GapIsNews
  <2>4. high_water' = IF LastKnown(p) > high_water THEN LastKnown(p) ELSE high_water
    BY <2>1, <2>2, <2>3 DEF Pipeline!HighWaterAfterNote, Pipeline!GapIsNews
  <2>5. state = "Live" => LastKnown(p) > high_water
    BY <2>1, <1>3 DEF LiveIsComplete
  <2> QED
    BY <1>1, <1>2, <1>3, <1>4, <2>1, <2>3, <2>4, <2>5 DEF States
<1>5. CASE ~(p.first > next)
  BY <1>2, <1>5 DEF Report
<1> QED
  BY <1>2, <1>4, <1>5

\* What the window covers, it covers when more is added to it.
LEMMA CoversMore ==
    ASSUME NEW high \in Nat, Covers(high), Inv, gap_high_water' \in Nat,
           slots \subseteq slots', gap_high_water' >= gap_high_water,
           has_pending_end => has_pending_end'
                              /\ pending_end_sequence' = pending_end_sequence,
           UNCHANGED <<pc, current>>
    PROVE  Covers(high)'
<1>1. CASE \E s \in slots : high < EndOf(s)
  BY <1>1 DEF Covers, EndOf
<1>2. CASE high < gap_high_water
  <2>1. gap_high_water \in Nat
    BY WidthAssumption DEF Inv, TypeOK, Sequences64
  <2>2. high < gap_high_water'
    BY <1>2, <2>1
  <2> QED
    BY <2>2 DEF Covers
<1>3. CASE has_pending_end /\ high < pending_end_sequence
  BY <1>3 DEF Covers
<1>4. CASE pc = "deliver" /\ high < EndOf(current)
  BY <1>4 DEF Covers, EndOf
<1> QED
  BY <1>1, <1>2, <1>3, <1>4 DEF Covers

\* A gap packet: the window keeps what it had, and unless the packet is
\* refused for capacity it covers all that the packet carries or announces.
LEMMA GapCovers ==
    ASSUME NEW sent \in SUBSET Packets, SameBoundaries(sent), FeedInv, FeedInv',
           Sourced(sent), NEW p \in sent, WellFormed(p), p.session = FeedSession,
           \/ IngestGapStored(p) \/ IngestGapHeartbeat(p) \/ IngestGapEnd(p)
           \/ IngestGapRefused(p) /\ StoreResult(p) = "duplicate"
    PROVE  /\ Sourced(sent)' /\ (unasked' => unasked)
           /\ \A high \in Nat : Covers(high) => Covers(high)'
           /\ \A high \in Nat : high < p.first + Carried(p) => Covers(high)'
<1>1. p \in Packets /\ p \in Datagram /\ NoteGap(p)
  BY PacketsAssumption
     DEF IngestGapStored, IngestGapHeartbeat, IngestGapEnd, IngestGapRefused
<1>2. UNCHANGED <<pc, current>>
  BY <1>1 DEF NoteGap
<1>3. /\ gap_high_water \in Nat /\ gap_high_water' \in Nat /\ p.first \in Nat
      /\ Carried(p) \in Nat
  BY <1>1, WidthAssumption DEF FeedInv, Inv, TypeOK, Sequences64, Datagram, Carried
<1>4. gap_high_water' >= gap_high_water /\ gap_high_water' >= p.first
  BY <1>1, <1>3 DEF NoteGap
<1>5. unasked' => unasked
  BY DEF IngestGapStored, IngestGapHeartbeat, IngestGapEnd, IngestGapRefused
<1>6. slots \subseteq slots'
  BY DEF IngestGapStored, IngestGapHeartbeat, IngestGapEnd, IngestGapRefused
<1>7. has_pending_end => has_pending_end' /\ pending_end_sequence' = pending_end_sequence
  <2>1. CASE IngestGapEnd(p)
    <3>1. p.first = StreamEnd
      BY <1>1, <2>1, GapFrame DEF FeedInv, IngestGapEnd
    <3>2. has_pending_end => pending_end_sequence = StreamEnd
      BY DEF FeedInv, Inv2, WithinStream
    <3> QED
      BY <2>1, <3>1, <3>2 DEF IngestGapEnd
  <2>2. CASE ~IngestGapEnd(p)
    BY <2>2 DEF IngestGapStored, IngestGapHeartbeat, IngestGapRefused
  <2> QED
    BY <2>1, <2>2
<1>8. ASSUME NEW high \in Nat, Covers(high) PROVE Covers(high)'
  BY <1>8, <1>2, <1>3, <1>4, <1>6, <1>7, CoversMore DEF FeedInv
<1>9. Sourced(sent)'
  <2>1. ASSUME NEW s \in slots' PROVE IsSent(s, sent)
    <3>1. CASE s \in slots
      BY <3>1 DEF Sourced
    <3>2. CASE s \notin slots
      <4>1. Kind(p) = "data" /\ s = [first |-> p.first, count |-> p.count]
        BY <3>2, <2>1 DEF IngestGapStored, IngestGapHeartbeat, IngestGapEnd, IngestGapRefused
      <4> QED
        BY <4>1 DEF IsSent, DataOf
    <3> QED
      BY <3>1, <3>2
  <2>2. pc' = "deliver" => IsSent(current', sent)
    BY <1>2 DEF Sourced
  <2> QED
    BY <2>1, <2>2 DEF Sourced, IsSent, DataOf
<1>10. ASSUME NEW high \in Nat, high < p.first + Carried(p) PROVE Covers(high)'
  <2>1. CASE Kind(p) # "data"
    <3>1. Carried(p) = 0
      BY <2>1 DEF Carried
    <3>2. high < gap_high_water'
      BY <3>1, <1>3, <1>4, <1>10
    <3> QED
      BY <3>2 DEF Covers
  <2>2. CASE Kind(p) = "data"
    <3>1. Carried(p) = p.count /\ DataOf(p)
      BY <2>2, <1>1, DataCount DEF DataOf
    <3>2. \E s \in slots' : s.first = p.first /\ s.count = p.count
      <4>1. CASE IngestGapStored(p)
        <5>1. PICK s : s = [first |-> p.first, count |-> p.count]
          OBVIOUS
        <5>2. s \in slots'
          BY <4>1, <5>1 DEF IngestGapStored
        <5> QED
          BY <5>1, <5>2
      <4>2. CASE IngestGapRefused(p) /\ StoreResult(p) = "duplicate"
        <5>1. PICK s \in slots : s.first = p.first
          BY <4>2 DEF StoreResult
        <5>2. PICK q \in sent : DataOf(q) /\ q.first = s.first /\ q.count = s.count
          BY DEF Sourced, IsSent
        <5>3. q.count = p.count
          BY <3>1, <5>1, <5>2 DEF SameBoundaries
        <5> QED
          BY <1>6, <5>1, <5>2, <5>3
      <4> QED
        BY <4>1, <4>2, <2>2 DEF IngestGapHeartbeat, IngestGapEnd
    <3>3. PICK s \in slots' : s.first = p.first /\ s.count = p.count
      BY <3>2
    <3>4. high < s.first + s.count
      BY <3>1, <3>3, <1>10
    <3> QED
      BY <3>4 DEF Covers, EndOf
  <2> QED
    BY <2>1, <2>2
<1> QED
  BY <1>5, <1>8, <1>9, <1>10

\* A datagram that the feed accepts or refuses.
LEMMA AskAccept ==
    ASSUME NEW sent \in SUBSET Packets, SameBoundaries(sent), FeedInv, FeedInv',
           AskInv(sent), NEW p \in sent, FeedAccept(p)
    PROVE  AskInv(sent)'
<1>1. /\ p \in Packets /\ p \in Datagram /\ WellFormed(p) /\ p.session = FeedSession
      /\ pc = "idle" /\ next_sequence \in Nat
      /\ state # "Faulted" => next = next_sequence
  BY PacketsAssumption, WidthAssumption DEF FeedAccept, FeedInv, PipelineInStep, Inv,
     InOrderDelivery, TypeOK, Sequences64
<1>2. p.first \in Nat /\ Carried(p) \in Nat /\ high_water \in Nat /\ high_water' \in Nat
  BY <1>1, WidthAssumption DEF Datagram, Sequences64, Carried, FeedInv, FeedTypeOK
\* The window takes no notice, or starts to walk the packet.
<1>3. ASSUME UNCHANGED <<slots, gap_high_water, has_pending_end, pending_end_sequence,
                         unasked>>,
             NEW failed \in BOOLEAN, Report(p, failed),
             p.first > next_sequence => failed = TRUE,
             pc' = "deliver" => IsSent(current', sent)
      PROVE  AskInv(sent)'
  <2>1. Sourced(sent)'
    BY <1>3 DEF AskInv, Sourced, IsSent, DataOf
  <2>2. state' # "Faulted" =>
          /\ state # "Faulted" /\ next' = next /\ state' = state
          /\ high_water' = high_water
    BY <1>1, <1>3, ReportExact DEF FeedInv
  <2>3. RefusalFaults'
    BY <2>2, <1>3 DEF AskInv, RefusalFaults
  <2>4. WaitsForKnown'
    BY <1>1, <1>3, <2>2 DEF AskInv, WaitsForKnown, Covers, EndOf
  <2> QED
    BY <2>1, <2>3, <2>4 DEF AskInv
\* A packet beyond a gap.
<1>4. ASSUME NEW failed \in BOOLEAN, Report(p, failed), Sourced(sent)',
             unasked' => unasked,
             \A high \in Nat : Covers(high) => Covers(high)',
             \A high \in Nat : high < p.first + Carried(p) => Covers(high)'
      PROVE  AskInv(sent)'
  <2>1. RefusalFaults'
    BY <1>1, <1>4, ReportExact DEF AskInv, RefusalFaults, FeedInv
  <2>2. ASSUME state' = "Recovering" PROVE high_water' >= next' /\ Covers(high_water)'
    <3>1. /\ next' = next /\ state # "Faulted"
          /\ ~(p.first > next) => state' = state /\ high_water' = high_water
          /\ p.first > next =>
                /\ high_water' >= next
                /\ \/ state = "Recovering" /\ high_water' = high_water
                   \/ high_water' = p.first + Carried(p) - 1
      BY <1>1, <1>4, <2>2, ReportExact DEF FeedInv
    <3>2. CASE state = "Recovering" /\ high_water' = high_water
      <4>1. high_water >= next /\ Covers(high_water)
        BY <3>2 DEF AskInv, WaitsForKnown
      <4>2. Covers(high_water)'
        <5>1. PICK high \in Nat : high = high_water
          BY <1>2
        <5>2. Covers(high)' /\ high = high_water'
          BY <1>4, <3>2, <4>1, <5>1
        <5> QED
          BY <5>2 DEF Covers
      <4> QED
        BY <4>1, <4>2, <3>1, <3>2
    <3>3. CASE high_water' = p.first + Carried(p) - 1 /\ high_water' >= next
      <4>1. PICK high \in Nat : high = high_water'
        BY <1>2
      <4>2. high < p.first + Carried(p)
        BY <4>1, <3>3, <1>2
      <4>3. Covers(high)'
        BY <1>4, <4>2
      <4> QED
        BY <4>1, <4>3, <3>1, <3>3 DEF Covers
    <3> QED
      BY <3>1, <3>2, <3>3, <2>2
  <2> QED
    BY <1>4, <2>1, <2>2 DEF AskInv, WaitsForKnown
<1>5. CASE IngestRejected(p) /\ Report(p, Decision(p) # "duplicate")
  <2>1. /\ UNCHANGED <<slots, gap_high_water, has_pending_end, pending_end_sequence,
                       unasked>>
        /\ pc' = "idle"
    BY <1>5 DEF IngestRejected, window
  <2>2. p.first > next_sequence => Decision(p) # "duplicate"
    BY <1>1, <1>2 DEF Decision, SequenceState, Expected, FeedInv
  <2>3. PICK failed \in BOOLEAN : failed = (Decision(p) # "duplicate")
    OBVIOUS
  <2>4. Report(p, failed) /\ (p.first > next_sequence => failed = TRUE)
    BY <1>5, <2>2, <2>3
  <2> HIDE DEF AskInv
  <2> QED
    BY <1>3, <2>1, <2>4
<1>6. CASE /\ IngestGapStored(p) \/ IngestGapHeartbeat(p) \/ IngestGapEnd(p)
           /\ Report(p, FALSE)
  BY <1>1, <1>4, <1>6, GapCovers DEF AskInv
<1>7. CASE IngestGapRefused(p) /\ Report(p, StoreResult(p) # "duplicate")
  <2>1. CASE StoreResult(p) = "duplicate"
    BY <1>1, <1>4, <1>7, <2>1, GapCovers DEF AskInv
  <2>2. CASE StoreResult(p) # "duplicate"
    <3>1. state' = "Faulted"
      BY <1>7, <2>2 DEF Report
    <3>2. UNCHANGED <<slots, pc, current>>
      BY <1>7 DEF IngestGapRefused, NoteGap
    <3> QED
      BY <3>1, <3>2 DEF AskInv, RefusalFaults, WaitsForKnown, Sourced, IsSent, DataOf
  <2> QED
    BY <2>1, <2>2
<1>8. CASE IngestControl(p) /\ Report(p, Kind(p) = "end_of_session")
  <2>1. /\ UNCHANGED <<slots, gap_high_water, has_pending_end, pending_end_sequence,
                       unasked>>
        /\ pc' = "idle"
    BY <1>8 DEF IngestControl, window
  <2>2. ~(p.first > next_sequence)
    BY <1>1, <1>2, <1>8 DEF IngestControl, MayProcess, Decision, SequenceState, Expected, FeedInv
  <2>3. PICK failed \in BOOLEAN : failed = (Kind(p) = "end_of_session")
    OBVIOUS
  <2>4. Report(p, failed)
    BY <1>8, <2>3
  <2> QED
    BY <1>3, <2>1, <2>2, <2>4
<1>9. CASE IngestData(p) /\ Report(p, FALSE)
  <2>1. /\ UNCHANGED <<slots, gap_high_water, has_pending_end, pending_end_sequence,
                       unasked>>
        /\ current'.first = p.first /\ current'.count = p.count
    BY <1>9 DEF IngestData, window, StartWalk
  <2>2. ~(p.first > next_sequence)
    BY <1>1, <1>2, <1>9 DEF IngestData, MayProcess, Decision, SequenceState, Expected, FeedInv
  <2>3. IsSent(current', sent)
    BY <1>1, <1>9, <2>1 DEF IngestData, IsSent, DataOf
  <2> QED
    BY <1>3, <1>9, <2>1, <2>2, <2>3
<1> QED
  BY <1>5, <1>6, <1>7, <1>8, <1>9 DEF FeedAccept

\* A message that is applied and does not end the recovery leaves some to come.
LEMMA AskMessage ==
    ASSUME NEW sent, FeedInv, AskInv(sent), FeedMessage
    PROVE  AskInv(sent)'
<1>1. PICK effect \in Pipeline!Effects : Pipeline!Ingest(cursor, effect)
  BY DEF FeedMessage
<1>2. UNCHANGED <<window, pc, current>> /\ cursor \in Nat
  BY WidthAssumption DEF FeedMessage, DeliverMessage, FeedInv, Inv, TypeOK, Sequences64
<1>3. Sourced(sent)'
  BY <1>2 DEF AskInv, Sourced, IsSent, DataOf, window
<1>4. CASE Pipeline!IngestApply(cursor, effect)
  <2>1. /\ state # "Faulted" /\ next' = next + 1 /\ high_water' = high_water
        /\ state' = IF Pipeline!Recovered THEN "Live" ELSE state
    BY <1>4 DEF Pipeline!IngestApply, Pipeline!Accepts
  <2>2. state' = "Recovering" => state = "Recovering" /\ high_water' >= next'
    BY <2>1 DEF Pipeline!Recovered, FeedInv, FeedTypeOK
  <2>3. WaitsForKnown'
    BY <2>1, <2>2, <1>2 DEF AskInv, WaitsForKnown, Covers, EndOf, window
  <2>4. RefusalFaults'
    BY <2>1, <1>2 DEF AskInv, RefusalFaults, window
  <2> QED
    BY <1>3, <2>3, <2>4 DEF AskInv
<1>5. CASE ~Pipeline!IngestApply(cursor, effect)
  <2>1. state = "Faulted" \/ cursor = next
    BY DEF FeedInv, PipelineInStep
  <2>2. ~Pipeline!IngestDuplicate(cursor) /\ ~Pipeline!IngestGap(cursor)
    BY <2>1, <1>2 DEF Pipeline!IngestDuplicate, Pipeline!IngestGap, Pipeline!Accepts
  <2>3. state' = "Faulted"
    BY <2>2, <1>1, <1>5 DEF Pipeline!Ingest, Pipeline!IngestRefused, Pipeline!IngestError,
         Pipeline!Invalidate
  <2> QED
    BY <1>3, <2>3 DEF AskInv, WaitsForKnown, RefusalFaults
<1> QED
  BY <1>4, <1>5

\* commit, drain and its end forget only what has been handed over.
LEMMA AskWindowStep ==
    ASSUME NEW sent \in SUBSET Packets, SameBoundaries(sent), FeedInv, AskInv(sent),
           FeedWindowStep
    PROVE  AskInv(sent)'
<1>1. /\ next \in Nat /\ high_water \in Nat
      /\ gap_high_water \in Nat /\ pending_end_sequence \in Nat
      /\ \A s \in slots : EndOf(s) \in Nat
  BY KnownNumbers DEF FeedInv
<1>2. CASE CommitPacket /\ UNCHANGED pipeline
  <2>1. /\ pc = "deliver" /\ cursor = EndOf(current) /\ pc' = "drain"
        /\ slots' = IF current.buffered
                    THEN {s \in slots : s.first # current.first} ELSE slots
        /\ UNCHANGED <<gap_high_water, has_pending_end, pending_end_sequence, unasked,
                       state, next, high_water>>
    BY <1>2 DEF CommitPacket, pipeline
  <2>2. Sourced(sent)'
    BY <2>1 DEF AskInv, Sourced, IsSent, DataOf
  <2>3. RefusalFaults'
    BY <2>1 DEF AskInv, RefusalFaults
  <2>4. ASSUME state = "Recovering" PROVE Covers(high_water)'
    <3>1. next = EndOf(current)
      BY <2>1, <2>4 DEF FeedInv, PipelineInStep
    <3>2. high_water >= next /\ Covers(high_water)
      BY <2>4 DEF AskInv, WaitsForKnown
    <3>3. ~(high_water < EndOf(current))
      BY <1>1, <3>1, <3>2
    <3>4. ASSUME NEW s \in slots, high_water < EndOf(s) PROVE s \in slots'
      <4>1. PICK p \in sent : DataOf(p) /\ p.first = s.first /\ p.count = s.count
        BY DEF AskInv, Sourced, IsSent
      <4>2. PICK q \in sent : DataOf(q) /\ q.first = current.first /\ q.count = current.count
        BY <2>1 DEF AskInv, Sourced, IsSent
      <4>3. s.first = current.first => EndOf(s) = EndOf(current)
        BY <4>1, <4>2 DEF SameBoundaries, EndOf
      <4> QED
        BY <2>1, <3>3, <3>4, <4>3
    <3> QED
      BY <2>1, <3>2, <3>3, <3>4 DEF Covers, EndOf
  <2>5. WaitsForKnown'
    BY <2>1, <2>4 DEF AskInv, WaitsForKnown
  <2> QED
    BY <2>2, <2>3, <2>5 DEF AskInv
<1>3. CASE DrainSlot /\ UNCHANGED pipeline
  <2>1. /\ pc = "drain" /\ UNCHANGED window /\ UNCHANGED <<state, next, high_water>>
    BY <1>3 DEF DrainSlot, pipeline
  <2>2. PICK s \in slots : current'.first = s.first /\ current'.count = s.count
    BY <1>3 DEF DrainSlot, Candidates, StartWalk
  <2>3. Sourced(sent)'
    BY <2>1, <2>2 DEF AskInv, Sourced, IsSent, DataOf, window
  <2>4. RefusalFaults' /\ WaitsForKnown'
    BY <2>1 DEF AskInv, RefusalFaults, WaitsForKnown, Covers, EndOf, window
  <2> QED
    BY <2>3, <2>4 DEF AskInv
<1>4. CASE FinishDrain /\ ~EndDue /\ UNCHANGED pipeline
  <2>1. /\ pc = "drain" /\ pc' = "idle"
        /\ unasked' = FALSE /\ UNCHANGED <<slots, pending_end_sequence, state, next, high_water>>
        /\ gap_high_water' = IF next_sequence >= gap_high_water THEN 0 ELSE gap_high_water
    BY <1>4 DEF FinishDrain, pipeline
  <2>2. has_pending_end => has_pending_end'
    BY <1>4 DEF FinishDrain
  <2>3. Sourced(sent)' /\ RefusalFaults'
    BY <2>1 DEF AskInv, Sourced, IsSent, DataOf, RefusalFaults
  <2>4. ASSUME state = "Recovering" PROVE Covers(high_water)'
    <3>1. next = next_sequence
      BY <2>1, <2>4 DEF FeedInv, PipelineInStep, Inv, InOrderDelivery
    <3>2. high_water >= next /\ Covers(high_water)
      BY <2>4 DEF AskInv, WaitsForKnown
    <3>3. high_water < gap_high_water => gap_high_water' = gap_high_water
      BY <1>1, <2>1, <3>1, <3>2
    <3> QED
      BY <2>1, <2>2, <3>2, <3>3 DEF Covers, EndOf
  <2>5. WaitsForKnown'
    BY <2>1, <2>4 DEF AskInv, WaitsForKnown
  <2> QED
    BY <2>3, <2>5 DEF AskInv
<1>5. CASE FinishDrain /\ Pipeline!Invalidate
  <2>1. state' = "Faulted" /\ slots' = slots /\ pc' = "idle"
    BY <1>5 DEF FinishDrain, Pipeline!Invalidate
  <2> QED
    BY <2>1 DEF AskInv, Sourced, IsSent, DataOf, RefusalFaults, WaitsForKnown
<1> QED
  BY <1>2, <1>3, <1>4, <1>5 DEF FeedWindowStep

\* Fewer datagrams give fewer steps.
LEMMA FewerSteps ==
    ASSUME NEW sent \in SUBSET Packets, [FeedStep(sent)]_feed
    PROVE  [FeedStep(Packets)]_feed
BY DEF FeedStep

LEMMA AskNext ==
    ASSUME NEW sent \in SUBSET Packets, SameBoundaries(sent)
    PROVE  FeedInv /\ AskInv(sent) /\ [FeedStep(sent)]_feed => FeedInv' /\ AskInv(sent)'
<1> SUFFICES ASSUME FeedInv, AskInv(sent), [FeedStep(sent)]_feed
             PROVE  FeedInv' /\ AskInv(sent)'
  OBVIOUS
<1>1. FeedInv'
  BY FewerSteps, FeedNextInv
<1>2. CASE UNCHANGED feed \/ FeedStart \/ FeedCallbackReturns
           \/ \E p \in sent : FeedReject(p)
  <2>1. UNCHANGED <<slots, gap_high_water, has_pending_end, pending_end_sequence,
                    unasked, pc, current, next, high_water>>
    BY <1>2 DEF feed, pipeline, vars, tracker, window, control, walk, FeedStart, Pipeline!Start,
         FeedCallbackReturns, Pipeline!CallbackReturns, FeedReject, Pipeline!Invalidate
  <2>2. state' \in {state, "Faulted"}
    BY <1>2 DEF feed, pipeline, FeedStart, Pipeline!Start,
         FeedCallbackReturns, Pipeline!CallbackReturns, FeedReject, Pipeline!Invalidate
  <2> QED
    BY <1>1, <2>1, <2>2 DEF AskInv, Sourced, IsSent, DataOf, RefusalFaults, WaitsForKnown,
         Covers, EndOf
<1>3. ASSUME NEW p \in sent, FeedAccept(p) PROVE AskInv(sent)'
  BY <1>1, <1>3, AskAccept
<1>4. CASE FeedMessage \/ FeedWindowStep
  BY <1>1, <1>4, AskMessage, AskWindowStep
<1>5. UNCHANGED feed \/ FeedStart \/ FeedCallbackReturns \/ FeedMessage \/ FeedWindowStep
      \/ (\E p \in sent : FeedReject(p)) \/ (\E p \in sent : FeedAccept(p))
  BY DEF FeedStep
<1>6. CASE \E p \in sent : FeedAccept(p)
  BY <1>1, <1>3, <1>6
<1> QED
  BY <1>1, <1>2, <1>4, <1>5, <1>6

\* If retransmissions keep the boundaries of the packets they repeat, a feed
\* whose pipeline is Recovering has a request outstanding whenever ingest is
\* not running: everything note_gap was told of is a gap the window asks for.
THEOREM RecoveringFeedHasAsked ==
    ASSUME NEW sent \in SUBSET Packets, SameBoundaries(sent)
    PROVE  FeedInit /\ [][FeedStep(sent)]_feed => []RecoveringHasRequest
<1>1. FeedInit => FeedInv /\ AskInv(sent)
  BY FeedInitInv, AskInit
<1>2. FeedInv /\ AskInv(sent) /\ [FeedStep(sent)]_feed => FeedInv' /\ AskInv(sent)'
  BY AskNext
<1>3. FeedInv /\ AskInv(sent) => RecoveringHasRequest
  BY AskMeans
<1> QED
  BY <1>1, <1>2, <1>3, PTL

-----------------------------------------------------------------------------
(***************************************************************************)
(* The packets of MCTraffic, whatever the length of the stream and of the  *)
(* packets, are of this kind when the server keeps their boundaries.       *)
(***************************************************************************)
FixedSent == Traffic!FixedBoundaries \cup Traffic!Refused

LEMMA FixedSentData ==
    ASSUME Stale # FeedSession, Packets = Everything, NEW p \in FixedSent, DataOf(p)
    PROVE  \/ p.first = SeqMax /\ p.count = 1
           \/ /\ p.first # SeqMax
              /\ p.count = IF p.first + Longest <= StreamEnd THEN Longest
                           ELSE StreamEnd - p.first
<1>1. p \in Packets /\ p \in Datagram
  BY PacketsAssumption DEF FixedSent, Everything, Traffic!Everything, Traffic!FixedBoundaries
<1>2. /\ p.count \in 1 .. EndOfSession - 1 /\ ParseError(p) = "none"
      /\ p.session = FeedSession /\ p.first \in 0 .. SeqMax /\ p.complete \in BOOLEAN
      /\ Kind(p) = "data"
  BY <1>1, DataCount DEF DataOf, WellFormed, Datagram, Sequences64
<1>3. /\ p.complete /\ ~(p.first > SeqMax - (p.count - 1)) /\ ~(p.blocks < p.count)
      /\ ~(p.blocks > p.count) /\ p.rest = "none"
  BY <1>2 DEF ParseError
<1>4. CASE p \in Traffic!Refused
  <2>1. p = Traffic!Sound(Live, SeqMax, 1) \/ p = Traffic!Sound(Live, SeqMax, 2)
        \/ p = Traffic!Sound(Stale, FirstSequence, 1)
        \/ p \in {[Traffic!Sound(Live, FirstSequence, 1) EXCEPT !.complete = FALSE],
                  [Traffic!Sound(Live, FirstSequence, 1) EXCEPT !.blocks = 0],
                  [Traffic!Sound(Live, FirstSequence, 1) EXCEPT !.blocks = 0,
                                                                !.rest = "partial"],
                  [Traffic!Sound(Live, FirstSequence, 1) EXCEPT !.rest = "short"],
                  [Traffic!Sound(Live, FirstSequence, 0) EXCEPT !.blocks = 1]}
    BY <1>4 DEF Traffic!Refused
  <2>2. p # Traffic!Sound(Stale, FirstSequence, 1)
    BY <1>2 DEF Traffic!Sound
  <2>3. p # Traffic!Sound(Live, SeqMax, 2)
    BY <1>3, WidthAssumption DEF Traffic!Sound
  <2>4. p # [Traffic!Sound(Live, FirstSequence, 1) EXCEPT !.complete = FALSE]
    BY <1>3 DEF Traffic!Sound
  <2>5. /\ p # [Traffic!Sound(Live, FirstSequence, 1) EXCEPT !.blocks = 0]
        /\ p # [Traffic!Sound(Live, FirstSequence, 1) EXCEPT !.blocks = 0, !.rest = "partial"]
    <3>1. PICK q : q = [Traffic!Sound(Live, FirstSequence, 1) EXCEPT !.blocks = 0]
      OBVIOUS
    <3>2. q.blocks = 0 /\ q.count = 1 /\ [q EXCEPT !.rest = "partial"].rest = "partial"
      BY <3>1 DEF Traffic!Sound
    <3>3. p # q
      BY <1>3, <3>2
    <3>4. p # [q EXCEPT !.rest = "partial"]
      BY <1>3, <3>2
    <3>5. [q EXCEPT !.rest = "partial"] =
            [Traffic!Sound(Live, FirstSequence, 1) EXCEPT !.blocks = 0, !.rest = "partial"]
      BY <3>1
    <3> QED
      BY <3>1, <3>3, <3>4, <3>5
  <2>6. p # [Traffic!Sound(Live, FirstSequence, 1) EXCEPT !.rest = "short"]
    BY <1>3 DEF Traffic!Sound
  <2>7. p # [Traffic!Sound(Live, FirstSequence, 0) EXCEPT !.blocks = 1]
    BY <1>2 DEF Traffic!Sound
  <2>8. p = Traffic!Sound(Live, SeqMax, 1)
    BY <2>1, <2>2, <2>3, <2>4, <2>5, <2>6, <2>7
  <2> QED
    BY <2>8 DEF Traffic!Sound
<1>5. CASE p \in Traffic!FixedBoundaries
  <2>1. /\ p \in Traffic!Repacketised
        /\ p.count = IF p.first + Longest <= StreamEnd THEN Longest ELSE StreamEnd - p.first
    BY <1>2, <1>5, WidthAssumption DEF Traffic!FixedBoundaries
  <2>2. p.first + p.count <= StreamEnd
    BY <2>1, <1>2 DEF Traffic!Repacketised, Traffic!Sound
  <2>3. p.first # SeqMax
    BY <2>2, <1>2, StreamAssumption, WidthAssumption DEF Sequences64
  <2> QED
    BY <2>1, <2>3
<1> QED
  BY <1>4, <1>5 DEF FixedSent

LEMMA FixedSentSame ==
    ASSUME Stale # FeedSession, Packets = Everything
    PROVE  FixedSent \in SUBSET Packets /\ SameBoundaries(FixedSent)
<1>1. FixedSent \in SUBSET Packets
  BY DEF FixedSent, Everything, Traffic!Everything, Traffic!FixedBoundaries
<1>2. SameBoundaries(FixedSent)
  BY FixedSentData DEF SameBoundaries
<1> QED
  BY <1>1, <1>2

\* The same for the checked instance, with any width, stream, packet length
\* and window: while the server keeps the packet boundaries, a feed that waits
\* for messages has asked for them.
THEOREM FixedFeedHasAsked ==
    ASSUME Stale # FeedSession, Packets = Everything
    PROVE  MCFeedSpec => []FixedRecoveringHasRequest
<1> DEFINE MCInv == fixed \in BOOLEAN /\ (fixed => FeedInv /\ AskInv(FixedSent))
<1>1. MCFeedInit => MCInv
  BY FeedInitInv, AskInit DEF MCFeedInit
<1>2. MCInv /\ [MCFeedNext]_<<feed, fixed>> => MCInv'
  <2> SUFFICES ASSUME MCInv, [MCFeedNext]_<<feed, fixed>> PROVE MCInv'
    OBVIOUS
  <2>1. fixed' = fixed
    BY DEF MCFeedNext
  <2>2. CASE fixed
    <3>1. [FeedStep(FixedSent)]_feed
      BY <2>2 DEF MCFeedNext, Sent, FixedSent
    <3>2. FeedInv' /\ AskInv(FixedSent)'
      BY <2>2, <3>1, FixedSentSame, AskNext
    <3> QED
      BY <2>1, <3>2
  <2> QED
    BY <2>1, <2>2
<1>3. MCInv => FixedRecoveringHasRequest
  BY AskMeans DEF FixedRecoveringHasRequest
<1> HIDE DEF MCInv
<1> QED
  BY <1>1, <1>2, <1>3, PTL DEF MCFeedSpec

=============================================================================
