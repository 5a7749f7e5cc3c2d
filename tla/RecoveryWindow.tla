--------------------------- MODULE RecoveryWindow ----------------------------
(***************************************************************************)
(* RecoveryWindow::ingest of include/qtrader/MoldUdp64Recovery.hpp: the    *)
(* fixed-capacity reorder window of one MoldUDP64 channel.                 *)
(*                                                                         *)
(* The network is UDP: every datagram of Packets may arrive at any time,   *)
(* any number of times, in any order, or never.  The window runs on one    *)
(* thread; its callbacks must not call back into it, so a datagram arrives *)
(* only while pc = "idle".  Inside one ingest call the model takes a step  *)
(* for each on_message callback, because what a callback can observe       *)
(* between two messages of a packet is part of the behaviour.              *)
(*                                                                         *)
(* slots_ is a set of headers: store() refuses a second datagram with the  *)
(* same first sequence, so a slot is named by it, and which array cell     *)
(* holds it is invisible.  occupied_ is the cardinality of that set.       *)
(***************************************************************************)
EXTENDS MoldUdp64, Sequences, FiniteSets

CONSTANTS
    Packets,       \* the datagrams the network may deliver
    NoSession,     \* the zero-filled session of an uninitialised tracker
    ReorderSlots,  \* number of slots of the window
    MaxBlocks,     \* MaxDatagramBytes, counted in message blocks
    StreamEnd      \* the sequence number after the last message of the stream

ASSUME PacketsAssumption == Packets \subseteq Datagram

ASSUME WindowAssumption ==
    /\ ReorderSlots \in Nat \ {0}
    /\ MaxBlocks \in Nat

\* A datagram that passes both overflow checks.
Representable(p) == WellFormed(p) /\ p.first <= SeqMax - Carried(p)

(***************************************************************************)
(* What the MoldUDP64 server guarantees about a stream: no message is      *)
(* numbered StreamEnd or later, no control packet announces more than      *)
(* that, and the end-of-session packet carries StreamEnd.                  *)
(***************************************************************************)
ASSUME StreamAssumption ==
    /\ StreamEnd \in Sequences64
    /\ \A p \in Packets : Representable(p) =>
          /\ p.first + Carried(p) <= StreamEnd
          /\ Kind(p) = "end_of_session" => p.first = StreamEnd

VARIABLES
    initialized, session, next_sequence,   \* tracker_
    slots,                                 \* the occupied entries of slots_
    gap_high_water,                        \* 0: no gap announced
    has_pending_end, pending_end_sequence, \* an end of session beyond a gap
    request_outstanding,
    pc,        \* "idle", or where ingest is: "deliver" (process), "drain"
    current,   \* the packet process() walks, and whether a slot holds it
    cursor,    \* the sequence number of the next message to hand over
    base,      \* history: the first sequence number the tracker adopted
    delivered, \* history: the sequence numbers given to on_message, in order
    request,   \* history: the last request packet given to on_request
    unasked,   \* history: store() refused a datagram for capacity while no
               \* request was outstanding, and issue_request has not run since
    eos_seen,  \* history: an end-of-session packet was accepted
    ended      \* history: on_control reported the end of the session

tracker == <<initialized, session, next_sequence, base>>
window  == <<slots, gap_high_water, has_pending_end, pending_end_sequence, unasked>>
control == <<request_outstanding, request, eos_seen, ended>>
walk    == <<pc, current, cursor, delivered>>
vars    == <<tracker, window, control, walk>>

Slot    == [first : Sequences64, count : 1 .. EndOfSession - 1]
Walked  == [first : Sequences64, count : 0 .. EndOfSession, buffered : BOOLEAN]
NoPacket == [first |-> 0, count |-> 0, buffered |-> FALSE]
Request == [first : Sequences64, count : 0 .. EndOfSession - 1]

EndOf(s) == s.first + s.count

Init ==
    /\ initialized = FALSE /\ session = NoSession /\ next_sequence = 0
    /\ slots = {} /\ gap_high_water = 0
    /\ has_pending_end = FALSE /\ pending_end_sequence = 0
    /\ request_outstanding = FALSE /\ unasked = FALSE
    /\ pc = "idle" /\ current = NoPacket /\ cursor = 0
    /\ base = 0 /\ delivered = <<>>
    /\ request = [first |-> 0, count |-> 0]
    /\ eos_seen = FALSE /\ ended = FALSE

-----------------------------------------------------------------------------
\* SequenceTracker::inspect: the first packet sets the session and sequence.
Own(h)      == IF initialized THEN session ELSE h.session
Expected(h) == IF initialized THEN next_sequence ELSE h.first
Decision(h) == SequenceState(h, Own(h), Expected(h))

Adopt(h) ==
    /\ initialized' = TRUE
    /\ session' = Own(h)
    /\ next_sequence' = Expected(h)
    /\ base' = IF initialized THEN base ELSE h.first
    /\ cursor' = Expected(h)

\* Mutant: the buffered datagrams are forgotten.
FuturesAnnouncedOnly(next, S, high, hasEnd, end) ==
    {f \in {high} : high # 0} \cup {f \in {end} : hasEnd}

(***************************************************************************)
(* earliest_future_sequence: the candidates for the end of the next        *)
(* request.  gap_high_water and the pending end count whatever their       *)
(* value, a slot only when it starts beyond the expected sequence.         *)
(***************************************************************************)
Futures(next, S, high, hasEnd, end) ==
    {s.first : s \in {t \in S : t.first > next}}
      \cup {f \in {high} : high # 0}
      \cup {f \in {end} : hasEnd}

\* target > expected in issue_request: there is a target, and the smallest,
\* so every, candidate lies beyond the expected sequence.
GapKnown(next, S, high, hasEnd, end) ==
    LET F == Futures(next, S, high, hasEnd, end)
    IN  F # {} /\ \A f \in F : f > next

\* issue_request, on the state that its caller has reached.
IssueRequest(next, S, high, hasEnd, end, outstanding) ==
    LET F == Futures(next, S, high, hasEnd, end)
    IN  IF outstanding \/ ~GapKnown(next, S, high, hasEnd, end)
        THEN request_outstanding' = outstanding /\ UNCHANGED request
        ELSE /\ request_outstanding' = TRUE
             /\ \E target \in F :
                   /\ \A f \in F : target <= f
                   /\ request' = [first |-> next,
                                  count |-> IF target - next < EndOfSession - 1
                                            THEN target - next
                                            ELSE EndOfSession - 1]

-----------------------------------------------------------------------------
(***************************************************************************)
(* ingest, one action per outcome of a datagram.                           *)
(***************************************************************************)
IngestMalformed(p) ==
    /\ pc = "idle"
    /\ ~WellFormed(p)
    /\ UNCHANGED vars

\* session_mismatch, sequence_overflow and duplicate leave the window alone;
\* the tracker has adopted the header when it was the first one.
IngestRejected(p) ==
    /\ pc = "idle"
    /\ WellFormed(p)
    /\ Decision(p) \in {"session_mismatch", "sequence_overflow", "duplicate"}
    /\ Adopt(p)
    /\ UNCHANGED <<window, control, pc, current, delivered>>

\* store, in the order of its checks.
StoreResult(p) ==
    IF p.blocks > MaxBlocks THEN "datagram_too_large"
    ELSE IF \E s \in slots : s.first = p.first THEN "duplicate"
    ELSE IF Cardinality(slots) < ReorderSlots THEN "buffered_gap"
    ELSE "reorder_window_full"

\* What every gap packet does first.
NoteGap(p) ==
    /\ pc = "idle"
    /\ WellFormed(p)
    /\ Decision(p) = "gap"
    /\ gap_high_water' = IF p.first > gap_high_water THEN p.first ELSE gap_high_water
    /\ Adopt(p)
    /\ UNCHANGED <<ended, pc, current, delivered>>

IngestGapStored(p) ==
    /\ NoteGap(p)
    /\ Kind(p) = "data"
    /\ StoreResult(p) = "buffered_gap"
    /\ slots' = slots \cup {[first |-> p.first, count |-> p.count]}
    /\ IssueRequest(next_sequence, slots', gap_high_water', has_pending_end,
                    pending_end_sequence, request_outstanding)
    /\ unasked' = FALSE
    /\ UNCHANGED <<has_pending_end, pending_end_sequence, eos_seen>>

\* A datagram store() refuses returns before issue_request.
IngestGapRefused(p) ==
    /\ NoteGap(p)
    /\ Kind(p) = "data"
    /\ StoreResult(p) # "buffered_gap"
    /\ unasked' = (unasked \/ (StoreResult(p) # "duplicate" /\ ~request_outstanding))
    /\ UNCHANGED <<slots, has_pending_end, pending_end_sequence, control>>

IngestGapHeartbeat(p) ==
    /\ NoteGap(p)
    /\ Kind(p) = "heartbeat"
    /\ IssueRequest(next_sequence, slots, gap_high_water', has_pending_end,
                    pending_end_sequence, request_outstanding)
    /\ unasked' = FALSE
    /\ UNCHANGED <<slots, has_pending_end, pending_end_sequence, eos_seen>>

IngestGapEnd(p) ==
    /\ NoteGap(p)
    /\ Kind(p) = "end_of_session"
    /\ has_pending_end' = TRUE
    /\ pending_end_sequence' = p.first
    /\ eos_seen' = TRUE
    /\ IssueRequest(next_sequence, slots, gap_high_water', TRUE, p.first,
                    request_outstanding)
    /\ unasked' = FALSE
    /\ UNCHANGED slots

\* An in-order heartbeat or end of session goes to on_control.
IngestControl(p) ==
    /\ pc = "idle"
    /\ WellFormed(p)
    /\ MayProcess(Decision(p))
    /\ Kind(p) # "data"
    /\ Adopt(p)
    /\ eos_seen' = (eos_seen \/ Kind(p) = "end_of_session")
    /\ ended' = (ended \/ Kind(p) = "end_of_session")
    /\ UNCHANGED <<window, request_outstanding, request, pc, current, delivered>>

\* process: the walk starts after the messages the tracker already has.
StartWalk(h, next, buffered) ==
    /\ pc' = "deliver"
    /\ current' = [first |-> h.first, count |-> h.count, buffered |-> buffered]
    /\ cursor' = h.first + SkipMessages(h, next)

IngestData(p) ==
    /\ pc = "idle"
    /\ WellFormed(p)
    /\ MayProcess(Decision(p))
    /\ Kind(p) = "data"
    /\ initialized' = TRUE
    /\ session' = Own(p)
    /\ next_sequence' = Expected(p)
    /\ base' = IF initialized THEN base ELSE p.first
    /\ StartWalk(p, Expected(p), FALSE)
    /\ UNCHANGED <<window, control, delivered>>

Ingest(p) ==
    \/ IngestMalformed(p)    \/ IngestRejected(p)
    \/ IngestGapStored(p)    \/ IngestGapRefused(p)
    \/ IngestGapHeartbeat(p) \/ IngestGapEnd(p)
    \/ IngestControl(p)      \/ IngestData(p)

-----------------------------------------------------------------------------
\* process: one on_message callback.  The tracker still shows the sequence
\* from before the packet.
DeliverMessage ==
    /\ pc = "deliver"
    /\ cursor < EndOf(current)
    /\ delivered' = Append(delivered, cursor)
    /\ cursor' = cursor + 1
    /\ UNCHANGED <<tracker, window, control, pc, current>>

\* Mutant: the outstanding request is not cleared.
CommitKeepsRequest ==
    /\ pc = "deliver"
    /\ cursor = EndOf(current)
    /\ next_sequence' = EndOf(current)
    /\ slots' = IF current.buffered
                THEN {s \in slots : s.first # current.first} ELSE slots
    /\ pc' = "drain"
    /\ current' = NoPacket
    /\ UNCHANGED <<initialized, session, base, gap_high_water, has_pending_end,
                   pending_end_sequence, unasked, control, cursor, delivered>>

\* The end of process (SequenceTracker::commit) and what follows it: ingest
\* and drain both clear the outstanding request, drain also frees the slot.
CommitPacket ==
    /\ pc = "deliver"
    /\ cursor = EndOf(current)
    /\ next_sequence' = EndOf(current)
    /\ slots' = IF current.buffered
                THEN {s \in slots : s.first # current.first} ELSE slots
    /\ request_outstanding' = FALSE
    /\ pc' = "drain"
    /\ current' = NoPacket
    /\ UNCHANGED <<initialized, session, base, gap_high_water, has_pending_end,
                   pending_end_sequence, unasked, request, eos_seen, ended,
                   cursor, delivered>>

\* Mutant: only a datagram that starts at the expected message.
CandidatesExact == {s \in slots : s.first = next_sequence}

\* next_buffered_slot considers the slots that hold the expected message.
Candidates == {s \in slots : s.first <= next_sequence /\ next_sequence < EndOf(s)}

\* One turn of drain's loop: the candidate that starts last.  A candidate has
\* the tracker's session and holds next_sequence, so the loop's two early
\* exits (undecodable slot, decision that may not be processed) never fire.
DrainSlot ==
    /\ pc = "drain"
    /\ \E s \in Candidates :
          /\ \A t \in Candidates : t.first <= s.first
          /\ StartWalk(s, next_sequence, TRUE)
    /\ UNCHANGED <<tracker, window, control, delivered>>

\* Mutant: the end is reported once drain is through.
EndDueEarly == has_pending_end

\* The end of drain: a pending end that is now due, the announced high water
\* when it is reached, and a request for what is still missing.
EndDue == has_pending_end /\ pending_end_sequence = next_sequence

\* Mutant: no request for what is still missing.
FinishWithoutRequest ==
    /\ pc = "drain"
    /\ Candidates = {}
    /\ ended' = (ended \/ EndDue)
    /\ has_pending_end' = (has_pending_end /\ ~EndDue)
    /\ gap_high_water' = IF next_sequence >= gap_high_water THEN 0 ELSE gap_high_water
    /\ pc' = "idle"
    /\ unasked' = FALSE
    /\ UNCHANGED <<tracker, slots, pending_end_sequence, eos_seen,
                   request_outstanding, request, current, cursor, delivered>>

FinishDrain ==
    /\ pc = "drain"
    /\ Candidates = {}
    /\ ended' = (ended \/ EndDue)
    /\ has_pending_end' = (has_pending_end /\ ~EndDue)
    /\ gap_high_water' = IF next_sequence >= gap_high_water THEN 0 ELSE gap_high_water
    /\ IssueRequest(next_sequence, slots, gap_high_water', has_pending_end',
                    pending_end_sequence, request_outstanding)
    /\ pc' = "idle"
    /\ unasked' = FALSE
    /\ UNCHANGED <<tracker, slots, pending_end_sequence, eos_seen,
                   current, cursor, delivered>>

Next ==
    \/ \E p \in Packets : Ingest(p)
    \/ DeliverMessage
    \/ CommitPacket
    \/ DrainSlot
    \/ FinishDrain

Spec == Init /\ [][Next]_vars

(***************************************************************************)
(* Fairness.  An ingest call runs to its end.  The request server (outside *)
(* the repository) answers an outstanding request with a data packet that  *)
(* starts where the request does, and goes on sending heartbeats that      *)
(* announce the end of the stream.  The window has no timer of its own: a  *)
(* request is never repeated, so progress really does rest on the answer.  *)
(***************************************************************************)
InternalStep == DeliverMessage \/ CommitPacket \/ DrainSlot \/ FinishDrain

AnswerRequest ==
    \E p \in Packets : /\ request_outstanding
                       /\ p.first = request.first
                       /\ IngestData(p)

AnnounceEnd ==
    \E p \in Packets : /\ Kind(p) = "heartbeat" /\ p.first = StreamEnd
                       /\ IngestGapHeartbeat(p)

FairSpec ==
    /\ Spec
    /\ WF_vars(InternalStep)
    /\ WF_vars(AnswerRequest)
    /\ WF_vars(AnnounceEnd)
-----------------------------------------------------------------------------
(***************************************************************************)
(* Properties.                                                             *)
(***************************************************************************)

\* The fields hold values of their C++ types and the window its capacity.
TypeOK ==
    /\ initialized \in BOOLEAN
    /\ session \in Sessions \cup {NoSession}
    /\ next_sequence \in Sequences64
    /\ slots \subseteq Slot /\ IsFiniteSet(slots)
    /\ Cardinality(slots) <= ReorderSlots
    /\ gap_high_water \in Sequences64
    /\ has_pending_end \in BOOLEAN /\ pending_end_sequence \in Sequences64
    /\ request_outstanding \in BOOLEAN /\ unasked \in BOOLEAN
    /\ pc \in {"idle", "deliver", "drain"}
    /\ current \in Walked /\ cursor \in Sequences64
    /\ base \in Sequences64 /\ delivered \in Seq(Sequences64)
    /\ request \in Request
    /\ eos_seen \in BOOLEAN /\ ended \in BOOLEAN

\* ingest hands over the messages of the stream from the adopted sequence on,
\* each one exactly once, in order and without a hole, whatever the network
\* loses, repeats, reorders or repacketises (process, drain, inspect).  No
\* number wraps past UINT64_MAX: a packet that would is refused.
InOrderDelivery ==
    /\ \A i \in 1 .. Len(delivered) : delivered[i] = base + i - 1
    /\ cursor = base + Len(delivered) /\ cursor <= SeqMax
    /\ pc # "deliver" => next_sequence = cursor

\* Between two ingest calls no slot holds the expected message: drain has
\* used everything that became contiguous, so the window never sits on it.
NothingDeliverableBuffered ==
    pc = "idle" => \A s \in slots : ~ (s.first <= next_sequence /\ next_sequence < EndOf(s))

\* Between two ingest calls a message beyond the expected one is known of
\* exactly when a request is outstanding, which starts at the expected one, or
\* when store() refused a datagram for capacity, ingest returned without asking,
\* and no packet has reached issue_request since: the next one that does asks.
RequestIffGap ==
    pc = "idle" =>
       /\ GapKnown(next_sequence, slots, gap_high_water, has_pending_end,
                   pending_end_sequence) <=> request_outstanding \/ unasked
       /\ request_outstanding => request.first = next_sequence /\ ~unasked

\* The session end is reported when, and only when, an end-of-session packet
\* was accepted and every message before it has been handed over.
EndExactlyWhenComplete ==
    pc = "idle" => (ended <=> eos_seen /\ next_sequence = StreamEnd)

\* A request asks only for messages that were neither handed over nor are in
\* the window, and its count is one the wire format gives to data.
RequestsOnlyMissing ==
    [][ request_outstanding' /\ ~request_outstanding =>
          /\ request'.count \in 1 .. EndOfSession - 1
          /\ request'.first = base' + Len(delivered')
          /\ \A s \in slots' : \/ EndOf(s) <= request'.first
                               \/ s.first >= request'.first + request'.count
      ]_vars

\* Once nothing beyond the expected message is known of, no datagram is left
\* in the window (the recovery test asserts buffered_datagrams() == 0 there).
WindowEmptyWhenCaughtUp ==
    pc = "idle" /\ ~GapKnown(next_sequence, slots, gap_high_water,
                             has_pending_end, pending_end_sequence)
       => slots = {}

Stream == INSTANCE InOrderStream
             WITH open <- initialized, log <- delivered, closed <- ended

\* The window implements the reliable in-order stream: each of its steps is a
\* step of that stream or invisible to the consumer.
ImplementsStream == Stream!StreamSpec
=============================================================================
