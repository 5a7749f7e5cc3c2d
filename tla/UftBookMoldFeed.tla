--------------------------- MODULE UftBookMoldFeed ---------------------------
(***************************************************************************)
(* UftBookMoldFeed (include/qtrader/UftBookMoldFeed.hpp): one datagram at  *)
(* a time goes through the RecoveryWindow, whose messages go into the      *)
(* UftOrderBookPipeline.  Window and pipeline each count sequence numbers; *)
(* the feed tells the pipeline of gaps before the window sees the packet   *)
(* and of failures after it.                                               *)
(*                                                                         *)
(* The state is the state of both components.  An action of this module is *)
(* an action of the window together with what the feed makes of it in the  *)
(* pipeline; a message walk waits while the strategy callback runs.        *)
(***************************************************************************)
EXTENDS RecoveryWindow

CONSTANTS FirstSequence,   \* the pipeline's trusted boundary
          FeedSession      \* the session the feed was built for

ASSUME FeedAssumption ==
    /\ FirstSequence \in 1 .. SeqMax - 1
    /\ FirstSequence <= StreamEnd
    /\ FeedSession \in Sessions

VARIABLES state, next, high_water, started, in_ingest, applied, changed, seen

Pipeline == INSTANCE UftOrderBookPipeline

pipeline == <<state, next, high_water, started, in_ingest, applied, changed, seen>>
feed     == <<vars, pipeline>>

\* The constructor primes the window with a heartbeat at the pipeline's
\* boundary, so the first packet of the network cannot set the sequence.
FeedInit ==
    /\ Pipeline!PipelineInit
    /\ initialized = TRUE /\ session = FeedSession
    /\ next_sequence = FirstSequence /\ base = FirstSequence /\ cursor = FirstSequence
    /\ slots = {} /\ gap_high_water = 0
    /\ has_pending_end = FALSE /\ pending_end_sequence = 0
    /\ request_outstanding = FALSE /\ unasked = FALSE
    /\ pc = "idle" /\ current = NoPacket /\ delivered = <<>>
    /\ request = [first |-> 0, count |-> 0]
    /\ eos_seen = FALSE /\ ended = FALSE

\* start() before or between datagrams.
FeedStart ==
    /\ pc = "idle" /\ ~in_ingest
    /\ Pipeline!Start
    /\ UNCHANGED vars

-----------------------------------------------------------------------------
(***************************************************************************)
(* ingest of datagram p.                                                   *)
(***************************************************************************)

\* Refused before the window: malformed, or another session.
FeedReject(p) ==
    /\ pc = "idle" /\ ~in_ingest
    /\ ~WellFormed(p) \/ p.session # FeedSession
    /\ Pipeline!Invalidate
    /\ UNCHANGED vars

\* Mutant: the data of the packet itself is not counted.
LastKnownBefore(p) == p.first - 1

\* The last message a packet beyond the pipeline's position makes known.
LastKnown(p) == p.first + Carried(p) - 1

\* note_gap before the window's ingest, invalidate after a failed one.
Report(p, failed) ==
    LET beyond == p.first > next
    IN  /\ state' = IF failed THEN "Faulted"
                    ELSE IF beyond THEN Pipeline!StateAfterNote(LastKnown(p))
                    ELSE state
        /\ high_water' = IF beyond THEN Pipeline!HighWaterAfterNote(LastKnown(p))
                         ELSE high_water
        /\ UNCHANGED <<next, started, in_ingest, applied, changed, seen>>

FeedAccept(p) ==
    /\ pc = "idle" /\ ~in_ingest
    /\ WellFormed(p) /\ p.session = FeedSession
    /\ \/ /\ IngestRejected(p)
          /\ Report(p, Decision(p) # "duplicate")
       \/ /\ IngestGapStored(p) \/ IngestGapHeartbeat(p) \/ IngestGapEnd(p)
          /\ Report(p, FALSE)
       \/ /\ IngestGapRefused(p)
          /\ Report(p, StoreResult(p) # "duplicate")
       \/ /\ IngestControl(p)
          /\ Report(p, Kind(p) = "end_of_session")
       \/ /\ IngestData(p)
          /\ Report(p, FALSE)

\* on_message: the pipeline ingests the message.
FeedMessage ==
    /\ ~in_ingest
    /\ DeliverMessage
    /\ \E effect \in Pipeline!Effects : Pipeline!Ingest(cursor, effect)

FeedCallbackReturns ==
    /\ Pipeline!CallbackReturns
    /\ UNCHANGED vars

\* The rest of the window's ingest.  A pending end that falls due in drain
\* goes to on_control, which invalidates the pipeline.
FeedWindowStep ==
    /\ ~in_ingest
    /\ \/ /\ CommitPacket \/ DrainSlot \/ (FinishDrain /\ ~EndDue)
          /\ UNCHANGED pipeline
       \/ /\ FinishDrain /\ EndDue
          /\ Pipeline!Invalidate

\* One step of the feed when the network may bring the datagrams `sent'.
FeedStep(sent) ==
    \/ FeedStart
    \/ \E p \in sent : FeedReject(p) \/ FeedAccept(p)
    \/ FeedMessage
    \/ FeedCallbackReturns
    \/ FeedWindowStep

\* The external server answers a request and announces the end of the stream.
ServerAnswers(sent) ==
    \E p \in sent : /\ request_outstanding /\ p.first = request.first
                   /\ Kind(p) = "data" /\ FeedAccept(p)
ServerHeartbeats(sent) ==
    \E p \in sent : /\ Kind(p) = "heartbeat" /\ p.first = StreamEnd
                   /\ FeedAccept(p)

\* An ingest call, the strategy callback in it included, runs to its end, and
\* the server does its part (see RecoveryWindow).
FeedSpec ==
    /\ FeedInit /\ [][FeedStep(Packets)]_feed
    /\ WF_feed(FeedMessage \/ FeedCallbackReturns \/ FeedWindowStep)
    /\ WF_feed(ServerAnswers(Packets)) /\ WF_feed(ServerHeartbeats(Packets))

-----------------------------------------------------------------------------
(***************************************************************************)
(* Properties.                                                             *)
(***************************************************************************)

\* The two sequence counters agree: until a fault, the pipeline expects the
\* very message the window hands over next, so the window's messages are
\* never a gap or a duplicate to the pipeline.
PipelineInStep == state # "Faulted" => next = cursor /\ applied = delivered

\* While the strategy runs, nothing that the window knows to exist beyond the
\* book's position is missing: no datagram waits in a slot, no announced
\* sequence and no pending end lies ahead.
StrategySeesNoKnownGap ==
    in_ingest /\ state = "Live" =>
       /\ \A s \in slots : EndOf(s) <= next
       /\ gap_high_water <= next
       /\ has_pending_end => pending_end_sequence <= next

\* A feed that waits for messages has asked for them (with packets whose
\* boundaries do not change when they are sent again).
RecoveringHasRequest ==
    pc = "idle" /\ state = "Recovering" => request_outstanding

\* A gap never leaves the strategy waiting: recovery ends in Live or Faulted.
RecoveryTerminates == state = "Recovering" ~> state # "Recovering"
=============================================================================
