-------------------------- MODULE MCUftBookMoldFeed --------------------------
(***************************************************************************)
(* UftBookMoldFeed for TLC, with the packets of MCTraffic.  A              *)
(* retransmission may cut the stream anew, or, if `fixed', repeats the     *)
(* packets of the first transmission.                                      *)
(***************************************************************************)
EXTENDS UftBookMoldFeed

CONSTANTS Live, Stale, Longest

Traffic == INSTANCE MCTraffic WITH First <- FirstSequence

Everything == Traffic!Everything

VARIABLE fixed   \* the server keeps the packet boundaries

Sent == IF fixed THEN Traffic!FixedBoundaries \cup Traffic!Refused ELSE Packets

MCFeedInit == FeedInit /\ fixed \in BOOLEAN

MCFeedNext == FeedStep(Sent) /\ UNCHANGED fixed

MCFeedSpec ==
    /\ MCFeedInit /\ [][MCFeedNext]_<<feed, fixed>>
    /\ WF_feed(FeedMessage \/ FeedCallbackReturns \/ FeedWindowStep)
    /\ WF_feed(ServerAnswers(Sent)) /\ WF_feed(ServerHeartbeats(Sent))

\* When packets are repeated as they were, a feed that waits for messages has
\* asked for them: every message note_gap counts is one the window requests.
FixedRecoveringHasRequest == fixed => RecoveringHasRequest
=============================================================================
