-------------------------- MODULE MCRecoveryWindow ---------------------------
(***************************************************************************)
(* Instances of RecoveryWindow for TLC, with the datagrams of MCTraffic.   *)
(***************************************************************************)
EXTENDS RecoveryWindow

CONSTANTS Live, Stale,   \* the channel's session and a foreign one
          First,         \* the first message of the stream
          Longest        \* the most messages in one packet

INSTANCE MCTraffic

\* Once the window has adopted the channel's session, with a server that
\* answers requests and announces the end, every message of the stream is
\* handed over in the end, however much was lost (issue_request, drain).
EventuallyCaughtUp ==
    initialized /\ session = Live /\ base <= StreamEnd ~> next_sequence = StreamEnd
=============================================================================
