----------------------------- MODULE MCTraffic ------------------------------
(***************************************************************************)
(* The datagrams the instances for TLC send: a stream of the messages      *)
(* First .. StreamEnd - 1 cut into packets in every way, with every        *)
(* control packet, and one datagram of each kind that must be refused.     *)
(***************************************************************************)
EXTENDS Integers

CONSTANTS Live, Stale,   \* the channel's session and a foreign one
          First,         \* the first message of the stream
          StreamEnd,     \* the sequence number behind its last message
          Longest,       \* the most messages in one packet
          SeqMax, EndOfSession

Sound(s, f, c) == [complete |-> TRUE, session |-> s, first |-> f, count |-> c,
                   blocks |-> IF c = EndOfSession THEN 0 ELSE c, rest |-> "none"]

Data == {Sound(Live, f, c) : f \in First .. StreamEnd - 1, c \in 1 .. Longest}

Repacketised ==
    {p \in Data : p.first + p.count <= StreamEnd}
      \cup {Sound(Live, f, 0) : f \in First .. StreamEnd}
      \cup {Sound(Live, StreamEnd, EndOfSession)}

\* Every message in one packet only: a retransmission repeats the packets.
FixedBoundaries ==
    {p \in Repacketised : p.count \in {0, EndOfSession}
        \/ /\ (p.first - First) % Longest = 0
           /\ p.count = IF p.first + Longest <= StreamEnd THEN Longest
                        ELSE StreamEnd - p.first}

\* A foreign session, the two overflow checks, and the block walk's errors.
Refused ==
    { Sound(Stale, First, 1),
      Sound(Live, SeqMax, 1),
      Sound(Live, SeqMax, 2),
      [Sound(Live, First, 1) EXCEPT !.complete = FALSE],
      [Sound(Live, First, 1) EXCEPT !.blocks = 0],
      [Sound(Live, First, 1) EXCEPT !.blocks = 0, !.rest = "partial"],
      [Sound(Live, First, 1) EXCEPT !.rest = "short"],
      [Sound(Live, First, 0) EXCEPT !.blocks = 1] }

Everything == Repacketised \cup Refused
=============================================================================
