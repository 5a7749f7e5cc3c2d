------------------------------ MODULE MoldUdp64 ------------------------------
(***************************************************************************)
(* The MoldUDP64 downstream codec and sequence rules of                    *)
(* include/qtrader/MoldUdp64.hpp, as pure operators.                       *)
(*                                                                         *)
(* A datagram is a record: whether the 20-byte header is all there, the    *)
(* header's three fields, the number of complete message blocks behind it  *)
(* and what is left over after them ("none", "short": less than a length   *)
(* field, "partial": a length field announcing more bytes than remain).    *)
(* A message itself is identified by its sequence number.                  *)
(***************************************************************************)
EXTENDS Integers

CONSTANTS
    SeqMax,        \* the largest 64-bit sequence number, UINT64_MAX
    EndOfSession,  \* kEndOfSession, the message count reserved for that packet
    Sessions       \* session identifiers

ASSUME WidthAssumption ==
    /\ SeqMax \in Nat
    /\ EndOfSession \in Nat
    /\ EndOfSession > 1
    /\ EndOfSession <= SeqMax

Sequences64 == 0 .. SeqMax

\* A received datagram as decode_header and the block walk see it; its first
\* fields are those of DownstreamHeader.
Datagram == [complete : BOOLEAN, session : Sessions, first : Sequences64,
             count : 0 .. EndOfSession, blocks : Nat,
             rest : {"none", "short", "partial"}]

\* DownstreamHeader::kind
Kind(h) == CASE h.count = 0            -> "heartbeat"
             [] h.count = EndOfSession -> "end_of_session"
             [] OTHER                  -> "data"

\* The number of sequence numbers a packet occupies: none for control packets.
Carried(h) == IF Kind(h) = "data" THEN h.count ELSE 0

\* parse_downstream_packet: the first check that fails, in the code's order.
ParseError(p) ==
    CASE ~p.complete -> "header_truncated"
      [] p.complete /\ Kind(p) # "data" ->
            IF p.blocks > 0 \/ p.rest # "none"
            THEN "special_packet_has_payload" ELSE "none"
      [] p.complete /\ Kind(p) = "data" ->
            IF p.first > SeqMax - (p.count - 1) THEN "sequence_overflow"
            ELSE IF p.blocks < p.count
                 THEN IF p.rest = "partial" THEN "message_truncated"
                                            ELSE "message_length_truncated"
            ELSE IF p.blocks > p.count \/ p.rest # "none" THEN "trailing_bytes"
            ELSE "none"

WellFormed(p) == ParseError(p) = "none"

(***************************************************************************)
(* SequenceTracker::inspect on an initialised tracker of session `own'     *)
(* that expects `next'; the branches in the code's order.  (The            *)
(* uninitialised tracker first adopts the header's session and sequence:   *)
(* see Inspect in RecoveryWindow.)                                         *)
(***************************************************************************)
SequenceState(h, own, next) ==
    IF h.session # own THEN "session_mismatch"
    ELSE IF Carried(h) # 0 /\ h.first > SeqMax - Carried(h) THEN "sequence_overflow"
    ELSE IF h.first > next THEN "gap"
    ELSE IF Kind(h) # "data"
         THEN IF h.first = next THEN "in_order" ELSE "duplicate"
    ELSE IF h.first + Carried(h) <= next THEN "duplicate"
    ELSE IF h.first < next THEN "overlap"
    ELSE "in_order"

\* Mutant: a repeated prefix is not skipped.
SkipNothing(h, next) == 0

\* SequenceDecision::skip_messages: what a packet repeats before `next'.
SkipMessages(h, next) == IF h.first < next THEN next - h.first ELSE 0

\* Mutant: a packet beyond a gap is processed at once.
MayProcessGap(state) == state \in {"in_order", "overlap", "gap"}

\* SequenceDecision::may_process
MayProcess(state) == state \in {"in_order", "overlap"}
=============================================================================
