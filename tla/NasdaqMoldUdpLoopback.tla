------------------------ MODULE NasdaqMoldUdpLoopback -------------------------
(***************************************************************************)
(* tools/NasdaqMoldUdpLoopback.cpp: main packs the records of a file into  *)
(* MoldUDP64 datagrams and sends them over a loopback socket to a receiver *)
(* thread, which checks their sequence; the exit code is the verdict.      *)
(*                                                                         *)
(* The socket keeps the order and may lose a datagram, for one because its *)
(* buffer is full, without telling the sender.  A record is its size and   *)
(* whether that is the size of its ITCH type; a message is known by its    *)
(* sequence number.                                                        *)
(***************************************************************************)
EXTENDS MoldUdp64, Sequences, FiniteSets

CONSTANTS
    Session,            \* the session main sends
    HeaderBytes,        \* kHeaderBytes
    DatagramBytes,      \* kDatagramBytes, what main packs up to
    LargestDatagram,    \* bytes that sendto accepts
    SocketDatagrams,    \* datagrams the receive buffer holds
    Files,              \* [records : sequence of records, broken : framing error after them]
    Limits              \* MESSAGE_LIMIT, positive

\* A file has whole records before its end or its framing error.
ASSUME LoopbackAssumption ==
    /\ \A f \in Files : f.records \in Seq([size : Nat, good : BOOLEAN])
    /\ Limits \subseteq Nat \ {0}

LengthBytes == 2

VARIABLES
    file, limit,
    sender,             \* "scan", "end", "done" or "failed"; main
    datagram,           \* the records packed so far
    first_sequence, sent_messages,
    socket,             \* datagrams in the receive buffer
    sender_done,
    receiver,           \* "recv", "timeout", "done" or "failed"
    tracker,            \* SequenceTracker
    stats,              \* ReceiverStats
    received,           \* history: the messages counted in stats.messages
    exit                \* the exit code, -1 while the program runs

sending   == <<sender, datagram, first_sequence, sent_messages, sender_done>>
receiving == <<receiver, tracker, stats, received>>
loopback  == <<file, limit, sending, socket, receiving, exit>>

LoopbackInit ==
    /\ file \in Files /\ limit \in Limits
    /\ sender = "scan" /\ datagram = <<>>
    /\ first_sequence = 1 /\ sent_messages = 0 /\ sender_done = FALSE
    /\ socket = <<>>
    /\ receiver = "recv"
    /\ tracker = [initialized |-> FALSE, session |-> Session, next |-> 0]
    /\ stats = [malformed_packets |-> 0, malformed_itch |-> 0, gaps |-> 0,
                end_of_session |-> FALSE]
    /\ received = <<>> /\ exit = -1

-----------------------------------------------------------------------------
(***************************************************************************)
(* main: the callback of the file scan, and what follows it.               *)
(***************************************************************************)
BlockBytes(record) == record.size + LengthBytes
PackedBytes ==
    LET bytes[k \in 0 .. Len(datagram)] ==
            IF k = 0 THEN HeaderBytes ELSE bytes[k - 1] + BlockBytes(datagram[k])
    IN  bytes[Len(datagram)]

Scanning   == sender = "scan" /\ sent_messages < limit /\ sent_messages < Len(file.records)
NextRecord == file.records[sent_messages + 1]

Fits(record) == PackedBytes + BlockBytes(record) <= DatagramBytes

\* An empty datagram takes a record of any size.
SenderPacks ==
    /\ Scanning /\ (Fits(NextRecord) \/ datagram = <<>>)
    /\ datagram' = Append(datagram, NextRecord)
    /\ sent_messages' = sent_messages + 1
    /\ UNCHANGED <<file, limit, sender, first_sequence, sender_done, socket, receiving, exit>>

\* The limit is noticed at the record after it, a framing error (or a read that
\* fails) behind the last record.
ScanIsOver  == sender = "scan" /\ ~Scanning
ScanThrows  == ScanIsOver /\ sent_messages = Len(file.records) /\ file.broken
ScanReturns == ScanIsOver /\ ~ScanThrows

Packet(first, count, blocks) ==
    [complete |-> TRUE, session |-> Session, first |-> first, count |-> count,
     blocks |-> Len(blocks), rest |-> "none", bodies |-> blocks]

\* sendto succeeds, and the datagram is in the receive buffer or lost.
Transmits(p) ==
    \/ Len(socket) < SocketDatagrams /\ socket' = Append(socket, p)
    \/ UNCHANGED socket

\* send_datagram, called when the next record does not fit and after the scan.
SendsData == datagram # <<>> /\ ((Scanning /\ ~Fits(NextRecord)) \/ ScanReturns)

SenderSends ==
    /\ SendsData /\ PackedBytes <= LargestDatagram
    /\ Transmits(Packet(first_sequence, Len(datagram), datagram))
    /\ first_sequence' = first_sequence + Len(datagram)
    /\ datagram' = <<>>
    /\ UNCHANGED <<file, limit, sender, sent_messages, sender_done, receiving, exit>>

SenderSendsEnd ==
    /\ ScanReturns /\ datagram = <<>>
    /\ Transmits(Packet(first_sequence, EndOfSession, <<>>))
    /\ sender' = "end"
    /\ UNCHANGED <<file, limit, datagram, first_sequence, sent_messages, sender_done,
                   receiving, exit>>

\* A sendto that fails, always for a datagram too large, or a scan that throws.
SenderThrows ==
    /\ SendsData \/ ScanReturns \/ ScanThrows
    /\ sender' = "failed"
    /\ UNCHANGED <<file, limit, datagram, first_sequence, sent_messages, sender_done,
                   socket, receiving, exit>>

\* Mutant: only the normal way out tells the receiver.
SenderStoresAtEnd ==
    /\ sender = "end" /\ ~sender_done
    /\ sender_done' = TRUE
    /\ UNCHANGED <<file, limit, sender, datagram, first_sequence, sent_messages, socket,
                   receiving, exit>>

SenderStores ==
    /\ sender \in {"end", "failed"} /\ ~sender_done
    /\ sender_done' = TRUE
    /\ UNCHANGED <<file, limit, sender, datagram, first_sequence, sent_messages, socket,
                   receiving, exit>>

-----------------------------------------------------------------------------
(***************************************************************************)
(* receive_packets.                                                        *)
(***************************************************************************)
\* recv times out; sender_done is loaded later, and meanwhile more may arrive.
ReceiverTimesOut ==
    /\ receiver = "recv" /\ socket = <<>>
    /\ receiver' = "timeout"
    /\ UNCHANGED <<file, limit, sending, socket, tracker, stats, received, exit>>

ReceiverLoadsDone ==
    /\ receiver = "timeout"
    /\ receiver' = IF sender_done THEN "done" ELSE "recv"
    /\ UNCHANGED <<file, limit, sending, socket, tracker, stats, received, exit>>

ReceiverThrows ==
    /\ receiver = "recv"
    /\ receiver' = "failed"
    /\ UNCHANGED <<file, limit, sending, socket, tracker, stats, received, exit>>

\* inspect adopts the first header, whatever its sequence number.
Adopted(p) == IF tracker.initialized THEN tracker
              ELSE [initialized |-> TRUE, session |-> p.session, next |-> p.first]

\* The messages that may be processed, by sequence number.
Processed(p, state, next) ==
    IF MayProcess(state) /\ Kind(p) = "data"
    THEN [k \in 1 .. Len(p.bodies) - SkipMessages(p, next) |->
            p.first + SkipMessages(p, next) + k - 1]
    ELSE <<>>

ReceiverTakes ==
    /\ receiver = "recv" /\ socket # <<>>
    /\ LET p     == Head(socket)
           own   == Adopted(p)
           state == SequenceState(p, own.session, own.next)
           new   == Processed(p, state, own.next)
           wrong == {k \in DOMAIN new : ~p.bodies[new[k] - p.first + 1].good}
           ends  == WellFormed(p) /\ Kind(p) = "end_of_session"
       IN  /\ received' = received \o new
           /\ tracker' = IF WellFormed(p) /\ MayProcess(state) /\ Kind(p) = "data"
                         THEN [own EXCEPT !.next = p.first + p.count] ELSE own
           /\ stats' = [malformed_packets |-> stats.malformed_packets
                                                + (IF WellFormed(p) THEN 0 ELSE 1),
                        malformed_itch |-> stats.malformed_itch + Cardinality(wrong),
                        gaps |-> stats.gaps + (IF state = "gap" THEN 1 ELSE 0),
                        end_of_session |-> ends]
           /\ receiver' = IF ends THEN "done" ELSE "recv"
    /\ socket' = Tail(socket)
    /\ UNCHANGED <<file, limit, sending, exit>>

-----------------------------------------------------------------------------
\* Mutant: without gaps nothing is missing.
VerdictByGaps ==
    /\ stats.malformed_packets = 0 /\ stats.malformed_itch = 0
    /\ stats.gaps = 0 /\ stats.end_of_session

Verdict ==
    /\ Len(received) = sent_messages
    /\ stats.malformed_packets = 0 /\ stats.malformed_itch = 0
    /\ stats.gaps = 0 /\ stats.end_of_session

\* main joins the receiver; an exception of either side is exit code 1.
MainExits ==
    /\ sender_done /\ receiver \in {"done", "failed"} /\ exit = -1
    /\ exit' = IF sender = "end" /\ receiver = "done" /\ Verdict THEN 0 ELSE 1
    /\ UNCHANGED <<file, limit, sending, socket, receiving>>

SenderStep   == SenderPacks \/ SenderSends \/ SenderSendsEnd \/ SenderThrows \/ SenderStores
ReceiverStep == ReceiverTimesOut \/ ReceiverLoadsDone \/ ReceiverThrows \/ ReceiverTakes

LoopbackNext == SenderStep \/ ReceiverStep \/ MainExits

\* Both threads run, and recv has a timeout.
LoopbackSpec ==
    /\ LoopbackInit /\ [][LoopbackNext]_loopback
    /\ WF_loopback(SenderStep) /\ WF_loopback(ReceiverStep) /\ WF_loopback(MainExits)

-----------------------------------------------------------------------------
(***************************************************************************)
(* Properties.                                                             *)
(***************************************************************************)
Wanted == IF limit < Len(file.records) THEN limit ELSE Len(file.records)

\* Exit code 0 means that every message of the prefix asked for was received
\* once and in order and has the size of its type, although the tracker takes
\* the first datagram that arrives for the first one sent.
PassesOnlyWhole ==
    exit = 0 => /\ received = [k \in 1 .. Wanted |-> k]
                /\ \A k \in 1 .. Wanted : file.records[k].good

\* The program ends, whichever thread fails and whatever the socket loses.
Terminates == <>(exit # -1)
=============================================================================
