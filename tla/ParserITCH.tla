------------------------------ MODULE ParserITCH ------------------------------
(***************************************************************************)
(* The WonderTrader parser plug-in (integration/wondertrader/ParserITCH/   *)
(* ParserITCH.cpp): its owner calls connect and disconnect, and a thread   *)
(* replays a file of ITCH records to the sink.                             *)
(*                                                                         *)
(* Every access to what the threads share (_stopped, _connected, the       *)
(* worker and its join) is a step.  Calls of the owner do not overlap.     *)
(* The sink may call disconnect while it is handed an order or a trade:    *)
(* then the thread joins itself, and join throws.                          *)
(***************************************************************************)
EXTENDS NasdaqItchFile, SequencesExt

CONSTANT Files      \* the files replayed: [records : sequence of bodies, tail : bytes]

\* The first byte of a record: the directory entry of the symbol, one of its
\* messages, one that the adapter refuses or that leaves an order open for good,
\* or something else.
Directory == 1
Message   == 2
Faulty    == 3

VARIABLES
    source,         \* the file
    _stopped, _connected,
    _worker,        \* the thread is joinable
    owner,          \* where the owner is in its call, "idle" if in none
    replay,         \* where the replay thread is, "none" if there is none
    scan,           \* its reader
    adapter,        \* "none", "valid" or "invalid": errors were counted
    session         \* history: what the sink has seen since the last WPE_Connect

shared == <<_stopped, _connected, _worker>>
thread == <<replay, scan, adapter, session>>
parser == <<source, shared, owner, thread>>

\* A record behind its length; the tail is what follows the last one.
Framed(records) == FlattenSeq([k \in DOMAIN records |-> <<0, Len(records[k])>> \o records[k]])
Bytes(file) == Framed(file.records) \o file.tail

ParserInit ==
    /\ source \in Files
    /\ _stopped = TRUE /\ _connected = FALSE /\ _worker = FALSE
    /\ owner = "idle" /\ replay = "none"
    /\ scan = Opened /\ adapter = "none" /\ session = <<>>

-----------------------------------------------------------------------------
(***************************************************************************)
(* The owner: connect, and disconnect, which release and the destructor    *)
(* call too.                                                               *)
(***************************************************************************)
connect ==
    /\ owner = "idle" /\ ~(_worker /\ _connected)
    /\ owner' = IF _worker THEN "connect_join" ELSE "connect_start"
    /\ UNCHANGED <<source, shared, thread>>

\* The thread that has ended or is about to is waited for.
ConnectJoins ==
    /\ owner = "connect_join" /\ replay = "none"
    /\ _worker' = FALSE /\ owner' = "connect_start"
    /\ UNCHANGED <<source, _stopped, _connected, thread>>

\* There is no other thread between the join and the start: the stores of
\* _stopped and _connected and the start are one step.
ConnectStarts ==
    /\ owner = "connect_start"
    /\ _stopped' = FALSE /\ _connected' = TRUE
    /\ replay' = "events" /\ _worker' = TRUE /\ owner' = "idle"
    /\ UNCHANGED <<source, scan, adapter, session>>

disconnect ==
    /\ owner = "idle"
    /\ _stopped' = TRUE
    /\ owner' = IF _worker THEN "disconnect_join" ELSE "disconnect_flag"
    /\ UNCHANGED <<source, _connected, _worker, thread>>

DisconnectJoins ==
    /\ owner = "disconnect_join" /\ replay = "none"
    /\ _worker' = FALSE /\ owner' = "disconnect_flag"
    /\ UNCHANGED <<source, _stopped, _connected, thread>>

DisconnectStores ==
    /\ owner = "disconnect_flag"
    /\ _connected' = FALSE /\ owner' = "idle"
    /\ UNCHANGED <<source, _stopped, _worker, thread>>

-----------------------------------------------------------------------------
(***************************************************************************)
(* replay_loop.                                                            *)
(***************************************************************************)
Event(name) == [event |-> name, body |-> <<>>]
Data(body)  == [event |-> "Data", body |-> body]
Opening     == <<Event("Connect"), Event("Login")>>

Closed == session = <<>> \/ Last(session).event \in {"Close", "Error"}

\* WPE_Connect and WPE_Login, then the file is opened, which may fail.
ReplayBegins ==
    /\ replay = "events"
    /\ session' = (IF Closed THEN <<>> ELSE session) \o Opening
    /\ scan' = Opened /\ adapter' = "none"
    /\ replay' \in {"scan", "error"}
    /\ UNCHANGED <<source, shared, owner>>

\* A read in ensure, which may fail.
ReplayReads ==
    /\ replay = "scan" /\ Reading(scan)
    /\ \/ /\ \E n \in ReadSizes(Bytes(source), scan) :
                scan' = ReadBytes(Bytes(source), scan, n)
          /\ UNCHANGED replay
       \/ replay' = "error" /\ UNCHANGED scan
    /\ UNCHANGED <<source, shared, owner, adapter, session>>

\* The length of the next record, the end of the file, or a byte too many.
ReplayTakesSize ==
    /\ replay = "scan" /\ ~Reading(scan) /\ scan.part = "size"
    /\ \/ /\ ensure(scan) /\ read_u16(scan) # 0
          /\ scan' = SizeTaken(scan) /\ UNCHANGED replay
       \/ /\ ensure(scan) /\ read_u16(scan) = 0
          /\ replay' = "error" /\ UNCHANGED scan
       \/ /\ ~ensure(scan)
          /\ replay' = IF available(scan) = 0 THEN "validate" ELSE "error"
          /\ UNCHANGED scan
    /\ UNCHANGED <<source, shared, owner, adapter, session>>

ReplayTruncated ==
    /\ replay = "scan" /\ ~Reading(scan) /\ scan.part = "body" /\ ~ensure(scan)
    /\ replay' = "error"
    /\ UNCHANGED <<source, shared, owner, scan, adapter, session>>

\* The callback: the adapter is made anew by every directory entry of the symbol
\* and converts the symbol's messages.
AdapterAfter(body) ==
    CASE body[1] = Directory                    -> "valid"
      [] body[1] = Faulty /\ adapter # "none"   -> "invalid"
      [] OTHER                                  -> adapter

HandsOver(body) == body[1] = Message /\ adapter # "none"

RecordReady ==
    /\ replay = "scan" /\ ~Reading(scan) /\ scan.part = "body" /\ ensure(scan)

ReplayStops ==
    /\ RecordReady /\ _stopped
    /\ replay' = "logout"
    /\ UNCHANGED <<source, shared, owner, scan, adapter, session>>

ReplayConverts ==
    /\ RecordReady /\ ~_stopped
    /\ adapter' = AdapterAfter(Body(scan))
    /\ session' = IF HandsOver(Body(scan)) THEN Append(session, Data(Body(scan))) ELSE session
    /\ scan' = BodyTaken(scan)
    /\ UNCHANGED <<source, shared, owner, replay>>

\* The sink calls disconnect from the event: _stopped is set, and the exception
\* of the join goes through the adapter and the scan to replay_loop.
SinkDisconnects ==
    /\ RecordReady /\ ~_stopped /\ HandsOver(Body(scan))
    /\ owner = "idle" /\ _worker
    /\ _stopped' = TRUE
    /\ session' = Append(session, Data(Body(scan)))
    /\ replay' = "error"
    /\ UNCHANGED <<source, _connected, _worker, owner, scan, adapter>>

ReplayValidates ==
    /\ replay = "validate"
    /\ replay' = IF adapter = "valid" THEN "complete" ELSE "error"
    /\ UNCHANGED <<source, shared, owner, scan, adapter, session>>

ReplayCloses ==
    \/ /\ replay = "error"
       /\ session' = Append(session, Event("Error")) /\ replay' = "failed"
       /\ UNCHANGED <<source, shared, owner, scan, adapter>>
    \/ /\ replay \in {"logout", "complete"}
       /\ session' = session \o (IF replay = "complete" THEN <<Event("Complete")>> ELSE <<>>)
                             \o <<Event("Logout"), Event("Close")>>
       /\ replay' = "closed"
       /\ UNCHANGED <<source, shared, owner, scan, adapter>>

\* Mutant: the error path forgets the flag.
ReplayEndsNormally ==
    /\ replay \in {"closed", "failed"}
    /\ _connected' = (_connected /\ replay = "failed") /\ replay' = "ending"
    /\ UNCHANGED <<source, _stopped, _worker, owner, scan, adapter, session>>

\* Both ways out end with the flag, after the last event.
ReplayEnds ==
    /\ replay \in {"closed", "failed"}
    /\ _connected' = FALSE /\ replay' = "ending"
    /\ UNCHANGED <<source, _stopped, _worker, owner, scan, adapter, session>>

\* replay_loop returns and the thread ends: only now does a join go through.
ReplayExits ==
    /\ replay = "ending"
    /\ replay' = "none"
    /\ UNCHANGED <<source, shared, owner, scan, adapter, session>>

OwnerStep  == ConnectJoins \/ ConnectStarts \/ DisconnectJoins \/ DisconnectStores
ReplayStep == ReplayBegins \/ ReplayReads \/ ReplayTakesSize \/ ReplayTruncated
                \/ ReplayStops \/ ReplayConverts \/ ReplayValidates \/ ReplayCloses
                \/ ReplayEnds \/ ReplayExits

ParserNext == connect \/ disconnect \/ OwnerStep \/ ReplayStep \/ SinkDisconnects

\* Threads that are scheduled: a call under way and a replay go on.
ParserSpec ==
    ParserInit /\ [][ParserNext]_parser /\ WF_parser(OwnerStep) /\ WF_parser(ReplayStep)

-----------------------------------------------------------------------------
(***************************************************************************)
(* Properties.                                                             *)
(***************************************************************************)
\* The messages of the symbol: those after its first directory entry.
Expected ==
    LET records == source.records
        mine    == SetToSortSeq({k \in DOMAIN records :
                                   /\ records[k][1] = Message
                                   /\ \E d \in 1 .. k - 1 : records[d][1] = Directory}, <)
    IN  [k \in DOMAIN mine |-> Data(records[mine[k]])]

Handed  == SelectSeq(session, LAMBDA e : e.event = "Data")
Closing == SelectSeq(session, LAMBDA e : e.event \in {"Complete", "Logout", "Close", "Error"})
Normal  == <<Event("Logout"), Event("Close")>>

\* What the sink sees of a replay, in the order it comes: connect and login,
\* messages of the symbol in the order of the file, and one close.  A replay
\* that calls itself complete has handed over the whole file, however the reads
\* cut it, and once isConnected() is false the close has been seen.  A call that
\* has passed the join finds no thread, neither running nor joinable, also if it
\* came between the thread's last store and its end: connect starts the only one.
SessionIsTheFile ==
    /\ session # <<>> => session = Opening \o Handed \o Closing
    /\ IsPrefix(Handed, Expected)
    /\ Closing \in {<<>>, <<Event("Error")>>, Normal, <<Event("Complete")>> \o Normal}
    /\ Len(Closing) = 3 => Handed = Expected /\ source.tail = <<>>
    /\ ~_connected => Closed
    /\ owner \in {"connect_start", "disconnect_flag"} => replay = "none" /\ ~_worker

\* Every call of the owner returns, also when the replay fails, is stopped, or
\* was disconnected by its own sink, and who polls isConnected() after connect
\* sees the replay end.
CallsReturn ==
    /\ owner # "idle" ~> owner = "idle"
    /\ _connected ~> ~_connected
=============================================================================
