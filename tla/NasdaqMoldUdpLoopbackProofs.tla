--------------------- MODULE NasdaqMoldUdpLoopbackProofs ----------------------
(***************************************************************************)
(* Proofs about NasdaqMoldUdpLoopback: whatever the socket loses and       *)
(* however the threads run, exit code 0 means a whole file.                *)
(***************************************************************************)
EXTENDS NasdaqMoldUdpLoopback, FiniteSetTheorems, TLAPS

Record == [size : Nat, good : BOOLEAN]

\* main: what it has packed is the part of the file behind what it has sent.
SenderInv ==
    /\ file \in Files /\ limit \in Nat
    /\ sent_messages \in Nat /\ sent_messages <= limit
    /\ sent_messages <= Len(file.records)
    /\ first_sequence \in Nat \ {0}
    /\ datagram \in Seq(Record)
    /\ first_sequence + Len(datagram) = sent_messages + 1
    /\ \A k \in 1 .. Len(datagram) : datagram[k] = file.records[first_sequence + k - 1]
    /\ sender = "end" => datagram = <<>> /\ sent_messages = Wanted

\* A datagram carries a part of the file that main has sent.
Sound(p) ==
    /\ p.complete = TRUE /\ p.session = Session /\ p.rest = "none"
    /\ p.first \in Nat \ {0} /\ p.bodies \in Seq(Record) /\ p.blocks = Len(p.bodies)
    /\ p.count = Len(p.bodies) \/ (p.count = EndOfSession /\ Len(p.bodies) = 0)
    /\ p.first + Len(p.bodies) <= first_sequence
    /\ \A k \in 1 .. Len(p.bodies) : p.bodies[k] = file.records[p.first + k - 1]

Sent == [complete : {TRUE}, session : {Session}, first : Nat \ {0}, count : Nat,
         blocks : Nat, rest : {"none"}, bodies : Seq(Record)]

SocketInv ==
    /\ socket \in Seq(Sent)
    /\ \A i \in 1 .. Len(socket) : Sound(socket[i])

Tracker == [initialized : BOOLEAN, session : {Session}, next : Nat]

\* The receiver has a run of the messages up to the one it expects next, from
\* wherever it began.
ReceiverInv ==
    /\ tracker \in Tracker
    /\ received \in Seq(Nat)
    /\ ~tracker.initialized => received = <<>>
    /\ tracker.initialized =>
          /\ tracker.next \in Nat \ {0} /\ tracker.next <= first_sequence
          /\ Len(received) < tracker.next
          /\ \A k \in 1 .. Len(received) : received[k] = tracker.next - Len(received) + k - 1
    /\ stats.malformed_itch \in Nat
    /\ stats.malformed_itch = 0 =>
          \A k \in 1 .. Len(received) : file.records[received[k]].good

ExitInv ==
    /\ exit # -1 => receiver \in {"done", "failed"} /\ sender_done
    /\ PassesOnlyWhole

LoopbackInv == SenderInv /\ SocketInv /\ ReceiverInv /\ ExitInv

LEMMA LoopbackInitInv == LoopbackInit => LoopbackInv
<1> SUFFICES ASSUME LoopbackInit PROVE LoopbackInv
  OBVIOUS
<1>1. file.records \in Seq(Record) /\ limit \in Nat /\ Len(file.records) \in Nat
  BY LoopbackAssumption DEF LoopbackInit, Record
<1>2. <<>> \in Seq(Record) /\ <<>> \in Seq(Nat) /\ Len(<<>>) = 0
  OBVIOUS
<1>3. SenderInv
  BY <1>1, <1>2 DEF LoopbackInit, SenderInv
<1>4. SocketInv
  BY DEF LoopbackInit, SocketInv
<1>5. ReceiverInv
  BY <1>2 DEF LoopbackInit, ReceiverInv, Tracker
<1>6. ExitInv
  BY DEF LoopbackInit, ExitInv, PassesOnlyWhole
<1> QED
  BY <1>3, <1>4, <1>5, <1>6 DEF LoopbackInv

-----------------------------------------------------------------------------
LEMMA FileType ==
    ASSUME LoopbackInv
    PROVE  file.records \in Seq(Record) /\ Len(file.records) \in Nat
           /\ \A k \in 1 .. Len(file.records) : file.records[k] \in Record
<1>1. file.records \in Seq(Record)
  BY LoopbackAssumption DEF LoopbackInv, SenderInv, Record
<1> QED
  BY <1>1

\* What the sender does leaves the datagrams under way and the receiver alone.
LEMMA SoundKept ==
    ASSUME file' = file, first_sequence \in Nat, first_sequence' \in Nat,
           first_sequence <= first_sequence', NEW p, Sound(p)
    PROVE  Sound(p)'
<1>1. p.first + Len(p.bodies) \in Nat
  BY DEF Sound
<1>2. p.first + Len(p.bodies) <= first_sequence'
  BY <1>1 DEF Sound
<1> QED
  BY <1>2 DEF Sound, Record

LEMMA SocketKept ==
    ASSUME SocketInv, file' = file, first_sequence \in Nat, first_sequence' \in Nat,
           first_sequence <= first_sequence', socket' = socket
    PROVE  SocketInv'
<1>1. \A i \in 1 .. Len(socket) : Sound(socket[i])'
  <2> SUFFICES ASSUME NEW i \in 1 .. Len(socket) PROVE Sound(socket[i])'
    OBVIOUS
  <2> DEFINE p == socket[i]
  <2>1. Sound(p) /\ socket'[i] = p
    BY DEF SocketInv
  <2> HIDE DEF p
  <2>2. Sound(p)'
    BY <2>1, SoundKept DEF p
  <2> QED
    BY <2>2 DEF p
<1> QED
  BY <1>1 DEF SocketInv

LEMMA ReceiverKept ==
    ASSUME LoopbackInv, file' = file, first_sequence' \in Nat,
           first_sequence <= first_sequence', UNCHANGED <<receiver, tracker, stats, received>>
    PROVE  ReceiverInv'
<1>1. first_sequence \in Nat /\ (tracker.initialized => tracker.next \in Nat)
  BY DEF LoopbackInv, SenderInv, ReceiverInv
<1>2. tracker.initialized => tracker.next <= first_sequence'
  BY <1>1 DEF LoopbackInv, ReceiverInv
<1> QED
  BY <1>2 DEF LoopbackInv, ReceiverInv

LEMMA ExitKept ==
    ASSUME LoopbackInv, UNCHANGED <<file, limit, receiver, received, exit>>,
           sender_done => sender_done'
    PROVE  ExitInv'
BY DEF LoopbackInv, ExitInv, PassesOnlyWhole, Wanted

LEMMA SenderPacksInv ==
    ASSUME LoopbackInv, SenderPacks
    PROVE  LoopbackInv'
<1> DEFINE r == NextRecord
<1>1. /\ sender = "scan" /\ sent_messages < limit /\ sent_messages < Len(file.records)
      /\ datagram' = Append(datagram, r) /\ sent_messages' = sent_messages + 1
      /\ UNCHANGED <<file, limit, sender, first_sequence, sender_done, socket, exit>>
      /\ UNCHANGED <<receiver, tracker, stats, received>>
  BY DEF SenderPacks, Scanning, receiving
<1>2. /\ limit \in Nat /\ sent_messages \in Nat /\ first_sequence \in Nat \ {0}
      /\ datagram \in Seq(Record) /\ first_sequence + Len(datagram) = sent_messages + 1
      /\ \A k \in 1 .. Len(datagram) : datagram[k] = file.records[first_sequence + k - 1]
      /\ file \in Files
  BY DEF LoopbackInv, SenderInv
<1>3. Len(file.records) \in Nat /\ r \in Record /\ r = file.records[sent_messages + 1]
  <2>1. /\ Len(file.records) \in Nat
        /\ \A k \in 1 .. Len(file.records) : file.records[k] \in Record
    BY FileType
  <2>2. sent_messages + 1 \in 1 .. Len(file.records)
    BY <1>1, <1>2, <2>1
  <2> QED
    BY <2>1, <2>2 DEF NextRecord
<1> HIDE DEF r
<1>4. /\ datagram' \in Seq(Record) /\ Len(datagram') = Len(datagram) + 1
      /\ datagram'[Len(datagram) + 1] = r
      /\ \A k \in 1 .. Len(datagram) : datagram'[k] = datagram[k]
  BY <1>1, <1>2, <1>3
<1>5. \A k \in 1 .. Len(datagram') : datagram'[k] = file.records[first_sequence + k - 1]
  <2> SUFFICES ASSUME NEW k \in 1 .. Len(datagram')
               PROVE  datagram'[k] = file.records[first_sequence + k - 1]
    OBVIOUS
  <2>1. CASE k = Len(datagram) + 1
    <3>1. first_sequence + k - 1 = sent_messages + 1
      BY <1>2, <2>1
    <3> QED
      BY <1>3, <1>4, <2>1, <3>1
  <2>2. CASE k # Len(datagram) + 1
    <3>1. k \in 1 .. Len(datagram)
      BY <1>2, <1>4, <2>2
    <3> QED
      BY <1>2, <1>4, <3>1
  <2> QED
    BY <2>1, <2>2
<1>6. /\ sent_messages' \in Nat /\ sent_messages' <= limit
      /\ sent_messages' <= Len(file.records)
      /\ first_sequence + Len(datagram') = sent_messages' + 1
  BY <1>1, <1>2, <1>3, <1>4
<1>7. SenderInv'
  BY <1>1, <1>2, <1>4, <1>5, <1>6 DEF SenderInv, Record
<1>8. SocketInv' /\ ReceiverInv' /\ ExitInv'
  BY <1>1, <1>2, SocketKept, ReceiverKept, ExitKept DEF LoopbackInv
<1> QED
  BY <1>7, <1>8 DEF LoopbackInv

\* A sound datagram may be appended to the socket, or lost.
LEMMA TransmitsInv ==
    ASSUME SocketInv, file' = file, first_sequence \in Nat, first_sequence' \in Nat,
           first_sequence <= first_sequence', NEW p \in Sent, Sound(p)', Transmits(p)
    PROVE  SocketInv'
<1>1. CASE UNCHANGED socket
  BY <1>1, SocketKept
<1>2. CASE socket' = Append(socket, p)
  <2>1. socket \in Seq(Sent)
    BY DEF SocketInv
  <2>2. /\ socket' \in Seq(Sent) /\ Len(socket') = Len(socket) + 1 /\ Len(socket) \in Nat
        /\ \A i \in 1 .. Len(socket) : socket'[i] = socket[i]
        /\ socket'[Len(socket) + 1] = p
    BY <1>2, <2>1
  <2>3. \A i \in 1 .. Len(socket') : Sound(socket[i])'
    <3> SUFFICES ASSUME NEW i \in 1 .. Len(socket') PROVE Sound(socket[i])'
      OBVIOUS
    <3>1. CASE i = Len(socket) + 1
      <4>1. socket'[i] = p
        BY <2>2, <3>1
      <4> QED
        BY <4>1
    <3>2. CASE i # Len(socket) + 1
      <4>0. PICK q : q = socket[i]
        OBVIOUS
      <4>1. i \in 1 .. Len(socket)
        BY <2>2, <3>2
      <4>2. Sound(q) /\ socket'[i] = q
        BY <2>2, <4>0, <4>1 DEF SocketInv
      <4>3. Sound(q)'
        BY <4>2, SoundKept
      <4> QED
        BY <4>2, <4>3
    <3> QED
      BY <3>1, <3>2
  <2>4. Sent' = Sent
    BY DEF Sent, Record
  <2> QED
    BY <2>2, <2>3, <2>4 DEF SocketInv
<1> QED
  BY <1>1, <1>2 DEF Transmits

LEMMA SenderSendsInv ==
    ASSUME LoopbackInv, SenderSends
    PROVE  LoopbackInv'
<1> DEFINE n == Len(datagram)
<1>0. PICK p : p = Packet(first_sequence, n, datagram)
  OBVIOUS
<1>1. /\ Transmits(p) /\ first_sequence' = first_sequence + n /\ datagram' = <<>>
      /\ UNCHANGED <<file, limit, sender, sent_messages, sender_done, exit>>
      /\ UNCHANGED <<receiver, tracker, stats, received>>
  BY <1>0 DEF SenderSends, receiving
<1>2. sender = "scan"
  BY DEF SenderSends, SendsData, Scanning, ScanReturns, ScanIsOver
<1>3. /\ first_sequence \in Nat \ {0} /\ datagram \in Seq(Record)
      /\ sent_messages \in Nat /\ first_sequence + n = sent_messages + 1
      /\ \A k \in 1 .. n : datagram[k] = file.records[first_sequence + k - 1]
  BY DEF LoopbackInv, SenderInv
<1>4. /\ n \in Nat /\ first_sequence' \in Nat \ {0} /\ first_sequence <= first_sequence'
      /\ first_sequence' = sent_messages + 1
  BY <1>1, <1>3
<1>5. /\ p.complete = TRUE /\ p.session = Session /\ p.rest = "none"
      /\ p.first = first_sequence /\ p.bodies = datagram /\ p.blocks = n /\ p.count = n
  BY <1>0 DEF Packet
<1>6. p \in Sent
  BY <1>0, <1>3, <1>4 DEF Packet, Sent
<1>7. Sound(p)'
  <2>1. \A k \in 1 .. Len(p.bodies) : p.bodies[k] = file'.records[p.first + k - 1]
    BY <1>1, <1>3, <1>5
  <2>2. p.first + Len(p.bodies) <= first_sequence'
    BY <1>1, <1>4, <1>5
  <2> QED
    BY <1>3, <1>5, <2>1, <2>2 DEF Sound, Record
<1>8. SocketInv'
  BY <1>1, <1>3, <1>4, <1>6, <1>7, TransmitsInv DEF LoopbackInv
<1>9. SenderInv'
  <2>1. <<>> \in Seq(Record) /\ Len(<<>>) = 0
    OBVIOUS
  <2>2. /\ (first_sequence + Len(datagram) = sent_messages + 1)'
        /\ (\A k \in 1 .. Len(datagram) : datagram[k] = file.records[first_sequence + k - 1])'
    BY <1>1, <1>3, <1>4, <2>1
  <2>3. (sender = "end" => datagram = <<>> /\ sent_messages = Wanted)'
    BY <1>1, <1>2
  <2> QED
    BY <1>1, <1>4, <2>1, <2>2, <2>3 DEF LoopbackInv, SenderInv, Record
<1>10. ReceiverInv' /\ ExitInv'
  BY <1>1, <1>4, ReceiverKept, ExitKept
<1> QED
  BY <1>8, <1>9, <1>10 DEF LoopbackInv

LEMMA SenderSendsEndInv ==
    ASSUME LoopbackInv, SenderSendsEnd
    PROVE  LoopbackInv'
<1>0. PICK p : p = Packet(first_sequence, EndOfSession, <<>>)
  OBVIOUS
<1>1. /\ Transmits(p) /\ sender' = "end" /\ datagram = <<>>
      /\ UNCHANGED <<file, limit, datagram, first_sequence, sent_messages, sender_done, exit>>
      /\ UNCHANGED <<receiver, tracker, stats, received>>
  BY <1>0 DEF SenderSendsEnd, receiving
<1>2. /\ first_sequence \in Nat \ {0} /\ sent_messages \in Nat /\ limit \in Nat
      /\ sent_messages <= limit /\ sent_messages <= Len(file.records)
  BY DEF LoopbackInv, SenderInv
<1>3. sent_messages = Wanted
  <2>1. ~(sent_messages < limit /\ sent_messages < Len(file.records))
    BY DEF SenderSendsEnd, ScanReturns, ScanIsOver, Scanning
  <2>2. Len(file.records) \in Nat
    BY FileType
  <2> QED
    BY <1>2, <2>1, <2>2 DEF Wanted
<1>4. <<>> \in Seq(Record) /\ Len(<<>>) = 0
  OBVIOUS
<1>5. /\ p.complete = TRUE /\ p.session = Session /\ p.rest = "none"
      /\ p.first = first_sequence /\ p.bodies = <<>> /\ p.blocks = 0
      /\ p.count = EndOfSession
  BY <1>0, <1>4 DEF Packet
<1>6. p \in Sent
  BY <1>0, <1>2, <1>4, WidthAssumption DEF Packet, Sent
<1>7. Sound(p)'
  <2>1. p.first + Len(p.bodies) <= first_sequence'
    BY <1>1, <1>2, <1>4, <1>5
  <2> QED
    BY <1>2, <1>4, <1>5, <2>1 DEF Sound, Record
<1>8. SocketInv'
  BY <1>1, <1>2, <1>6, <1>7, TransmitsInv DEF LoopbackInv
<1>9. SenderInv'
  BY <1>1, <1>3 DEF LoopbackInv, SenderInv, Record, Wanted
<1>10. ReceiverInv' /\ ExitInv'
  BY <1>1, <1>2, ReceiverKept, ExitKept
<1> QED
  BY <1>8, <1>9, <1>10 DEF LoopbackInv

LEMMA SenderThrowsInv ==
    ASSUME LoopbackInv, SenderThrows \/ SenderStores
    PROVE  LoopbackInv'
<1>1. /\ UNCHANGED <<file, limit, datagram, first_sequence, sent_messages, socket, exit>>
      /\ UNCHANGED <<receiver, tracker, stats, received>>
      /\ sender' = "failed" \/ sender' = sender
      /\ sender_done => sender_done'
  BY DEF SenderThrows, SenderStores, receiving
<1>2. first_sequence \in Nat
  BY DEF LoopbackInv, SenderInv
<1>3. SenderInv'
  BY <1>1 DEF LoopbackInv, SenderInv, Record, Wanted
<1>4. SocketInv' /\ ReceiverInv' /\ ExitInv'
  BY <1>1, <1>2, SocketKept, ReceiverKept, ExitKept DEF LoopbackInv
<1> QED
  BY <1>3, <1>4 DEF LoopbackInv

-----------------------------------------------------------------------------
LEMMA SenderUntouched ==
    ASSUME LoopbackInv,
           UNCHANGED <<file, limit, sender, datagram, first_sequence, sent_messages>>
    PROVE  SenderInv'
BY DEF LoopbackInv, SenderInv, Record, Wanted

\* The receiver waits, gives up or fails: what it has received stays.
LEMMA ReceiverWaitsInv ==
    ASSUME LoopbackInv, ReceiverTimesOut \/ ReceiverLoadsDone \/ ReceiverThrows
    PROVE  LoopbackInv'
<1>1. /\ UNCHANGED <<file, limit, sender, datagram, first_sequence, sent_messages, sender_done>>
      /\ UNCHANGED <<socket, tracker, stats, received, exit>>
      /\ receiver \in {"recv", "timeout"}
  BY DEF ReceiverTimesOut, ReceiverLoadsDone, ReceiverThrows, sending
<1>2. first_sequence \in Nat
  BY DEF LoopbackInv, SenderInv
<1>3. SenderInv' /\ SocketInv'
  BY <1>1, <1>2, SenderUntouched, SocketKept DEF LoopbackInv
<1>4. ReceiverInv'
  BY <1>1 DEF LoopbackInv, ReceiverInv
<1>5. exit' = -1
  BY <1>1 DEF LoopbackInv, ExitInv
<1>6. ExitInv'
  BY <1>5 DEF ExitInv, PassesOnlyWhole
<1> QED
  BY <1>3, <1>4, <1>6 DEF LoopbackInv

\* Taking a datagram out of the socket leaves the others sound.
LEMMA TakesFromSocket ==
    ASSUME LoopbackInv, socket # <<>>, socket' = Tail(socket),
           UNCHANGED <<file, first_sequence>>
    PROVE  Sound(Head(socket)) /\ Head(socket) \in Sent /\ SocketInv'
<1>1. socket \in Seq(Sent) /\ (\A i \in 1 .. Len(socket) : Sound(socket[i]))
  BY DEF LoopbackInv, SocketInv
<1>2. Head(socket) = socket[1] /\ 1 \in 1 .. Len(socket) /\ Head(socket) \in Sent
  BY <1>1
<1>3. /\ socket' \in Seq(Sent) /\ Len(socket') = Len(socket) - 1
      /\ \A i \in 1 .. Len(socket') : socket'[i] = socket[i + 1] /\ i + 1 \in 1 .. Len(socket)
  BY <1>1
<1>4. first_sequence \in Nat
  BY DEF LoopbackInv, SenderInv
<1>5. \A i \in 1 .. Len(socket') : Sound(socket[i])'
  <2> SUFFICES ASSUME NEW i \in 1 .. Len(socket') PROVE Sound(socket[i])'
    OBVIOUS
  <2>1. PICK q : q = socket[i + 1]
    OBVIOUS
  <2>2. Sound(q) /\ socket'[i] = q
    BY <1>1, <1>3, <2>1
  <2>3. Sound(q)'
    BY <1>4, <2>2, SoundKept
  <2> QED
    BY <2>2, <2>3
<1>6. SocketInv'
  <2>1. Sent' = Sent
    BY DEF Sent, Record
  <2> QED
    BY <1>3, <1>5, <2>1 DEF SocketInv
<1>7. Sound(Head(socket))
  BY <1>1, <1>2
<1> QED
  BY <1>2, <1>6, <1>7

\* The tracker that judges a datagram: its own, or one that begins with it.
LEMMA AdoptedRun ==
    ASSUME LoopbackInv, NEW p, Sound(p)
    PROVE  LET own == Adopted(p)
           IN  /\ own \in Tracker /\ own.initialized = TRUE /\ own.session = Session
               /\ own.next \in Nat \ {0} /\ own.next <= first_sequence
               /\ received \in Seq(Nat) /\ Len(received) < own.next
               /\ \A k \in 1 .. Len(received) : received[k] = own.next - Len(received) + k - 1
<1> DEFINE own == Adopted(p)
<1>1. CASE tracker.initialized
  <2>1. own = tracker
    BY <1>1 DEF Adopted
  <2> HIDE DEF own
  <2>2. tracker.initialized = TRUE /\ tracker \in Tracker
    BY <1>1 DEF LoopbackInv, ReceiverInv, Tracker
  <2>3. /\ tracker.session = Session
        /\ tracker.next \in Nat \ {0} /\ tracker.next <= first_sequence
        /\ received \in Seq(Nat) /\ Len(received) < tracker.next
        /\ \A k \in 1 .. Len(received) :
              received[k] = tracker.next - Len(received) + k - 1
    BY <1>1 DEF LoopbackInv, ReceiverInv, Tracker
  <2> QED
    BY <2>1, <2>2, <2>3 DEF own
<1>2. CASE ~tracker.initialized
  <2>1. own = [initialized |-> TRUE, session |-> p.session, next |-> p.first]
    BY <1>2 DEF Adopted
  <2> HIDE DEF own
  <2>2. own.initialized = TRUE /\ own.session = p.session /\ own.next = p.first
    BY <2>1
  <2>3. received = <<>> /\ received \in Seq(Nat)
    BY <1>2 DEF LoopbackInv, ReceiverInv
  <2>4. /\ p.session = Session /\ p.first \in Nat \ {0} /\ Len(p.bodies) \in Nat
        /\ p.first + Len(p.bodies) <= first_sequence /\ first_sequence \in Nat
    BY DEF Sound, LoopbackInv, SenderInv
  <2>5. p.first <= first_sequence /\ Len(received) = 0
    BY <2>3, <2>4
  <2>6. /\ own.session = Session /\ own.next \in Nat \ {0} /\ own.next <= first_sequence
        /\ Len(received) < own.next
    BY <2>2, <2>4, <2>5
  <2>7. \A k \in 1 .. Len(received) : received[k] = own.next - Len(received) + k - 1
    BY <2>5
  <2>8. own \in Tracker
    BY <2>1, <2>4 DEF Tracker
  <2> QED
    BY <2>1, <2>2, <2>3, <2>6, <2>7, <2>8 DEF own
<1> QED
  BY <1>1, <1>2

\* The messages of a datagram that may be processed follow the one expected.
LEMMA ProcessedRun ==
    ASSUME NEW p, Sound(p), NEW next \in Nat \ {0},
           LET state == SequenceState(p, Session, next)
           IN  MayProcess(state) /\ Kind(p) = "data"
    PROVE  LET new == Processed(p, SequenceState(p, Session, next), next)
           IN  /\ WellFormed(p) /\ p.count = Len(p.bodies)
               /\ p.first + p.count - next \in Nat /\ p.first <= next
               /\ new = [k \in 1 .. p.first + p.count - next |-> next + k - 1]
<1>1. /\ p.complete = TRUE /\ p.session = Session /\ p.rest = "none"
      /\ p.first \in Nat \ {0} /\ Len(p.bodies) \in Nat /\ p.blocks = Len(p.bodies)
      /\ p.count = Len(p.bodies) \/ (p.count = EndOfSession /\ Len(p.bodies) = 0)
  BY DEF Sound
<1>2. p.count # EndOfSession
  BY WidthAssumption DEF Kind
<1>3. p.count = Len(p.bodies) /\ p.count \in Nat
  BY <1>1, <1>2
<1>4. Carried(p) = p.count
  BY DEF Carried
<1>5. p.count # 0
  BY DEF Kind
<1> DEFINE state == SequenceState(p, Session, next)
<1>6. state \in {"in_order", "overlap"}
  BY DEF MayProcess
<1>7. ~(p.first > SeqMax - p.count) /\ ~(p.first > next) /\ ~(p.first + p.count <= next)
  BY <1>1, <1>3, <1>4, <1>5, <1>6 DEF SequenceState
<1> HIDE DEF state
<1>8. p.first <= next /\ p.first + p.count - next \in Nat /\ SeqMax \in Nat
  BY <1>1, <1>3, <1>7, WidthAssumption
<1>9. ~(p.first > SeqMax - (p.count - 1))
  <2> SUFFICES ASSUME NEW a \in Nat, NEW b \in Nat, NEW m \in Nat, ~(a > m - b)
               PROVE  ~(a > m - (b - 1))
    BY <1>1, <1>3, <1>7, <1>8
  <2> QED
    OBVIOUS
<1>10. WellFormed(p)
  BY <1>1, <1>3, <1>9 DEF WellFormed, ParseError
<1>11. SkipMessages(p, next) = next - p.first
  BY <1>1, <1>8 DEF SkipMessages
<1> DEFINE new == Processed(p, state, next)
<1>12. new = [k \in 1 .. Len(p.bodies) - (next - p.first) |-> p.first + (next - p.first) + k - 1]
  BY <1>11 DEF Processed, state
<1>13. Len(p.bodies) - (next - p.first) = p.first + p.count - next
  BY <1>1, <1>3
<1>14. new = [k \in 1 .. p.first + p.count - next |-> next + k - 1]
  <2>1. \A k \in 1 .. p.first + p.count - next : p.first + (next - p.first) + k - 1 = next + k - 1
    BY <1>1, <1>8
  <2> QED
    BY <1>12, <1>13, <2>1
<1> QED
  BY <1>3, <1>8, <1>10, <1>14 DEF state

LEMMA ConcatType ==
    ASSUME NEW S, NEW s \in Seq(S), NEW t \in Seq(S)
    PROVE  s \o t \in Seq(S) /\ Len(s \o t) = Len(s) + Len(t)
<1>1. s \o t \in Seq(S)
  OBVIOUS
<1>2. Len(s \o t) = Len(s) + Len(t)
  OBVIOUS
<1> QED
  BY <1>1, <1>2

LEMMA ReceiverTakesInv ==
    ASSUME LoopbackInv, ReceiverTakes
    PROVE  LoopbackInv'
<1> DEFINE p     == Head(socket)
           own   == Adopted(p)
           state == SequenceState(p, own.session, own.next)
           new   == Processed(p, state, own.next)
           wrong == {k \in DOMAIN new : ~p.bodies[new[k] - p.first + 1].good}
           takes == WellFormed(p) /\ MayProcess(state) /\ Kind(p) = "data"
<1>1. /\ receiver = "recv" /\ socket # <<>> /\ socket' = Tail(socket)
      /\ UNCHANGED <<file, limit, sender, datagram, first_sequence, sent_messages, sender_done>>
      /\ exit' = exit
      /\ received' = received \o new
      /\ tracker' = IF takes THEN [own EXCEPT !.next = p.first + p.count] ELSE own
      /\ stats'.malformed_itch = stats.malformed_itch + Cardinality(wrong)
  BY DEF ReceiverTakes, sending
<1>2. Sound(p) /\ SocketInv'
  BY <1>1, TakesFromSocket
<1> HIDE DEF p
<1>3. /\ own \in Tracker /\ own.initialized = TRUE /\ own.session = Session
      /\ own.next \in Nat \ {0} /\ own.next <= first_sequence
      /\ received \in Seq(Nat) /\ Len(received) < own.next
      /\ \A k \in 1 .. Len(received) : received[k] = own.next - Len(received) + k - 1
  BY <1>2, AdoptedRun
<1> HIDE DEF own
<1>4. stats.malformed_itch \in Nat
      /\ (stats.malformed_itch = 0 => \A k \in 1 .. Len(received) : file.records[received[k]].good)
  BY DEF LoopbackInv, ReceiverInv
<1>5. SenderInv'
  BY <1>1, SenderUntouched
<1>6. ExitInv'
  <2>1. exit' = -1
    BY <1>1 DEF LoopbackInv, ExitInv
  <2> QED
    BY <2>1 DEF ExitInv, PassesOnlyWhole
<1>7. CASE MayProcess(state) /\ Kind(p) = "data"
  <2> DEFINE n == p.first + p.count - own.next
  <2>1. state = SequenceState(p, Session, own.next)
    BY <1>3
  <2> HIDE DEF state
  <2>2. /\ WellFormed(p) /\ p.count = Len(p.bodies) /\ n \in Nat /\ p.first <= own.next
        /\ new = [k \in 1 .. n |-> own.next + k - 1]
    BY <1>2, <1>3, <1>7, <2>1, ProcessedRun
  <2> HIDE DEF new, n
  <2>3. /\ p.first \in Nat \ {0} /\ Len(p.bodies) \in Nat /\ first_sequence \in Nat
        /\ p.first + Len(p.bodies) <= first_sequence
        /\ \A k \in 1 .. Len(p.bodies) : p.bodies[k] = file.records[p.first + k - 1]
    BY <1>2 DEF Sound, LoopbackInv, SenderInv
  <2>4. tracker' = [own EXCEPT !.next = p.first + p.count]
    BY <1>1, <1>7, <2>2
  <2>5. /\ tracker' \in Tracker /\ tracker'.initialized = TRUE
        /\ tracker'.next = p.first + p.count
    BY <1>3, <2>2, <2>3, <2>4 DEF Tracker
  <2>6. new \in Seq(Nat) /\ Len(new) = n
    BY <1>3, <2>2
  <2>7. /\ received' \in Seq(Nat) /\ Len(received') = Len(received) + n
        /\ \A k \in 1 .. Len(received) : received'[k] = received[k]
        /\ \A k \in 1 .. n : received'[Len(received) + k] = new[k]
    <3>1. received' = received \o new /\ received \in Seq(Nat)
      BY <1>1, <1>3
    <3>2. received \o new \in Seq(Nat) /\ Len(received \o new) = Len(received) + Len(new)
      BY <2>6, <3>1, ConcatType
    <3>3. /\ \A k \in 1 .. Len(received) : (received \o new)[k] = received[k]
          /\ \A k \in 1 .. Len(new) : (received \o new)[Len(received) + k] = new[k]
      BY <2>6, <3>1
    <3> QED
      BY <2>6, <3>1, <3>2, <3>3
  <2>8. tracker'.next = own.next + n /\ tracker'.next <= first_sequence
    BY <1>3, <2>2, <2>3, <2>5 DEF n
  <2>9. \A k \in 1 .. Len(received') : received'[k] = tracker'.next - Len(received') + k - 1
    <3> SUFFICES ASSUME NEW k \in 1 .. Len(received')
                 PROVE  received'[k] = tracker'.next - Len(received') + k - 1
      OBVIOUS
    <3>1. CASE k \in 1 .. Len(received)
      BY <1>3, <2>2, <2>7, <2>8, <3>1
    <3>2. CASE k \notin 1 .. Len(received)
      <4>1. k - Len(received) \in 1 .. n
        BY <1>3, <2>2, <2>7, <3>2
      <4>2. received'[Len(received) + (k - Len(received))] = own.next + (k - Len(received)) - 1
        BY <2>2, <2>7, <4>1
      <4>3. Len(received) + (k - Len(received)) = k
        BY <1>3, <2>7
      <4> QED
        BY <1>3, <2>2, <2>7, <2>8, <4>2, <4>3
    <3> QED
      BY <3>1, <3>2
  <2>10. Len(received') < tracker'.next /\ tracker'.next \in Nat \ {0}
    BY <1>3, <2>2, <2>7, <2>8
  <2>11. wrong \subseteq 1 .. n /\ IsFiniteSet(wrong)
    <3>1. wrong \subseteq 1 .. n
      BY <2>2
    <3>2. IsFiniteSet(1 .. n)
      BY <2>2, FS_Interval
    <3> QED
      BY <3>1, <3>2, FS_Subset
  <2>12. Cardinality(wrong) \in Nat /\ (Cardinality(wrong) = 0 => wrong = {})
    BY <2>11, FS_CardinalityType, FS_EmptySet
  <2>13. stats'.malformed_itch \in Nat
    BY <1>1, <1>4, <2>12
  <2>14. ASSUME stats'.malformed_itch = 0
         PROVE  \A k \in 1 .. Len(received') : file.records[received'[k]].good
    <3>1. stats.malformed_itch = 0 /\ Cardinality(wrong) = 0
      BY <1>1, <1>4, <2>12, <2>14
    <3>2. wrong = {}
      BY <2>12, <3>1
    <3>3. \A k \in 1 .. n : file.records[new[k]].good
      <4> SUFFICES ASSUME NEW k \in 1 .. n PROVE file.records[new[k]].good
        OBVIOUS
      <4>1. p.bodies[new[k] - p.first + 1].good
        BY <2>2, <3>2
      <4>2. new[k] = own.next + k - 1 /\ new[k] \in Nat
        BY <1>3, <2>2
      <4>3. new[k] - p.first + 1 \in 1 .. Len(p.bodies)
        <5>1. p.first + Len(p.bodies) = own.next + n
          BY <1>3, <2>2, <2>3 DEF n
        <5> SUFFICES ASSUME NEW a \in Nat, NEW b \in Nat, NEW c \in Nat, a + b = c + n, a <= c
                     PROVE  (c + k - 1) - a + 1 \in 1 .. b
          BY <1>3, <2>2, <2>3, <4>2, <5>1
        <5> QED
          BY <2>2
      <4>4. p.first + (new[k] - p.first + 1) - 1 = new[k]
        BY <2>3, <4>2
      <4> QED
        BY <2>3, <4>1, <4>3, <4>4
    <3> SUFFICES ASSUME NEW k \in 1 .. Len(received') PROVE file.records[received'[k]].good
      OBVIOUS
    <3>4. CASE k \in 1 .. Len(received)
      BY <1>4, <2>7, <3>1, <3>4
    <3>5. CASE k \notin 1 .. Len(received)
      <4>1. k - Len(received) \in 1 .. n /\ Len(received) + (k - Len(received)) = k
        BY <1>3, <2>2, <2>7, <3>5
      <4> QED
        BY <2>7, <3>3, <4>1
    <3> QED
      BY <3>4, <3>5
  <2>15. ReceiverInv'
    <3>1. Tracker' = Tracker
      BY DEF Tracker
    <3>2. first_sequence' = first_sequence /\ file' = file
      BY <1>1
    <3> QED
      BY <2>5, <2>7, <2>8, <2>9, <2>10, <2>13, <2>14, <3>1, <3>2 DEF ReceiverInv
  <2> QED
    BY <1>2, <1>5, <1>6, <2>15 DEF LoopbackInv
<1>8. CASE ~(MayProcess(state) /\ Kind(p) = "data")
  <2>1. new = <<>>
    BY <1>8 DEF Processed
  <2>2. tracker' = own
    BY <1>1, <1>8
  <2> HIDE DEF state, new
  <2>3. received' = received
    BY <1>1, <1>3, <2>1
  <2>4. wrong = {}
    BY <2>1
  <2> HIDE DEF wrong
  <2>5. stats'.malformed_itch = stats.malformed_itch
    BY <1>1, <1>4, <2>4, FS_EmptySet
  <2>6. ReceiverInv'
    <3>1. Tracker' = Tracker
      BY DEF Tracker
    <3>2. first_sequence' = first_sequence /\ file' = file
      BY <1>1
    <3> QED
      BY <1>3, <1>4, <2>2, <2>3, <2>5, <3>1, <3>2 DEF ReceiverInv
  <2> QED
    BY <1>2, <1>5, <1>6, <2>6 DEF LoopbackInv
<1> QED
  BY <1>7, <1>8

\* Exit code 0: the run of messages ends where main has stopped and is as long
\* as what main has sent, so it begins at the first message.
LEMMA MainExitsInv ==
    ASSUME LoopbackInv, MainExits
    PROVE  LoopbackInv'
<1>1. /\ UNCHANGED <<file, limit, sender, datagram, first_sequence, sent_messages, sender_done>>
      /\ UNCHANGED <<socket, receiver, tracker, stats, received>>
      /\ sender_done /\ receiver \in {"done", "failed"}
  BY DEF MainExits, sending, receiving
<1>2. first_sequence \in Nat
  BY DEF LoopbackInv, SenderInv
<1>3. SenderInv' /\ SocketInv' /\ ReceiverInv'
  BY <1>1, <1>2, SenderUntouched, SocketKept, ReceiverKept DEF LoopbackInv
<1>4. ASSUME exit' = 0
      PROVE  /\ received = [k \in 1 .. Wanted |-> k]
             /\ \A k \in 1 .. Wanted : file.records[k].good
  <2>1. sender = "end" /\ Verdict
    BY <1>4 DEF MainExits
  <2>2. /\ Len(received) = sent_messages /\ stats.malformed_itch = 0
    BY <2>1 DEF Verdict
  <2>3. /\ sent_messages = Wanted /\ datagram = <<>> /\ sent_messages \in Nat
        /\ first_sequence + Len(datagram) = sent_messages + 1
    BY <2>1 DEF LoopbackInv, SenderInv
  <2>4. first_sequence = sent_messages + 1
    BY <1>2, <2>3
  <2>5. /\ received \in Seq(Nat)
        /\ \A k \in 1 .. Len(received) : file.records[received[k]].good
    BY <2>2 DEF LoopbackInv, ReceiverInv
  <2>6. \A k \in 1 .. Len(received) : received[k] = k
    <3>1. CASE tracker.initialized
      <4>1. /\ tracker.next \in Nat /\ tracker.next <= first_sequence
            /\ Len(received) < tracker.next
            /\ \A k \in 1 .. Len(received) :
                  received[k] = tracker.next - Len(received) + k - 1
        BY <3>1 DEF LoopbackInv, ReceiverInv
      <4>2. tracker.next = Len(received) + 1
        BY <2>2, <2>3, <2>4, <4>1
      <4> QED
        BY <2>2, <2>3, <4>1, <4>2
    <3>2. CASE ~tracker.initialized
      <4>1. received = <<>>
        BY <3>2 DEF LoopbackInv, ReceiverInv
      <4> QED
        BY <4>1
    <3> QED
      BY <3>1, <3>2
  <2>7. received = [k \in 1 .. Len(received) |-> received[k]]
    BY <2>5
  <2>8. Len(received) = Wanted
    BY <2>2, <2>3
  <2>9. received = [k \in 1 .. Wanted |-> k]
    BY <2>6, <2>7, <2>8
  <2>10. \A k \in 1 .. Wanted : file.records[k].good
    BY <2>5, <2>6, <2>8
  <2> QED
    BY <2>9, <2>10
<1>5. Wanted' = Wanted
  BY <1>1 DEF Wanted
<1>6. PassesOnlyWhole'
  BY <1>1, <1>4, <1>5 DEF PassesOnlyWhole
<1>7. ExitInv'
  BY <1>1, <1>6 DEF ExitInv
<1> QED
  BY <1>3, <1>7 DEF LoopbackInv

-----------------------------------------------------------------------------
\* Fairness plays no part: LoopbackInv holds of every behaviour of the program.
THEOREM LoopbackInvariance == LoopbackSpec => []LoopbackInv
<1>1. LoopbackInv /\ [LoopbackNext]_loopback => LoopbackInv'
  <2> SUFFICES ASSUME LoopbackInv, [LoopbackNext]_loopback PROVE LoopbackInv'
    OBVIOUS
  <2>1. CASE SenderPacks
    BY <2>1, SenderPacksInv
  <2>2. CASE SenderSends
    BY <2>2, SenderSendsInv
  <2>3. CASE SenderSendsEnd
    BY <2>3, SenderSendsEndInv
  <2>4. CASE SenderThrows \/ SenderStores
    BY <2>4, SenderThrowsInv
  <2>5. CASE ReceiverTimesOut \/ ReceiverLoadsDone \/ ReceiverThrows
    BY <2>5, ReceiverWaitsInv
  <2>6. CASE ReceiverTakes
    BY <2>6, ReceiverTakesInv
  <2>7. CASE MainExits
    BY <2>7, MainExitsInv
  <2>8. CASE UNCHANGED loopback
    <3>1. UNCHANGED <<file, limit, sender, datagram, first_sequence, sent_messages, sender_done,
                      socket, receiver, tracker, stats, received, exit>>
      BY <2>8 DEF loopback, sending, receiving
    <3>2. first_sequence \in Nat
      BY DEF LoopbackInv, SenderInv
    <3>3. SenderInv' /\ SocketInv' /\ ReceiverInv' /\ ExitInv'
      BY <3>1, <3>2, SenderUntouched, SocketKept, ReceiverKept, ExitKept DEF LoopbackInv
    <3> QED
      BY <3>3 DEF LoopbackInv
  <2> QED
    BY <2>1, <2>2, <2>3, <2>4, <2>5, <2>6, <2>7, <2>8
    DEF LoopbackNext, SenderStep, ReceiverStep
<1> QED
  BY <1>1, LoopbackInitInv, PTL DEF LoopbackSpec

\* Exit code 0 means that the receiver has counted every message of the prefix
\* asked for, once and in order, and each has the size of its type (Verdict and
\* MainExits), whatever datagrams the socket loses and however the two threads
\* interleave, although the tracker adopts the first datagram that arrives.
THEOREM PassMeansWhole == LoopbackSpec => []PassesOnlyWhole
<1>1. LoopbackInv => PassesOnlyWhole
  BY DEF LoopbackInv, ExitInv
<1> QED
  BY <1>1, LoopbackInvariance, PTL
=============================================================================
