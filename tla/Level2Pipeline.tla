--------------------------- MODULE Level2Pipeline ---------------------------
(***************************************************************************)
(* The three threads of src/Level2Pipeline.cpp.  main publishes the source *)
(* events into the shared-memory ring and waits for the reader; shm_reader *)
(* turns every item into a BookEvent and pushes it into the SPSC ring;     *)
(* consumer submits it to the book and counts it as completed.             *)
(*                                                                         *)
(* The check after the copy in try_read cannot see a publisher that is in  *)
(* the middle of overwriting the slot: that no event is torn rests on the  *)
(* waiting loop of main alone.                                             *)
(***************************************************************************)
EXTENDS ShmRing, SpscRing

CONSTANT shm_reader   \* the only reader

VARIABLES
    paced,          \* argv[3] is "paced"
    start,          \* start
    shm_consumed,   \* shm_consumed
    completed,      \* completed
    failed,         \* failed
    mpc,            \* main: "starting", "publishing", "validated"
    rpc             \* shm_reader: "starting", "reading", "push", "store", "joined"

locals == <<paced, start, shm_consumed, completed, failed, mpc, rpc>>
level2 == <<shm, ring, locals>>

\* The BookEvent made of an item, and the one that would be whole.
Event(number, first, second) == [number |-> number, first |-> first, second |-> second]
Whole(number) == Event(number, number, number)

ASSUME Level2Assumption ==
    /\ Readers = {shm_reader}
    /\ \A number \in 0 .. Count - 1 : Whole(number) \in Items

Level2Init ==
    /\ ShmInit /\ RingInit
    /\ paced \in BOOLEAN
    /\ start = FALSE /\ failed = FALSE
    /\ shm_consumed = 0 /\ completed = 0
    /\ mpc = "starting" /\ rpc = "starting"

-----------------------------------------------------------------------------
(***************************************************************************)
(* main.  It waits for room in the ring before an item, and in paced mode  *)
(* for the completion of an item after it.  Both conditions, once true,    *)
(* stay true until main itself publishes, so the last load of the waiting  *)
(* loop and the first store of publish are one step.                       *)
(***************************************************************************)
Begin ==
    /\ mpc = "starting"
    /\ start' = TRUE /\ mpc' = "publishing"
    /\ UNCHANGED <<shm, ring, paced, shm_consumed, completed, failed, rpc>>

\* Mutants: the publisher does not wait, or never sees the reader's progress.
HasRoomAlways == TRUE
HasRoomNever  == sequence < ShmCapacity - 1

HasRoom == sequence < shm_consumed + ShmCapacity - 1

PaceKept == paced => completed = sequence

PublishBegin ==
    /\ mpc = "publishing"
    /\ HasRoom /\ PaceKept
    /\ WriteFirst
    /\ UNCHANGED <<ring, locals>>

PublishStep ==
    /\ WriteSecond \/ StampSlot \/ Announce
    /\ UNCHANGED <<ring, locals>>

\* The joins, and the check of the counters.
Validate ==
    /\ mpc = "publishing" /\ wpc = "idle" /\ sequence = Count
    /\ rpc = "joined" /\ completed = Count
    /\ failed' = (failed \/ completed # Count \/ shm_consumed # Count)
    /\ mpc' = "validated"
    /\ UNCHANGED <<shm, ring, paced, start, shm_consumed, completed, rpc>>

-----------------------------------------------------------------------------
(***************************************************************************)
(* shm_reader.  It attaches at the oldest item, possibly after main has    *)
(* started to publish.                                                     *)
(***************************************************************************)
item == reader[shm_reader]

ReaderAttach ==
    /\ rpc = "starting"
    /\ Attach(shm_reader, FALSE)
    /\ rpc' = "reading"
    /\ UNCHANGED <<ring, paced, start, shm_consumed, completed, failed, mpc>>

ReaderTryRead ==
    /\ rpc = "reading" /\ start
    /\ item.pc = "idle" => item.next < Count
    /\ TryRead(shm_reader)
    /\ rpc' = IF item'.pc = "done" THEN "push" ELSE "reading"
    /\ UNCHANGED <<ring, paced, start, shm_consumed, completed, failed, mpc>>

\* try_push until it succeeds
ReaderPush ==
    /\ rpc = "push"
    /\ \/ PushBegin(Event(item.next - 1, item.first, item.second)) /\ rpc' = rpc
       \/ PushWrite /\ rpc' = rpc
       \/ PushPublish /\ rpc' = "store"
    /\ UNCHANGED <<shm, paced, start, shm_consumed, completed, failed, mpc>>

ReaderStore ==
    /\ rpc = "store"
    /\ shm_consumed' = item.next
    /\ Release(shm_reader)
    /\ rpc' = "reading"
    /\ UNCHANGED <<ring, paced, start, completed, failed, mpc>>

ReaderExit ==
    /\ rpc = "reading" /\ start
    /\ item.pc = "idle" /\ item.next >= Count
    /\ failed' = (failed \/ item.dropped # 0)
    /\ rpc' = "joined"
    /\ UNCHANGED <<shm, ring, paced, start, shm_consumed, completed, mpc>>

-----------------------------------------------------------------------------
\* consumer: completed is stored once the popped event was submitted.
Submitted == completed = Len(popped)

ConsumerPop ==
    /\ start
    /\ completed < Count /\ Submitted
    /\ PopBegin \/ PopRead \/ PopAdvance
    /\ UNCHANGED <<shm, locals>>

ConsumerSubmit ==
    /\ cpc = "idle" /\ ~Submitted
    /\ \E ok \in BOOLEAN : failed' = (failed \/ ~ok)
    /\ completed' = Len(popped)
    /\ UNCHANGED <<shm, ring, paced, start, shm_consumed, mpc, rpc>>

-----------------------------------------------------------------------------
Main     == Begin \/ PublishBegin \/ PublishStep \/ Validate
Reader   == ReaderAttach \/ ReaderTryRead \/ ReaderPush \/ ReaderStore \/ ReaderExit
Consumer == ConsumerPop \/ ConsumerSubmit

Level2Next == Main \/ Reader \/ Consumer

\* Every thread keeps being scheduled.
Level2Spec ==
    /\ Level2Init /\ [][Level2Next]_level2
    /\ WF_level2(Main) /\ WF_level2(Reader) /\ WF_level2(Consumer)

-----------------------------------------------------------------------------
(***************************************************************************)
(* Properties.                                                             *)
(***************************************************************************)

\* The book gets the source events whole, in order, without a hole: no read
\* of the shared-memory ring is torn and nothing is lost on the way.
EventsArriveWhole ==
    popped = [i \in 1 .. Len(popped) |-> Whole(i - 1)]

\* main never writes the slot that shm_reader is copying.
NoSlotRace ==
    ~ /\ wpc \in {"second", "stamp", "announce"}
      /\ item.pc \in {"first", "second", "after"}
      /\ SlotOf(sequence) = SlotOf(item.next)

\* No waiting loop waits for ever: the program returns.
Terminates == <>(mpc = "validated")
=============================================================================
