------------------------ MODULE UftOrderBookPipeline -------------------------
(***************************************************************************)
(* The sequencing and fault logic of UftOrderBookPipeline                  *)
(* (include/qtrader/UftOrderBookPipeline.hpp): which transport messages    *)
(* are applied to the order book and when the strategy is called.          *)
(*                                                                         *)
(* What a message does to the book is left to the effect it turns out to   *)
(* have: "update" (the adapter published a book event and apply accepted   *)
(* it), "silent" (another symbol, or a message without a book event) or    *)
(* "error" (wrong size, or the adapter's counters or the book disagree).   *)
(*                                                                         *)
(* ingest is split at the strategy callback, the one point where code that *)
(* is not the pipeline's runs in the middle of it: in_ingest is TRUE       *)
(* exactly while the callback is running.                                  *)
(***************************************************************************)
EXTENDS Integers, Sequences

CONSTANTS
    SeqMax,         \* UINT64_MAX
    FirstSequence   \* the constructor's first_sequence

ASSUME BoundaryAssumption ==
    /\ SeqMax \in Nat
    /\ FirstSequence \in 1 .. SeqMax - 1

VARIABLES
    state,       \* BookFeedState
    next,        \* next_: the transport sequence expected
    high_water,  \* high_water_: the last sequence known to be missing
    started,     \* started_
    in_ingest,   \* in_ingest_, TRUE while the strategy callback runs
    applied,     \* history: the messages applied completely, in order
    changed,     \* history: the last message that changed the book
    seen         \* history: the message of the last strategy callback

pipeline == <<state, next, high_water, started, in_ingest, applied, changed, seen>>

Effects == {"update", "silent", "error"}

PipelineInit ==
    /\ state = "Live" /\ next = FirstSequence /\ high_water = 0
    /\ started = FALSE /\ in_ingest = FALSE
    /\ applied = <<>> /\ changed = 0 /\ seen = 0

\* start: only the first call, with a strategy, succeeds.
Start ==
    /\ ~started
    /\ started' = TRUE
    /\ UNCHANGED <<state, next, high_water, in_ingest, applied, changed, seen>>

-----------------------------------------------------------------------------
\* invalidate, and every other path through fault().
Invalidate ==
    /\ state' = "Faulted"
    /\ UNCHANGED <<next, high_water, started, in_ingest, applied, changed, seen>>

\* note_gap: a fault is kept, and a sequence already applied is no gap.
GapIsNews(q) == state # "Faulted" /\ q >= next
StateAfterNote(q) == IF GapIsNews(q) THEN "Recovering" ELSE state
HighWaterAfterNote(q) == IF GapIsNews(q) /\ q > high_water THEN q ELSE high_water

NoteGap(q) ==
    /\ state' = StateAfterNote(q)
    /\ high_water' = HighWaterAfterNote(q)
    /\ UNCHANGED <<next, started, in_ingest, applied, changed, seen>>

-----------------------------------------------------------------------------
(***************************************************************************)
(* ingest of the message numbered q, one action per outcome.               *)
(***************************************************************************)
Accepts == started /\ ~in_ingest /\ state # "Faulted"

\* Not started, re-entered from the callback, or faulted; then the overflow.
\* (Another session's message takes the same path: it is the Invalidate step.)
IngestRefused(q) ==
    /\ \/ ~Accepts
       \/ q >= next /\ q = SeqMax
    /\ Invalidate

IngestDuplicate(q) ==
    /\ Accepts
    /\ q < next
    /\ UNCHANGED pipeline

IngestGap(q) ==
    /\ Accepts
    /\ q > next /\ q # SeqMax
    /\ state' = "Recovering"
    /\ high_water' = IF q > high_water THEN q ELSE high_water
    /\ UNCHANGED <<next, started, in_ingest, applied, changed, seen>>

\* The adapter or the book reports an error: next_ is not advanced.
IngestError(q) ==
    /\ Accepts
    /\ q = next /\ q # SeqMax
    /\ Invalidate

\* Mutant: the last missing message is not waited for.
RecoveredOneEarly == state = "Recovering" /\ next + 1 >= high_water

\* next_ has passed high_water_: the gap is filled.
Recovered == state = "Recovering" /\ next + 1 > high_water

\* Mutants: the last number is applied too, and the next one does not exist;
\* recovery on a message without a book event does not call the strategy.
ApplyUnchecked(q, effect) ==
    /\ Accepts
    /\ q = next
    /\ effect # "error"
    /\ next' = next + 1
    /\ applied' = Append(applied, q)
    /\ UNCHANGED <<state, high_water, started, in_ingest, changed, seen>>

ApplyRecoversSilently(q, effect) ==
    /\ Accepts
    /\ q = next /\ q # SeqMax
    /\ effect # "error"
    /\ next' = next + 1
    /\ applied' = Append(applied, q)
    /\ changed' = IF effect = "update" THEN q ELSE changed
    /\ state' = IF Recovered THEN "Live" ELSE state
    /\ in_ingest' = (state' = "Live" /\ effect = "update")
    /\ seen' = IF in_ingest' THEN q ELSE seen
    /\ UNCHANGED <<high_water, started>>

IngestApply(q, effect) ==
    /\ Accepts
    /\ q = next /\ q # SeqMax
    /\ effect # "error"
    /\ next' = next + 1
    /\ applied' = Append(applied, q)
    /\ changed' = IF effect = "update" THEN q ELSE changed
    /\ state' = IF Recovered THEN "Live" ELSE state
    /\ LET notify == state' = "Live" /\ (effect = "update" \/ Recovered)
       IN  /\ in_ingest' = notify
           /\ seen' = IF notify THEN q ELSE seen
    /\ UNCHANGED <<high_water, started>>

Ingest(q, effect) ==
    \/ IngestRefused(q)
    \/ IngestDuplicate(q)
    \/ IngestGap(q)
    \/ effect = "error" /\ IngestError(q)
    \/ IngestApply(q, effect)

\* The strategy callback returns and ingest ends.
CallbackReturns ==
    /\ in_ingest
    /\ in_ingest' = FALSE
    /\ UNCHANGED <<state, next, high_water, started, applied, changed, seen>>

\* The callers: a transport, a feed controller, and the strategy's callback.
\* noexcept and single-thread ownership leave no other interleaving.
PipelineNext ==
    \/ Start
    \/ Invalidate
    \/ \E q \in 0 .. SeqMax : NoteGap(q)
    \/ \E q \in 0 .. SeqMax, effect \in Effects : Ingest(q, effect)
    \/ CallbackReturns

PipelineSpec == PipelineInit /\ [][PipelineNext]_pipeline

-----------------------------------------------------------------------------
(***************************************************************************)
(* Properties.                                                             *)
(***************************************************************************)

\* The channel's messages are applied once each, in sequence from the trusted
\* boundary, and next_ never wraps past UINT64_MAX.
AppliedInSequence ==
    /\ \A i \in 1 .. Len(applied) : applied[i] = FirstSequence + i - 1
    /\ next = FirstSequence + Len(applied)
    /\ next <= SeqMax

\* A strategy is only ever called, and ready() only true, when every message
\* reported missing so far has been applied.
LiveMeansNoKnownGap == state = "Live" => high_water < next

\* While the feed is live the strategy has been called since the last change
\* of the book, also when that change was applied silently during recovery.
StrategyIsCurrent == state = "Live" => changed <= seen
=============================================================================
