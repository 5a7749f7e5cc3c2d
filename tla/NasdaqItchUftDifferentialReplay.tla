------------------- MODULE NasdaqItchUftDifferentialReplay -------------------
(***************************************************************************)
(* tools/NasdaqItchUftDifferentialReplay.cpp: the messages of a day go     *)
(* through the WonderTrader adapter (the reference) and the UFT adapter    *)
(* (the candidate), and what they publish is compared message by message.  *)
(* The lifecycle audit, which NasdaqItchInspect runs over the same files,  *)
(* reads along.                                                            *)
(*                                                                         *)
(* A handler publishes at most one order detail and one transaction, so    *)
(* what the Comparison holds between messages is nothing.  counts_equal    *)
(* compares totals at the end; here the counters are compared after every  *)
(* message, so that opposite differences do not cancel out as they may in  *)
(* the tool.                                                               *)
(***************************************************************************)
EXTENDS NasdaqItch50

CONSTANT MaxShares   \* UINT32_MAX

VARIABLES
    candidate_orders, candidate_matches,   \* the tables of candidate
    reference_orders, reference_matches,   \* the tables of reference
    audited,         \* the orders of an audit begun with the adapters
    discrepancies,   \* what speaks against the verdict 0
    past             \* history: whether there was an "error" of an adapter, a
                     \* "wide" id beyond INT64_MAX

differential == <<candidate_orders, candidate_matches, reference_orders,
                  reference_matches, audited, discrepancies, past>>

Candidate == INSTANCE NasdaqItchUftAdapter
                WITH orders <- candidate_orders, matches <- candidate_matches
Reference == INSTANCE NasdaqItchWtsAdapter
                WITH orders <- reference_orders, matches <- reference_matches
Audit     == INSTANCE NasdaqItchOrderLifecycle WITH orders <- audited

\* The first directory message of the symbol has created both adapters.
DifferentialInit ==
    /\ candidate_orders = Empty /\ candidate_matches = Empty
    /\ reference_orders = Empty /\ reference_matches = Empty
    /\ audited = Empty /\ discrepancies = {} /\ past = {}

\* An order of the reference with the side the way UFT has it.
AsUft(order) == [order EXCEPT !.side = side_of(@)]
UftTable(table) == [id \in DOMAIN table |-> AsUft(table[id])]

\* compare and finish_message for the events of one kind.
Compared(expected, events) ==
    IF Len(expected) # Len(events) THEN {"ordering_errors"}
    ELSE IF expected # events THEN {"mismatches"}
    ELSE {}

\* The counters of the two adapters that correspond.
Counter(counted) == IF counted = "errors" THEN "malformed_or_missing_orders" ELSE counted

Types(events) == [i \in DOMAIN events |-> events[i].type]

counts_equal(old, new) ==
    /\ Len(old.details) = Len(new.details)
    /\ Types(old.transactions) = Types(new.transactions)
    /\ Counter(old.counted) = new.counted

Wide(m) == \E field \in {"order", "new", "match"} \cap DOMAIN m : m[field] = MaxId

Replay(m) ==
    LET old == Reference!on_message(m)
        new == Candidate!on_message(m)
        details == [i \in DOMAIN old.details |->
                      Detail(old.details[i].id, AsUft(old.details[i].order))]
    IN  /\ reference_orders' = old.orders /\ reference_matches' = old.matches
        /\ candidate_orders' = new.orders /\ candidate_matches' = new.matches
        /\ audited' = Audit!on_message(m).orders
        /\ discrepancies' = discrepancies
              \cup Compared(details, new.details)
              \cup Compared(old.transactions, new.transactions)
              \cup (IF counts_equal(old, new) THEN {} ELSE {"counts"})
              \cup ({new.counted} \cap {"capacity_exhaustions"})
        /\ past' = past
              \cup (IF old.counted = "errors" \/ new.counted \in Candidate!Errors
                    THEN {"error"} ELSE {})
              \cup (IF Wide(m) THEN {"wide"} ELSE {})

\* The directory message again: both adapters start afresh, with counters of
\* zero; the Comparison keeps its own.  The audit knows nothing of directories;
\* one that begins here takes its place.
Directory ==
    /\ candidate_orders' = Empty /\ candidate_matches' = Empty
    /\ reference_orders' = Empty /\ reference_matches' = Empty
    /\ audited' = Empty
    /\ discrepancies' = discrepancies \ {"counts", "capacity_exhaustions"}
    /\ UNCHANGED past

\* The messages of a day, in any order and as often as they come.
DifferentialNext(day) == (\E m \in day : Replay(m)) \/ Directory

DifferentialSpec(day) == DifferentialInit /\ [][DifferentialNext(day)]_differential

-----------------------------------------------------------------------------
(***************************************************************************)
(* Properties.                                                             *)
(***************************************************************************)

\* Two adapters that were written apart agree: as long as neither counts an
\* error they publish the same events and keep the same orders and matches.
\* Whatever the messages, with ids up to INT64_MAX a difference between their
\* orders has shown in the events or the counters of some message.
AdaptersAgree ==
    LET same == candidate_orders = UftTable(reference_orders)
    IN  /\ "error" \notin past => /\ same /\ discrepancies = {}
                                 /\ candidate_matches = UftTable(reference_matches)
        /\ "wide" \notin past /\ discrepancies = {} => same

\* The audit follows the same orders as the WonderTrader adapter, through
\* every message that one of them refuses.
AuditIsReference == audited = reference_orders
=============================================================================
