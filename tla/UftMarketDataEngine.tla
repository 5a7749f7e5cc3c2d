------------------------ MODULE UftMarketDataEngine --------------------------
(***************************************************************************)
(* UftMarketDataEngine (include/qtrader/UftMarketDataEngine.hpp) and its   *)
(* book channel (UftBookMarketDataEngine.hpp): instruments and strategies  *)
(* are registered, start() runs every on_init, in which strategies         *)
(* subscribe, and published events go to the subscribers in turn.          *)
(*                                                                         *)
(* One thread owns the engine, but every callback may call back into it:   *)
(* stop or publish again, and subscribe through the context every callback *)
(* is given and a strategy may keep.  So every loop that calls strategies  *)
(* is split at the callback, and `calls' is the stack of the loops under   *)
(* way, each of them inside a callback.  Calls that return false or 0 at   *)
(* once change nothing and are no steps.                                   *)
(***************************************************************************)
EXTENDS Integers, Sequences, FiniteSets

CONSTANTS
    Instruments,        \* the ids below InstrumentCapacity
    StrategyCapacity,
    MaxSubscribers,     \* MaxStrategiesPerInstrument
    CallbackSets,       \* the UftStrategyCallbacks that may be registered
    MaxDepth            \* bound: loops nested in callbacks

Strategies == 1 .. StrategyCapacity
Channels   == {"OrderDetail", "Transaction"}
Kinds      == Channels \cup {"Init", "Session"}

ASSUME EngineAssumption ==
    /\ StrategyCapacity \in Nat \ {0} /\ MaxSubscribers \in Nat \ {0}
    /\ CallbackSets \subseteq SUBSET Kinds

VARIABLES
    instruments,            \* the ids registered
    books,                  \* the instruments with a book callback
    callbacks,              \* registered strategy -> the callbacks it has
    configuration_ok,       \* context.configuration_ok_
    subscribers,            \* order_details / transactions of an instrument
    configuration_frozen,
    running,
    calls,                  \* the loops under way, innermost first
    contexts,               \* history: strategies that were given their context
    refused,                \* history: what a strategy did not get in its on_init
    failed,                 \* history: start has returned false
    receipt                 \* history: count and callees of the last publication

config  == <<instruments, books, callbacks>>
history == <<contexts, refused, failed, receipt>>
engine  == <<config, configuration_ok, subscribers, configuration_frozen, running,
             calls, history>>

NoReceipt == [count |-> 0, called |-> <<>>]

EngineInit ==
    /\ instruments = {} /\ books = {} /\ callbacks = [s \in {} |-> {}]
    /\ configuration_ok = [s \in Strategies |-> TRUE]
    /\ subscribers = [i \in Instruments |-> [c \in Channels |-> <<>>]]
    /\ configuration_frozen = FALSE /\ running = FALSE /\ calls = <<>>
    /\ contexts = {} /\ refused = {} /\ failed = FALSE
    /\ receipt = NoReceipt

Registered == DOMAIN callbacks
Members(list) == {list[k] : k \in DOMAIN list}

-----------------------------------------------------------------------------
register_instrument(i) ==
    /\ ~configuration_frozen
    /\ i \notin instruments
    /\ instruments' = instruments \cup {i}
    /\ UNCHANGED <<books, callbacks, configuration_ok, subscribers, configuration_frozen,
                   running, calls, history>>

register_strategy(s, present) ==
    /\ ~configuration_frozen
    /\ s \notin Registered
    /\ callbacks' = [t \in Registered \cup {s} |-> IF t = s THEN present ELSE callbacks[t]]
    /\ UNCHANGED <<instruments, books, configuration_ok, subscribers,
                   configuration_frozen, running, calls, history>>

register_book(i) ==
    /\ ~configuration_frozen
    /\ i \in instruments \ books
    /\ books' = books \cup {i}
    /\ UNCHANGED <<instruments, callbacks, configuration_ok, subscribers,
                   configuration_frozen, running, calls, history>>

-----------------------------------------------------------------------------
(***************************************************************************)
(* The loops.  A frame is the callback a loop is in: `at' is the strategy, *)
(* or the position in the list of subscribers, and `called' whom a         *)
(* publication has reached.                                                *)
(***************************************************************************)
Frame(op, instrument, at, called) ==
    [op |-> op, instrument |-> instrument, at |-> at, called |-> called]

Idle   == calls = <<>>
Top    == Head(calls)
InLoop(op) == ~Idle /\ Top.op = op
Deeper == Len(calls) < MaxDepth
Enter(frame)   == calls' = <<frame>> \o calls
Replace(frame) == calls' = <<frame>> \o Tail(calls)
Leave          == calls' = Tail(calls)

\* The next strategy after s with a callback of the kind.
After(s, kind) == {t \in Registered : t > s /\ kind \in callbacks[t]}
First(set) == CHOOSE t \in set : \A u \in set : t <= u

\* start freezes the configuration, whatever becomes of it.
start ==
    /\ ~configuration_frozen /\ Deeper
    /\ configuration_frozen' = TRUE
    /\ LET next == After(0, "Init")
       IN  IF next = {}
           THEN running' = TRUE /\ UNCHANGED <<calls, contexts>>
           ELSE /\ Enter(Frame("Init", 0, First(next), <<>>))
                /\ contexts' = contexts \cup {First(next)}
                /\ UNCHANGED running
    /\ UNCHANGED <<config, configuration_ok, subscribers, refused, failed, receipt>>

\* on_init returns: start gives up, goes on to the next one, or is done.
InitReturns ==
    /\ InLoop("Init")
    /\ LET next == After(Top.at, "Init")
       IN  \/ /\ ~configuration_ok[Top.at]
              /\ failed' = TRUE /\ Leave
              /\ UNCHANGED <<running, contexts>>
           \/ /\ configuration_ok[Top.at] /\ next # {}
              /\ Replace(Frame("Init", 0, First(next), <<>>))
              /\ contexts' = contexts \cup {First(next)}
              /\ UNCHANGED <<running, failed>>
           \/ /\ configuration_ok[Top.at] /\ next = {}
              /\ running' = TRUE /\ Leave
              /\ UNCHANGED <<contexts, failed>>
    /\ UNCHANGED <<config, configuration_ok, subscribers, configuration_frozen, refused,
                   receipt>>

stop ==
    /\ running' = FALSE
    /\ UNCHANGED <<config, configuration_ok, subscribers, configuration_frozen, calls,
                   history>>

-----------------------------------------------------------------------------
\* append_subscription
Appendable(s, i, c) ==
    /\ c \in callbacks[s]
    /\ Len(subscribers[i][c]) < MaxSubscribers
    /\ s \notin Members(subscribers[i][c])

\* Mutant: only the last subscription decides.
OkAfterLast(s, result) == result

\* UftStrategyContext::subscribe: one failure is enough.
OkAfter(s, result) == configuration_ok[s] /\ result

\* subscribe through the context of s, in its on_init or later: nothing but the
\* engine's state is checked, so it is possible again after stop.
subscribe(s, i, c) ==
    /\ s \in contexts
    /\ LET result == /\ configuration_frozen /\ ~running
                     /\ i \in instruments /\ Appendable(s, i, c)
       IN  /\ refused' = IF ~result /\ InLoop("Init") /\ Top.at = s
                         THEN refused \cup {<<s, i, c>>} ELSE refused
           /\ configuration_ok' = [configuration_ok EXCEPT ![s] = OkAfter(s, result)]
           /\ subscribers' = IF result THEN [subscribers EXCEPT ![i][c] = Append(@, s)]
                             ELSE subscribers
    /\ UNCHANGED <<config, configuration_frozen, running, calls, contexts, failed, receipt>>

-----------------------------------------------------------------------------
\* publish_order_detail and publish_transaction up to the first callback.
publish(i, c) ==
    /\ running /\ i \in instruments /\ Deeper
    /\ subscribers[i][c] # <<>>
    /\ Enter(Frame(c, i, 1, <<subscribers[i][c][1]>>))
    /\ UNCHANGED <<config, configuration_ok, subscribers, configuration_frozen, running,
                   history>>

\* Mutant: the loop ends when a callback has stopped the engine.
MoreWhileRunning(list, at) == running /\ at < Len(list)

\* The count is read again after every callback.
More(list, at) == at < Len(list)

DeliveryReturns ==
    /\ ~Idle /\ Top.op \in Channels
    /\ LET list == subscribers[Top.instrument][Top.op]
           at   == Top.at + 1
       IN  IF More(list, Top.at)
           THEN /\ Replace(Frame(Top.op, Top.instrument, at, Append(Top.called, list[at])))
                /\ UNCHANGED receipt
           ELSE /\ receipt' = [count |-> Len(list), called |-> Top.called]
                /\ Leave
    /\ UNCHANGED <<config, configuration_ok, subscribers, configuration_frozen, running,
                   contexts, refused, failed>>

\* on_session_begin and on_session_end.
session ==
    /\ running /\ Deeper
    /\ After(0, "Session") # {}
    /\ LET next == First(After(0, "Session"))
       IN  /\ Enter(Frame("Session", 0, next, <<>>))
           /\ contexts' = contexts \cup {next}
    /\ UNCHANGED <<config, configuration_ok, subscribers, configuration_frozen, running,
                   refused, failed, receipt>>

SessionReturns ==
    /\ InLoop("Session")
    /\ LET next == After(Top.at, "Session")
       IN  IF next = {}
           THEN Leave /\ UNCHANGED contexts
           ELSE /\ Replace(Frame("Session", 0, First(next), <<>>))
                /\ contexts' = contexts \cup {First(next)}
    /\ UNCHANGED <<config, configuration_ok, subscribers, configuration_frozen, running,
                   refused, failed, receipt>>

\* publish_book_update: the one owner of the instrument's book.
publish_book_update(i) ==
    /\ running /\ i \in books /\ Deeper
    /\ Enter(Frame("Book", i, 1, <<>>))
    /\ UNCHANGED <<config, configuration_ok, subscribers, configuration_frozen, running,
                   history>>

BookReturns ==
    /\ InLoop("Book")
    /\ Leave
    /\ UNCHANGED <<config, configuration_ok, subscribers, configuration_frozen, running,
                   history>>

EngineNext ==
    \/ \E i \in Instruments : register_instrument(i) \/ register_book(i)
    \/ \E s \in Strategies, present \in CallbackSets : register_strategy(s, present)
    \/ start \/ InitReturns \/ stop
    \/ \E s \in Strategies, i \in Instruments, c \in Channels : subscribe(s, i, c)
    \/ \E i \in Instruments, c \in Channels : publish(i, c)
    \/ DeliveryReturns
    \/ session \/ SessionReturns
    \/ \E i \in Instruments : publish_book_update(i)
    \/ BookReturns

EngineSpec == EngineInit /\ [][EngineNext]_engine

-----------------------------------------------------------------------------
(***************************************************************************)
(* Properties.                                                             *)
(***************************************************************************)

\* An engine that runs started whole: no strategy, whatever its place in the
\* order, was refused a subscription in its on_init, and after a start that gave
\* up half way nothing makes the engine run.
RunsOnlyWhole == running => ~failed /\ refused = {}

\* The number a publication returns is the number of strategies it has called,
\* and none was called twice: also when a callback stops the engine and adds
\* subscribers to the list that is being walked.
CountsItsCallees ==
    /\ Len(receipt.called) = receipt.count
    /\ Cardinality(Members(receipt.called)) = receipt.count
=============================================================================
