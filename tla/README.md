# A TLA+ verification of qtrader

qtrader takes a Nasdaq ITCH 5.0 feed over MoldUDP64, repairs it, maintains an
order book from it and calls a trading strategy. Around that path it has
matching books, lock-free queues between threads and between processes, and an
integration with WonderTrader. This directory holds TLA+ models of its parts,
TLC runs that check them on small instances, and TLAPS proofs of most of the
safety properties for every instance. `PROJECT.json` maps every definition to the source
lines it models; paths below are relative to the repository.

## 1. Inventory

| Component | State | Operations | Interacts with |
|---|---|---|---|
| MoldUDP64 codec, sequence tracker (`include/qtrader/MoldUdp64.hpp`) | session, next sequence | `parse_downstream_packet`, `SequenceTracker::inspect`, `commit` | called by the recovery window |
| Recovery window (`MoldUdp64Recovery.hpp`) | reorder slots, gap high water, pending end, outstanding request | `ingest` → `store`, `process`, `drain`, `issue_request` | callbacks `on_message`, `on_control`, `on_request` |
| Book feed (`UftBookMoldFeed.hpp`) | a window and a pipeline | constructor, `ingest` | tells the pipeline of gaps and failures |
| Order-book pipeline (`UftOrderBookPipeline.hpp`) | next sequence, high water, feed state, match table, net volume | `start`, `ingest`, `note_gap`, `invalidate`, `apply`, `record` | adapter → engine → `apply` → book; strategy callback |
| ITCH→UFT adapter (`NasdaqItchUftAdapter.hpp`) | order table, match table, counters | `on_message` and ten handlers | publishes book updates and transactions |
| Fixed hash table (`FixedHashTable.hpp`) | open-addressing array, size | `insert`, `find`, `erase`, `backshift_from` | used by adapter and pipeline |
| Dense book (`components/include/qtrader/DensePriceOrderBook.hpp`) | node pool, levels, bitmaps, best levels, index | `feed_*`, `submit`, `cancel`, `modify` | used by the pipeline and by the Level2 program |
| Reference book (`PriceTimeOrderBook.hpp`) | price maps of FIFO queues | `submit`, `cancel`, `modify` | what the dense book is tested against |
| SPSC ring (`SpscRing.hpp`) | head, tail, cells | `try_push`, `push`, `try_pop` | two threads |
| Shared-memory ring (`ShmRingProtocol.hpp`) | write index, stamped slots, reader cursor | `publish`, `attach`, `try_read` | one publisher, any number of readers |
| Level2 program (`src/Level2Pipeline.cpp`) | three threads, both rings, progress counters | publish, forward, submit, validate | composes the two rings and a book |
| Market-data engine (`UftMarketDataEngine.hpp`, `UftBookMarketDataEngine.hpp`) | registrations, subscriber lists, frozen and running flags | `register_*`, `start`, `stop`, `subscribe`, sessions, `publish_*` | between adapter and strategies, which call back |
| ITCH→WonderTrader adapter (`NasdaqItchWtsAdapter.hpp`) | order and match maps, counters | `on_message` and eight handlers | parser plug-in, tools |
| Order lifecycle audit (`NasdaqItchOrderLifecycle.hpp`) | order map, anomaly counters | `on_message` and four handlers | inspection tool |
| Differential replay (`tools/NasdaqItchUftDifferentialReplay.cpp`) | both adapters, mismatch counters | replay, compare, verdict | runs both adapters over one file |
| File reader (`NasdaqItchFile.hpp`) | buffer with two marks, file position | `ensure`, `scan_historical_file` | every program that reads a day's file |
| Parser plug-in (`integration/wondertrader/ParserITCH`) | replay thread, stop and connected flags | `connect`, `disconnect`, `replay_loop` | WonderTrader's calls and callbacks |
| MoldUDP64 loopback (`tools/NasdaqMoldUdpLoopback.cpp`) | sender, receiver thread, socket, tracker | pack, send, receive, verdict | codec and tracker over UDP |
| Opaque UFT bridge, other tools, benchmarks, scripts, fingerprint | – | – | call the components above |

What is hard here:

* **Delivery.** UDP loses, repeats and reorders datagrams, and a retransmission
  may cut messages into packets differently. Two components count sequence
  numbers independently, and neither has a timer.
* **Ordering inside one call.** Callbacks run in the middle of `ingest`; a
  pending end of session must wait for the last missing message; a strategy
  must not run over a known gap and must be called when the gap closes.
* **Redundant state.** An order is in the adapter's table, the book's index, a
  linked list, a level total, a bitmap and a cached best level; a match is in
  two tables with different rules for busts. `ingest` compares counts only.
* **Concurrency.** The SPSC ring and the shared-memory ring rely on the order of
  a few atomic accesses; the Level2 program relies on a distance of
  `kCapacity - 1` between publisher and reader.
* **Re-entrancy.** A strategy may call the engine from its callback, a sink may
  disconnect the parser whose thread is calling it.
* **Twice the same work.** Two adapters and an audit each decide what an ITCH
  message does to the orders, with different checks in a different order.
* **Limits.** Fixed tables everywhere, sequence numbers up to `UINT64_MAX`,
  16-bit request counts, unsigned volumes.

What makes each part correct: the window hands over every message once, in
order, asks for what is missing and reports the end exactly when it is due; the
pipeline applies in sequence and shows the strategy only current, gap-free
books; the feed keeps both in step; adapter, book and match tables agree with
the exchange and fault exactly on what an exchange would not send; the dense
book trades as the reference book; the hash table is a map; the SPSC ring is a
FIFO; a shared-memory reader counts its losses exactly and never gets stale
data; the Level2 program loses nothing and ends; the two adapters and the audit
follow the same orders; an engine runs only with every strategy whole; a replay
shows its sink the file and every call on the parser returns; the loopback tool
passes only if everything arrived, and ends.

## 2. Modules

    InOrderStream   BoundedFifo   FeedBook (PriceTimeOrderBook)   BoundedMap     abstract
         ^               ^               ^                            ^
    RecoveryWindow   SpscRing   DensePriceOrderBook            FixedHashTable    detailed
         |  (MoldUdp64)  |   ShmRing
         v               v     v
    UftBookMoldFeed   Level2Pipeline          ItchOrderBook                      composed
         ^                                         ^
    UftOrderBookPipeline                     NasdaqItchUftAdapter --+
                                             NasdaqItchWtsAdapter --+-> NasdaqItchUftDifferentialReplay
                                             NasdaqItchOrderLifecycle
    NasdaqMoldUdpLoopback (MoldUdp64)   ParserITCH (NasdaqItchFile)   UftMarketDataEngine

The proofs about a module `X` are in `XProofs`. Those of both rings are with the
Level2 program and those of the window with the feed, whose proofs use them;
those of the pipeline's sequencing are with the engine it publishes to.

### MoldUdp64, RecoveryWindow, InOrderStream

A datagram is a record of what the parser looks at: whether the header is
complete, session, first sequence, count, how many message blocks it really
holds, and what is left after them. `ParseError` is the block walk with its
errors in order; `SequenceState` is `inspect`. Every packet of the constant
`Packets` may arrive at any time, any number of times, or never: that is UDP.
`MCTraffic` has the packets of the checked instances.

`RecoveryWindow` has one action per outcome of `ingest` (malformed, rejected,
gap stored, gap refused, gap heartbeat, gap end, control, data), a step per
`on_message` callback (`DeliverMessage`), `CommitPacket`, one turn of drain's
loop (`DrainSlot`) and `FinishDrain`. `pc` says where inside `ingest` the
window is. `slots_` is a set of headers, because `store` refuses a second
datagram with the same first sequence. `delivered`, `base`, `request`,
`eos_seen` and `ended` are history. Details the model keeps because they matter:

* the tracker adopts the first header before it checks it for overflow;
* `store` refusing a datagram for capacity returns before `issue_request`, so a
  gap can be known and not asked for. The history variable `unasked` holds from
  then until a packet reaches `issue_request`, and `RequestIffGap` says that this
  is the only state of its kind: the next such packet does ask;
* during a packet a callback still sees the old `next_sequence`;
* an end of session may be signalled again if it arrives again.

`AnswerRequest` and `AnnounceEnd` (the MoldUDP64 server) exist for the fairness
conditions only; they pick among the same packets the network may deliver.
`InOrderStream` is the promise: a log that grows by the next message, and a
close once all of the stream is in it.

### UftOrderBookPipeline, UftBookMoldFeed

The pipeline's sequencing: `Start`, `NoteGap`, `Invalidate`, the outcomes of
`Ingest`, and `CallbackReturns`. `ingest` is split at the strategy callback, the
only point at which foreign code runs in the middle of it, so re-entrant calls
are in the model. What a message does to the book is one of three effects
(update, silent, error); `ItchOrderBook` models how they come about.

`UftBookMoldFeed` extends the window and instantiates the pipeline; each action
is a window action with what the feed makes of it. Its window is primed by the
constructor. `LastKnown` is the sequence passed to `note_gap`, `Report` the
failure test after the window returns. `ServerAnswers` and `ServerHeartbeats`
are the environment; in `MCUftBookMoldFeed` the variable `fixed` says whether a
retransmission repeats the packets of the first transmission or may cut the
stream anew.

### NasdaqItch50, NasdaqItchUftAdapter, ItchOrderBook

A message is a record of the fields its handler reads. A handler is an operator
giving the outcome of the whole call: both tables, the published book update,
the order details, the transactions, the counter. `ItchOrderBook` applies the
update to the book and the pipeline's match table (`apply`, `record`) and faults
as `ingest` does, comparing counters and order counts. The book is a map of
orders here. Two ghosts say what the outside believes: `tape`, kept by a listener
of the transactions (it drops a trade only when a bust repeats it exactly), and
`exchange`, the resting orders that the messages describe. `Legal` tells what an
exchange within the configured limits would send, without reference to the
adapter's tables.

### NasdaqItchWtsAdapter, NasdaqItchOrderLifecycle, NasdaqItchUftDifferentialReplay

The other two consumers of the messages, in the same form, and the tool that runs
both adapters over a file. `Replay` hands a message to the WonderTrader adapter,
the UFT adapter and an audit, and records what the tool's comparison finds.
`NasdaqItchInspect` is the program that runs the audit; here it reads along. A
directory message makes both adapters afresh: what their counters had against the
verdict is gone, what the comparison has counted stays. The tool compares totals of
counters at its end, the model the counters of every message, which is stricter:
see the observations below.

### UftMarketDataEngine

One action per call, and each loop over strategies is split at the callback:
`calls` is the stack of the loops under way, so that a callback may stop the
engine, publish again or subscribe. What a callback may do is everything the
engine lets it do; calls that are refused and change nothing are no steps. A
context is the one given to a strategy by any callback, which it may keep.

### NasdaqItchFile, ParserITCH

`NasdaqItchFile` is the buffered scan over real bytes: `Compacted`, `ReadBytes`
with any number of bytes the system returns, the two `ensure` calls of a record.
`ParserITCH` interleaves its owner (`connect`, `disconnect`) with the replay
thread; an exception is a jump to its handler. The thread's last store
(`ReplayEnds`) and its end (`ReplayExits`) are two steps, so that a join may have
to wait, and a call that has passed its join must find no thread. Assumed: the owner's calls do not
overlap each other, and a sink that calls `disconnect` does so from an order or
trade event while the owner is in no call. From one of the four `handleEvent`
calls, which are outside the `try`, the exception of the join would leave the
thread and end the process. `init` and `registerSpi` have been called.

### NasdaqMoldUdpLoopback

`main` packs and sends, the receiver thread takes datagrams and judges them with
the operators of `MoldUdp64`. The socket keeps the order and may lose anything.
A `recv` that times out and the load of `sender_done` after it are two steps.

### FixedHashTable, BoundedMap

Linear probing and erase by back-shifting, one step per pass of a loop. The hash
is any function into `Buckets`: it is chosen initially and never changes.
`FixedOrderIndex`, the index of the dense book, is the same algorithm with more
slots per entry; in `DensePriceOrderBook` it is a partial function.

### DensePriceOrderBook, PriceTimeOrderBook, FeedBook

`DensePriceOrderBook` has the class's fields in one record `b`; `Allocate`,
`Release`, `AppendTo`, `Unlink`, `UnlinkFilled`, `SetOccupied`, `ClearIfEmpty`
are functions of it and a method is their composition in the code's order.
`submit` and `modify` are split into the start of a taker, one `match` per trade
and `Conclude`, because the sink is called in each. A bitmap is the set of its
ones. `Release` resets the fields of a free node that the code leaves stale and
never reads. A program uses a book for a feed or for matching, not for both.

`PriceTimeOrderBook` is the reference book of the repository over sequences,
`FeedBook` adds what the feed operations promise. The dense book refuses more
than the reference (prices off its grid, id `UINT64_MAX`): `Reject` of `FeedBook`
is that difference, and everything else is compared event for event.
In `MCDenseOrderBook` a ghost `view` holds the queues read off the links, so
that the mapping is evaluated once per step.

### SpscRing, BoundedFifo, ShmRing, Level2Pipeline

`SpscRing` splits `try_push` and `try_pop` at every shared access. Steps
interleave sequentially; that this is what the C++ memory model gives follows
from `NoDataRace`: the cells are the only non-atomic data, producer and consumer
are never at the same cell, and the indices are published with release and read
with acquire. `push` spins on a full ring, as its caller in the Level2 program
asks it to.

`ShmRing` copies a payload in two halves, which is how a copy racing with an
overwrite can tear. The stamp is checked before and after the copy, but a
publisher that has begun to overwrite has not changed the stamp yet: the
protocol alone admits a torn read (`NeverStale` only says that no half is older
than the stamp). What excludes it is the back-pressure of the Level2 program,
one slot of slack: `NoSlotRace` and `EventsArriveWhole`. One reader is enough:
readers write no shared state. `Level2Pipeline` composes both rings with the
three threads of `main`; `book.submit` returns either Boolean, since the verdict
counts it.

## 3. Runs

| Run | Question |
|---|---|
| `recovery_window` | six messages cut in every way, all control packets and one datagram of every refused kind, two slots: order, requests, end of session, refinement of `InOrderStream`, progress |
| `recovery_window_leak` | (violation) is a window that has caught up empty? |
| `pipeline` | every sequence of calls, re-entrant ones included, up to the last sequence number |
| `feed` | both counters together, every cutting and every refused datagram, with and without fixed packet boundaries; a recovering feed ends up live or faulted |
| `itch_book` | every sequence of legal and illegal ITCH messages on tables of two entries, through the pipeline or through both adapters and the audit |
| `order_book` | every sequence of feed or matching operations on three orders and three levels |
| `hash_table` | every hash of four keys around the end of the array |
| `shm` | a publisher that laps its reader |
| `level2` | the three threads over both rings, paced and unpaced; the SPSC ring as a FIFO |
| `engine` | every order of registrations, starts, stops, subscriptions and nested publications of three strategies with two subscriber places |
| `parser` | owner, replay thread and sink over files of every ending, read in pieces of every size |
| `loopback` | files of every kind of record, any datagram lost, either thread failing |

**What they show.** Everything expected to hold does. The one violation: a
buffered datagram that a longer, overlapping packet overtakes is never released
(`next_buffered_slot` asks for `expected < end` and nothing else frees a slot),
while `tests/MoldUdp64RecoveryTest.cpp` expects a window that has caught up to
be empty. A retransmission that keeps the packet boundaries never overtakes one.

Worth knowing besides:

* A datagram with a known first sequence but more messages is dropped as a duplicate
  although the feed has counted its last message, so under repacketisation a
  recovering feed may have no request outstanding (`FixedRecoveringHasRequest`
  is about fixed boundaries); later traffic of the server resolves it
  (`RecoveryTerminates`).
* An id reused after its bust faults the feed, since the pipeline remembers busted
  matches and the adapter does not; and as the pipeline's table keeps busted
  entries it fills first.
* The two adapters differ in what they refuse: match id 0, price 0, an unknown side
  or flag (UFT only), ids beyond `INT64_MAX` (WonderTrader only, and only after
  its tables have changed). With such ids their orders can part without a trace.
  The differential tool's totals can also cancel: a `C` with a flag that is
  neither Y nor N followed by a non-printable `C` for more than the reference has
  left gives equal totals and different orders.
* `stop()` in an `on_init` is undone when `start` ends; after a failed start the
  configuration stays frozen; after `stop()` a kept context may subscribe, and a
  publication that is under way reaches the new subscriber (`CountsItsCallees`).
* `connect()` may return true for a replay whose thread is about to end, and no
  other begins. The flag errs only that way: once `isConnected()` is false the
  sink has seen the close. A second directory entry of the symbol makes a new
  adapter, and the errors of the first are forgotten.
* The loopback receiver may time out, lose the processor, and then find
  `sender_done` with datagrams still in the socket: exit code 1 for a lossless run.

**Bounds.** Two reorder slots make a full window, a drain over several slots and
overlapping slots all happen; packets of up to three messages (two in
`feed`) give every kind of overlap; `SeqMax` is near enough that both overflow checks fire, and
`EndOfSession` is small enough that a gap needs more than one request. Three
orders on three levels give a list with a first, a middle and a last node, a
best level that empties with one behind it, and an exhausted pool; ids are
symmetric. Three order and match ids for tables of two fill each table; a volume
limit of two makes the overflow check fire. Three entries with buckets on both
sides of the wrap give entries that must and must not move into a hole. Two
shared-memory slots and six events lap the reader repeatedly. In the Level2
program four slots, a ring of four cells (three items) and seven events wrap both
rings and use the full back-pressure distance. The differential tool is followed
to its first discrepancy and from there through another directory message, with two orders and one match besides the ids 0 and
`UINT64_MAX`. Three strategies for two subscriber places fill a list and let it
grow while it is walked; two nested calls (`MaxDepth`) put a publication inside a
callback. A buffer of four bytes makes every record of the parser's files
straddle its end. Datagrams of one or two blocks, one too large for the packing
and one too large for the socket are all sent by the loopback's files.
Deadlock is checked except where a program really ends (`shm`, `level2`,
`loopback`) or a fault or discrepancy is final (`itch_book`).

**Fairness.** Weak fairness of the window's own steps (it is sequential code that
runs on) and of the server's answers and end announcements: the code has no
timer and cannot recover from a server that never answers, so without that
assumption the window really stalls. Weak fairness of each thread of the rings
and the Level2 program, whose loops have no blocking call, and of the loops of
the hash table; of the parser's replay thread and of a call its owner is in, as
the file is finite and no callback blocks; of both threads of the loopback, whose
`recv` has a timeout. Nothing makes an owner call, a strategy act or the network
deliver.

**Mutants.** Every property is broken by a mutated definition kept next to the
original (`... Mutant:` in a comment), such as a missing reset, an unmasked
index, a wrong comparison or a swapped order.

## 4. Proofs

Each theorem holds for every value of the constants that the named assumptions
allow; the runs check the same properties on one small instance. TLC has checked every
inductive invariant on the instance of its component's run as well. A
proof module has one lemma per action, and the invariants are conjunctions whose
parts have names.

| Module | Theorems | For every |
|---|---|---|
| `UftBookMoldFeedProofs` (window) | `TypeCorrect`, `DeliveryInOrder`, `NothingHeldBack`, `RequestsMatchGaps`, `EndIsComplete`, `RequestsAreNeeded`, `WindowImplementsStream` | set of packets, number of slots, block limit, width |
| `UftBookMoldFeedProofs` (feed) | `CountersInStep`, `NoKnownGapInCallback`, `RecoveringFeedHasAsked`, `FixedFeedHasAsked` | as for the window, and the boundary |
| `UftMarketDataEngineProofs` (pipeline) | `MessagesInSequence`, `LiveIsGapless`, `LiveStrategyIsCurrent` | boundary, width, sequence of calls |
| `UftMarketDataEngineProofs` (engine) | `EngineRunsOnlyWhole`, `PublicationsCountTheirCallees` | instruments, strategies, list lengths, depth of nesting |
| `ItchOrderBookProofs` | `BookFollowsExchange`, `MatchTablesAgree`, `TapeFollowsMatches`, `VolumeFollowsTape`, `VerdictFollowsLegality`, `FaultIsIllegality` | set of messages, table sizes, grid, largest volume |
| `NasdaqItchUftDifferentialReplayProofs` | `AuditIsReferenceAlways`, `AdaptersAgreeAlways` | set of messages, table sizes |
| `DensePriceOrderBookProofs` | `PoolNeverLeaks`, `DepthFollowsQueues`, `DenseImplementsReference` | pool, price grid, requests, order of calls |
| `FixedHashTableProofs` | `EntriesStayReachable`, `TableImplementsMap` | keys, hash function, capacity |
| `Level2PipelineProofs` | `RingHasNoRace`, `RingImplementsFifo`, `ReadersDropsAreExact`, `ReadersAreNeverStale`, `BookGetsWholeEvents`, `PayloadHasNoRace`, `PipelineRingIsFifo` | capacities, number of events, readers |
| `NasdaqMoldUdpLoopbackProofs` | `PassMeansWhole` | files, limit, datagram size, socket buffer, losses |

**Assumptions.** `WidthAssumption`: the two widths are naturals with room for a
data count. `PacketsAssumption`, `WindowAssumption`: packets are datagrams, and
there is at least one slot. `StreamAssumption`: what a MoldUDP64 server
guarantees, that no message is numbered at or beyond the end and the end packet
carries it; `TypeCorrect` and `DeliveryInOrder` do not use it.
`BoundaryAssumption`, `FeedAssumption`: the first sequence is positive and not
the last, and within the stream. `AdapterAssumption`: tables have room for one
entry. `ItchAssumption`: quantities and prices are naturals, being unsigned
fields. `TableAssumption`: at least twice as many slots as entries, which is how
the class computes its capacity. `CapacityAssumption`: a power of two.
`ShmAssumption`: at least two slots, and fewer events than the number reserved
for "none". `Level2Assumption`: there is one reader, and a cell of the SPSC ring
can hold every event. `EngineAssumption`: positive capacities.
`LoopbackAssumption`: a file is a sequence of records, and the limit is positive.
`DenseAssumption`: a positive tick and lowest price (the constructor throws
otherwise), an index `kInvalid` beyond every node and level, and fields of their
types; `TakerAssumption`: `NoTaker` is not an order. Four theorems have hypotheses of their own: the two about the adapters,
that quantities are numbers and an execution names its order and match (`IsDay`);
`RecoveringFeedHasAsked`, that two data packets which start at the same message
have the same length (`SameBoundaries`), without which it is false;
`FixedFeedHasAsked`, that the traffic is that of the checked instance.

**Recovery window.** Two layers. `Inv = TypeOK /\ WalkInRange /\ Unstarted /\
InOrderDelivery`: `TypeOK` is not inductive alone, since that the cursor stays a
64-bit number while a packet is walked rests on the overflow check made when it
was accepted or stored, which is `WalkInRange`; `InOrderDelivery` needs the
tracker in step with the log, and the first packet to find nothing delivered
(`Unstarted`) and, for its bound on the cursor, the walk. `Inv2`: everything known lies within the stream (`WithinStream`),
gap high water and pending end lie ahead of the expected message between calls
(`Ahead`), the end seen is pending or reported (`EndTracked`), nothing is
recorded before the first packet (`Fresh`), with `NothingDeliverableBuffered` and
`RequestIffGap`. These need each other: a request is raised only if the smallest
known future lies beyond the expected message, which fails as soon as a stale
high water survives a drain.

**Pipeline.** The three properties are inductive together with their types and
`BehindNext`: what changed the book and what the strategy saw lie behind `next_`,
which is what makes the callback that ends a recovery count for all of it.

**Feed.** A step of the feed is a step of the window or leaves it alone, so `Inv`
and `Inv2` hold in it. `PipelineInStep` needs `KnownIsReported`, that everything
the window buffers, was told of, or has pending was passed to `note_gap`: without
it the pipeline could go live while the window waits. That a recovering feed has
asked is the converse (`AskInv`): the last message the pipeline waits for lies in
a slot, in the packet being walked, before the announced sequence or before the
pending end, so the window sees the gap too. A packet refused as a duplicate is
the place where that needs the fixed boundaries.

**ITCH book.** `ItchInv` says more than the properties: until a fault the three
order tables are equal and every entry has a positive remainder (an order reduced
to nothing is gone from all three, or from none), and recorded matches fit in the
table. `FaultIsIllegality` is the action property behind the verdict: the
comparison of order counts in `ingest` never fires on its own. For the net volume
the sum over the tape is taken apart one trade at a time; that it does not
depend on the order is an induction on the size of the set.

**Adapters.** `AdaptersInv` says, message by message, that the UFT tables are the
WonderTrader tables with the sides translated unless something has been counted;
handler by handler, two outcomes whose events and counters agree leave equal
orders, and what the two refuse differently is an error of one of them or an id
beyond `INT64_MAX`. The audit keeps the same orders under every message,
including those it calls anomalies.

**Dense book.** The two invariants speak of walks along linked lists. `DenseInv`
makes the lists local: neighbours point at each other, a node that is in use lies
on the level of its price and is in the index under its id, and two ghost
functions, which exist in every reachable state, give what is ahead of an order
in its queue and how long the free list still is from a free node on. Both change
strictly along their list, so no list has a loop, and `ahead` of the node after
the tail is the level's total. A last part walks the lists of a book with
`DenseInv` and finds `PoolIsExact` and `DepthIsExact`; that the walks end is a
pigeonhole argument on the pool.

The refinement of `FeedBook` (`RefInv`) adds that the taker's node is that of the
request it was made from (`TakerInv`). The queue of a level is read off as a
sequence, `Line`: the only one that follows the links from head to end, on which
every order of the level is once. `AppendTo`, `Unlink` and a reduction then write
one queue of the view, as an `Append`, a removal or a smaller entry, and keep the
others; `UnlinkFilled` is `Unlink` when nothing remains. The best level is the
price `begin()` of the reference book's map has, because the grid is monotone, and
the index the set of the reference book's orders. One lemma per operation names the
step of `FeedBook` that it is, `match` for one pass of the reference book's loop.

**Hash table.** `EveryEntryReachable` must survive the middle of a back-shift,
where one slot is about to be filled: entries that the scan has not come past may
lie behind it, the others may not. The invariant leaves that slot out when it
counts entries and keys (`CountsEntries`, `UniqueKeys`), knows that it is not
blank and that the erased key is nowhere else (`HoleInv`), and says what a probe
under way has ruled out (`ProbeInv`). The arithmetic is in
four lemmas on distances around the array. The refinement maps the table to the
map of its occupied slots; a call takes effect in its last step.

**Rings.** In the SPSC ring both indices are the lengths of the histories modulo
the capacity (`IndicesCount`), and a thread in the middle of a call has a cell or
an item of its own (`FillIsBounded`); race freedom is then that two counters less
than the capacity apart have different remainders. In the shared-memory ring a
payload is never older than its stamp (`PayloadCoversStamp`), and every point of
`try_read` keeps the sum of received and dropped. For the Level2 program
`MainInv` adds the distance that `main` keeps and that every slot between
`shm_consumed` and the publisher is whole; the torn read the protocol admits is
excluded by that and nothing else.

**Engine.** `start` is alone on the stack and refusals cost `configuration_ok`
(`StartIsAlone`, `RefusalIsNoticed`); a publication has called the prefix of its
list up to its position (`LoopsWalkLists`), which stays true while the list
grows because lists grow at their ends and have no strategy twice.

**Loopback.** `LoopbackInv`: datagrams carry the part of the file they claim
(`SocketInv`), and what the receiver has is a run that ends at the message it
expects (`ReceiverInv`), from wherever it began. That the run is as long as what
was sent and ends no later makes it begin at message 1, so the comparison of
totals in the verdict is enough, although a lost first datagram is no gap.

**Only model-checked.** Liveness (`EventuallyCaughtUp`, `RecoveryTerminates`,
`CallsReturn`, `Terminates` and the like) and `ENABLED` are out of the prover's
reach. So are the library's induction theorems, which take an operator; where a
proof needs induction (sums over sets, walks along lists) it takes the least
element of a set of naturals. Not proved: `SessionIsTheFile`, which
compares a history with the records that a byte sequence is cut into, both given by
`FlattenSeq`, `SelectSeq` and `SetToSortSeq`, of which the provers know nothing.

## 5. Not modelled

Byte order and field offsets of the messages, fingerprints, statistics that no
decision reads, time stamps, benchmarks and scripts: no control of their own. The
replay and inspection programs other than the differential one call modelled
components in a row and print. The opaque UFT bridge is one fixed strategy behind
a C interface. `LegacyQueue`, the epoch and `restarted` of the shared-memory ring:
nothing in the repository uses them; the policies `Reject` and `DropNewest` of the
SPSC ring: only tests do. The strategy's simulated orders and the loading of
events in the Level2 program. `init`, `registerSpi` and `subscribe` of the parser,
which set fields before the first `connect` or that nobody reads.

## 6. Plan

1. (done) Recovery window with its proofs; pipeline; feed; the rings and the
   Level2 program; the books; the hash table; the ITCH adapter.
2. (done) Engine, both adapters with the audit and the differential tool, file
   reader and parser plug-in, loopback tool; one run for the feed.
3. (done) Proofs for the pipeline, the feed, the ITCH book, the hash table, the
   rings and the Level2 program, the engine and the loopback.
4. (done) Proofs for the adapters and the audit, the request of a recovering feed,
   the net volume, the pool and the depth of the dense book, and its refinement of
   `FeedBook`.
5. Proof left: `SessionIsTheFile`, by induction along the file.
