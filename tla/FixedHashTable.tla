--------------------------- MODULE FixedHashTable ----------------------------
(***************************************************************************)
(* FixedHashTable (include/qtrader/FixedHashTable.hpp): a bounded table    *)
(* with linear probing, which erases by shifting later entries back.  The  *)
(* adapter keeps its orders and matches in it, the pipeline its matches;   *)
(* FixedOrderIndex, the index of DensePriceOrderBook, is the same          *)
(* algorithm with a capacity of four slots per order.                      *)
(*                                                                         *)
(* Every pass of a loop is a step.  The hash is any function: bucket is    *)
(* chosen in TableInit and never changes.                                  *)
(***************************************************************************)
EXTENDS Integers, FiniteSets

CONSTANTS
    Keys,             \* the keys, other than zero
    ZeroKey,          \* key 0, which marks an empty slot
    Values,
    MaximumEntries,   \* maximum_entries_
    Capacity,         \* capacity_
    Buckets           \* the buckets the keys may hash to

\* The smallest power of two from 8 on that holds twice the entries.
rounded_capacity(maximum_entries) ==
    LET sizes == {2 ^ k : k \in 3 .. 16}
    IN  CHOOSE c \in sizes : /\ c >= 2 * maximum_entries
                             /\ \A d \in sizes : d >= 2 * maximum_entries => c <= d

ASSUME TableAssumption ==
    /\ MaximumEntries \in Nat \ {0}
    /\ Capacity \in Nat /\ Capacity >= 8 /\ Capacity >= 2 * MaximumEntries
    /\ ZeroKey \notin Keys
    /\ Buckets \subseteq 0 .. Capacity - 1

Slots == 0 .. Capacity - 1
NoSlot == Capacity          \* what find_slot returns for an unknown key

VARIABLES
    entries,   \* entries_
    size,      \* size_
    bucket,    \* the hash of every key
    call,      \* the running call: its name, key and value
    slot,      \* the slot probed next
    probe,     \* the number of slots probed so far
    hole,      \* the slot to be filled by backshift_from, or NoSlot
    scan,      \* the slot backshift_from looks at
    reply      \* the answer of the last call, once it has returned

table == <<entries, size, bucket, call, slot, probe, hole, scan, reply>>

NoEntry == [key |-> ZeroKey]
NoCall == [name |-> "none"]

TableInit ==
    /\ entries = [s \in Slots |-> NoEntry]
    /\ size = 0
    /\ bucket \in [Keys -> Buckets]
    /\ call = NoCall
    /\ slot = 0 /\ probe = 0
    /\ hole = NoSlot /\ scan = 0
    /\ reply = <<"none">>

\* (s + 1) & (capacity_ - 1), and (to - from) & (capacity_ - 1)
After(s) == IF s = Capacity - 1 THEN 0 ELSE s + 1
Distance(from, to) == IF to >= from THEN to - from ELSE to - from + Capacity

-----------------------------------------------------------------------------
Begin(c) ==
    /\ call' = c
    /\ slot' = bucket[c.key] /\ probe' = 0
    /\ reply' = <<"none">>
    /\ UNCHANGED <<entries, size, bucket, hole, scan>>

Answer(answer) ==
    /\ call = NoCall
    /\ reply' = answer
    /\ UNCHANGED <<entries, size, bucket, call, slot, probe, hole, scan>>

\* At the limit insert only looks the key up, to tell Full from Duplicate.
Insert(key, value) ==
    \/ key = ZeroKey /\ Answer(<<"insert", key, "InvalidKey">>)
    \/ /\ key # ZeroKey /\ call = NoCall
       /\ Begin([name |-> IF size = MaximumEntries THEN "insert_full" ELSE "insert",
                 key |-> key, value |-> value])

Find(key) ==
    \/ key = ZeroKey /\ Answer(<<"find", key, "nullptr">>)
    \/ /\ key # ZeroKey /\ call = NoCall
       /\ Begin([name |-> "find", key |-> key])

Erase(key) ==
    \/ key = ZeroKey /\ Answer(<<"erase", key, FALSE>>)
    \/ /\ key # ZeroKey /\ call = NoCall
       /\ Begin([name |-> "erase", key |-> key])

-----------------------------------------------------------------------------
Probing == call # NoCall /\ hole = NoSlot

Return(name, answer) ==
    /\ reply' = <<name, call.key, answer>>
    /\ call' = NoCall /\ slot' = 0 /\ probe' = 0

\* The answer when the key is nowhere.
Missing ==
    CASE call.name = "insert_full" -> <<"insert", "Full">>
      [] call.name = "find"        -> <<"find", "nullptr">>
      [] call.name = "erase"       -> <<"erase", FALSE>>
      [] call.name = "insert"      -> <<"insert", "Full">>

\* Mutant: the probe stops at the end of the array.
ProbeOtherNoWrap ==
    /\ Probing /\ entries[slot].key \notin {ZeroKey, call.key}
    /\ IF slot + 1 = Capacity
       THEN Return(Missing[1], Missing[2])
       ELSE slot' = slot + 1 /\ probe' = probe + 1 /\ UNCHANGED <<call, reply>>
    /\ UNCHANGED <<entries, size, bucket, hole, scan>>

\* The slot holds another key: on to the next one, unless all were probed.
ProbeOther ==
    /\ Probing /\ entries[slot].key \notin {ZeroKey, call.key}
    /\ IF probe + 1 = Capacity
       THEN Return(Missing[1], Missing[2])
       ELSE slot' = After(slot) /\ probe' = probe + 1 /\ UNCHANGED <<call, reply>>
    /\ UNCHANGED <<entries, size, bucket, hole, scan>>

\* The slot is empty: insert uses it, the others have not found the key.
ProbeEmpty ==
    /\ Probing /\ entries[slot].key = ZeroKey
    /\ IF call.name = "insert"
       THEN /\ entries' = [entries EXCEPT ![slot] = [key |-> call.key, value |-> call.value]]
            /\ size' = size + 1
            /\ Return("insert", "Inserted")
       ELSE Return(Missing[1], Missing[2]) /\ UNCHANGED <<entries, size>>
    /\ UNCHANGED <<bucket, hole, scan>>

\* The slot holds the key; erase goes on in backshift_from.
ProbeHit ==
    /\ Probing /\ entries[slot].key = call.key
    /\ IF call.name = "erase"
       THEN hole' = slot /\ scan' = After(slot) /\ UNCHANGED <<call, slot, probe, reply>>
       ELSE /\ IF call.name = "find" THEN Return("find", entries[slot].value)
               ELSE Return("insert", "Duplicate")
            /\ UNCHANGED <<hole, scan>>
    /\ UNCHANGED <<entries, size, bucket>>

-----------------------------------------------------------------------------
\* Mutant: the distances are compared without the mask.
ReachesHoleUnmasked(key) == hole - bucket[key] < scan - bucket[key]

\* The entry may move into the hole: the hole is on its probe path.
ReachesHole(key) == Distance(bucket[key], hole) < Distance(bucket[key], scan)

\* Mutant: the scan stays at an entry that does not move.
ShiftEntryStays ==
    /\ hole # NoSlot /\ entries[scan].key # ZeroKey
    /\ IF ReachesHole(entries[scan].key)
       THEN entries' = [entries EXCEPT ![hole] = entries[scan]] /\ hole' = scan
            /\ scan' = After(scan)
       ELSE UNCHANGED <<entries, hole, scan>>
    /\ UNCHANGED <<size, bucket, call, slot, probe, reply>>

ShiftEntry ==
    /\ hole # NoSlot /\ entries[scan].key # ZeroKey
    /\ IF ReachesHole(entries[scan].key)
       THEN entries' = [entries EXCEPT ![hole] = entries[scan]] /\ hole' = scan
       ELSE UNCHANGED <<entries, hole>>
    /\ scan' = After(scan)
    /\ UNCHANGED <<size, bucket, call, slot, probe, reply>>

ShiftEnds ==
    /\ hole # NoSlot /\ entries[scan].key = ZeroKey
    /\ entries' = [entries EXCEPT ![hole] = NoEntry]
    /\ size' = size - 1
    /\ hole' = NoSlot /\ scan' = 0
    /\ Return("erase", TRUE)
    /\ UNCHANGED bucket

Step == ProbeOther \/ ProbeEmpty \/ ProbeHit \/ ShiftEntry \/ ShiftEnds

TableNext ==
    \/ \E key \in Keys \cup {ZeroKey} :
          (\E value \in Values : Insert(key, value)) \/ Find(key) \/ Erase(key)
    \/ Step

TableSpec == TableInit /\ [][TableNext]_table

-----------------------------------------------------------------------------
(***************************************************************************)
(* Properties.                                                             *)
(***************************************************************************)
Occupied == {s \in Slots : entries[s].key # ZeroKey} \ {hole}

\* Every entry can be found from its bucket: on the way from there to its slot
\* no slot is empty except the hole that backshift_from is about to fill, and
\* the hole only if the scan has not come past the entry yet.
EveryEntryReachable ==
    \A s \in Occupied : \A t \in Slots :
       LET home == bucket[entries[s].key]
       IN  Distance(home, t) < Distance(home, s) =>
             \/ t \in Occupied
             \/ t = hole /\ Distance(hole, scan) <= Distance(hole, s)

\* The map the entries stand for: the key being erased is gone as soon as its
\* slot is the hole.
Contents ==
    [k \in {entries[s].key : s \in Occupied} |->
        entries[CHOOSE s \in Occupied : entries[s].key = k].value]

Map == INSTANCE BoundedMap WITH
          map   <- Contents,
          reply <- IF hole = NoSlot THEN reply ELSE <<"erase", call.key, TRUE>>

\* The table is a bounded map: every call answers as the map would.
ImplementsMap == Map!MapSpec

\* Every call returns: the loops meet an empty slot because the table is never
\* more than half full.
EveryCallReturns == call # NoCall ~> call = NoCall
=============================================================================
