------------------------- MODULE FixedHashTableProofs -------------------------
(***************************************************************************)
(* Proofs about FixedHashTable: for every capacity and every hash, probing *)
(* with backshift keeps every entry in reach of its bucket, and the table  *)
(* answers as a bounded map would.                                         *)
(***************************************************************************)
EXTENDS FixedHashTable, FiniteSetTheorems, TLAPS

-----------------------------------------------------------------------------
(***************************************************************************)
(* Distances on the ring of slots.                                         *)
(***************************************************************************)
LEMMA DistanceType ==
    ASSUME NEW s \in Slots, NEW t \in Slots
    PROVE  /\ Distance(s, t) \in 0 .. Capacity - 1 /\ Distance(s, t) \in Nat
           /\ Distance(s, t) = 0 <=> s = t
BY TableAssumption DEF Slots, Distance

LEMMA DistanceInjective ==
    ASSUME NEW h \in Slots, NEW s \in Slots, NEW t \in Slots
    PROVE  Distance(h, s) = Distance(h, t) <=> s = t
BY TableAssumption DEF Slots, Distance

LEMMA AfterSlot ==
    ASSUME NEW h \in Slots, NEW s \in Slots
    PROVE  /\ After(s) \in Slots /\ After(s) # s /\ Distance(s, After(s)) = 1
           /\ IF After(s) = h THEN Distance(h, s) = Capacity - 1
              ELSE Distance(h, After(s)) = Distance(h, s) + 1
BY TableAssumption DEF Slots, Distance, After

\* What lies between two slots of a path lies on the path.
LEMMA Between ==
    ASSUME NEW h \in Slots, NEW a \in Slots, NEW b \in Slots, NEW s \in Slots,
           Distance(h, a) < Distance(h, s), Distance(a, b) < Distance(a, s)
    PROVE  Distance(h, b) < Distance(h, s)
BY TableAssumption DEF Slots, Distance

-----------------------------------------------------------------------------
(***************************************************************************)
(* The inductive invariant.                                                *)
(***************************************************************************)
Entry(key, value) == [key |-> key, value |-> value]
EntryOK(e) ==
    e = NoEntry \/ (e.key \in Keys /\ e.value \in Values /\ e = Entry(e.key, e.value))

CallOK ==
    call = NoCall \/ /\ call.name \in {"insert", "insert_full", "find", "erase"}
                     /\ call.key \in Keys
                     /\ call.name \in {"insert", "insert_full"} => call.value \in Values

TableTypeOK ==
    /\ entries = [s \in Slots |-> entries[s]]
    /\ \A s \in Slots : EntryOK(entries[s])
    /\ size \in 0 .. MaximumEntries
    /\ bucket \in [Keys -> Slots]
    /\ CallOK
    /\ slot \in Slots /\ probe \in 0 .. Capacity - 1
    /\ hole \in Slots \cup {NoSlot} /\ scan \in Slots

\* The keys that can be found.
Held == {entries[s].key : s \in Occupied}

UniqueKeys ==
    \A s, t \in Occupied : entries[s].key = entries[t].key => s = t

\* size_ counts the entries, the one that erase is about to remove included.
Remaining == IF hole = NoSlot THEN size ELSE size - 1
CountsEntries ==
    /\ IsFiniteSet(Occupied) /\ Cardinality(Occupied) = Remaining
    /\ IsFiniteSet(Held) /\ Cardinality(Held) = Remaining

\* What has been probed holds other keys.
ProbeInv ==
    Probing =>
       /\ Distance(bucket[call.key], slot) = probe
       /\ \A t \in Slots : Distance(bucket[call.key], t) < probe =>
             entries[t].key \notin {ZeroKey, call.key}
       /\ call.name = "insert" => size # MaximumEntries
       /\ call.name = "insert_full" => size = MaximumEntries

\* The slot to be filled holds an entry that is elsewhere too, or erased.
HoleInv ==
    hole # NoSlot => /\ call # NoCall /\ call.name = "erase" /\ size # 0
                     /\ entries[hole].key # ZeroKey /\ call.key \notin Held

TableInv ==
    /\ TableTypeOK /\ UniqueKeys /\ CountsEntries /\ ProbeInv /\ HoleInv
    /\ EveryEntryReachable

LEMMA OccupiedSlots ==
    ASSUME TableTypeOK
    PROVE  /\ Occupied \subseteq Slots
           /\ \A s \in Slots : s \in Occupied <=> entries[s].key # ZeroKey /\ s # hole
           /\ \A s \in Slots : entries[s].key # ZeroKey =>
                 /\ entries[s].key \in Keys /\ bucket[entries[s].key] \in Slots
                 /\ entries[s].value \in Values
           /\ ZeroKey \notin Held /\ Held \subseteq Keys
<1>1. \A s \in Slots : entries[s].key # ZeroKey =>
         entries[s].key \in Keys /\ entries[s].value \in Values
  BY DEF TableTypeOK, EntryOK, NoEntry
<1>2. \A k \in Keys : bucket[k] \in Slots
  BY DEF TableTypeOK
<1>3. \A s \in Slots : s \in Occupied <=> entries[s].key # ZeroKey /\ s # hole
  BY DEF Occupied
<1>4. Occupied \subseteq Slots
  BY DEF Occupied
<1> QED
  BY <1>1, <1>2, <1>3, <1>4 DEF Held

LEMMA TableInitInv == TableInit => TableInv
<1> SUFFICES ASSUME TableInit PROVE TableInv
  OBVIOUS
<1>1. 0 \in Slots /\ NoSlot \notin Slots /\ 0 \in 0 .. Capacity - 1
      /\ 0 \in 0 .. MaximumEntries
  BY TableAssumption DEF Slots, NoSlot
<1>2. \A s \in Slots : entries[s].key = ZeroKey
  BY DEF TableInit, NoEntry
<1>3. bucket \in [Keys -> Slots]
  BY TableAssumption DEF TableInit, Slots
<1>4. TableTypeOK
  BY <1>1, <1>3 DEF TableInit, TableTypeOK, EntryOK, CallOK
<1>5. Occupied = {} /\ Held = {}
  BY <1>2 DEF Occupied, Held
<1>6. CountsEntries
  BY <1>5, FS_EmptySet DEF CountsEntries, Remaining, TableInit
<1>7. UniqueKeys /\ EveryEntryReachable
  BY <1>5 DEF UniqueKeys, EveryEntryReachable
<1>8. ProbeInv /\ HoleInv
  BY DEF TableInit, ProbeInv, HoleInv, Probing
<1> QED
  BY <1>4, <1>6, <1>7, <1>8 DEF TableInv

\* Entries and hole unchanged: the rest of the invariant is about the call.
LEMMA EntriesKept ==
    ASSUME TableInv, UNCHANGED <<entries, size, bucket, hole, scan>>
    PROVE  /\ Occupied' = Occupied /\ Held' = Held
           /\ UniqueKeys' /\ CountsEntries' /\ EveryEntryReachable'
<1>1. Occupied' = Occupied
  BY DEF Occupied
<1>2. Held' = Held
  BY <1>1 DEF Held
<1>3. UniqueKeys'
  BY <1>1 DEF TableInv, UniqueKeys
<1>4. CountsEntries'
  BY <1>1, <1>2 DEF TableInv, CountsEntries, Remaining
<1>5. EveryEntryReachable'
  BY <1>1 DEF TableInv, EveryEntryReachable, Distance
<1> QED
  BY <1>1, <1>2, <1>3, <1>4, <1>5

\* There is always an empty slot: the table has twice as many as entries.
LEMMA SomeSlotEmpty ==
    ASSUME TableInv, hole = NoSlot
    PROVE  \E s \in Slots : entries[s].key = ZeroKey
<1> SUFFICES ASSUME \A s \in Slots : entries[s].key # ZeroKey PROVE FALSE
  OBVIOUS
<1>1. NoSlot \notin Slots
  BY TableAssumption DEF Slots, NoSlot
<1>2. Occupied = Slots
  BY <1>1, OccupiedSlots DEF TableInv
<1>3. Cardinality(Slots) = Capacity
  BY TableAssumption, FS_Interval DEF Slots
<1>4. Cardinality(Occupied) = size /\ size \in 0 .. MaximumEntries
  BY DEF TableInv, CountsEntries, Remaining, TableTypeOK
<1> QED
  BY <1>2, <1>3, <1>4, TableAssumption

\* A probe that comes to an empty slot has shown that the key is not there.
LEMMA EmptyMeansAbsent ==
    ASSUME TableInv, Probing, entries[slot].key = ZeroKey
    PROVE  call.key \notin Held
<1> SUFFICES ASSUME NEW s \in Occupied, entries[s].key = call.key PROVE FALSE
  BY DEF Held
<1> DEFINE home == bucket[call.key]
<1>1. s \in Slots /\ slot \in Slots /\ home \in Slots /\ hole = NoSlot /\ slot # hole
  BY OccupiedSlots, TableAssumption DEF TableInv, TableTypeOK, Probing, Slots, NoSlot
<1>2. /\ entries[s].key # ZeroKey /\ slot \notin Occupied
  BY OccupiedSlots, <1>1 DEF TableInv
<1>3. Distance(home, slot) = probe /\ ~(Distance(home, s) < probe)
  BY <1>1, <1>2 DEF TableInv, ProbeInv
<1>4. ~(Distance(home, slot) < Distance(home, s))
  BY <1>1, <1>2 DEF TableInv, EveryEntryReachable
<1>5. Distance(home, slot) \in Nat /\ Distance(home, s) \in Nat
  BY <1>1, DistanceType
<1>6. Distance(home, slot) = Distance(home, s)
  BY <1>3, <1>4, <1>5
<1> QED
  BY <1>1, <1>2, <1>6, DistanceInjective

-----------------------------------------------------------------------------
(***************************************************************************)
(* Every step keeps the invariant.                                         *)
(***************************************************************************)
LEMMA IdleInv == TableInv /\ call = NoCall => hole = NoSlot
BY DEF TableInv, HoleInv

\* The call returns, and nothing else changes.
LEMMA ReturnInv ==
    ASSUME TableInv, UNCHANGED <<entries, size, bucket, hole, scan>>, hole = NoSlot,
           call' = NoCall, slot' \in Slots, probe' \in 0 .. Capacity - 1
    PROVE  TableInv'
<1>1. TableTypeOK'
  BY DEF TableInv, TableTypeOK, CallOK, EntryOK, Entry, NoEntry
<1>2. ProbeInv' /\ HoleInv'
  BY DEF ProbeInv, HoleInv, Probing
<1> QED
  BY <1>1, <1>2, EntriesKept DEF TableInv

LEMMA ZeroSlot == 0 \in Slots /\ 0 \in 0 .. Capacity - 1 /\ NoSlot \notin Slots
BY TableAssumption DEF Slots, NoSlot

LEMMA BeginInv ==
    ASSUME TableInv, NEW c, call = NoCall, Begin(c), c # NoCall,
           c.name \in {"insert", "insert_full", "find", "erase"}, c.key \in Keys,
           c.name \in {"insert", "insert_full"} => c.value \in Values,
           c.name = "insert" => size # MaximumEntries,
           c.name = "insert_full" => size = MaximumEntries
    PROVE  TableInv'
<1>1. UNCHANGED <<entries, size, bucket, hole, scan>> /\ call' = c /\ slot' = bucket[c.key]
      /\ probe' = 0 /\ bucket[c.key] \in Slots
  BY DEF Begin, TableInv, TableTypeOK
<1>2. TableTypeOK'
  BY <1>1, ZeroSlot DEF TableInv, TableTypeOK, CallOK, EntryOK, Entry, NoEntry
<1>3. HoleInv'
  BY <1>1, IdleInv DEF HoleInv
<1>4. ProbeInv'
  <2>1. Distance(bucket[c.key], bucket[c.key]) = 0
    BY <1>1, DistanceType
  <2>2. \A t \in Slots : ~(Distance(bucket[c.key], t) < 0)
    BY <1>1, DistanceType
  <2> QED
    BY <1>1, <2>1, <2>2 DEF ProbeInv, Distance
<1> QED
  BY <1>1, <1>2, <1>3, <1>4, EntriesKept DEF TableInv

LEMMA CallInv ==
    ASSUME TableInv, NEW key \in Keys \cup {ZeroKey},
           (\E value \in Values : Insert(key, value)) \/ Find(key) \/ Erase(key)
    PROVE  TableInv'
<1>1. CASE key = ZeroKey
  <2>1. call = NoCall /\ UNCHANGED <<entries, size, bucket, call, slot, probe, hole, scan>>
    BY <1>1 DEF Insert, Find, Erase, Answer
  <2> QED
    BY <2>1, IdleInv, ReturnInv DEF TableInv, TableTypeOK
<1>2. CASE key # ZeroKey
  <2>1. key \in Keys /\ call = NoCall
    BY <1>2 DEF Insert, Find, Erase
  <2>2. ASSUME NEW value \in Values, Insert(key, value) PROVE TableInv'
    <3> DEFINE c == [name |-> IF size = MaximumEntries THEN "insert_full" ELSE "insert",
                     key |-> key, value |-> value]
    <3>1. Begin(c)
      BY <1>2, <2>2 DEF Insert
    <3>2. /\ c.name = (IF size = MaximumEntries THEN "insert_full" ELSE "insert")
          /\ c.key = key /\ c.value = value /\ NoCall.name = "none"
      BY DEF NoCall
    <3> HIDE DEF c
    <3>3. c # NoCall
      BY <3>2
    <3> QED
      BY <2>1, <2>2, <3>1, <3>2, <3>3, BeginInv
  <2>3. ASSUME NEW name \in {"find", "erase"}, Begin([name |-> name, key |-> key])
        PROVE  TableInv'
    <3> DEFINE c == [name |-> name, key |-> key]
    <3>1. c.name = name /\ c.key = key /\ NoCall.name = "none"
      BY DEF NoCall
    <3>2. Begin(c)
      BY <2>3
    <3> HIDE DEF c
    <3>3. c # NoCall
      BY <2>3, <3>1
    <3> QED
      BY <2>1, <2>3, <3>1, <3>2, <3>3, BeginInv
  <2> QED
    BY <1>2, <2>2, <2>3 DEF Find, Erase
<1> QED
  BY <1>1, <1>2

LEMMA ProbeOtherInv ==
    ASSUME TableInv, ProbeOther
    PROVE  TableInv' /\ UNCHANGED <<entries, hole, call, reply>>
<1> DEFINE home == bucket[call.key]
<1>1. /\ call # NoCall /\ call.key \in Keys /\ hole = NoSlot /\ slot \in Slots
      /\ home \in Slots /\ probe \in 0 .. Capacity - 1
      /\ entries[slot].key \notin {ZeroKey, call.key}
      /\ UNCHANGED <<entries, size, bucket, hole, scan>>
  BY DEF ProbeOther, Probing, TableInv, TableTypeOK, CallOK
<1>2. /\ Distance(home, slot) = probe
      /\ \A t \in Slots : Distance(home, t) < probe => entries[t].key \notin {ZeroKey, call.key}
      /\ call.name = "insert" => size # MaximumEntries
      /\ call.name = "insert_full" => size = MaximumEntries
  BY DEF TableInv, ProbeInv, ProbeOther
<1>3. \A t \in Slots : Distance(home, t) < probe + 1 => entries[t].key \notin {ZeroKey, call.key}
  <2> SUFFICES ASSUME NEW t \in Slots, Distance(home, t) < probe + 1, t # slot
               PROVE  entries[t].key \notin {ZeroKey, call.key}
    BY <1>1
  <2>1. Distance(home, t) \in Nat /\ Distance(home, t) # probe
    BY <1>1, <1>2, DistanceType, DistanceInjective
  <2>2. Distance(home, t) < probe
    BY <1>1, <2>1
  <2> QED
    BY <1>2, <2>2
<1>4. probe + 1 # Capacity
  <2> SUFFICES ASSUME probe + 1 = Capacity PROVE FALSE
    OBVIOUS
  <2>1. \A t \in Slots : Distance(home, t) < probe + 1
    BY <1>1, DistanceType, TableAssumption
  <2>2. \A t \in Slots : entries[t].key # ZeroKey
    BY <1>3, <2>1
  <2> QED
    BY <1>1, <2>2, SomeSlotEmpty
<1>5. slot' = After(slot) /\ probe' = probe + 1 /\ UNCHANGED <<call, reply>>
  BY <1>4 DEF ProbeOther
<1>6. probe' \in 0 .. Capacity - 1
  BY <1>1, <1>4, <1>5, TableAssumption
<1>7. slot' \in Slots /\ Distance(home, slot') = probe'
  <2>1. /\ After(slot) \in Slots
        /\ IF After(slot) = home THEN Distance(home, slot) = Capacity - 1
           ELSE Distance(home, After(slot)) = Distance(home, slot) + 1
    BY <1>1, AfterSlot
  <2>2. After(slot) # home
    BY <1>1, <1>2, <1>4, <2>1, TableAssumption
  <2> QED
    BY <1>2, <1>5, <2>1, <2>2
<1>8. TableTypeOK'
  BY <1>1, <1>5, <1>6, <1>7 DEF TableInv, TableTypeOK, CallOK, EntryOK, Entry, NoEntry
<1>9. HoleInv'
  BY <1>1 DEF HoleInv
<1>10. ProbeInv'
  <2>1. \A t \in Slots : Distance(home, t) < probe' => entries[t].key \notin {ZeroKey, call.key}
    BY <1>3, <1>5
  <2>2. bucket'[call'.key] = home /\ entries' = entries /\ call' = call /\ size' = size
    BY <1>1, <1>5
  <2> HIDE DEF home
  <2> QED
    BY <1>2, <1>7, <2>1, <2>2 DEF ProbeInv, Distance
<1> QED
  BY <1>1, <1>5, <1>8, <1>9, <1>10, EntriesKept DEF TableInv

LEMMA InsertedInv ==
    ASSUME TableInv, ProbeEmpty, call.name = "insert"
    PROVE  /\ TableInv'
           /\ slot \notin Occupied /\ Occupied' = Occupied \cup {slot}
           /\ Held' = Held \cup {call.key} /\ call.key \notin Held
           /\ entries'[slot].key = call.key /\ entries'[slot].value = call.value
           /\ \A s \in Occupied : entries'[s] = entries[s]
<1> DEFINE home == bucket[call.key]
           e    == Entry(call.key, call.value)
<1>1. /\ call # NoCall /\ call.key \in Keys /\ call.value \in Values /\ hole = NoSlot
      /\ slot \in Slots /\ home \in Slots /\ entries[slot].key = ZeroKey
      /\ bucket' = bucket /\ hole' = hole /\ scan' = scan /\ Probing
  BY DEF ProbeEmpty, Probing, TableInv, TableTypeOK, CallOK
<1>2. /\ entries' = [entries EXCEPT ![slot] = e] /\ size' = size + 1
      /\ call' = NoCall /\ slot' = 0 /\ probe' = 0
  BY DEF ProbeEmpty, Return, Entry
<1>3. call.key \notin Held
  BY <1>1, EmptyMeansAbsent
<1>4. call.key # ZeroKey /\ e.key = call.key /\ e.value = call.value /\ EntryOK(e)
  BY <1>1, TableAssumption DEF Entry, EntryOK
<1> HIDE DEF e
<1>5. entries'[slot] = e /\ \A s \in Slots : s # slot => entries'[s] = entries[s]
  BY <1>1, <1>2 DEF TableInv, TableTypeOK
<1>6. slot \notin Occupied /\ slot # hole'
  BY <1>1, ZeroSlot, OccupiedSlots DEF TableInv
<1>7. Occupied' = Occupied \cup {slot}
  BY <1>1, <1>4, <1>5, <1>6 DEF Occupied
<1>8. \A s \in Occupied : s \in Slots /\ entries'[s] = entries[s]
  BY <1>5, <1>6 DEF Occupied
<1>9. Held' = Held \cup {call.key}
  BY <1>4, <1>5, <1>7, <1>8 DEF Held
<1>10. TableTypeOK'
  <2>1. size' \in 0 .. MaximumEntries
    BY <1>1, <1>2, TableAssumption DEF TableInv, TableTypeOK, ProbeInv
  <2>2. entries' = [s \in Slots |-> entries'[s]]
    BY <1>1, <1>2 DEF TableInv, TableTypeOK
  <2>3. \A s \in Slots : EntryOK(entries'[s])
    BY <1>4, <1>5 DEF TableInv, TableTypeOK
  <2>4. \A s \in Slots : EntryOK(entries[s])'
    BY <2>3 DEF EntryOK, Entry, NoEntry
  <2> QED
    BY <1>1, <1>2, <2>1, <2>2, <2>4, ZeroSlot DEF TableInv, TableTypeOK, CallOK
<1>11. UniqueKeys'
  <2>1. \A s \in Occupied : entries[s].key # call.key
    BY <1>3 DEF Held
  <2> QED
    BY <1>4, <1>5, <1>7, <1>8, <2>1 DEF TableInv, UniqueKeys
<1>12. CountsEntries'
  <2>1. /\ IsFiniteSet(Occupied) /\ Cardinality(Occupied) = size
        /\ IsFiniteSet(Held) /\ Cardinality(Held) = size
    BY <1>1 DEF TableInv, CountsEntries, Remaining
  <2>2. /\ IsFiniteSet(Occupied \cup {slot}) /\ Cardinality(Occupied \cup {slot}) = size + 1
        /\ IsFiniteSet(Held \cup {call.key}) /\ Cardinality(Held \cup {call.key}) = size + 1
    BY <1>3, <1>6, <2>1, FS_AddElement
  <2> QED
    BY <1>1, <1>2, <1>7, <1>9, <2>2 DEF CountsEntries, Remaining
<1>13. ProbeInv' /\ HoleInv'
  BY <1>1, <1>2 DEF ProbeInv, HoleInv, Probing
<1>14. EveryEntryReachable'
  <2> SUFFICES ASSUME NEW s \in Occupied', NEW t \in Slots,
                      Distance(bucket[entries'[s].key], t) < Distance(bucket[entries'[s].key], s)
               PROVE  t \in Occupied'
    BY <1>1 DEF EveryEntryReachable, Distance
  <2>1. CASE s = slot
    <3>1. Distance(home, t) < Distance(home, slot)
      BY <1>4, <1>5, <2>1
    <3>2. entries[t].key # ZeroKey
      BY <1>1, <3>1 DEF TableInv, ProbeInv
    <3> QED
      BY <1>1, <1>7, <3>2, ZeroSlot DEF Occupied
  <2>2. CASE s # slot
    <3>1. s \in Occupied /\ entries'[s] = entries[s]
      BY <1>7, <1>8, <2>2
    <3>2. t \in Occupied \/ t = hole
      BY <3>1 DEF TableInv, EveryEntryReachable
    <3> QED
      BY <1>1, <1>7, <3>2, ZeroSlot
  <2> QED
    BY <2>1, <2>2
<1> QED
  BY <1>3, <1>4, <1>5, <1>6, <1>7, <1>8, <1>9, <1>10, <1>11, <1>12, <1>13, <1>14 DEF TableInv

LEMMA ErasingInv ==
    ASSUME TableInv, ProbeHit, call.name = "erase"
    PROVE  /\ TableInv' /\ UNCHANGED <<entries, call>> /\ hole' # NoSlot
           /\ slot \in Occupied /\ Occupied' = Occupied \ {slot}
           /\ Held' = Held \ {call.key} /\ entries[slot].key = call.key
<1>1. /\ call # NoCall /\ call.key \in Keys /\ hole = NoSlot
      /\ slot \in Slots /\ entries[slot].key = call.key
      /\ hole' = slot /\ scan' = After(slot)
      /\ UNCHANGED <<entries, size, bucket, call, slot, probe, reply>>
  BY DEF ProbeHit, Probing, TableInv, TableTypeOK, CallOK
<1>2. slot \in Occupied /\ entries[slot].key # ZeroKey /\ hole' # NoSlot
  BY <1>1, ZeroSlot, TableAssumption DEF Occupied
<1>3. Occupied' = Occupied \ {slot}
  BY <1>1, ZeroSlot DEF Occupied
<1>4. Held' = Held \ {call.key}
  BY <1>1, <1>2, <1>3 DEF Held, TableInv, UniqueKeys
<1>5. TableTypeOK'
  BY <1>1, AfterSlot DEF TableInv, TableTypeOK, CallOK, EntryOK, Entry, NoEntry
<1>6. UniqueKeys'
  BY <1>1, <1>3 DEF TableInv, UniqueKeys
<1>7. CountsEntries' /\ size # 0
  <2>1. /\ IsFiniteSet(Occupied) /\ Cardinality(Occupied) = size
        /\ IsFiniteSet(Held) /\ Cardinality(Held) = size /\ size \in Nat
    BY <1>1 DEF TableInv, CountsEntries, Remaining, TableTypeOK
  <2>2. call.key \in Held
    BY <1>1, <1>2 DEF Held
  <2>3. /\ IsFiniteSet(Occupied \ {slot}) /\ Cardinality(Occupied \ {slot}) = size - 1
        /\ IsFiniteSet(Held \ {call.key}) /\ Cardinality(Held \ {call.key}) = size - 1
    BY <1>2, <2>1, <2>2, FS_RemoveElement
  <2>4. size - 1 \in Nat
    BY <2>3, FS_CardinalityType
  <2>5. CountsEntries'
    BY <1>1, <1>2, <1>3, <1>4, <2>3 DEF CountsEntries, Remaining
  <2> QED
    BY <2>1, <2>4, <2>5
<1>8. ProbeInv' /\ HoleInv'
  BY <1>1, <1>2, <1>4, <1>7 DEF ProbeInv, HoleInv, Probing
<1>9. EveryEntryReachable'
  <2> SUFFICES ASSUME NEW s \in Occupied', NEW t \in Slots,
                      Distance(bucket[entries[s].key], t) < Distance(bucket[entries[s].key], s)
               PROVE  t \in Occupied' \/ (t = slot /\ Distance(slot, After(slot)) <= Distance(slot, s))
    BY <1>1 DEF EveryEntryReachable, Distance
  <2>1. s \in Occupied /\ s # slot /\ s \in Slots
    BY <1>3 DEF Occupied
  <2>2. t \in Occupied
    BY <1>1, <2>1, ZeroSlot DEF TableInv, EveryEntryReachable
  <2>3. Distance(slot, After(slot)) = 1 /\ Distance(slot, s) \in Nat /\ Distance(slot, s) # 0
    BY <1>1, <2>1, AfterSlot, DistanceType
  <2>4. Distance(slot, After(slot)) <= Distance(slot, s)
    BY <2>3
  <2> QED
    BY <1>3, <2>2, <2>4
<1> QED
  BY <1>1, <1>2, <1>3, <1>4, <1>5, <1>6, <1>7, <1>8, <1>9 DEF TableInv

LEMMA MovedInv ==
    ASSUME TableInv, ShiftEntry, ReachesHole(entries[scan].key)
    PROVE  /\ TableInv' /\ Held' = Held /\ hole' # NoSlot /\ hole \in Slots
           /\ scan \in Occupied /\ hole \notin Occupied
           /\ Occupied' = (Occupied \ {scan}) \cup {hole}
           /\ entries'[hole] = entries[scan]
           /\ \A s \in Occupied \ {scan} : entries'[s] = entries[s]
<1> DEFINE home == bucket[entries[scan].key]
<1>1. /\ hole \in Slots /\ hole # NoSlot /\ scan \in Slots /\ entries[scan].key # ZeroKey
      /\ entries' = [entries EXCEPT ![hole] = entries[scan]] /\ hole' = scan
      /\ scan' = After(scan) /\ home \in Slots
      /\ UNCHANGED <<size, bucket, call, slot, probe, reply>>
  BY OccupiedSlots DEF ShiftEntry, TableInv, TableTypeOK
<1>2. Distance(home, hole) < Distance(home, scan)
  BY DEF ReachesHole
<1>3. scan # hole
  BY <1>1, <1>2, DistanceType
<1>4. scan \in Occupied /\ hole \notin Occupied /\ hole' # NoSlot
  BY <1>1, <1>3, ZeroSlot DEF Occupied
<1>5. entries'[hole] = entries[scan] /\ \A s \in Slots : s # hole => entries'[s] = entries[s]
  BY <1>1 DEF TableInv, TableTypeOK
<1>6. Occupied' = (Occupied \ {scan}) \cup {hole}
  BY <1>1, <1>3, <1>5 DEF Occupied
<1>7. \A s \in Occupied \ {scan} : s \in Slots /\ s # hole /\ entries'[s] = entries[s]
  BY <1>5 DEF Occupied
<1>8. Held' = Held
  BY <1>4, <1>5, <1>6, <1>7 DEF Held
<1>9. TableTypeOK'
  <2>1. entries' = [s \in Slots |-> entries'[s]]
    BY <1>1 DEF TableInv, TableTypeOK
  <2>2. \A s \in Slots : EntryOK(entries'[s])
    BY <1>1, <1>5 DEF TableInv, TableTypeOK
  <2>3. \A s \in Slots : EntryOK(entries[s])'
    BY <2>2 DEF EntryOK, Entry, NoEntry
  <2> QED
    BY <1>1, <2>1, <2>3, AfterSlot DEF TableInv, TableTypeOK, CallOK
<1>10. UniqueKeys'
  BY <1>4, <1>5, <1>6, <1>7 DEF TableInv, UniqueKeys
<1>11. CountsEntries'
  <2>1. /\ IsFiniteSet(Occupied) /\ Cardinality(Occupied) = size - 1
        /\ IsFiniteSet(Held) /\ Cardinality(Held) = size - 1 /\ size \in Nat
    BY <1>1 DEF TableInv, CountsEntries, Remaining, TableTypeOK
  <2>2. IsFiniteSet(Occupied \ {scan}) /\ Cardinality(Occupied \ {scan}) = size - 2
    BY <1>4, <2>1, FS_RemoveElement
  <2>3. hole \notin Occupied \ {scan}
    BY <1>4
  <2>4. /\ IsFiniteSet((Occupied \ {scan}) \cup {hole})
        /\ Cardinality((Occupied \ {scan}) \cup {hole}) = size - 2 + 1
    BY <2>2, <2>3, FS_AddElement
  <2>5. size - 2 + 1 = size - 1
    BY <2>1
  <2> QED
    BY <1>1, <1>4, <1>6, <1>8, <2>1, <2>4, <2>5 DEF CountsEntries, Remaining
<1>12. ProbeInv' /\ HoleInv'
  BY <1>1, <1>3, <1>4, <1>5, <1>8 DEF TableInv, ProbeInv, HoleInv, Probing
<1>13. EveryEntryReachable'
  <2> SUFFICES ASSUME NEW s \in Occupied', NEW t \in Slots,
                      Distance(bucket[entries'[s].key], t) < Distance(bucket[entries'[s].key], s)
               PROVE  t \in Occupied' \/ (t = scan /\ Distance(scan, After(scan)) <= Distance(scan, s))
    BY <1>1 DEF EveryEntryReachable, Distance
  <2>1. CASE s = hole
    <3>1. Distance(home, t) < Distance(home, hole)
      BY <1>5, <2>1
    <3>2. /\ Distance(home, t) \in Nat /\ Distance(home, hole) \in Nat
          /\ Distance(home, scan) \in Nat
      BY <1>1, DistanceType
    <3>3. Distance(home, t) < Distance(home, scan)
      BY <1>2, <3>1, <3>2
    <3>4. t # hole /\ t # scan
      BY <3>1, <3>2, <3>3
    <3>5. t \in Occupied
      BY <1>4, <3>3, <3>4 DEF TableInv, EveryEntryReachable
    <3> QED
      BY <1>6, <3>4, <3>5
  <2>2. CASE s # hole
    <3>1. s \in Occupied /\ s # scan /\ s \in Slots /\ entries'[s] = entries[s]
      BY <1>6, <1>7, <2>2
    <3>2. t \in Occupied \/ t = hole
      BY <3>1 DEF TableInv, EveryEntryReachable
    <3>3. /\ Distance(scan, After(scan)) = 1 /\ Distance(scan, s) \in Nat
          /\ Distance(scan, s) # 0
      BY <1>1, <3>1, AfterSlot, DistanceType
    <3>4. Distance(scan, After(scan)) <= Distance(scan, s)
      BY <3>3
    <3> QED
      BY <1>6, <3>2, <3>4
  <2> QED
    BY <2>1, <2>2
<1> QED
  BY <1>1, <1>4, <1>5, <1>6, <1>7, <1>8, <1>9, <1>10, <1>11, <1>12, <1>13 DEF TableInv

LEMMA StayedInv ==
    ASSUME TableInv, ShiftEntry, ~ReachesHole(entries[scan].key)
    PROVE  TableInv' /\ UNCHANGED <<entries, hole>>
<1> DEFINE home == bucket[entries[scan].key]
<1>1. /\ hole \in Slots /\ hole # NoSlot /\ scan \in Slots /\ home \in Slots
      /\ scan' = After(scan)
      /\ UNCHANGED <<entries, hole, size, bucket, call, slot, probe, reply>>
  BY OccupiedSlots DEF ShiftEntry, TableInv, TableTypeOK
<1>2. Occupied' = Occupied
  BY <1>1 DEF Occupied
<1>3. Held' = Held
  BY <1>1, <1>2 DEF Held
<1>4. TableTypeOK'
  BY <1>1, AfterSlot DEF TableInv, TableTypeOK, CallOK, EntryOK, Entry, NoEntry
<1>5. UniqueKeys' /\ CountsEntries'
  BY <1>1, <1>2, <1>3 DEF TableInv, UniqueKeys, CountsEntries, Remaining
<1>6. ProbeInv' /\ HoleInv'
  BY <1>1, <1>3 DEF TableInv, ProbeInv, HoleInv, Probing
<1>7. EveryEntryReachable'
  <2> SUFFICES ASSUME NEW s \in Occupied, NEW t \in Slots,
                      Distance(bucket[entries[s].key], t) < Distance(bucket[entries[s].key], s),
                      t \notin Occupied
               PROVE  t = hole /\ Distance(hole, After(scan)) <= Distance(hole, s)
    BY <1>1, <1>2 DEF EveryEntryReachable, Distance
  <2>1. s \in Slots /\ t = hole /\ Distance(hole, scan) <= Distance(hole, s)
    BY DEF TableInv, EveryEntryReachable, Occupied
  <2>2. s # scan
    BY <2>1 DEF ReachesHole
  <2>3. /\ Distance(hole, scan) \in Nat /\ Distance(hole, s) \in Nat
        /\ Distance(hole, scan) # Distance(hole, s)
    BY <1>1, <2>1, <2>2, DistanceType, DistanceInjective
  <2>4. CASE After(scan) = hole
    <3>1. Distance(hole, hole) = 0
      BY <1>1, DistanceType
    <3> QED
      BY <2>1, <2>3, <2>4, <3>1
  <2>5. CASE After(scan) # hole
    <3>1. Distance(hole, After(scan)) = Distance(hole, scan) + 1
      BY <1>1, <2>5, AfterSlot
    <3> QED
      BY <2>1, <2>3, <3>1
  <2> QED
    BY <2>4, <2>5
<1> QED
  BY <1>1, <1>4, <1>5, <1>6, <1>7 DEF TableInv

LEMMA ErasedInv ==
    ASSUME TableInv, ShiftEnds
    PROVE  /\ TableInv' /\ Occupied' = Occupied /\ hole' = NoSlot
           /\ \A s \in Occupied : entries'[s] = entries[s]
<1>1. /\ hole \in Slots /\ hole # NoSlot /\ scan \in Slots /\ entries[scan].key = ZeroKey
      /\ entries[hole].key # ZeroKey /\ size # 0
      /\ entries' = [entries EXCEPT ![hole] = NoEntry] /\ size' = size - 1
      /\ hole' = NoSlot /\ scan' = 0 /\ call' = NoCall /\ slot' = 0 /\ probe' = 0
      /\ bucket' = bucket
  BY DEF ShiftEnds, Return, TableInv, TableTypeOK, HoleInv
<1>2. entries'[hole] = NoEntry /\ \A s \in Slots : s # hole => entries'[s] = entries[s]
  BY <1>1 DEF TableInv, TableTypeOK
<1>3. Occupied' = Occupied
  BY <1>1, <1>2, ZeroSlot DEF Occupied, NoEntry
<1>4. \A s \in Occupied : s \in Slots /\ s # hole /\ entries'[s] = entries[s]
  BY <1>2 DEF Occupied
<1>5. Held' = Held
  BY <1>3, <1>4 DEF Held
<1>6. TableTypeOK'
  <2>1. entries' = [s \in Slots |-> entries'[s]]
    BY <1>1 DEF TableInv, TableTypeOK
  <2>2. \A s \in Slots : EntryOK(entries'[s])
    BY <1>2 DEF TableInv, TableTypeOK, EntryOK
  <2>3. \A s \in Slots : EntryOK(entries[s])'
    BY <2>2 DEF EntryOK, Entry, NoEntry
  <2>4. size' \in 0 .. MaximumEntries
    BY <1>1, TableAssumption DEF TableInv, TableTypeOK
  <2> QED
    BY <1>1, <2>1, <2>3, <2>4, ZeroSlot DEF TableInv, TableTypeOK, CallOK
<1>7. UniqueKeys'
  BY <1>3, <1>4 DEF TableInv, UniqueKeys
<1>8. CountsEntries'
  BY <1>1, <1>3, <1>5 DEF TableInv, CountsEntries, Remaining
<1>9. ProbeInv' /\ HoleInv'
  BY <1>1 DEF ProbeInv, HoleInv, Probing
<1>10. EveryEntryReachable'
  <2> SUFFICES ASSUME NEW s \in Occupied, NEW t \in Slots, t \notin Occupied,
                      Distance(bucket[entries[s].key], t) < Distance(bucket[entries[s].key], s)
               PROVE  FALSE
    BY <1>1, <1>3, <1>4 DEF EveryEntryReachable, Distance
  <2> DEFINE home == bucket[entries[s].key]
  <2>1. s \in Slots /\ home \in Slots /\ scan \notin Occupied /\ scan # hole /\ s # scan
    BY <1>1, OccupiedSlots DEF TableInv
  <2>2. t = hole /\ Distance(hole, scan) <= Distance(hole, s)
    BY DEF TableInv, EveryEntryReachable
  <2>3. /\ Distance(hole, scan) \in Nat /\ Distance(hole, s) \in Nat
        /\ Distance(hole, scan) # Distance(hole, s)
    BY <1>1, <2>1, DistanceType, DistanceInjective
  <2>4. Distance(hole, scan) < Distance(hole, s)
    BY <2>2, <2>3
  <2>5. Distance(home, scan) < Distance(home, s)
    BY <1>1, <2>1, <2>2, <2>4, Between
  <2>6. scan \in Occupied \/ scan = hole
    BY <1>1, <2>5 DEF TableInv, EveryEntryReachable
  <2> QED
    BY <2>1, <2>6
<1> QED
  BY <1>1, <1>3, <1>4, <1>6, <1>7, <1>8, <1>9, <1>10 DEF TableInv

LEMMA TableNextInv == TableInv /\ [TableNext]_table => TableInv'
<1> SUFFICES ASSUME TableInv, [TableNext]_table PROVE TableInv'
  OBVIOUS
<1>1. CASE UNCHANGED table
  <2>1. UNCHANGED <<entries, size, bucket, call, slot, probe, hole, scan>>
    BY <1>1 DEF table
  <2>2. TableTypeOK' /\ ProbeInv'
    BY <2>1 DEF TableInv, TableTypeOK, CallOK, EntryOK, Entry, NoEntry, ProbeInv, Probing,
                Distance
  <2>3. HoleInv'
    BY <2>1, EntriesKept DEF TableInv, HoleInv
  <2> QED
    BY <2>1, <2>2, <2>3, EntriesKept DEF TableInv
<1>2. ASSUME NEW key \in Keys \cup {ZeroKey},
             (\E value \in Values : Insert(key, value)) \/ Find(key) \/ Erase(key)
      PROVE  TableInv'
  BY <1>2, CallInv
<1>3. CASE ProbeOther
  BY <1>3, ProbeOtherInv
<1>4. CASE ProbeEmpty
  <2>1. CASE call.name = "insert"
    BY <1>4, <2>1, InsertedInv
  <2>2. CASE call.name # "insert"
    BY <1>4, <2>2, ReturnInv, ZeroSlot DEF ProbeEmpty, Probing, Return
  <2> QED
    BY <2>1, <2>2
<1>5. CASE ProbeHit
  <2>1. CASE call.name = "erase"
    BY <1>5, <2>1, ErasingInv
  <2>2. CASE call.name # "erase"
    BY <1>5, <2>2, ReturnInv, ZeroSlot DEF ProbeHit, Probing, Return
  <2> QED
    BY <2>1, <2>2
<1>6. CASE ShiftEntry
  BY <1>6, MovedInv, StayedInv
<1>7. CASE ShiftEnds
  BY <1>7, ErasedInv
<1> QED
  BY <1>1, <1>2, <1>3, <1>4, <1>5, <1>6, <1>7 DEF TableNext, Step

\* For every hash, capacity and sequence of calls, no erase takes an entry out
\* of the reach of find_slot, not even while backshift_from is under way.
THEOREM TableInvariance == TableSpec => []TableInv
BY TableInitInv, TableNextInv, PTL DEF TableSpec

\* No entry is ever lost to the probe that looks for it: what backshift_from
\* leaves between an entry and its bucket is never empty.
THEOREM EntriesStayReachable == TableSpec => []EveryEntryReachable
<1>1. TableInv => EveryEntryReachable
  BY DEF TableInv
<1> QED
  BY <1>1, TableInvariance, PTL

-----------------------------------------------------------------------------
(***************************************************************************)
(* The table is a bounded map.                                             *)
(***************************************************************************)
Answered == IF hole = NoSlot THEN reply ELSE <<"erase", call.key, TRUE>>

\* As keys are unique, the entry chosen for a key is the one that has it.
ContentsAreEntries ==
    /\ DOMAIN Contents = Held /\ Contents = [k \in Held |-> Contents[k]]
    /\ \A s \in Occupied : Contents[entries[s].key] = entries[s].value

LEMMA ContentsOf == UniqueKeys => ContentsAreEntries
<1> SUFFICES ASSUME UniqueKeys PROVE ContentsAreEntries
  OBVIOUS
<1> DEFINE chosen(k) == entries[CHOOSE s \in Occupied : entries[s].key = k].value
<1>1. Contents = [k \in Held |-> chosen(k)]
  BY DEF Contents, Held
<1>2. ASSUME NEW s \in Occupied PROVE Contents[entries[s].key] = entries[s].value
  <2> DEFINE t == CHOOSE t \in Occupied : entries[t].key = entries[s].key
  <2>1. t \in Occupied /\ entries[t].key = entries[s].key
    OBVIOUS
  <2>2. t = s
    BY <2>1 DEF UniqueKeys
  <2>3. Contents[entries[s].key] = entries[t].value
    BY <1>1 DEF Held
  <2> QED
    BY <2>2, <2>3
<1> HIDE DEF chosen
<1>3. DOMAIN Contents = Held /\ Contents = [k \in Held |-> Contents[k]]
  BY <1>1
<1> QED
  BY <1>2, <1>3 DEF ContentsAreEntries

\* Entries that only move leave the map as it is.
LEMMA SameContents ==
    ASSUME UniqueKeys, UniqueKeys', Held' = Held,
           \A s \in Occupied : \E t \in Occupied' : entries'[t] = entries[s]
    PROVE  Contents' = Contents
<1>1. ContentsAreEntries /\ ContentsAreEntries'
  BY ContentsOf, PTL
<1>2. ASSUME NEW k \in Held PROVE Contents'[k] = Contents[k]
  <2>1. PICK s \in Occupied : k = entries[s].key
    BY <1>2 DEF Held
  <2>2. PICK t \in Occupied' : entries'[t] = entries[s]
    BY <2>1
  <2> QED
    BY <1>1, <2>1, <2>2 DEF ContentsAreEntries
<1> QED
  BY <1>1, <1>2 DEF ContentsAreEntries

LEMMA PutContents ==
    ASSUME TableInv, ProbeEmpty, call.name = "insert"
    PROVE  Contents' = [k \in DOMAIN Contents \cup {call.key} |->
                          IF k = call.key THEN call.value ELSE Contents[k]]
<1>1. ContentsAreEntries /\ ContentsAreEntries'
  <2>1. UniqueKeys /\ UniqueKeys'
    BY InsertedInv DEF TableInv
  <2> QED
    BY <2>1, ContentsOf, PTL
<1>2. /\ Occupied' = Occupied \cup {slot} /\ Held' = Held \cup {call.key}
      /\ call.key \notin Held
      /\ entries'[slot].key = call.key /\ entries'[slot].value = call.value
      /\ \A s \in Occupied : entries'[s] = entries[s]
  BY InsertedInv
<1>3. Contents'[call.key] = call.value
  BY <1>1, <1>2 DEF ContentsAreEntries
<1>4. ASSUME NEW k \in Held PROVE Contents'[k] = Contents[k]
  <2>1. PICK s \in Occupied : k = entries[s].key
    BY <1>4 DEF Held
  <2> QED
    BY <1>1, <1>2, <2>1 DEF ContentsAreEntries
<1> QED
  BY <1>1, <1>2, <1>3, <1>4 DEF ContentsAreEntries

LEMMA DropContents ==
    ASSUME TableInv, ProbeHit, call.name = "erase"
    PROVE  Contents' = [k \in DOMAIN Contents \ {call.key} |-> Contents[k]]
<1>1. ContentsAreEntries /\ ContentsAreEntries'
  <2>1. UniqueKeys /\ UniqueKeys'
    BY ErasingInv DEF TableInv
  <2> QED
    BY <2>1, ContentsOf, PTL
<1>2. /\ Occupied' = Occupied \ {slot} /\ Held' = Held \ {call.key}
      /\ entries[slot].key = call.key /\ entries' = entries
  BY ErasingInv
<1>3. ASSUME NEW k \in Held, k # call.key PROVE Contents'[k] = Contents[k]
  <2>1. PICK s \in Occupied : k = entries[s].key
    BY <1>3 DEF Held
  <2>2. s \in Occupied'
    BY <1>2, <1>3, <2>1
  <2> QED
    BY <1>1, <1>2, <2>1, <2>2 DEF ContentsAreEntries
<1> QED
  BY <1>1, <1>2, <1>3 DEF ContentsAreEntries

LEMMA MapCardinality == ASSUME NEW S PROVE Map!Cardinality(S) = Cardinality(S)
BY Zenon DEF Map!Cardinality, Cardinality

MapStep == [Map!MapNext]_<<Contents, Answered>>

\* The steps of the map, in terms of its mapped variables.
LEMMA MapSteps ==
    ASSUME NEW key \in Keys \cup {ZeroKey}
    PROVE  /\ Answered' = <<"none">> /\ Contents' = Contents => MapStep
           /\ Answered' = Answered /\ Contents' = Contents => MapStep
           /\ /\ Answered' = <<"insert", key, "InvalidKey">> /\ key = ZeroKey
              /\ Contents' = Contents /\ Values # {}
              => MapStep
           /\ /\ Answered' = <<"insert", key, "Duplicate">> /\ key \in DOMAIN Contents
              /\ Contents' = Contents /\ Values # {}
              => MapStep
           /\ /\ Answered' = <<"insert", key, "Full">> /\ key \in Keys \ DOMAIN Contents
              /\ Cardinality(DOMAIN Contents) = MaximumEntries
              /\ Contents' = Contents /\ Values # {}
              => MapStep
           /\ \A value \in Values :
                /\ Answered' = <<"insert", key, "Inserted">> /\ key \in Keys \ DOMAIN Contents
                /\ Cardinality(DOMAIN Contents) < MaximumEntries
                /\ Contents' = [k \in DOMAIN Contents \cup {key} |->
                                  IF k = key THEN value ELSE Contents[k]]
                => MapStep
           /\ /\ Answered' = <<"find", key, Contents[key]>> /\ key \in DOMAIN Contents
              /\ Contents' = Contents
              => MapStep
           /\ /\ Answered' = <<"find", key, "nullptr">> /\ key \notin DOMAIN Contents
              /\ Contents' = Contents
              => MapStep
           /\ /\ Answered' = <<"erase", key, TRUE>> /\ key \in DOMAIN Contents
              /\ Contents' = [k \in DOMAIN Contents \ {key} |-> Contents[k]]
              => MapStep
           /\ /\ Answered' = <<"erase", key, FALSE>> /\ key \notin DOMAIN Contents
              /\ Contents' = Contents /\ Contents = [k \in DOMAIN Contents |-> Contents[k]]
              => MapStep
<1> USE DEF MapStep, Map!MapNext, Answered
<1>1. Answered' = <<"none">> /\ Contents' = Contents => MapStep
  BY DEF Map!MapCall
<1>2. Answered' = Answered /\ Contents' = Contents => MapStep
  OBVIOUS
<1>3. /\ Answered' = <<"insert", key, "InvalidKey">> /\ key = ZeroKey
      /\ Contents' = Contents /\ Values # {}
      => MapStep
  BY DEF Map!MapInsert
<1>4. /\ Answered' = <<"insert", key, "Duplicate">> /\ key \in DOMAIN Contents
      /\ Contents' = Contents /\ Values # {}
      => MapStep
  BY DEF Map!MapInsert
<1>5. /\ Answered' = <<"insert", key, "Full">> /\ key \in Keys \ DOMAIN Contents
      /\ Cardinality(DOMAIN Contents) = MaximumEntries
      /\ Contents' = Contents /\ Values # {}
      => MapStep
  BY MapCardinality DEF Map!MapInsert
<1>6. ASSUME NEW value \in Values,
             Answered' = <<"insert", key, "Inserted">>, key \in Keys \ DOMAIN Contents,
             Cardinality(DOMAIN Contents) < MaximumEntries,
             Contents' = [k \in DOMAIN Contents \cup {key} |->
                            IF k = key THEN value ELSE Contents[k]]
      PROVE  MapStep
  BY <1>6, MapCardinality DEF Map!MapInsert
<1>7. /\ Answered' = <<"find", key, Contents[key]>> /\ key \in DOMAIN Contents
      /\ Contents' = Contents
      => MapStep
  BY DEF Map!MapFind
<1>8. /\ Answered' = <<"find", key, "nullptr">> /\ key \notin DOMAIN Contents
      /\ Contents' = Contents
      => MapStep
  BY DEF Map!MapFind
<1>9. /\ Answered' = <<"erase", key, TRUE>> /\ key \in DOMAIN Contents
      /\ Contents' = [k \in DOMAIN Contents \ {key} |-> Contents[k]]
      => MapStep
  <2>1. key \in DOMAIN Contents => (key \in DOMAIN Contents) = TRUE
    OBVIOUS
  <2> QED
    BY <2>1 DEF Map!MapErase
<1>10. /\ Answered' = <<"erase", key, FALSE>> /\ key \notin DOMAIN Contents
       /\ Contents' = Contents /\ Contents = [k \in DOMAIN Contents |-> Contents[k]]
       => MapStep
  <2> SUFFICES ASSUME Answered' = <<"erase", key, FALSE>>, key \notin DOMAIN Contents,
                      Contents' = Contents, Contents = [k \in DOMAIN Contents |-> Contents[k]]
               PROVE  MapStep
    OBVIOUS
  <2>1. (key \in DOMAIN Contents) = FALSE /\ DOMAIN Contents \ {key} = DOMAIN Contents
    OBVIOUS
  <2>2. Contents' = [k \in DOMAIN Contents \ {key} |-> Contents[k]]
    BY <2>1
  <2>3. Answered' = <<"erase", key, key \in DOMAIN Contents>>
    BY <2>1
  <2> QED
    BY <2>2, <2>3 DEF Map!MapErase
<1> QED
  BY <1>1, <1>2, <1>3, <1>4, <1>5, <1>6, <1>7, <1>8, <1>9, <1>10

LEMMA CallMaps ==
    ASSUME TableInv, TableInv', NEW key \in Keys \cup {ZeroKey},
           (\E value \in Values : Insert(key, value)) \/ Find(key) \/ Erase(key)
    PROVE  MapStep
<1>1. /\ call = NoCall /\ UNCHANGED <<entries, size, bucket, hole, scan>>
  BY DEF Insert, Find, Erase, Answer, Begin
<1>2. hole = NoSlot /\ Answered' = reply'
  BY <1>1, IdleInv DEF Answered
<1>3. Occupied' = Occupied /\ Held' = Held
  BY <1>1, EntriesKept
<1>4. Contents' = Contents
  BY <1>1, <1>3, SameContents DEF TableInv
<1>5. ContentsAreEntries
  BY ContentsOf DEF TableInv
<1>6. CASE key = ZeroKey
  <2>1. key \notin DOMAIN Contents
    BY <1>5, <1>6, OccupiedSlots DEF TableInv, ContentsAreEntries
  <2>2. CASE \E value \in Values : Insert(key, value)
    <3>1. reply' = <<"insert", key, "InvalidKey">> /\ Values # {}
      BY <1>6, <2>2 DEF Insert, Answer
    <3> QED
      BY <1>2, <1>4, <1>6, <3>1, MapSteps
  <2>3. CASE Find(key)
    <3>1. reply' = <<"find", key, "nullptr">>
      BY <1>6, <2>3 DEF Find, Answer
    <3> QED
      BY <1>2, <1>4, <2>1, <3>1, MapSteps
  <2>4. CASE Erase(key)
    <3>1. reply' = <<"erase", key, FALSE>>
      BY <1>6, <2>4 DEF Erase, Answer
    <3> QED
      BY <1>2, <1>4, <1>5, <2>1, <3>1, MapSteps DEF ContentsAreEntries
  <2> QED
    BY <2>2, <2>3, <2>4
<1>7. CASE key # ZeroKey
  <2>1. reply' = <<"none">>
    BY <1>7 DEF Insert, Find, Erase, Begin
  <2> QED
    BY <1>2, <1>4, <2>1, MapSteps
<1> QED
  BY <1>6, <1>7

\* A call that returns: the key, the size and the map behind the answer.
LEMMA Returning ==
    ASSUME TableInv, Probing
    PROVE  /\ call.key \in Keys /\ call.key \in Keys \cup {ZeroKey} /\ hole = NoSlot
           /\ call.name \in {"insert", "insert_full"} => call.value \in Values
           /\ call.name \in {"insert", "insert_full", "find", "erase"}
           /\ DOMAIN Contents = Held /\ Cardinality(DOMAIN Contents) = size
           /\ call.name = "insert" => size < MaximumEntries
           /\ call.name = "insert_full" => size = MaximumEntries
           /\ Contents = [k \in DOMAIN Contents |-> Contents[k]]
<1>1. CallOK /\ call # NoCall /\ hole = NoSlot /\ size \in 0 .. MaximumEntries
  BY DEF TableInv, TableTypeOK, Probing
<1>2. ContentsAreEntries
  BY ContentsOf DEF TableInv
<1>3. Cardinality(Held) = size
  BY <1>1 DEF TableInv, CountsEntries, Remaining
<1>4. call.name = "insert" => size < MaximumEntries
  BY <1>1, TableAssumption DEF TableInv, ProbeInv
<1>5. call.name = "insert_full" => size = MaximumEntries
  BY DEF TableInv, ProbeInv
<1> QED
  BY <1>1, <1>2, <1>3, <1>4, <1>5 DEF CallOK, ContentsAreEntries

LEMMA ProbeEmptyMaps ==
    ASSUME TableInv, TableInv', ProbeEmpty
    PROVE  MapStep
<1>1. Probing /\ entries[slot].key = ZeroKey /\ hole' = hole
  BY DEF ProbeEmpty
<1>2. call.key \notin DOMAIN Contents
  BY <1>1, EmptyMeansAbsent, Returning
<1>3. Answered' = reply'
  BY <1>1, Returning DEF Answered
<1>4. CASE call.name = "insert"
  <2>1. reply' = <<"insert", call.key, "Inserted">>
    BY <1>4 DEF ProbeEmpty, Return
  <2>2. Contents' = [k \in DOMAIN Contents \cup {call.key} |->
                       IF k = call.key THEN call.value ELSE Contents[k]]
    BY <1>4, PutContents
  <2>3. /\ call.key \in Keys \ DOMAIN Contents /\ call.value \in Values
        /\ Cardinality(DOMAIN Contents) < MaximumEntries
    BY <1>1, <1>2, <1>4, Returning
  <2> QED
    BY <1>3, <2>1, <2>2, <2>3, MapSteps
<1>5. CASE call.name # "insert"
  <2>1. UNCHANGED <<entries, size, bucket, hole, scan>>
    BY <1>5 DEF ProbeEmpty
  <2>2. Contents' = Contents
    BY <2>1, EntriesKept, SameContents DEF TableInv
  <2>3. reply' = <<Missing[1], call.key, Missing[2]>>
    BY <1>5 DEF ProbeEmpty, Return
  <2>4. CASE call.name = "insert_full"
    <3>1. reply' = <<"insert", call.key, "Full">>
      BY <2>3, <2>4 DEF Missing
    <3>2. /\ call.key \in Keys \ DOMAIN Contents /\ Values # {}
          /\ Cardinality(DOMAIN Contents) = MaximumEntries
      BY <1>1, <1>2, <2>4, Returning
    <3> QED
      BY <1>3, <2>2, <3>1, <3>2, MapSteps
  <2>5. CASE call.name = "find"
    <3>1. reply' = <<"find", call.key, "nullptr">>
      BY <2>3, <2>5 DEF Missing
    <3> QED
      BY <1>1, <1>2, <1>3, <2>2, <3>1, Returning, MapSteps
  <2>6. CASE call.name = "erase"
    <3>1. reply' = <<"erase", call.key, FALSE>>
      BY <2>3, <2>6 DEF Missing
    <3> QED
      BY <1>1, <1>2, <1>3, <2>2, <3>1, Returning, MapSteps
  <2> QED
    BY <1>1, <1>5, <2>4, <2>5, <2>6, Returning
<1> QED
  BY <1>4, <1>5

LEMMA ProbeHitMaps ==
    ASSUME TableInv, TableInv', ProbeHit
    PROVE  MapStep
<1>1. Probing /\ entries[slot].key = call.key
  BY DEF ProbeHit
<1>2. slot \in Occupied
  BY <1>1, Returning, ZeroSlot, TableAssumption DEF TableInv, TableTypeOK, Occupied
<1>3. call.key \in DOMAIN Contents /\ Contents[call.key] = entries[slot].value
  BY <1>1, <1>2, ContentsOf DEF TableInv, ContentsAreEntries, Held
<1>4. CASE call.name = "erase"
  <2>1. hole' # NoSlot /\ call' = call
    BY <1>4, ErasingInv
  <2>2. Answered' = <<"erase", call.key, TRUE>>
    BY <2>1 DEF Answered
  <2>3. Contents' = [k \in DOMAIN Contents \ {call.key} |-> Contents[k]]
    BY <1>4, DropContents
  <2> QED
    BY <1>1, <1>3, <2>2, <2>3, Returning, MapSteps
<1>5. CASE call.name # "erase"
  <2>1. UNCHANGED <<entries, size, bucket, hole, scan>>
    BY <1>5 DEF ProbeHit
  <2>2. Contents' = Contents /\ Answered' = reply'
    BY <1>1, <2>1, EntriesKept, SameContents, Returning DEF TableInv, Answered
  <2>3. CASE call.name = "find"
    <3>1. reply' = <<"find", call.key, Contents[call.key]>>
      BY <1>3, <1>5, <2>3 DEF ProbeHit, Return
    <3> QED
      BY <1>1, <1>3, <2>2, <3>1, Returning, MapSteps
  <2>4. CASE call.name # "find"
    <3>1. reply' = <<"insert", call.key, "Duplicate">>
      BY <1>5, <2>4 DEF ProbeHit, Return
    <3>2. Values # {}
      BY <1>1, <1>5, <2>4, Returning
    <3> QED
      BY <1>1, <1>3, <2>2, <3>1, <3>2, Returning, MapSteps
  <2> QED
    BY <2>3, <2>4
<1> QED
  BY <1>4, <1>5

\* Entries that are moved back, and the end of an erase, are no step of the map.
LEMMA ShiftMaps ==
    ASSUME TableInv, TableInv', ShiftEntry \/ ShiftEnds
    PROVE  Contents' = Contents /\ Answered' = Answered
<1>1. UniqueKeys /\ UniqueKeys'
  BY DEF TableInv
<1>2. CASE ShiftEntry
  <2>1. /\ hole # NoSlot /\ UNCHANGED <<call, reply>>
        /\ hole' = IF ReachesHole(entries[scan].key) THEN scan ELSE hole
    BY <1>2 DEF ShiftEntry
  <2>2. hole' # NoSlot
    BY <2>1, ZeroSlot DEF TableInv, TableTypeOK
  <2>3. Answered' = Answered
    BY <2>1, <2>2 DEF Answered
  <2>4. CASE ReachesHole(entries[scan].key)
    <3>1. /\ Held' = Held /\ Occupied' = (Occupied \ {scan}) \cup {hole}
          /\ entries'[hole] = entries[scan]
          /\ \A s \in Occupied \ {scan} : entries'[s] = entries[s]
      BY <1>2, <2>4, MovedInv
    <3>2. \A s \in Occupied : \E t \in Occupied' : entries'[t] = entries[s]
      BY <3>1
    <3> QED
      BY <1>1, <2>3, <3>1, <3>2, SameContents
  <2>5. CASE ~ReachesHole(entries[scan].key)
    <3>1. entries' = entries /\ hole' = hole
      BY <1>2, <2>5, StayedInv
    <3>2. Occupied' = Occupied
      BY <3>1 DEF Occupied
    <3>3. Held' = Held
      BY <3>1, <3>2 DEF Held
    <3> QED
      BY <1>1, <2>3, <3>1, <3>2, <3>3, SameContents
  <2> QED
    BY <2>4, <2>5
<1>3. CASE ShiftEnds
  <2>1. /\ Occupied' = Occupied /\ hole' = NoSlot
        /\ \A s \in Occupied : entries'[s] = entries[s]
    BY <1>3, ErasedInv
  <2>2. Held' = Held
    BY <2>1 DEF Held
  <2>3. hole # NoSlot /\ reply' = <<"erase", call.key, TRUE>>
    BY <1>3 DEF ShiftEnds, Return
  <2> QED
    BY <1>1, <2>1, <2>2, <2>3, SameContents DEF Answered
<1> QED
  BY <1>2, <1>3

LEMMA TableStepMaps == TableInv /\ TableInv' /\ [TableNext]_table => MapStep
<1> SUFFICES ASSUME TableInv, TableInv', [TableNext]_table PROVE MapStep
  OBVIOUS
<1>0. ZeroKey \in Keys \cup {ZeroKey}
  OBVIOUS
<1>1. CASE UNCHANGED table
  <2>1. UNCHANGED <<entries, size, bucket, hole, scan, call, reply>>
    BY <1>1 DEF table
  <2>2. Contents' = Contents /\ Answered' = Answered
    BY <2>1, EntriesKept, SameContents DEF TableInv, Answered
  <2> QED
    BY <1>0, <2>2, MapSteps
<1>2. ASSUME NEW key \in Keys \cup {ZeroKey},
             (\E value \in Values : Insert(key, value)) \/ Find(key) \/ Erase(key)
      PROVE  MapStep
  BY <1>2, CallMaps
<1>3. CASE ProbeOther
  <2>1. UNCHANGED <<entries, size, bucket, hole, scan, call, reply>>
    BY <1>3, ProbeOtherInv DEF ProbeOther
  <2>2. Contents' = Contents /\ Answered' = Answered
    BY <2>1, EntriesKept, SameContents DEF TableInv, Answered
  <2> QED
    BY <1>0, <2>2, MapSteps
<1>4. CASE ProbeEmpty
  BY <1>4, ProbeEmptyMaps
<1>5. CASE ProbeHit
  BY <1>5, ProbeHitMaps
<1>6. CASE ShiftEntry \/ ShiftEnds
  BY <1>0, <1>6, ShiftMaps, MapSteps
<1> QED
  BY <1>1, <1>2, <1>3, <1>4, <1>5, <1>6 DEF TableNext, Step

LEMMA TableInitMaps == TableInit => Map!MapInit
<1> SUFFICES ASSUME TableInit PROVE Map!MapInit
  OBVIOUS
<1>1. \A s \in Slots : entries[s].key = ZeroKey
  BY DEF TableInit, NoEntry
<1>2. Occupied = {}
  BY <1>1 DEF Occupied
<1>3. Contents = [k \in {} |-> ZeroKey]
  BY <1>2 DEF Contents
<1> QED
  BY <1>3 DEF TableInit, Map!MapInit

\* The table implements the bounded map: every insert, find and erase answers
\* as the map would, whatever the keys' hashes and however far they probe.
THEOREM TableImplementsMap == TableSpec => ImplementsMap
<1>1. TableInit => Map!MapInit
  BY TableInitMaps
<1>2. TableInv /\ TableInv' /\ [TableNext]_table
        => [Map!MapNext]_<<Contents, IF hole = NoSlot THEN reply
                                     ELSE <<"erase", call.key, TRUE>> >>
  BY TableStepMaps DEF MapStep, Answered
<1> QED
  BY <1>1, <1>2, TableInvariance, PTL DEF TableSpec, ImplementsMap, Map!MapSpec
=============================================================================
