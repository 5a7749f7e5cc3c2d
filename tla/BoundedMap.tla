----------------------------- MODULE BoundedMap ------------------------------
(***************************************************************************)
(* What FixedHashTable promises: a map from keys to values with at most    *)
(* MaximumEntries entries.  reply is the answer of the last call.          *)
(***************************************************************************)
EXTENDS Integers, FiniteSets

CONSTANTS Keys, ZeroKey, Values, MaximumEntries

VARIABLES map, reply

MapInit == map = [k \in {} |-> ZeroKey] /\ reply = <<"none">>

MapInsert(key, value) ==
    \/ /\ reply' = <<"insert", key, "Inserted">>
       /\ key \in Keys \ DOMAIN map
       /\ Cardinality(DOMAIN map) < MaximumEntries
       /\ map' = [k \in DOMAIN map \cup {key} |-> IF k = key THEN value ELSE map[k]]
    \/ /\ reply' = <<"insert", key, "Duplicate">>
       /\ key \in DOMAIN map
       /\ UNCHANGED map
    \/ /\ reply' = <<"insert", key, "Full">>
       /\ key \in Keys \ DOMAIN map
       /\ Cardinality(DOMAIN map) = MaximumEntries
       /\ UNCHANGED map
    \/ /\ reply' = <<"insert", key, "InvalidKey">>
       /\ key = ZeroKey
       /\ UNCHANGED map

MapFind(key) ==
    /\ reply' = <<"find", key, IF key \in DOMAIN map THEN map[key] ELSE "nullptr">>
    /\ UNCHANGED map

MapErase(key) ==
    /\ reply' = <<"erase", key, key \in DOMAIN map>>
    /\ map' = [k \in DOMAIN map \ {key} |-> map[k]]

\* A call begins; the last answer is forgotten.
MapCall == reply' = <<"none">> /\ UNCHANGED map

MapNext ==
    \/ MapCall
    \/ \E key \in Keys \cup {ZeroKey} :
          \/ \E value \in Values : MapInsert(key, value)
          \/ MapFind(key)
          \/ MapErase(key)

MapSpec == MapInit /\ [][MapNext]_<<map, reply>>
=============================================================================
