--------------------------- MODULE MCItchOrderBook ---------------------------
(***************************************************************************)
(* ItchOrderBook for TLC: three orders of two, three matches of two, and   *)
(* every field at a legal and at an illegal value.  A behaviour is one of  *)
(* a pipeline or one of the differential tool, which is followed to its    *)
(* first discrepancy.                                                      *)
(***************************************************************************)
EXTENDS ItchOrderBook, NasdaqItchUftDifferentialReplay, TLC

CONSTANTS SomeOrders, SomeMatches, MostQuantity

OnGrid == 2
OffGrid == 3
Grid == {OnGrid}
IdsOfOrders == SomeOrders \cup {NoId}
IdsOfMatches == SomeMatches \cup {NoId}
Quantities == 0 .. MostQuantity

Positive == 1 .. MostQuantity

\* Adds and replaces: the legal ones, and those with some fields illegal.
SomeAdds ==
    [type : {"A"}, order : SomeOrders, side : {"B", "S"}, price : Grid, quantity : Positive]
      \cup [type : {"A"}, order : {NoId, MaxId}, side : {"B"}, price : Grid, quantity : {1}]
      \cup [type : {"A"}, order : SomeOrders, side : {"S", "?"}, price : {0, OffGrid},
            quantity : {1}]
      \cup [type : {"A"}, order : SomeOrders, side : {"B", "?"}, price : Grid, quantity : {0}]
SomeReplaces ==
    [type : {"U"}, order : IdsOfOrders, new : IdsOfOrders \cup {MaxId}, price : Grid,
     quantity : Positive]
      \cup [type : {"U"}, order : SomeOrders, new : SomeOrders, price : {0, OffGrid},
            quantity : {1}]
      \cup [type : {"U"}, order : SomeOrders, new : SomeOrders, price : Grid,
            quantity : {0}]

SomeMessages ==
    SomeAdds \cup SomeReplaces
      \cup [type : {"E"}, order : IdsOfOrders, match : IdsOfMatches, quantity : Quantities]
      \cup [type : {"C"}, order : SomeOrders, match : SomeMatches, quantity : Positive,
            printable : {"Y", "N"}, price : {OffGrid}]
      \cup [type : {"C"}, order : SomeOrders, match : SomeMatches, quantity : {1},
            printable : {"Y"}, price : {0}]
      \cup [type : {"C"}, order : SomeOrders, match : SomeMatches, quantity : {1},
            printable : {"?"}, price : {OnGrid}]
      \cup [type : {"X"}, order : IdsOfOrders, quantity : Quantities]
      \cup [type : {"D"}, order : IdsOfOrders]
      \cup [type : {"P"}, order : {NoId}, match : IdsOfMatches, quantity : Quantities,
            side : {"B"}, price : {OnGrid}]
      \cup [type : {"P"}, order : {NoId}, match : SomeMatches, quantity : {1},
            side : {"B", "?"}, price : {0, OnGrid}]
      \cup [type : {"Q"}, match : IdsOfMatches, quantity : Quantities, price : {OnGrid}]
      \cup [type : {"Q"}, match : SomeMatches, quantity : {1}, price : {0}]
      \cup [type : {"B"}, match : IdsOfMatches]
      \cup [type : {"other", "wrong_size"}]

-----------------------------------------------------------------------------
CONSTANTS ReplayedOrders, ReplayedMatches

VARIABLE program   \* which of the two programs runs

\* Messages for the tool, with ids beyond INT64_MAX and the other values on
\* which the adapters differ.
ReplayedMessages ==
    LET ids == ReplayedOrders \cup {NoId, MaxId}
    IN  [type : {"A"}, order : ids, side : {"B", "?"}, price : {0, OnGrid}, quantity : {0, 2}]
      \cup [type : {"U"}, order : ids, new : ids, price : {0, OnGrid}, quantity : {0, 1}]
      \cup [type : {"E"}, order : ids, match : ReplayedMatches \cup {NoId, MaxId},
            quantity : {0, 1}]
      \cup [type : {"C"}, order : ids, match : ReplayedMatches, quantity : {1},
            printable : {"Y", "N", "?"}, price : {0, OnGrid}]
      \cup [type : {"X"}, order : ids, quantity : 0 .. 2]
      \cup [type : {"D"}, order : ids]
      \cup [type : {"P"}, order : {NoId}, match : ReplayedMatches, quantity : {0, 1},
            side : {"S", "?"}, price : {OnGrid}]
      \cup [type : {"Q"}, match : ReplayedMatches \cup {MaxId},
            quantity : {0, 1, MaxShares + 1}, price : {OnGrid}]
      \cup [type : {"B"}, match : ReplayedMatches \cup {NoId, MaxId}]
      \cup [type : {"other", "wrong_size"}]

MCInit == ItchInit /\ DifferentialInit /\ program \in {"pipeline", "differential"}

MCNext ==
    \/ /\ program = "pipeline" /\ ItchNext
       /\ UNCHANGED <<program, differential>>
    \/ /\ program = "differential"
       /\ \/ discrepancies = {} /\ DifferentialNext(ReplayedMessages)
          \/ Directory
       /\ UNCHANGED <<program, itch>>

MCSpec == MCInit /\ [][MCNext]_<<program, itch, differential>>

IdSymmetry == Permutations(SomeOrders) \cup Permutations(SomeMatches)
=============================================================================
