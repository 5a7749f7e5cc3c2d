---------------------- MODULE UftMarketDataEngineProofs -----------------------
(***************************************************************************)
(* Proofs about UftMarketDataEngine, for any number of instruments and     *)
(* strategies, any callbacks and any depth of calls out of callbacks; and, *)
(* in the last part, about UftOrderBookPipeline: messages are applied in   *)
(* sequence, a live feed has no known gap, and its strategy has seen the   *)
(* book as it is.                                                          *)
(***************************************************************************)
EXTENDS UftMarketDataEngine, UftOrderBookPipeline, FiniteSetTheorems, TLAPS

\* Where a loop can be: at a subscriber, or at a strategy picked by First.
Positions == Nat \cup {First(S) : S \in SUBSET Strategies}

Frames == [op : Kinds \cup {"Book"}, instrument : Instruments \cup {0}, at : Positions,
           called : Seq(Strategies)]

EngineTypeOK ==
    /\ calls \in Seq(Frames)
    /\ subscribers \in [Instruments -> [Channels -> Seq(Strategies)]]
    /\ Registered \subseteq Strategies
    /\ configuration_ok \in [Strategies -> BOOLEAN]

(***************************************************************************)
(* start happens once and alone: before it there is no loop, and while its *)
(* loop is under way nothing can be published, so it is the only one.  A   *)
(* refusal has cost the strategy start is at its configuration_ok, and     *)
(* then start gives up.                                                    *)
(***************************************************************************)
StartIsAlone ==
    /\ ~configuration_frozen => ~running /\ calls = <<>> /\ refused = {} /\ ~failed
    /\ \A k \in 1 .. Len(calls) :
          calls[k].op = "Init" => Len(calls) = 1 /\ ~running /\ ~failed
    /\ failed => ~running /\ calls = <<>>

RefusalIsNoticed ==
    refused # {} => failed \/ (InLoop("Init") /\ ~configuration_ok[Top.at])

(***************************************************************************)
(* A list has no strategy twice and only grows at its end, so what a       *)
(* publication has called is the part of the list up to its position.      *)
(***************************************************************************)
Distinct(list) == \A j, k \in 1 .. Len(list) : list[j] = list[k] => j = k

ListsAreDistinct ==
    \A i \in Instruments, c \in Channels : Distinct(subscribers[i][c])

CalledSoFar(f) ==
    f.op \in Channels =>
       /\ f.instrument \in Instruments
       /\ f.at \in Nat /\ f.at >= 1 /\ f.at <= Len(subscribers[f.instrument][f.op])
       /\ Len(f.called) = f.at
       /\ \A j \in 1 .. f.at : f.called[j] = subscribers[f.instrument][f.op][j]

LoopsWalkLists == \A k \in 1 .. Len(calls) : CalledSoFar(calls[k])

EngineInv ==
    /\ EngineTypeOK /\ StartIsAlone /\ RefusalIsNoticed
    /\ ListsAreDistinct /\ LoopsWalkLists /\ CountsItsCallees

-----------------------------------------------------------------------------
(***************************************************************************)
(* The stack of loops.                                                     *)
(***************************************************************************)
LEMMA Pushed ==
    ASSUME NEW S, NEW s \in Seq(S), NEW f \in S
    PROVE  /\ <<f>> \o s \in Seq(S)
           /\ Len(<<f>> \o s) = Len(s) + 1
           /\ (<<f>> \o s)[1] = f /\ Head(<<f>> \o s) = f /\ <<f>> \o s # <<>>
           /\ \A k \in 2 .. Len(s) + 1 : (<<f>> \o s)[k] = s[k - 1]
OBVIOUS

LEMMA Popped ==
    ASSUME NEW S, NEW s \in Seq(S), s # <<>>
    PROVE  /\ Tail(s) \in Seq(S) /\ Len(Tail(s)) = Len(s) - 1 /\ Len(s) \in Nat /\ Len(s) >= 1
           /\ \A k \in 1 .. Len(s) - 1 : Tail(s)[k] = s[k + 1]
           /\ Head(s) = s[1] /\ s[1] \in S
OBVIOUS

LEMMA NoneLeft ==
    ASSUME NEW S, NEW s \in Seq(S), Len(s) = 0
    PROVE  s = <<>>
OBVIOUS

LEMMA Extended ==
    ASSUME NEW S, NEW list \in Seq(S), NEW s \in S
    PROVE  /\ Append(list, s) \in Seq(S) /\ Len(list) \in Nat
           /\ Len(Append(list, s)) = Len(list) + 1
           /\ \A k \in 1 .. Len(list) : Append(list, s)[k] = list[k]
           /\ Append(list, s)[Len(list) + 1] = s
OBVIOUS

\* A list without duplicates names as many strategies as it is long.
LEMMA DistinctCount ==
    ASSUME NEW S, NEW list \in Seq(S), Distinct(list)
    PROVE  Cardinality(Members(list)) = Len(list)
<1>1. Len(list) \in Nat /\ DOMAIN list = 1 .. Len(list)
  OBVIOUS
<1>2. list \in Bijection(1 .. Len(list), Members(list))
  <2>1. list \in [1 .. Len(list) -> Members(list)]
    BY <1>1 DEF Members
  <2>2. \A m \in Members(list) : \E k \in 1 .. Len(list) : list[k] = m
    BY <1>1 DEF Members
  <2> QED
    BY <2>1, <2>2 DEF Distinct, Bijection, Injection, Surjection, IsInjective
<1>3. ExistsBijection(1 .. Len(list), Members(list))
  BY <1>2 DEF ExistsBijection
<1>4. IsFiniteSet(1 .. Len(list)) /\ Cardinality(1 .. Len(list)) = Len(list)
  BY <1>1, FS_Interval
<1> QED
  BY <1>3, <1>4, FS_Bijection

LEMMA EngineInitInv == EngineInit => EngineInv
<1> SUFFICES ASSUME EngineInit PROVE EngineInv
  OBVIOUS
<1>1. EngineTypeOK
  BY DEF EngineInit, EngineTypeOK, Registered
<1>2. StartIsAlone /\ RefusalIsNoticed /\ ListsAreDistinct /\ LoopsWalkLists
  BY DEF EngineInit, StartIsAlone, RefusalIsNoticed, ListsAreDistinct, LoopsWalkLists, Distinct
<1>3. CountsItsCallees
  <2>1. Members(<<>>) = {}
    BY DEF Members
  <2> QED
    BY <2>1, FS_EmptySet DEF EngineInit, NoReceipt, CountsItsCallees
<1> QED
  BY <1>1, <1>2, <1>3 DEF EngineInv

-----------------------------------------------------------------------------
\* Registration touches neither loops nor lists.
LEMMA RegisterInv ==
    ASSUME EngineInv, Registered' \subseteq Strategies,
           UNCHANGED <<configuration_ok, subscribers, configuration_frozen, running, calls,
                       history>>
    PROVE  EngineInv'
BY DEF EngineInv, EngineTypeOK, StartIsAlone, RefusalIsNoticed, ListsAreDistinct,
       LoopsWalkLists, CalledSoFar, Distinct, CountsItsCallees, history, InLoop, Idle, Top,
       Members, Frames, Positions, First, Strategies

\* A loop is entered while the engine runs: start is over.
LEMMA EnterInv ==
    ASSUME EngineInv, running, NEW f \in Frames, f.op # "Init", CalledSoFar(f), Enter(f),
           UNCHANGED <<callbacks, configuration_ok, subscribers, configuration_frozen, running,
                       refused, failed, receipt>>
    PROVE  EngineInv'
<1>1. calls \in Seq(Frames) /\ calls' = <<f>> \o calls
  BY DEF EngineInv, EngineTypeOK, Enter
<1>2. /\ calls' \in Seq(Frames) /\ Len(calls') = Len(calls) + 1 /\ Len(calls) \in Nat
      /\ calls'[1] = f /\ \A k \in 2 .. Len(calls) + 1 : calls'[k] = calls[k - 1]
  BY <1>1, Pushed
<1>3. \A k \in 1 .. Len(calls) : calls[k].op # "Init"
  BY DEF EngineInv, StartIsAlone
<1>4. ASSUME NEW k \in 1 .. Len(calls')
      PROVE  calls'[k] = f \/ \E j \in 1 .. Len(calls) : calls'[k] = calls[j]
  <2>1. CASE k = 1
    BY <1>2, <2>1
  <2>2. CASE k # 1
    <3>1. k \in 2 .. Len(calls) + 1 /\ k - 1 \in 1 .. Len(calls)
      BY <1>2, <2>2
    <3> QED
      BY <1>2, <3>1
  <2> QED
    BY <2>1, <2>2
<1>5. EngineTypeOK' /\ ListsAreDistinct' /\ CountsItsCallees'
  BY <1>2 DEF EngineInv, EngineTypeOK, ListsAreDistinct, CountsItsCallees, Distinct, Members, Registered
<1>6. StartIsAlone'
  BY <1>3, <1>4 DEF EngineInv, StartIsAlone
<1>7. refused = {}
  <2>1. ~(calls # <<>> /\ Head(calls).op = "Init")
    BY <1>1, <1>3, Popped
  <2> QED
    BY <2>1 DEF EngineInv, StartIsAlone, RefusalIsNoticed, InLoop, Idle, Top
<1>8. LoopsWalkLists'
  <2>1. \A k \in 1 .. Len(calls') : CalledSoFar(calls'[k])
    BY <1>4 DEF EngineInv, LoopsWalkLists
  <2> QED
    BY <2>1 DEF LoopsWalkLists, CalledSoFar
<1> QED
  BY <1>5, <1>6, <1>7, <1>8 DEF EngineInv, RefusalIsNoticed

\* A loop that is not start's goes on to its next callback, or ends.
LEMMA LoopGoesOn ==
    ASSUME EngineInv, calls # <<>>, Top.op # "Init",
           \/ Leave
           \/ \E f \in Frames : f.op # "Init" /\ CalledSoFar(f) /\ Replace(f),
           UNCHANGED <<callbacks, configuration_ok, subscribers, configuration_frozen, running,
                       refused, failed>>,
           CountsItsCallees'
    PROVE  EngineInv'
<1>1. /\ calls \in Seq(Frames) /\ Len(calls) \in Nat /\ Len(calls) >= 1 /\ Top = calls[1]
      /\ Tail(calls) \in Seq(Frames) /\ Len(Tail(calls)) = Len(calls) - 1
      /\ \A k \in 1 .. Len(calls) - 1 : Tail(calls)[k] = calls[k + 1]
  BY Popped DEF EngineInv, EngineTypeOK, Top
<1>2. refused = {} /\ ~failed /\ configuration_frozen
  BY DEF EngineInv, StartIsAlone, RefusalIsNoticed, InLoop
<1>3. \A k \in 1 .. Len(calls) - 1 : Tail(calls)[k].op # "Init" /\ CalledSoFar(Tail(calls)[k])
  <2> SUFFICES ASSUME NEW k \in 1 .. Len(calls) - 1
               PROVE  Tail(calls)[k].op # "Init" /\ CalledSoFar(Tail(calls)[k])
    OBVIOUS
  <2>1. k + 1 \in 1 .. Len(calls) /\ Len(calls) # 1 /\ Tail(calls)[k] = calls[k + 1]
    BY <1>1
  <2> QED
    BY <2>1 DEF EngineInv, StartIsAlone, LoopsWalkLists
<1>4. /\ calls' \in Seq(Frames)
      /\ \A k \in 1 .. Len(calls') : calls'[k].op # "Init" /\ CalledSoFar(calls'[k])
  <2>1. CASE Leave
    BY <1>1, <1>3, <2>1 DEF Leave
  <2>2. CASE \E f \in Frames : f.op # "Init" /\ CalledSoFar(f) /\ Replace(f)
    <3>1. PICK f \in Frames : f.op # "Init" /\ CalledSoFar(f) /\ calls' = <<f>> \o Tail(calls)
      BY <2>2 DEF Replace
    <3>2. /\ calls' \in Seq(Frames) /\ Len(calls') = Len(calls) /\ calls'[1] = f
          /\ \A k \in 2 .. Len(calls) : calls'[k] = Tail(calls)[k - 1]
      BY <1>1, <3>1, Pushed
    <3>3. ASSUME NEW k \in 1 .. Len(calls')
          PROVE  calls'[k].op # "Init" /\ CalledSoFar(calls'[k])
      <4>1. CASE k = 1
        BY <3>1, <3>2, <4>1
      <4>2. CASE k # 1
        <5>1. k \in 2 .. Len(calls) /\ k - 1 \in 1 .. Len(calls) - 1
          BY <1>1, <3>2, <4>2
        <5> QED
          BY <1>3, <3>2, <5>1
      <4> QED
        BY <4>1, <4>2
    <3> QED
      BY <3>2, <3>3
  <2> QED
    BY <2>1, <2>2
<1>5. EngineTypeOK' /\ ListsAreDistinct'
  BY <1>4 DEF EngineInv, EngineTypeOK, ListsAreDistinct, Distinct, Registered
<1>6. StartIsAlone' /\ RefusalIsNoticed'
  BY <1>2, <1>4 DEF StartIsAlone, RefusalIsNoticed
<1>7. LoopsWalkLists'
  BY <1>4 DEF LoopsWalkLists, CalledSoFar
<1> QED
  BY <1>5, <1>6, <1>7 DEF EngineInv

\* The frame of start, or of a session, at the next strategy.
LEMMA NextFrame ==
    ASSUME EngineInv, NEW s, NEW kind \in {"Init", "Session"}
    PROVE  LET f == Frame(kind, 0, First(After(s, kind)), <<>>)
           IN  f \in Frames /\ f.op = kind /\ f.at = First(After(s, kind)) /\ CalledSoFar(f)
<1>1. After(s, kind) \in SUBSET Strategies
  BY DEF EngineInv, EngineTypeOK, After
<1> QED
  BY <1>1 DEF Frame, Frames, Positions, Kinds, Channels, CalledSoFar

LEMMA StartInv ==
    ASSUME EngineInv, start
    PROVE  EngineInv'
<1>1. calls = <<>> /\ ~running /\ refused = {} /\ ~failed
  BY DEF EngineInv, StartIsAlone, start
<1>2. UNCHANGED <<callbacks, configuration_ok, subscribers, refused, failed, receipt>>
  BY DEF start, config
<1>3. configuration_frozen' = TRUE
  BY DEF start
<1>4. ListsAreDistinct' /\ CountsItsCallees'
  BY <1>2 DEF EngineInv, ListsAreDistinct, CountsItsCallees, Distinct, Members
<1>5. CASE After(0, "Init") = {}
  <2>1. running' = TRUE /\ calls' = calls
    BY <1>5 DEF start
  <2> QED
    BY <1>1, <1>2, <1>3, <1>4, <2>1
       DEF EngineInv, EngineTypeOK, StartIsAlone, RefusalIsNoticed, LoopsWalkLists, Registered
<1>6. CASE After(0, "Init") # {}
  <2> DEFINE f == Frame("Init", 0, First(After(0, "Init")), <<>>)
  <2>1. calls' = <<f>> \o <<>> /\ running' = running
    BY <1>1, <1>6 DEF start, Enter
  <2>2. f \in Frames /\ CalledSoFar(f)
    BY NextFrame
  <2> HIDE DEF f
  <2>3. calls' = <<f>> /\ calls' \in Seq(Frames) /\ Len(calls') = 1 /\ calls'[1] = f
    BY <2>1, <2>2
  <2>4. EngineTypeOK' /\ StartIsAlone' /\ RefusalIsNoticed'
    BY <1>1, <1>2, <1>3, <2>1, <2>3
       DEF EngineInv, EngineTypeOK, StartIsAlone, RefusalIsNoticed, Registered
  <2>5. LoopsWalkLists'
    BY <1>2, <2>2, <2>3 DEF LoopsWalkLists, CalledSoFar
  <2> QED
    BY <1>4, <2>4, <2>5 DEF EngineInv
<1> QED
  BY <1>5, <1>6

LEMMA InitReturnsInv ==
    ASSUME EngineInv, InitReturns
    PROVE  EngineInv'
<1>1. calls # <<>> /\ Top.op = "Init"
  BY DEF InitReturns, InLoop, Idle
<1>2. /\ calls \in Seq(Frames) /\ Top = calls[1] /\ Len(calls) \in Nat /\ Len(calls) >= 1
      /\ Tail(calls) \in Seq(Frames) /\ Len(Tail(calls)) = Len(calls) - 1
  BY <1>1, Popped DEF EngineInv, EngineTypeOK, Top
<1>3. Len(calls) = 1 /\ ~running /\ ~failed /\ configuration_frozen
  BY <1>1, <1>2 DEF EngineInv, StartIsAlone
<1>4. Tail(calls) = <<>>
  <2>1. Len(Tail(calls)) = 0
    BY <1>2, <1>3
  <2> QED
    BY <1>2, <2>1, NoneLeft
<1>5. /\ UNCHANGED <<callbacks, configuration_ok, subscribers, configuration_frozen, refused,
                     receipt>>
  BY DEF InitReturns, config
<1>6. ListsAreDistinct' /\ CountsItsCallees'
  BY <1>5 DEF EngineInv, ListsAreDistinct, CountsItsCallees, Distinct, Members
<1>7. configuration_ok[Top.at] => refused = {}
  BY <1>3 DEF EngineInv, RefusalIsNoticed
<1>11. ASSUME Leave PROVE EngineTypeOK' /\ LoopsWalkLists' /\ calls' = <<>> /\ Len(calls') = 0
  <2>1. calls' = <<>> /\ Len(calls') = 0 /\ calls' \in Seq(Frames)
    BY <1>2, <1>3, <1>4, <1>11 DEF Leave
  <2> QED
    BY <1>5, <2>1 DEF EngineInv, EngineTypeOK, LoopsWalkLists, Registered
<1>8. CASE ~configuration_ok[Top.at] /\ failed' = TRUE /\ Leave /\ UNCHANGED running
  <2>1. StartIsAlone' /\ RefusalIsNoticed'
    BY <1>3, <1>5, <1>8, <1>11 DEF StartIsAlone, RefusalIsNoticed
  <2> QED
    BY <1>6, <1>8, <1>11, <2>1 DEF EngineInv
<1>9. CASE configuration_ok[Top.at] /\ running' = TRUE /\ Leave /\ UNCHANGED failed
  <2>1. StartIsAlone' /\ RefusalIsNoticed'
    BY <1>3, <1>5, <1>7, <1>9, <1>11 DEF StartIsAlone, RefusalIsNoticed
  <2> QED
    BY <1>6, <1>9, <1>11, <2>1 DEF EngineInv
<1>10. CASE /\ configuration_ok[Top.at] /\ UNCHANGED <<running, failed>>
            /\ Replace(Frame("Init", 0, First(After(Top.at, "Init")), <<>>))
  <2> DEFINE f == Frame("Init", 0, First(After(Top.at, "Init")), <<>>)
  <2>1. calls' = <<f>> \o <<>>
    BY <1>4, <1>10 DEF Replace
  <2>2. f \in Frames /\ CalledSoFar(f)
    BY NextFrame
  <2> HIDE DEF f
  <2>3. calls' \in Seq(Frames) /\ Len(calls') = 1 /\ calls'[1] = f
    BY <2>1, <2>2
  <2>4. EngineTypeOK' /\ StartIsAlone' /\ RefusalIsNoticed'
    BY <1>3, <1>5, <1>7, <1>10, <2>3
       DEF EngineInv, EngineTypeOK, StartIsAlone, RefusalIsNoticed, Registered
  <2>5. LoopsWalkLists'
    BY <1>5, <2>2, <2>3 DEF LoopsWalkLists, CalledSoFar
  <2> QED
    BY <1>6, <2>4, <2>5 DEF EngineInv
<1> QED
  BY <1>8, <1>9, <1>10 DEF InitReturns

LEMMA StopInv ==
    ASSUME EngineInv, stop
    PROVE  EngineInv'
<1>1. running' = FALSE /\ UNCHANGED <<callbacks, configuration_ok, subscribers,
         configuration_frozen, calls, refused, failed, receipt>>
  BY DEF stop, config, history
<1>2. EngineTypeOK' /\ ListsAreDistinct' /\ CountsItsCallees'
  BY <1>1 DEF EngineInv, EngineTypeOK, ListsAreDistinct, CountsItsCallees, Distinct, Members,
       Registered
<1>3. StartIsAlone'
  BY <1>1 DEF EngineInv, StartIsAlone
<1>4. RefusalIsNoticed' /\ LoopsWalkLists'
  BY <1>1 DEF EngineInv, RefusalIsNoticed, LoopsWalkLists, CalledSoFar, InLoop, Idle, Top
<1> QED
  BY <1>2, <1>3, <1>4 DEF EngineInv

\* A subscription extends one list at its end, behind every loop over it.
LEMMA SubscribeInv ==
    ASSUME EngineInv, NEW s \in Strategies, NEW i \in Instruments, NEW c \in Channels,
           subscribe(s, i, c)
    PROVE  EngineInv'
<1> DEFINE result == /\ configuration_frozen /\ ~running
                     /\ i \in instruments /\ Appendable(s, i, c)
<1>1. UNCHANGED <<callbacks, configuration_frozen, running, calls, failed, receipt>>
  BY DEF subscribe, config
<1>2. /\ refused' = IF ~result /\ InLoop("Init") /\ Top.at = s
                    THEN refused \cup {<<s, i, c>>} ELSE refused
      /\ configuration_ok' = [configuration_ok EXCEPT ![s] = configuration_ok[s] /\ result]
      /\ subscribers' = IF result THEN [subscribers EXCEPT ![i][c] = Append(@, s)]
                        ELSE subscribers
  BY DEF subscribe, OkAfter
<1>3. subscribers \in [Instruments -> [Channels -> Seq(Strategies)]]
  BY DEF EngineInv, EngineTypeOK
<1>4. ASSUME result
      PROVE  /\ s \notin Members(subscribers[i][c])
             /\ subscribers'[i][c] = Append(subscribers[i][c], s)
             /\ \A j \in Instruments, d \in Channels :
                   j # i \/ d # c => subscribers'[j][d] = subscribers[j][d]
             /\ subscribers' \in [Instruments -> [Channels -> Seq(Strategies)]]
  BY <1>2, <1>3, <1>4 DEF Appendable
<1> DEFINE old(j, d) == subscribers[j][d]
           new(j, d) == subscribers'[j][d]
<1>5. ASSUME NEW j \in Instruments, NEW d \in Channels
      PROVE  /\ old(j, d) \in Seq(Strategies) /\ new(j, d) \in Seq(Strategies)
             /\ Len(old(j, d)) \in Nat /\ Len(new(j, d)) >= Len(old(j, d))
             /\ \A k \in 1 .. Len(old(j, d)) : new(j, d)[k] = old(j, d)[k]
  <2>1. CASE result /\ j = i /\ d = c
    <3>1. subscribers[i][c] \in Seq(Strategies) /\ new(i, c) = Append(subscribers[i][c], s)
      BY <1>3, <1>4, <2>1
    <3> QED
      BY <2>1, <3>1, Extended
  <2>2. CASE ~result \/ j # i \/ d # c
    <3>1. subscribers'[j][d] = subscribers[j][d]
      BY <1>2, <1>4, <2>2
    <3>2. subscribers[j][d] \in Seq(Strategies)
      BY <1>3
    <3>3. Len(subscribers[j][d]) \in Nat
      BY <3>2
    <3> QED
      BY <3>1, <3>2, <3>3
  <2> QED
    BY <2>1, <2>2
<1>6. subscribers' \in [Instruments -> [Channels -> Seq(Strategies)]]
  BY <1>2, <1>3, <1>4
<1>7. ListsAreDistinct'
  <2> SUFFICES ASSUME NEW j \in Instruments, NEW d \in Channels
               PROVE  Distinct(subscribers'[j][d])
    BY DEF ListsAreDistinct, Distinct
  <2>1. Distinct(subscribers[j][d])
    BY DEF EngineInv, ListsAreDistinct
  <2>2. CASE result /\ j = i /\ d = c
    <3> DEFINE list == subscribers[i][c]
    <3>1. list \in Seq(Strategies) /\ subscribers'[j][d] = Append(list, s)
      BY <1>3, <1>4, <2>2
    <3>2. \A k \in 1 .. Len(list) : list[k] # s
      BY <1>4, <2>2, <3>1 DEF Members
    <3>3. Distinct(list)
      BY <2>1, <2>2
    <3> HIDE DEF list
    <3> QED
      BY <3>1, <3>2, <3>3, Extended DEF Distinct
  <2>3. CASE ~result \/ j # i \/ d # c
    BY <1>2, <1>4, <2>1, <2>3
  <2> QED
    BY <2>2, <2>3
<1>8. LoopsWalkLists'
  <2> SUFFICES ASSUME NEW k \in 1 .. Len(calls), calls[k].op \in Channels
               PROVE  CalledSoFar(calls[k])'
    BY <1>1 DEF LoopsWalkLists, CalledSoFar
  <2> DEFINE f == calls[k]
  <2>1. CalledSoFar(f) /\ f' = f
    BY <1>1 DEF EngineInv, LoopsWalkLists
  <2>2. /\ f.instrument \in Instruments
        /\ f.at \in Nat /\ f.at >= 1 /\ f.at <= Len(subscribers[f.instrument][f.op])
        /\ Len(f.called) = f.at
        /\ \A j \in 1 .. f.at : f.called[j] = subscribers[f.instrument][f.op][j]
    BY <2>1 DEF CalledSoFar
  <2>3. /\ Len(old(f.instrument, f.op)) \in Nat /\ Len(new(f.instrument, f.op)) \in Nat
        /\ Len(new(f.instrument, f.op)) >= Len(old(f.instrument, f.op))
        /\ \A j \in 1 .. Len(old(f.instrument, f.op)) :
              new(f.instrument, f.op)[j] = old(f.instrument, f.op)[j]
    <3>1. f.instrument \in Instruments /\ f.op \in Channels
      BY <2>2
    <3> HIDE DEF f, old, new
    <3>2. /\ old(f.instrument, f.op) \in Seq(Strategies) /\ new(f.instrument, f.op) \in Seq(Strategies)
      BY <1>5, <3>1
    <3>3. Len(old(f.instrument, f.op)) \in Nat /\ Len(new(f.instrument, f.op)) \in Nat
      BY <3>2
    <3>4. /\ Len(new(f.instrument, f.op)) >= Len(old(f.instrument, f.op))
          /\ \A j \in 1 .. Len(old(f.instrument, f.op)) :
                new(f.instrument, f.op)[j] = old(f.instrument, f.op)[j]
      BY <1>5, <3>1
    <3> QED
      BY <3>3, <3>4
  <2>4. f.at <= Len(new(f.instrument, f.op))
    <3> DEFINE here  == Len(old(f.instrument, f.op))
               there == Len(new(f.instrument, f.op))
    <3>1. f.at \in Nat /\ f.at <= here /\ here \in Nat /\ there \in Nat /\ there >= here
      BY <2>2, <2>3
    <3> HIDE DEF f, here, there
    <3>2. f.at <= there
      BY <3>1
    <3> QED
      BY <3>2 DEF there
  <2>5. \A j \in 1 .. f.at : f.called[j] = new(f.instrument, f.op)[j]
    <3>1. \A j \in 1 .. f.at : j \in 1 .. Len(old(f.instrument, f.op))
      BY <2>2, <2>3
    <3> QED
      BY <2>2, <2>3, <3>1
  <2> QED
    BY <2>1, <2>2, <2>4, <2>5 DEF CalledSoFar
<1>9. EngineTypeOK'
  BY <1>1, <1>2, <1>6 DEF EngineInv, EngineTypeOK, Registered
<1>10. StartIsAlone' /\ CountsItsCallees'
  <2>1. StartIsAlone'
    <3>1. ~configuration_frozen => refused' = refused
      BY <1>2 DEF EngineInv, StartIsAlone, InLoop, Idle
    <3> QED
      BY <1>1, <3>1 DEF EngineInv, StartIsAlone
  <2> QED
    BY <1>1, <2>1 DEF EngineInv, CountsItsCallees, Members
<1>11. RefusalIsNoticed'
  <2>1. configuration_ok \in [Strategies -> BOOLEAN]
    BY DEF EngineInv, EngineTypeOK
  <2>2. InLoop("Init")' = InLoop("Init") /\ Top' = Top
    BY <1>1 DEF InLoop, Idle, Top
  <2>3. ~configuration_ok[Top.at] => ~configuration_ok'[Top.at]
    BY <1>2, <2>1
  <2>4. ~result => ~configuration_ok'[s]
    BY <1>2, <2>1
  <2> HIDE DEF result
  <2> QED
    BY <1>1, <1>2, <2>2, <2>3, <2>4 DEF EngineInv, RefusalIsNoticed
<1> QED
  BY <1>7, <1>8, <1>9, <1>10, <1>11 DEF EngineInv

-----------------------------------------------------------------------------
LEMMA PublishInv ==
    ASSUME EngineInv, NEW i \in Instruments, NEW c \in Channels, publish(i, c)
    PROVE  EngineInv'
<1> DEFINE list == subscribers[i][c]
           f == Frame(c, i, 1, <<list[1]>>)
<1>1. running /\ list # <<>> /\ Enter(f)
      /\ UNCHANGED <<callbacks, configuration_ok, subscribers, configuration_frozen, running,
                     refused, failed, receipt>>
  BY DEF publish, config, history
<1>2. list \in Seq(Strategies) /\ Len(list) \in Nat /\ Len(list) >= 1 /\ list[1] \in Strategies
  <2>1. list \in Seq(Strategies)
    BY DEF EngineInv, EngineTypeOK
  <2> HIDE DEF list
  <2> QED
    BY <1>1, <2>1, Popped
<1>3. f \in Frames /\ f.op # "Init" /\ CalledSoFar(f)
  <2>1. f.called = <<list[1]>> /\ f.at = 1 /\ f.op = c /\ f.instrument = i
    BY DEF Frame
  <2>2. f.called \in Seq(Strategies) /\ Len(f.called) = 1 /\ f.called[1] = list[1]
    <3> HIDE DEF f, list
    <3> QED
      BY <1>2, <2>1
  <2>3. f \in Frames
    BY <2>1, <2>2 DEF Frame, Frames, Positions, Kinds
  <2> QED
    <3>1. /\ f.at \in Nat /\ f.at >= 1 /\ f.at <= Len(list) /\ Len(f.called) = f.at
          /\ \A j \in 1 .. f.at : f.called[j] = list[j]
      <4> HIDE DEF f, list
      <4> QED
        BY <1>2, <2>1, <2>2
    <3> QED
      BY <2>1, <2>3, <3>1 DEF CalledSoFar, Channels
<1> HIDE DEF f
<1> QED
  BY <1>1, <1>3, EnterInv

\* A publication ends at the end of the list as it is then: it has called
\* every strategy of that list, and each once.
LEMMA DeliveryReturnsInv ==
    ASSUME EngineInv, DeliveryReturns
    PROVE  EngineInv'
<1> DEFINE f == Top
           list == subscribers[f.instrument][f.op]
           g == Frame(f.op, f.instrument, f.at + 1, Append(f.called, list[f.at + 1]))
<1>1. /\ calls # <<>> /\ f.op \in Channels /\ f.op # "Init"
      /\ UNCHANGED <<callbacks, configuration_ok, subscribers, configuration_frozen, running,
                     refused, failed>>
      /\ \/ f.at < Len(list) /\ Replace(g) /\ UNCHANGED receipt
         \/ /\ ~(f.at < Len(list)) /\ Leave
            /\ receipt' = [count |-> Len(list), called |-> f.called]
  BY DEF DeliveryReturns, Idle, More, Channels, config
<1>2. f \in Frames /\ CalledSoFar(f)
  <2>1. calls \in Seq(Frames)
    BY DEF EngineInv, EngineTypeOK
  <2>2. f = calls[1] /\ calls[1] \in Frames /\ 1 \in 1 .. Len(calls)
    BY <1>1, <2>1, Popped DEF Top
  <2> QED
    BY <2>2 DEF EngineInv, LoopsWalkLists
<1>3. /\ f.instrument \in Instruments /\ f.called \in Seq(Strategies)
      /\ f.at \in Nat /\ f.at >= 1 /\ f.at <= Len(list) /\ Len(f.called) = f.at
      /\ \A j \in 1 .. f.at : f.called[j] = list[j]
  BY <1>1, <1>2 DEF CalledSoFar, Frames
<1>4. list \in Seq(Strategies) /\ Distinct(list)
  BY <1>1, <1>3 DEF EngineInv, EngineTypeOK, ListsAreDistinct
<1>5. Len(list) \in Nat
  BY <1>4
<1>6. CASE f.at < Len(list) /\ Replace(g) /\ UNCHANGED receipt
  <2>1. f.at + 1 \in 1 .. Len(list) /\ list[f.at + 1] \in Strategies
    <3> HIDE DEF f, list
    <3> QED
      BY <1>3, <1>4, <1>5, <1>6
  <2> DEFINE e == list[f.at + 1]
  <2>2. /\ Append(f.called, e) \in Seq(Strategies)
        /\ Len(Append(f.called, e)) = f.at + 1
        /\ \A k \in 1 .. f.at : Append(f.called, e)[k] = f.called[k]
        /\ Append(f.called, e)[f.at + 1] = e
    BY <1>3, <2>1, Extended
  <2>3. /\ g.op = f.op /\ g.instrument = f.instrument /\ g.at = f.at + 1
        /\ g.called = Append(f.called, e)
    BY DEF Frame
  <2>4. g \in Frames
    <3>1. f.at + 1 \in Positions /\ f.op \in Kinds \cup {"Book"}
          /\ f.instrument \in Instruments \cup {0}
      BY <1>1, <1>3 DEF Positions, Kinds
    <3> QED
      BY <2>2, <3>1 DEF Frame, Frames
  <2>5. ASSUME NEW j \in 1 .. f.at + 1 PROVE Append(f.called, e)[j] = list[j]
    <3>1. CASE j = f.at + 1
      BY <2>2, <3>1
    <3>2. CASE j # f.at + 1
      <4>1. j \in 1 .. f.at
        BY <1>3, <3>2
      <4> QED
        BY <1>3, <2>2, <4>1
    <3> QED
      BY <3>1, <3>2
  <2> HIDE DEF g
  <2>6. CalledSoFar(g)
    <3>1. /\ g.at \in Nat /\ g.at >= 1 /\ g.at <= Len(list) /\ Len(g.called) = g.at
      BY <1>3, <2>1, <2>2, <2>3
    <3>2. \A j \in 1 .. g.at : g.called[j] = list[j]
      BY <2>3, <2>5
    <3> QED
      BY <1>3, <2>3, <3>1, <3>2 DEF CalledSoFar
  <2>7. CountsItsCallees'
    BY <1>6 DEF EngineInv, CountsItsCallees, Members
  <2>8. \E h \in Frames : h.op # "Init" /\ CalledSoFar(h) /\ Replace(h)
    BY <1>1, <1>6, <2>3, <2>4, <2>6
  <2> QED
    BY <1>1, <2>7, <2>8, LoopGoesOn
<1>7. CASE /\ ~(f.at < Len(list)) /\ Leave
           /\ receipt' = [count |-> Len(list), called |-> f.called]
  <2>1. f.at = Len(list)
    <3> HIDE DEF f, list
    <3> QED
      BY <1>3, <1>5, <1>7
  <2>2. Distinct(f.called)
    <3> HIDE DEF f, list
    <3> QED
      BY <1>3, <1>4, <2>1 DEF Distinct
  <2>3. Cardinality(Members(f.called)) = Len(f.called)
    BY <1>3, <2>2, DistinctCount
  <2>4. CountsItsCallees'
    BY <1>3, <1>7, <2>1, <2>3 DEF CountsItsCallees, Members
  <2> QED
    BY <1>1, <1>7, <2>4, LoopGoesOn
<1> QED
  BY <1>1, <1>6, <1>7

LEMMA SessionInv ==
    ASSUME EngineInv, session \/ SessionReturns
    PROVE  EngineInv'
<1>1. UNCHANGED <<callbacks, configuration_ok, subscribers, configuration_frozen, running,
                  refused, failed, receipt>>
  BY DEF session, SessionReturns, config
<1>2. CASE session
  <2> DEFINE f == Frame("Session", 0, First(After(0, "Session")), <<>>)
  <2>1. running /\ Enter(f)
    BY <1>2 DEF session
  <2>2. f \in Frames /\ f.op # "Init" /\ CalledSoFar(f)
    BY NextFrame
  <2> HIDE DEF f
  <2> QED
    BY <1>1, <2>1, <2>2, EnterInv
<1>3. CASE SessionReturns
  <2> DEFINE f == Frame("Session", 0, First(After(Top.at, "Session")), <<>>)
  <2>1. calls # <<>> /\ Top.op # "Init" /\ (Leave \/ Replace(f))
    BY <1>3 DEF SessionReturns, InLoop, Idle
  <2>2. f \in Frames /\ f.op # "Init" /\ CalledSoFar(f)
    BY NextFrame
  <2>3. CountsItsCallees'
    BY <1>1 DEF EngineInv, CountsItsCallees, Members
  <2> HIDE DEF f
  <2> QED
    BY <1>1, <2>1, <2>2, <2>3, LoopGoesOn
<1> QED
  BY <1>2, <1>3

LEMMA BookLoopInv ==
    ASSUME EngineInv, BookReturns \/ \E i \in Instruments : publish_book_update(i)
    PROVE  EngineInv'
<1>1. UNCHANGED <<callbacks, configuration_ok, subscribers, configuration_frozen, running,
                  refused, failed, receipt>>
  BY DEF publish_book_update, BookReturns, config, history
<1>2. ASSUME NEW i \in Instruments, publish_book_update(i) PROVE EngineInv'
  <2> DEFINE f == Frame("Book", i, 1, <<>>)
  <2>1. running /\ Enter(f)
    BY <1>2 DEF publish_book_update
  <2>2. f \in Frames /\ f.op # "Init" /\ CalledSoFar(f)
    BY DEF Frame, Frames, Positions, CalledSoFar, Channels
  <2> HIDE DEF f
  <2> QED
    BY <1>1, <2>1, <2>2, EnterInv
<1>3. CASE BookReturns
  <2>1. calls # <<>> /\ Top.op # "Init" /\ Leave
    BY <1>3 DEF BookReturns, InLoop, Idle
  <2>2. CountsItsCallees'
    BY <1>1 DEF EngineInv, CountsItsCallees, Members
  <2> QED
    BY <1>1, <2>1, <2>2, LoopGoesOn
<1> QED
  BY <1>2, <1>3

LEMMA EngineNextInv == EngineInv /\ [EngineNext]_engine => EngineInv'
<1> SUFFICES ASSUME EngineInv, [EngineNext]_engine PROVE EngineInv'
  OBVIOUS
<1>1. Registered \subseteq Strategies
  BY DEF EngineInv, EngineTypeOK
<1>2. CASE UNCHANGED engine
  BY <1>1, <1>2, RegisterInv DEF engine, config, Registered
<1>3. ASSUME NEW i \in Instruments, register_instrument(i) \/ register_book(i)
      PROVE  EngineInv'
  BY <1>1, <1>3, RegisterInv DEF register_instrument, register_book, Registered
<1>4. ASSUME NEW s \in Strategies, NEW present \in CallbackSets, register_strategy(s, present)
      PROVE  EngineInv'
  <2>1. Registered' \subseteq Strategies
    BY <1>1, <1>4 DEF register_strategy, Registered
  <2> QED
    BY <1>4, <2>1, RegisterInv DEF register_strategy
<1> QED
  BY <1>2, <1>3, <1>4, StartInv, InitReturnsInv, StopInv, SubscribeInv, PublishInv,
     DeliveryReturnsInv, SessionInv, BookLoopInv DEF EngineNext

\* start runs alone and once, and every publication has called the part of its
\* list up to its position.
THEOREM EngineInvariance == EngineSpec => []EngineInv
BY EngineInitInv, EngineNextInv, PTL DEF EngineSpec

LEMMA EngineInvWhole == EngineInv => RunsOnlyWhole
<1> SUFFICES ASSUME EngineInv, running PROVE ~failed /\ refused = {}
  BY DEF RunsOnlyWhole
<1>1. ~InLoop("Init")
  BY Popped DEF EngineInv, EngineTypeOK, StartIsAlone, InLoop, Idle, Top
<1> QED
  BY <1>1 DEF EngineInv, StartIsAlone, RefusalIsNoticed

\* Whatever the strategies do in their callbacks, an engine that runs was
\* started whole, and one whose start gave up never runs.
THEOREM EngineRunsOnlyWhole == EngineSpec => []RunsOnlyWhole
BY EngineInvariance, EngineInvWhole, PTL

\* A publication returns the number of strategies it called, each of them
\* called once, also when lists grow under the loop that walks them.
THEOREM PublicationsCountTheirCallees == EngineSpec => []CountsItsCallees
<1>1. EngineInv => CountsItsCallees
  BY DEF EngineInv
<1> QED
  BY <1>1, EngineInvariance, PTL

-----------------------------------------------------------------------------
(***************************************************************************)
(* The order-book pipeline, for every first sequence and every width of a  *)
(* sequence number.  It shares no state with the engine: the two are read  *)
(* by different programs, and only their proofs are kept together.         *)
(***************************************************************************)
PipelineTypeOK ==
    /\ state \in {"Live", "Recovering", "Faulted"}
    /\ next \in 1 .. SeqMax /\ high_water \in 0 .. SeqMax
    /\ started \in BOOLEAN /\ in_ingest \in BOOLEAN
    /\ applied \in Seq(1 .. SeqMax)
    /\ changed \in 0 .. SeqMax /\ seen \in 0 .. SeqMax

\* What the strategy was shown, and what changed the book, lies behind next_:
\* the callback that ends a recovery catches up with all of it.
BehindNext == changed < next /\ seen < next

PipelineInv ==
    /\ PipelineTypeOK
    /\ BehindNext
    /\ AppliedInSequence
    /\ LiveMeansNoKnownGap
    /\ StrategyIsCurrent

LEMMA PipelineInitInv == PipelineInit => PipelineInv
<1> SUFFICES ASSUME PipelineInit PROVE PipelineInv
  OBVIOUS
<1>1. applied \in Seq(1 .. SeqMax) /\ Len(applied) = 0
  BY DEF PipelineInit
<1>2. PipelineTypeOK
  <2>1. started \in BOOLEAN /\ in_ingest \in BOOLEAN
    BY DEF PipelineInit
  <2> QED
    BY <1>1, <2>1, BoundaryAssumption DEF PipelineInit, PipelineTypeOK
<1>3. BehindNext /\ LiveMeansNoKnownGap /\ StrategyIsCurrent
  BY BoundaryAssumption DEF PipelineInit, BehindNext, LiveMeansNoKnownGap, StrategyIsCurrent
<1>4. AppliedInSequence
  BY <1>1, BoundaryAssumption DEF PipelineInit, AppliedInSequence
<1> QED
  BY <1>2, <1>3, <1>4 DEF PipelineInv

\* The steps that leave book and position alone.
LEMMA QuietStepInv ==
    ASSUME PipelineInv, UNCHANGED <<next, applied, changed, seen>>,
           state' \in {"Live", "Recovering", "Faulted"}, high_water' \in 0 .. SeqMax,
           started' \in BOOLEAN, in_ingest' \in BOOLEAN,
           state' = "Live" => state = "Live" /\ high_water' = high_water
    PROVE  PipelineInv'
BY DEF PipelineInv, PipelineTypeOK, BehindNext, AppliedInSequence, LiveMeansNoKnownGap,
       StrategyIsCurrent

LEMMA NoteGapInv ==
    ASSUME PipelineInv, NEW q \in 0 .. SeqMax, NoteGap(q)
    PROVE  PipelineInv'
<1>1. /\ state' \in {"Live", "Recovering", "Faulted"} /\ high_water' \in 0 .. SeqMax
      /\ state' = "Live" => state = "Live" /\ high_water' = high_water
  BY DEF NoteGap, StateAfterNote, HighWaterAfterNote, GapIsNews, PipelineInv, PipelineTypeOK
<1> QED
  BY <1>1, QuietStepInv DEF NoteGap, PipelineInv, PipelineTypeOK

LEMMA IngestApplyInv ==
    ASSUME PipelineInv, NEW q \in 0 .. SeqMax, NEW effect \in Effects,
           IngestApply(q, effect)
    PROVE  PipelineInv'
<1> USE DEF PipelineInv, PipelineTypeOK
<1>0. started' \in BOOLEAN
  BY DEF IngestApply
<1>1. /\ q = next /\ next' = next + 1 /\ q \in 1 .. SeqMax - 1
      /\ applied' = Append(applied, q)
      /\ changed' \in {changed, q} /\ high_water' = high_water
  BY BoundaryAssumption DEF IngestApply
<1>2. applied' \in Seq(1 .. SeqMax) /\ Len(applied') = Len(applied) + 1
  BY <1>1
<1>3. AppliedInSequence'
  <2>1. next' = FirstSequence + Len(applied')
    BY <1>1, <1>2, BoundaryAssumption DEF AppliedInSequence
  <2>2. ASSUME NEW i \in 1 .. Len(applied')
        PROVE  applied'[i] = FirstSequence + i - 1
    <3>1. CASE i <= Len(applied)
      BY <3>1, <1>1, <1>2 DEF AppliedInSequence
    <3>2. CASE i = Len(applied) + 1
      BY <3>2, <1>1, <1>2, BoundaryAssumption DEF AppliedInSequence
    <3> QED
      BY <3>1, <3>2, <1>2
  <2>3. next' <= SeqMax
    BY <1>1, BoundaryAssumption
  <2> QED
    BY <2>1, <2>2, <2>3 DEF AppliedInSequence
<1>4. CASE Recovered
  <2>1. state' = "Live" /\ seen' = q /\ in_ingest' = TRUE /\ high_water < next'
    BY <1>4, <1>1 DEF IngestApply, Recovered
  <2>2. PipelineTypeOK'
    BY <2>1, <1>1, <1>0, <1>2, BoundaryAssumption
  <2>3. BehindNext' /\ LiveMeansNoKnownGap' /\ StrategyIsCurrent'
    BY <2>1, <1>1, BoundaryAssumption DEF BehindNext, LiveMeansNoKnownGap, StrategyIsCurrent
  <2> QED
    BY <2>2, <2>3, <1>3
<1>5. CASE ~Recovered
  <2>1. state' = state /\ seen' \in {seen, q} /\ in_ingest' \in BOOLEAN
    BY <1>5 DEF IngestApply
  <2>2. state = "Live" /\ changed' = q => seen' = q
    BY <1>1, <2>1, SMT DEF IngestApply, Effects, BehindNext
  <2>3. PipelineTypeOK'
    BY <2>1, <1>1, <1>0, <1>2, BoundaryAssumption
  <2>4. BehindNext' /\ LiveMeansNoKnownGap' /\ StrategyIsCurrent'
    BY <2>1, <2>2, <1>1, BoundaryAssumption
       DEF BehindNext, LiveMeansNoKnownGap, StrategyIsCurrent
  <2> QED
    BY <2>3, <2>4, <1>3
<1> QED
  BY <1>4, <1>5

LEMMA IngestInv ==
    ASSUME PipelineInv, NEW q \in 0 .. SeqMax, NEW effect \in Effects, Ingest(q, effect)
    PROVE  PipelineInv'
<1>1. CASE IngestRefused(q) \/ IngestError(q)
  BY <1>1, QuietStepInv
     DEF IngestRefused, IngestError, Invalidate, PipelineInv, PipelineTypeOK
<1>2. CASE IngestDuplicate(q)
  BY <1>2, QuietStepInv DEF IngestDuplicate, pipeline, PipelineInv, PipelineTypeOK
<1>3. CASE IngestGap(q)
  <2>1. high_water' \in 0 .. SeqMax
    BY <1>3 DEF IngestGap, PipelineInv, PipelineTypeOK
  <2> QED
    BY <2>1, <1>3, QuietStepInv DEF IngestGap, PipelineInv, PipelineTypeOK
<1>4. CASE IngestApply(q, effect)
  BY <1>4, IngestApplyInv
<1> QED
  BY <1>1, <1>2, <1>3, <1>4 DEF Ingest

LEMMA PipelineNextInv == PipelineInv /\ [PipelineNext]_pipeline => PipelineInv'
<1> SUFFICES ASSUME PipelineInv, [PipelineNext]_pipeline PROVE PipelineInv'
  OBVIOUS
<1> USE DEF PipelineInv, PipelineTypeOK
<1>1. CASE UNCHANGED pipeline
  BY <1>1, QuietStepInv DEF pipeline
<1>2. CASE Start \/ Invalidate \/ CallbackReturns
  BY <1>2, QuietStepInv DEF Start, Invalidate, CallbackReturns
<1>3. CASE \E q \in 0 .. SeqMax : NoteGap(q)
  BY <1>3, NoteGapInv
<1>4. CASE \E q \in 0 .. SeqMax, effect \in Effects : Ingest(q, effect)
  BY <1>4, IngestInv
<1> QED
  BY <1>1, <1>2, <1>3, <1>4 DEF PipelineNext

\* The inductive invariant holds after every call, re-entrant ones included.
THEOREM PipelineInvariance == PipelineSpec => []PipelineInv
BY PipelineInitInv, PipelineNextInv, PTL DEF PipelineSpec

\* ingest applies the messages from the trusted boundary on, one after the
\* other, whatever order they are given in, and next_ does not wrap.
THEOREM MessagesInSequence == PipelineSpec => []AppliedInSequence
<1>1. PipelineInv => AppliedInSequence
  BY DEF PipelineInv
<1> QED
  BY <1>1, PipelineInvariance, PTL

\* A live feed has applied every message that note_gap or ingest was told of.
THEOREM LiveIsGapless == PipelineSpec => []LiveMeansNoKnownGap
<1>1. PipelineInv => LiveMeansNoKnownGap
  BY DEF PipelineInv
<1> QED
  BY <1>1, PipelineInvariance, PTL

\* A live feed has called the strategy since the book last changed, also if
\* that was during a recovery.
THEOREM LiveStrategyIsCurrent == PipelineSpec => []StrategyIsCurrent
<1>1. PipelineInv => StrategyIsCurrent
  BY DEF PipelineInv
<1> QED
  BY <1>1, PipelineInvariance, PTL
=============================================================================
