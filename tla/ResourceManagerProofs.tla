------------------------ MODULE ResourceManagerProofs ------------------------
(***************************************************************************)
(* Theorems about ResourceManager, for any resources and whatever their    *)
(* loaders need.                                                           *)
(***************************************************************************)
EXTENDS ResourceManager, SequenceLemmas, TLAPS

(* Who has the thread determines the state of the last fiber, and what it  *)
(* waited for is settled before it is resumed.                             *)
PhaseInv ==
  /\ escaped => flag /\ current \in {"failed", "freed"} /\ pc \in {"host", "crashed"}
  /\ pc = "loader" => /\ Len(fibers) > 0
                      /\ fibers[Len(fibers)].awaits = None
  /\ pc = "loop" /\ Len(fibers) > 0 =>
       fibers[Len(fibers)].awaits \in cached \union failed \union {None}

(* Every other fiber waits for the one behind it. *)
ChainInv ==
  ~escaped =>
    /\ \A i \in 1 .. Len(fibers) - 1 : fibers[i].awaits = fibers[i + 1].rid
    /\ \A i \in 1 .. Len(fibers) : fibers[i].asks \subseteq Needs[fibers[i].rid]

Rank == CHOOSE rank \in [Resource -> 0 .. Depth] :
          \A r \in Resource : \A d \in Needs[r] : rank[d] < rank[r]

(* Along the list the rank falls, so that no resource comes twice. *)
LayerInv ==
  Layered /\ ~escaped =>
    /\ \A i \in 1 .. Len(fibers) : fibers[i].rid \notin cached
    /\ \A i, j \in 1 .. Len(fibers) : i < j => Rank[fibers[j].rid] < Rank[fibers[i].rid]

IInv == TypeOK /\ FlagTracksLoad /\ PhaseInv /\ ChainInv /\ LayerInv

-----------------------------------------------------------------------------
LEMMA RankFacts ==
  ASSUME Layered
  PROVE  /\ Rank \in [Resource -> 0 .. Depth]
         /\ \A r \in Resource : \A d \in Needs[r] : Rank[d] < Rank[r]
BY DEF Layered, Rank

LEMMA ListFacts ==
  ASSUME TypeOK
  PROVE  /\ fibers \in Seq(Fiber)
         /\ Len(fibers) \in Nat
         /\ DOMAIN fibers = 1 .. Len(fibers)
         /\ \A i \in 1 .. Len(fibers) : fibers[i] \in Fiber /\ fibers[i].rid \in Resource
<1>1. fibers \in Seq(Fiber)
  BY DEF TypeOK
<1>2. Len(fibers) \in Nat /\ DOMAIN fibers = 1 .. Len(fibers)
  BY <1>1
<1>3. \A i \in 1 .. Len(fibers) : fibers[i] \in Fiber
  BY <1>1
<1>4. \A i \in 1 .. Len(fibers) : fibers[i].rid \in Resource
  BY <1>3 DEF Fiber
<1> QED
  BY <1>1, <1>2, <1>3, <1>4

LEMMA EmptyList ==
  ASSUME TypeOK
  PROVE  fibers = << >> <=> Len(fibers) = 0
BY DEF TypeOK

LEMMA NewFiberFacts ==
  ASSUME NEW r \in Resource
  PROVE  /\ NewFiber(r) \in Fiber
         /\ NewFiber(r).rid = r
         /\ NewFiber(r).asks = Needs[r]
         /\ NewFiber(r).awaits = None
BY ResourceAssumption DEF NewFiber, Fiber, FiberState

LEMMA InitIInv == Init => IInv
<1> SUFFICES ASSUME Init PROVE IInv
  OBVIOUS
<1>1. TypeOK
  <2>1. << >> \in Seq(Fiber)
    OBVIOUS
  <2> QED
    BY <2>1 DEF Init, TypeOK
<1>2. Len(fibers) = 0
  BY DEF Init
<1>3. FlagTracksLoad
  BY DEF Init, FlagTracksLoad
<1>4. PhaseInv
  BY <1>2 DEF Init, PhaseInv
<1>5. ChainInv /\ LayerInv
  BY <1>2 DEF ChainInv, LayerInv
<1> QED
  BY <1>1, <1>3, <1>4, <1>5 DEF IInv

-----------------------------------------------------------------------------
(* A list whose last element differs in its state, in what it may still    *)
(* ask for or in what it waits for is still a chain.                       *)
LEMMA TopReplaced ==
  ASSUME IInv, ~escaped, ~escaped', Len(fibers) > 0,
         NEW e \in Fiber, e.rid = fibers[Len(fibers)].rid,
         e.asks \subseteq fibers[Len(fibers)].asks,
         fibers' = [fibers EXCEPT ![Len(fibers)] = e],
         cached' = cached
  PROVE  /\ fibers' \in Seq(Fiber) /\ Len(fibers') = Len(fibers)
         /\ fibers'[Len(fibers)] = e
         /\ ChainInv'
         /\ LayerInv'
<1> DEFINE n == Len(fibers)
<1>1. /\ fibers \in Seq(Fiber) /\ n \in Nat /\ n \in 1 .. n
      /\ \A i \in 1 .. n : fibers[i] \in Fiber /\ fibers[i].rid \in Resource
  BY ListFacts DEF IInv
<1>2. /\ fibers' \in Seq(Fiber) /\ Len(fibers') = n
      /\ \A j \in 1 .. n : fibers'[j] = IF j = n THEN e ELSE fibers[j]
  BY <1>1, ReplaceFacts
<1> HIDE DEF n
<1>3. \A j \in 1 .. n : fibers'[j].rid = fibers[j].rid
  BY <1>2 DEF n
<1>4. \A i \in 1 .. n - 1 : fibers'[i].awaits = fibers'[i + 1].rid
  <2> SUFFICES ASSUME NEW i \in 1 .. n - 1 PROVE fibers'[i].awaits = fibers'[i + 1].rid
    OBVIOUS
  <2>1. i \in 1 .. n /\ i # n /\ i + 1 \in 1 .. n
    BY <1>1
  <2>2. fibers[i].awaits = fibers[i + 1].rid
    BY DEF IInv, ChainInv, n
  <2> QED
    BY <1>2, <1>3, <2>1, <2>2
<1>5. \A i \in 1 .. n : fibers'[i].asks \subseteq Needs[fibers'[i].rid]
  <2>1. \A i \in 1 .. n : fibers[i].asks \subseteq Needs[fibers[i].rid]
    BY DEF IInv, ChainInv, n
  <2>2. \A i \in 1 .. n : fibers'[i].asks \subseteq fibers[i].asks
    <3>1. e.asks \subseteq fibers[n].asks
      BY DEF n
    <3> QED
      BY ONLY <1>2, <3>1
  <2> QED
    BY ONLY <1>3, <2>1, <2>2
<1>6. ChainInv'
  BY <1>2, <1>4, <1>5 DEF ChainInv
<1>7. LayerInv'
  <2> SUFFICES ASSUME Layered
               PROVE  /\ \A i \in 1 .. n : fibers'[i].rid \notin cached
                      /\ \A i, j \in 1 .. n :
                           i < j => Rank[fibers'[j].rid] < Rank[fibers'[i].rid]
    BY <1>2 DEF LayerInv
  <2>1. /\ \A i \in 1 .. n : fibers[i].rid \notin cached
        /\ \A i, j \in 1 .. n : i < j => Rank[fibers[j].rid] < Rank[fibers[i].rid]
    BY DEF IInv, LayerInv, n
  <2> QED
    BY <1>3, <2>1
<1> QED
  BY <1>1, <1>2, <1>6, <1>7 DEF n

LEMMA ResumePreserves ==
  ASSUME IInv, Resume
  PROVE  IInv'
<1> DEFINE n == Len(fibers)
           e == [fibers[n] EXCEPT !.state = "Running", !.awaits = None]
<1>1. /\ pc = "loop" /\ n > 0 /\ ~escaped
      /\ pc' = "loader" /\ current' = "running" /\ fibers' = [fibers EXCEPT ![n] = e]
      /\ UNCHANGED <<cached, held, registered, contents, flag, manager, failed, escaped>>
  <2>1. fibers # << >> /\ pc = "loop"
    BY DEF Resume
  <2>2. n > 0
    BY <2>1, EmptyList, ListFacts DEF IInv
  <2>3. n \in 1 .. n /\ DOMAIN fibers = 1 .. n
    BY <2>2, ListFacts DEF IInv
  <2>4. fibers' = [fibers EXCEPT ![n] = e]
    BY <2>3 DEF Resume, Top
  <2> QED
    BY <2>1, <2>2, <2>4 DEF Resume, IInv, PhaseInv
<1>2. e \in Fiber /\ e.rid = fibers[n].rid /\ e.asks = fibers[n].asks /\ e.awaits = None
  <2>1. fibers[n] \in Fiber
    BY <1>1, ListFacts DEF IInv
  <2> QED
    BY <2>1 DEF Fiber, FiberState
<1> HIDE DEF e
<1>3. /\ fibers' \in Seq(Fiber) /\ Len(fibers') = n /\ fibers'[n] = e
      /\ ChainInv' /\ LayerInv'
  BY <1>1, <1>2, TopReplaced
<1>4. TypeOK'
  BY <1>1, <1>3 DEF IInv, TypeOK
<1>5. FlagTracksLoad'
  BY <1>1 DEF IInv, FlagTracksLoad
<1>6. PhaseInv'
  BY <1>1, <1>2, <1>3 DEF PhaseInv
<1> QED
  BY <1>3, <1>4, <1>5, <1>6 DEF IInv

-----------------------------------------------------------------------------
(* A fiber behind a chain, whose last element waits for it. *)
LEMMA Pushed ==
  ASSUME TypeOK, NEW list \in Seq(Fiber), NEW d \in Resource, d \notin cached,
         \A i \in 1 .. Len(list) : list[i].rid \in Resource,
         \A i \in 1 .. Len(list) - 1 : list[i].awaits = list[i + 1].rid,
         \A i \in 1 .. Len(list) : list[i].asks \subseteq Needs[list[i].rid],
         Layered => /\ \A i \in 1 .. Len(list) : list[i].rid \notin cached
                    /\ \A i, j \in 1 .. Len(list) :
                         i < j => Rank[list[j].rid] < Rank[list[i].rid],
         Len(list) > 0 => /\ list[Len(list)].awaits = d
                          /\ d \in Needs[list[Len(list)].rid],
         fibers' = Append(list, NewFiber(d)), cached' = cached
  PROVE  /\ fibers' \in Seq(Fiber)
         /\ Len(fibers') = Len(list) + 1
         /\ fibers'[Len(fibers')] = NewFiber(d)
         /\ ChainInv'
         /\ LayerInv'
<1> DEFINE n    == Len(list)
           rids == [i \in 1 .. n |-> list[i].rid]
<1>1. /\ fibers' \in Seq(Fiber) /\ n \in Nat /\ Len(fibers') = n + 1
      /\ \A i \in 1 .. n : fibers'[i] = list[i]
      /\ fibers'[n + 1] = NewFiber(d)
  BY NewFiberFacts, AppendFacts
<1>2. /\ \A i \in 1 .. n : fibers'[i].rid = rids[i] /\ rids[i] \in Resource
      /\ fibers'[n + 1].rid = d
  BY <1>1, NewFiberFacts
<1>3. /\ \A i \in 1 .. n - 1 : list[i].awaits = rids[i + 1]
      /\ \A i \in 1 .. n : list[i].asks \subseteq Needs[rids[i]]
      /\ n > 0 => list[n].awaits = d /\ d \in Needs[rids[n]]
      /\ Layered => /\ \A i \in 1 .. n : rids[i] \notin cached
                    /\ \A i, j \in 1 .. n : i < j => Rank[rids[j]] < Rank[rids[i]]
  <2>1. \A i \in 1 .. n - 1 : i + 1 \in 1 .. n
    BY <1>1
  <2>2. n > 0 => n \in 1 .. n
    BY <1>1
  <2> QED
    BY <2>1, <2>2
<1> HIDE DEF n, rids
<1>4. ChainInv'
  <2>1. ASSUME NEW i \in 1 .. n PROVE fibers'[i].awaits = fibers'[i + 1].rid
    <3>1. CASE i = n
      BY <1>1, <1>2, <1>3, <3>1
    <3>2. CASE i # n
      <4>1. i \in 1 .. n - 1 /\ i + 1 \in 1 .. n
        BY <1>1, <3>2
      <4> QED
        BY <4>1, <1>1, <1>2, <1>3
    <3> QED
      BY <3>1, <3>2
  <2>2. ASSUME NEW i \in 1 .. n + 1
        PROVE  fibers'[i].asks \subseteq Needs[fibers'[i].rid]
    <3>1. i = n + 1 \/ i \in 1 .. n
      BY <1>1
    <3> QED
      BY <3>1, <1>1, <1>2, <1>3, NewFiberFacts
  <2>3. n + 1 - 1 = n
    BY <1>1
  <2> QED
    BY <1>1, <2>1, <2>2, <2>3 DEF ChainInv
<1>5. LayerInv'
  <2> SUFFICES ASSUME Layered
               PROVE  /\ \A i \in 1 .. n + 1 : fibers'[i].rid \notin cached
                      /\ \A i, j \in 1 .. n + 1 :
                           i < j => Rank[fibers'[j].rid] < Rank[fibers'[i].rid]
    BY <1>1 DEF LayerInv
  <2>1. \A i \in 1 .. n + 1 : i = n + 1 \/ i \in 1 .. n
    BY <1>1
  <2>2. \A r \in Resource : Rank[r] \in Nat
    BY RankFacts, ResourceAssumption
  <2>3. ASSUME NEW i \in 1 .. n PROVE Rank[d] < Rank[rids[i]]
    <3>1. n \in 1 .. n /\ n > 0
      BY <1>1
    <3>2. Rank[d] < Rank[rids[n]]
      BY <1>2, <1>3, <3>1, RankFacts
    <3>3. CASE i = n
      BY <3>2, <3>3
    <3>4. CASE i # n
      <4>1. i < n
        BY <1>1, <3>4
      <4>2. Rank[rids[n]] < Rank[rids[i]]
        BY <1>3, <3>1, <4>1
      <4> QED
        BY <1>2, <2>2, <3>1, <3>2, <4>2
    <3> QED
      BY <3>3, <3>4
  <2>4. \A i \in 1 .. n + 1 : fibers'[i].rid \notin cached
    BY <1>2, <1>3, <2>1
  <2>5. ASSUME NEW i \in 1 .. n + 1, NEW j \in 1 .. n + 1, i < j
        PROVE  Rank[fibers'[j].rid] < Rank[fibers'[i].rid]
    <3>1. i \in 1 .. n
      BY <1>1, <2>5
    <3>2. CASE j = n + 1
      BY <1>2, <2>3, <3>1, <3>2
    <3>3. CASE j \in 1 .. n
      BY <1>2, <1>3, <2>5, <3>1, <3>3
    <3> QED
      BY <2>1, <3>2, <3>3
  <2> QED
    BY <2>4, <2>5
<1> QED
  BY <1>1, <1>4, <1>5 DEF n

LEMMA LoadPreserves ==
  ASSUME IInv, NEW r \in Resource, Load(r)
  PROVE  IInv'
<1>1. /\ pc = "host" /\ r \notin cached /\ ~flag /\ ~escaped /\ fibers = << >>
      /\ flag' = TRUE /\ manager' = "this" /\ pc' = "loop" /\ failed' = {}
      /\ fibers' = Append(fibers, NewFiber(r))
      /\ UNCHANGED <<cached, held, registered, contents, current, escaped>>
  BY DEF Load, IInv, PhaseInv, FlagTracksLoad
<1>2. fibers \in Seq(Fiber) /\ Len(fibers) = 0
  BY <1>1 DEF IInv, TypeOK
<1>3. /\ fibers' \in Seq(Fiber) /\ Len(fibers') = 1 /\ fibers'[Len(fibers')] = NewFiber(r)
      /\ ChainInv' /\ LayerInv'
  <2>1. 1 .. Len(fibers) = {} /\ 1 .. Len(fibers) - 1 = {} /\ ~(Len(fibers) > 0)
    BY <1>2
  <2>2. Len(fibers') = Len(fibers) + 1 => Len(fibers') = 1
    BY <1>2
  <2> QED
    BY <1>1, <1>2, <2>1, <2>2, Pushed DEF IInv
<1>4. TypeOK'
  BY <1>1, <1>3 DEF IInv, TypeOK
<1>5. FlagTracksLoad'
  BY <1>1 DEF IInv, FlagTracksLoad
<1>6. PhaseInv'
  BY <1>1, <1>3, NewFiberFacts DEF PhaseInv
<1> QED
  BY <1>3, <1>4, <1>5, <1>6 DEF IInv

LEMMA LoadStuckPreserves ==
  ASSUME IInv, NEW r \in Resource, LoadStuck(r)
  PROVE  IInv'
<1>1. /\ pc = "host" /\ flag
      /\ fibers' = Append(fibers, NewFiber(r))
      /\ pc' \in {"host", "crashed"}
      /\ UNCHANGED <<cached, held, registered, contents, flag, current, manager, failed, escaped>>
  BY DEF LoadStuck
<1>2. escaped
  BY <1>1 DEF IInv, FlagTracksLoad
<1>3. fibers' \in Seq(Fiber)
  BY <1>1, ListFacts, NewFiberFacts, AppendFacts DEF IInv
<1>4. TypeOK'
  BY <1>1, <1>3 DEF IInv, TypeOK
<1>5. PhaseInv'
  BY <1>1, <1>2 DEF IInv, PhaseInv
<1>6. FlagTracksLoad' /\ ChainInv' /\ LayerInv'
  BY <1>1, <1>2 DEF FlagTracksLoad, ChainInv, LayerInv
<1> QED
  BY <1>4, <1>5, <1>6 DEF IInv

(* While a loader runs. *)
LEMMA LoaderFacts ==
  ASSUME IInv, pc = "loader"
  PROVE  /\ ~escaped /\ flag /\ manager = "this" /\ current = "running"
         /\ Len(fibers) > 0 /\ Len(fibers) \in 1 .. Len(fibers) /\ Top = Len(fibers)
         /\ fibers[Len(fibers)] \in Fiber
         /\ fibers[Len(fibers)].asks \subseteq Needs[fibers[Len(fibers)].rid]
         /\ fibers[Len(fibers)].awaits = None
<1>1. ~escaped /\ Len(fibers) > 0 /\ fibers[Len(fibers)].awaits = None
  BY DEF IInv, PhaseInv
<1>2. flag /\ manager = "this" /\ current = "running"
  BY <1>1 DEF IInv, FlagTracksLoad
<1>3. Len(fibers) \in 1 .. Len(fibers)
  BY <1>1, ListFacts DEF IInv
<1>4. fibers[Len(fibers)] \in Fiber
  BY <1>3, ListFacts DEF IInv
<1>5. fibers[Len(fibers)].asks \subseteq Needs[fibers[Len(fibers)].rid]
  BY <1>1, <1>3 DEF IInv, ChainInv
<1> QED
  BY <1>1, <1>2, <1>3, <1>4, <1>5 DEF Top

LEMMA AskCachedPreserves ==
  ASSUME IInv, NEW r \in Resource, NEW d \in Resource, AskCached(r, d)
  PROVE  IInv'
<1> DEFINE n == Len(fibers)
           e == [fibers[n] EXCEPT !.asks = @ \ {d}]
<1>1. pc = "loader"
  BY DEF AskCached, InLoader
<1>2. /\ d \in cached /\ held' = held \union {d} /\ fibers' = [fibers EXCEPT ![n] = e]
      /\ UNCHANGED <<cached, registered, contents, flag, current, manager, pc, failed, escaped>>
  BY <1>1, LoaderFacts, ListFacts DEF AskCached, IInv
<1>3. /\ e \in Fiber /\ e.rid = fibers[n].rid /\ e.awaits = None
      /\ e.asks \subseteq fibers[n].asks
  BY <1>1, LoaderFacts DEF Fiber
<1> HIDE DEF e
<1>4. /\ fibers' \in Seq(Fiber) /\ Len(fibers') = n /\ fibers'[n] = e
      /\ ChainInv' /\ LayerInv'
  BY <1>1, <1>2, <1>3, LoaderFacts, TopReplaced
<1>5. TypeOK'
  BY <1>2, <1>4 DEF IInv, TypeOK
<1>6. FlagTracksLoad'
  BY <1>1, <1>2, LoaderFacts DEF FlagTracksLoad
<1>7. PhaseInv'
  BY <1>1, <1>2, <1>3, <1>4, LoaderFacts DEF PhaseInv
<1> QED
  BY <1>4, <1>5, <1>6, <1>7 DEF IInv

LEMMA AskNestedPreserves ==
  ASSUME IInv, NEW r \in Resource, NEW d \in Resource, AskNested(r, d)
  PROVE  IInv'
<1> DEFINE n    == Len(fibers)
           e    == [fibers[n] EXCEPT !.state = "Sleeping", !.asks = @ \ {d}, !.awaits = d]
           list == [fibers EXCEPT ![n] = e]
<1>1. pc = "loader"
  BY DEF AskNested, InLoader
<1>2. /\ d \notin cached /\ d \in fibers[n].asks
      /\ fibers' = Append(list, NewFiber(d)) /\ current' = "null" /\ pc' = "loop"
      /\ UNCHANGED <<cached, held, registered, contents, flag, manager, failed, escaped>>
  BY <1>1, LoaderFacts, ListFacts DEF AskNested, Ask, IInv
<1>3. /\ e \in Fiber /\ e.rid = fibers[n].rid /\ e.awaits = d
      /\ e.asks \subseteq fibers[n].asks
  BY <1>1, LoaderFacts DEF Fiber, FiberState
<1> HIDE DEF e
<1>4. /\ fibers \in Seq(Fiber) /\ n \in Nat /\ n > 0 /\ n \in 1 .. n /\ ~escaped
      /\ \A i \in 1 .. n : fibers[i] \in Fiber /\ fibers[i].rid \in Resource
  BY <1>1, LoaderFacts, ListFacts DEF IInv
<1>5. /\ list \in Seq(Fiber) /\ Len(list) = n
      /\ \A j \in 1 .. n : list[j] = IF j = n THEN e ELSE fibers[j]
  BY <1>3, <1>4, ReplaceFacts
<1> HIDE DEF list, n
<1>6. \A j \in 1 .. n : list[j].rid = fibers[j].rid
  BY <1>3, <1>5
<1>7. \A i \in 1 .. n - 1 : list[i].awaits = list[i + 1].rid
  <2> SUFFICES ASSUME NEW i \in 1 .. n - 1 PROVE list[i].awaits = list[i + 1].rid
    OBVIOUS
  <2>1. i \in 1 .. n /\ i # n /\ i + 1 \in 1 .. n
    BY <1>4
  <2>2. fibers[i].awaits = fibers[i + 1].rid
    BY <1>4 DEF IInv, ChainInv, n
  <2> QED
    BY <1>5, <1>6, <2>1, <2>2
<1>8. \A i \in 1 .. n : list[i].asks \subseteq Needs[list[i].rid]
  <2>1. \A i \in 1 .. n : fibers[i].asks \subseteq Needs[fibers[i].rid]
    BY <1>4 DEF IInv, ChainInv, n
  <2> QED
    BY <1>3, <1>5, <1>6, <2>1
<1>9. Layered => /\ \A i \in 1 .. n : list[i].rid \notin cached
                 /\ \A i, j \in 1 .. n : i < j => Rank[list[j].rid] < Rank[list[i].rid]
  <2> SUFFICES ASSUME Layered
               PROVE  /\ \A i \in 1 .. n : list[i].rid \notin cached
                      /\ \A i, j \in 1 .. n :
                           i < j => Rank[list[j].rid] < Rank[list[i].rid]
    OBVIOUS
  <2>1. /\ \A i \in 1 .. n : fibers[i].rid \notin cached
        /\ \A i, j \in 1 .. n : i < j => Rank[fibers[j].rid] < Rank[fibers[i].rid]
    BY <1>4 DEF IInv, LayerInv, n
  <2> QED
    BY <1>6, <2>1
<1>10. list[n].awaits = d /\ d \in Needs[list[n].rid]
  BY <1>1, <1>2, <1>3, <1>4, <1>5, LoaderFacts DEF n
<1>11. /\ fibers' \in Seq(Fiber) /\ Len(fibers') = n + 1
       /\ fibers'[Len(fibers')] = NewFiber(d)
       /\ ChainInv' /\ LayerInv'
  <2>1. \A i \in 1 .. n : list[i].rid \in Resource
    BY <1>4, <1>6
  <2> QED
    BY <1>2, <1>5, <1>7, <1>8, <1>9, <1>10, <2>1, Pushed DEF IInv
<1>12. TypeOK'
  BY <1>2, <1>11 DEF IInv, TypeOK
<1>13. FlagTracksLoad'
  BY <1>1, <1>2, LoaderFacts DEF FlagTracksLoad
<1>14. PhaseInv'
  BY <1>1, <1>2, <1>11, LoaderFacts, NewFiberFacts DEF PhaseInv
<1> QED
  BY <1>11, <1>12, <1>13, <1>14 DEF IInv

(* What popping the last fiber leaves: a chain that is shorter by one,     *)
(* whose last element waited for what was popped.                          *)
LEMMA PopFacts ==
  ASSUME IInv, NEW r \in Resource, Pop(r)
  PROVE  /\ r = fibers[Len(fibers)].rid /\ pc = "loader"
         /\ current' = "null" /\ pc' = "loop"
         /\ UNCHANGED <<registered, contents, flag, manager, escaped>>
         /\ fibers' \in Seq(Fiber) /\ Len(fibers') = Len(fibers) - 1
         /\ \A i \in 1 .. Len(fibers) - 1 : fibers'[i] = fibers[i]
         /\ ChainInv'
         /\ Len(fibers') > 0 => fibers'[Len(fibers')].awaits = r
         /\ Layered => /\ \A i \in 1 .. Len(fibers') : /\ fibers'[i].rid \notin cached
                                                       /\ fibers'[i].rid # r
                       /\ \A i, j \in 1 .. Len(fibers') :
                            i < j => Rank[fibers'[j].rid] < Rank[fibers'[i].rid]
<1> DEFINE n == Len(fibers)
<1>1. /\ pc = "loader" /\ r = fibers[n].rid
      /\ fibers' = RemoveAt(fibers, n) /\ current' = "null" /\ pc' = "loop"
      /\ UNCHANGED <<registered, contents, flag, manager, escaped>>
  BY DEF Pop, InLoader, Top
<1>2. /\ fibers \in Seq(Fiber) /\ n \in Nat /\ n > 0 /\ n \in 1 .. n /\ ~escaped
      /\ \A i \in 1 .. n : fibers[i] \in Fiber /\ fibers[i].rid \in Resource
  BY <1>1, LoaderFacts, ListFacts DEF IInv
<1>3. /\ fibers' \in Seq(Fiber) /\ Len(fibers') = n - 1
      /\ \A j \in 1 .. n - 1 : fibers'[j] = IF j < n THEN fibers[j] ELSE fibers[j + 1]
  BY ONLY <1>1, <1>2, RemoveAtFacts
<1>4. \A j \in 1 .. n - 1 : fibers'[j] = fibers[j] /\ j \in 1 .. n /\ j < n
  BY <1>2, <1>3
<1>5. /\ \A i \in 1 .. n - 1 : fibers[i].awaits = fibers[i + 1].rid
      /\ \A i \in 1 .. n : fibers[i].asks \subseteq Needs[fibers[i].rid]
  BY <1>2 DEF IInv, ChainInv
<1> HIDE DEF n
<1>6. ChainInv'
  <2>1. \A i \in 1 .. n - 1 - 1 : i \in 1 .. n - 1 /\ i + 1 \in 1 .. n - 1
    BY <1>2
  <2> QED
    BY <1>3, <1>4, <1>5, <2>1 DEF ChainInv
<1>7. n - 1 > 0 => fibers'[n - 1].awaits = r
  <2> SUFFICES ASSUME n - 1 > 0 PROVE fibers'[n - 1].awaits = r
    OBVIOUS
  <2>1. n - 1 \in 1 .. n - 1 /\ (n - 1) + 1 = n
    BY <1>2
  <2>2. fibers[n - 1].awaits = fibers[(n - 1) + 1].rid
    BY <1>5, <2>1
  <2> QED
    BY <1>1, <1>4, <2>1, <2>2
<1>8. ASSUME Layered
      PROVE  /\ \A i \in 1 .. n - 1 : fibers'[i].rid \notin cached /\ fibers'[i].rid # r
             /\ \A i, j \in 1 .. n - 1 :
                  i < j => Rank[fibers'[j].rid] < Rank[fibers'[i].rid]
  <2>1. /\ \A i \in 1 .. n : fibers[i].rid \notin cached
        /\ \A i, j \in 1 .. n : i < j => Rank[fibers[j].rid] < Rank[fibers[i].rid]
    BY <1>2, <1>8 DEF IInv, LayerInv, n
  <2>2. \A x \in Resource : Rank[x] \in Nat
    BY <1>8, RankFacts, ResourceAssumption
  <2>3. \A i \in 1 .. n - 1 : fibers[i].rid # r
    BY <1>1, <1>2, <1>4, <2>1, <2>2
  <2> QED
    BY <1>4, <2>1, <2>3
<1> QED
  BY <1>1, <1>3, <1>4, <1>6, <1>7, <1>8 DEF n

LEMMA SucceedPreserves ==
  ASSUME IInv, NEW r \in Resource, Succeed(r)
  PROVE  IInv'
<1>1. /\ Pop(r) /\ cached' = cached \union {r} /\ held' = held \union {r} /\ failed' = failed
  BY DEF Succeed
<1>2. TypeOK'
  BY <1>1, PopFacts DEF IInv, TypeOK
<1>3. FlagTracksLoad'
  BY <1>1, PopFacts, LoaderFacts DEF FlagTracksLoad
<1>4. PhaseInv'
  BY <1>1, PopFacts, LoaderFacts DEF PhaseInv
<1>5. LayerInv'
  BY <1>1, PopFacts DEF LayerInv
<1> QED
  BY <1>1, <1>2, <1>3, <1>4, <1>5, PopFacts DEF IInv

LEMMA FailPreserves ==
  ASSUME IInv, NEW r \in Resource, Fail(r)
  PROVE  IInv'
<1>1. /\ Pop(r) /\ failed' = failed \union {r} /\ UNCHANGED <<cached, held>>
  BY DEF Fail
<1>2. TypeOK'
  BY <1>1, PopFacts DEF IInv, TypeOK
<1>3. FlagTracksLoad'
  BY <1>1, PopFacts, LoaderFacts DEF FlagTracksLoad
<1>4. PhaseInv'
  BY <1>1, PopFacts, LoaderFacts DEF PhaseInv
<1>5. LayerInv'
  BY <1>1, PopFacts DEF LayerInv
<1> QED
  BY <1>1, <1>2, <1>3, <1>4, <1>5, PopFacts DEF IInv

LEMMA ThrowPreserves ==
  ASSUME IInv, NEW r \in Resource, Throw(r)
  PROVE  IInv'
<1> DEFINE n == Len(fibers)
           e == [fibers[n] EXCEPT !.state = "UnhandledException"]
<1>1. pc = "loader"
  BY DEF Throw, InLoader
<1>2. /\ fibers' = [fibers EXCEPT ![n] = e]
      /\ current' = "failed" /\ pc' = "host" /\ escaped' = TRUE
      /\ UNCHANGED <<cached, held, registered, contents, flag, manager, failed>>
  BY <1>1, LoaderFacts, ListFacts DEF Throw, IInv
<1>3. e \in Fiber
  BY <1>1, LoaderFacts DEF Fiber, FiberState
<1> HIDE DEF e
<1>4. fibers' \in Seq(Fiber)
  BY <1>1, <1>2, <1>3, LoaderFacts, ListFacts, ReplaceFacts DEF IInv
<1>5. TypeOK'
  BY <1>2, <1>4 DEF IInv, TypeOK
<1>6. PhaseInv'
  BY <1>1, <1>2, LoaderFacts DEF PhaseInv
<1>7. FlagTracksLoad' /\ ChainInv' /\ LayerInv'
  BY <1>2 DEF FlagTracksLoad, ChainInv, LayerInv
<1> QED
  BY <1>5, <1>6, <1>7 DEF IInv

LEMMA UpdateEndPreserves ==
  ASSUME IInv, UpdateEnd
  PROVE  IInv'
<1>1. /\ pc = "loop" /\ fibers = << >> /\ manager' = "null" /\ flag' = FALSE /\ pc' = "host"
      /\ UNCHANGED <<cached, held, registered, contents, fibers, current, failed, escaped>>
  BY DEF UpdateEnd
<1>2. ~escaped
  BY <1>1 DEF IInv, PhaseInv
<1>3. TypeOK'
  BY <1>1 DEF IInv, TypeOK
<1>4. FlagTracksLoad'
  BY <1>1, <1>2 DEF IInv, FlagTracksLoad
<1>5. PhaseInv'
  BY <1>1, <1>2 DEF PhaseInv
<1>6. ChainInv' /\ LayerInv'
  BY <1>1 DEF IInv, ChainInv, LayerInv
<1> QED
  BY <1>3, <1>4, <1>5, <1>6 DEF IInv

LEMMA ClearPreserves ==
  ASSUME IInv, clear
  PROVE  IInv'
<1>1. /\ pc = "host" /\ cached' = {} /\ held' = {} /\ registered' = FALSE /\ fibers' = << >>
      /\ current' = IF current = "null" THEN "null" ELSE "freed"
      /\ UNCHANGED <<contents, flag, manager, pc, failed, escaped>>
  BY DEF clear
<1>2. Len(fibers') = 0 /\ fibers' \in Seq(Fiber)
  BY <1>1
<1>3. TypeOK'
  BY <1>1, <1>2 DEF IInv, TypeOK
<1>4. FlagTracksLoad'
  BY <1>1 DEF IInv, FlagTracksLoad
<1>5. PhaseInv'
  BY <1>1 DEF IInv, PhaseInv
<1>6. ChainInv' /\ LayerInv'
  BY <1>2 DEF ChainInv, LayerInv
<1> QED
  BY <1>3, <1>4, <1>5, <1>6 DEF IInv

(* The host's other calls leave the list, the flag and the cache alone. *)
LEMMA HostPreserves ==
  ASSUME IInv, pc = "host",
         pc' \in {"host", "crashed"}, held' \in SUBSET cached, registered' \in BOOLEAN,
         contents' \in SUBSET Resource,
         UNCHANGED <<cached, flag, fibers, current, manager, failed, escaped>>
  PROVE  IInv'
<1>1. TypeOK'
  BY DEF IInv, TypeOK
<1>2. FlagTracksLoad'
  BY DEF IInv, FlagTracksLoad
<1>3. PhaseInv'
  BY DEF IInv, PhaseInv
<1>4. ChainInv' /\ LayerInv'
  BY DEF IInv, ChainInv, LayerInv
<1> QED
  BY <1>1, <1>2, <1>3, <1>4 DEF IInv

LEMMA NextPreserves == IInv /\ [Next]_vars => IInv'
<1> SUFFICES ASSUME IInv, [Next]_vars PROVE IInv'
  OBVIOUS
<1>1. held \in SUBSET cached /\ registered \in BOOLEAN /\ contents \in SUBSET Resource
  BY DEF IInv, TypeOK
<1>2. CASE add_loader
  BY <1>1, <1>2, HostPreserves DEF add_loader, fiberVars
<1>3. ASSUME NEW content \in SUBSET Resource, add_archive(content) PROVE IInv'
  BY <1>1, <1>3, HostPreserves DEF add_archive, fiberVars
<1>4. ASSUME NEW r \in Resource, Release(r) PROVE IInv'
  BY <1>1, <1>4, HostPreserves DEF Release, fiberVars
<1>5. CASE garbage_collect
  BY <1>1, <1>5, HostPreserves DEF garbage_collect
<1>6. CASE clear
  BY <1>6, ClearPreserves
<1>7. ASSUME NEW r \in Resource, LoadCached(r) PROVE IInv'
  BY <1>1, <1>7, HostPreserves DEF LoadCached, fiberVars
<1>8. ASSUME NEW r \in Resource, Load(r) \/ LoadStuck(r) PROVE IInv'
  BY <1>8, LoadPreserves, LoadStuckPreserves
<1>9. CASE Resume \/ UpdateEnd
  BY <1>9, ResumePreserves, UpdateEndPreserves
<1>10. ASSUME NEW r \in Resource, LoaderStep(r) PROVE IInv'
  BY <1>10, AskCachedPreserves, AskNestedPreserves, SucceedPreserves, FailPreserves,
     ThrowPreserves DEF LoaderStep
<1>11. CASE UNCHANGED vars
  <2>1. UNCHANGED <<cached, held, registered, contents, flag, fibers, current, manager, pc, failed, escaped>>
    BY <1>11 DEF vars, fiberVars
  <2> QED
    BY <2>1 DEF IInv, TypeOK, FlagTracksLoad, PhaseInv, ChainInv, LayerInv
<1> QED
  BY <1>2, <1>3, <1>4, <1>5, <1>6, <1>7, <1>8, <1>9, <1>10, <1>11 DEF Next, Update

(* IInv is an invariant: the fibers form a chain of loads, each waiting    *)
(* for the next, and the flag says so.                                     *)
THEOREM Invariant == Spec => []IInv
<1>1. Init => IInv
  BY InitIInv
<1>2. IInv /\ [Next]_vars => IInv'
  BY NextPreserves
<1> QED
  BY <1>1, <1>2, PTL DEF Spec

-----------------------------------------------------------------------------
(* Type correctness of the resource manager. *)
THEOREM TypeCorrect == Spec => []TypeOK
<1>1. IInv => TypeOK
  BY DEF IInv
<1> QED
  BY <1>1, Invariant, PTL

(* is_in_resource_loader_fiber, the current manager and current_ tell a    *)
(* nested load from an outermost one until an exception escapes.           *)
THEOREM FlagIsRight == Spec => []FlagTracksLoad
<1>1. IInv => FlagTracksLoad
  BY DEF IInv
<1> QED
  BY <1>1, Invariant, PTL

(* With needs that are layered, no resource is loaded twice at a time. *)
THEOREM LoadedOnceAtATime == Spec => []InFlightOnce
<1>1. ASSUME IInv PROVE InFlightOnce
  <2> SUFFICES ASSUME Layered, ~escaped
               PROVE  \A i \in 1 .. Len(fibers) :
                        /\ fibers[i].rid \notin cached
                        /\ \A j \in 1 .. Len(fibers) : fibers[i].rid = fibers[j].rid => i = j
    BY <1>1, ListFacts DEF IInv, InFlightOnce
  <2>1. /\ \A i \in 1 .. Len(fibers) : fibers[i].rid \notin cached
        /\ \A i, j \in 1 .. Len(fibers) :
             i < j => Rank[fibers[j].rid] < Rank[fibers[i].rid]
    BY <1>1 DEF IInv, LayerInv
  <2>2. \A i \in 1 .. Len(fibers) : Rank[fibers[i].rid] \in Nat
    BY <1>1, ListFacts, RankFacts, ResourceAssumption DEF IInv
  <2>3. ASSUME NEW i \in 1 .. Len(fibers), NEW j \in 1 .. Len(fibers),
               fibers[i].rid = fibers[j].rid
        PROVE  i = j
    <3>1. i \in Int /\ j \in Int /\ ~(i < j) /\ ~(j < i)
      BY <2>1, <2>2, <2>3
    <3> QED
      BY <3>1
  <2> QED
    BY <2>1, <2>3
<1> QED
  BY <1>1, Invariant, PTL

(* A loader that waits for a nested load is resumed when that has ended. *)
THEOREM AnswersInTime == Spec => AnswerIsThere
<1>1. ASSUME IInv, Resume
      PROVE  fibers[Top].awaits \in cached \union failed \union {None}
  <2>1. pc = "loop" /\ fibers # << >>
    BY <1>1 DEF Resume
  <2>2. Len(fibers) > 0
    BY <1>1, <2>1, EmptyList, ListFacts DEF IInv
  <2> QED
    BY <1>1, <2>1, <2>2 DEF IInv, PhaseInv, Top
<1>2. IInv => [Resume => fibers[Top].awaits \in cached \union failed \union {None}]_vars
  BY <1>1
<1> QED
  BY <1>2, Invariant, PTL DEF AnswerIsThere

(* An exception out of a loader is the end of all loading. *)
THEOREM NothingAfterAnEscape == Spec => EscapeIsFinal
<1>1. ASSUME IInv, [Next]_vars, escaped PROVE cached' \subseteq cached
  <2>1. pc # "loader"
    BY <1>1 DEF IInv, PhaseInv
  <2>2. \A r \in Resource : ~Succeed(r)
    BY <2>1 DEF Succeed, Pop, InLoader
  <2>3. UNCHANGED vars => cached' = cached
    BY DEF vars
  <2> QED
    BY <1>1, <2>2, <2>3 DEF Next, Update, LoaderStep, add_loader, add_archive, Release,
       garbage_collect, clear, LoadCached, Load, LoadStuck, Resume, UpdateEnd,
       AskCached, AskNested, Fail, Throw
<1>2. IInv /\ [Next]_vars => [escaped => cached' \subseteq cached]_vars
  BY <1>1
<1> QED
  BY <1>2, Invariant, PTL DEF Spec, EscapeIsFinal

-----------------------------------------------------------------------------
(* The frames of the recursive calls are the fibers' resources. *)
Rids(list) == [i \in DOMAIN list |-> list[i].rid]

LEMMA RidsFacts ==
  ASSUME NEW list \in Seq(Fiber)
  PROVE  /\ Rids(list) \in Seq(Resource)
         /\ Len(Rids(list)) = Len(list)
         /\ \A i \in 1 .. Len(list) : Rids(list)[i] = list[i].rid
<1>1. /\ Len(list) \in Nat /\ DOMAIN list = 1 .. Len(list)
      /\ \A i \in 1 .. Len(list) : list[i].rid \in Resource
  <2>1. \A i \in 1 .. Len(list) : list[i] \in Fiber
    OBVIOUS
  <2>2. \A e \in Fiber : e.rid \in Resource
    BY DEF Fiber
  <2> QED
    BY <2>1, <2>2
<1>2. Rids(list) = [i \in 1 .. Len(list) |-> list[i].rid]
  BY <1>1 DEF Rids
<1>3. Rids(list) \in [1 .. Len(list) -> Resource]
  BY <1>1, <1>2
<1> QED
  BY <1>1, <1>2, <1>3

LEMMA EmptyRids == Rids(<< >>) = << >>
BY DEF Rids

(* Lists of the same resources have the same frames. *)
LEMMA SameRids ==
  ASSUME NEW a \in Seq(Fiber), NEW b \in Seq(Fiber), Len(a) = Len(b),
         \A i \in 1 .. Len(a) : a[i].rid = b[i].rid
  PROVE  Rids(a) = Rids(b)
<1>1. DOMAIN a = DOMAIN b /\ DOMAIN a = 1 .. Len(a)
  OBVIOUS
<1> QED
  BY <1>1 DEF Rids

(* Launching pushes a frame. *)
LEMMA PushedRids ==
  ASSUME NEW list \in Seq(Fiber), NEW e \in Fiber
  PROVE  Rids(Append(list, e)) = Append(Rids(list), e.rid)
<1>1. /\ Append(list, e) \in Seq(Fiber) /\ Len(Append(list, e)) = Len(list) + 1
      /\ \A j \in 1 .. Len(list) : Append(list, e)[j] = list[j]
      /\ Append(list, e)[Len(list) + 1] = e
  BY AppendFacts
<1>2. /\ Rids(Append(list, e)) \in Seq(Resource)
      /\ Len(Rids(Append(list, e))) = Len(list) + 1
      /\ \A i \in 1 .. Len(list) + 1 : Rids(Append(list, e))[i] = Append(list, e)[i].rid
  BY <1>1, RidsFacts
<1>3. /\ Rids(list) \in Seq(Resource) /\ Len(Rids(list)) = Len(list) /\ e.rid \in Resource
      /\ \A i \in 1 .. Len(list) : Rids(list)[i] = list[i].rid
  BY RidsFacts DEF Fiber
<1>4. /\ Append(Rids(list), e.rid) \in Seq(Resource)
      /\ Len(Append(Rids(list), e.rid)) = Len(list) + 1
      /\ \A j \in 1 .. Len(list) : Append(Rids(list), e.rid)[j] = Rids(list)[j]
      /\ Append(Rids(list), e.rid)[Len(list) + 1] = e.rid
  BY <1>3, AppendFacts
<1> DEFINE x == Rids(Append(list, e))
           y == Append(Rids(list), e.rid)
           n == Len(list)
<1>5. \A i \in 1 .. n + 1 : x[i] = y[i]
  <2>1. n \in Nat
    OBVIOUS
  <2>2. \A i \in 1 .. n + 1 : i \in 1 .. n \/ i = n + 1
    BY <2>1
  <2>3. n + 1 \in 1 .. n + 1 /\ \A i \in 1 .. n : i \in 1 .. n + 1
    BY <2>1
  <2> QED
    BY <1>1, <1>2, <1>3, <1>4, <2>2, <2>3
<1>6. x \in Seq(Resource) /\ y \in Seq(Resource) /\ Len(x) = n + 1 /\ Len(y) = n + 1
  BY <1>2, <1>4
<1> HIDE DEF x, y, n
<1>7. x = y
  BY ONLY <1>5, <1>6, SeqEqual
<1> QED
  BY <1>7 DEF x, y

(* Erasing the last fiber pops its frame. *)
LEMMA PoppedRids ==
  ASSUME NEW list \in Seq(Fiber), Len(list) > 0
  PROVE  /\ Last(Rids(list)) = list[Len(list)].rid
         /\ Rids(RemoveAt(list, Len(list))) = Front(Rids(list))
<1> DEFINE n == Len(list)
           x == Rids(RemoveAt(list, n))
           y == Front(Rids(list))
<1>1. n \in Nat /\ n \in 1 .. n
  OBVIOUS
<1>2. /\ RemoveAt(list, n) \in Seq(Fiber) /\ Len(RemoveAt(list, n)) = n - 1
      /\ \A j \in 1 .. n - 1 :
           RemoveAt(list, n)[j] = IF j < n THEN list[j] ELSE list[j + 1]
  BY <1>1, RemoveAtFacts
<1>3. /\ x \in Seq(Resource) /\ Len(x) = n - 1
      /\ \A i \in 1 .. n - 1 : x[i] = RemoveAt(list, n)[i].rid
  BY <1>2, RidsFacts
<1>4. /\ Rids(list) \in Seq(Resource) /\ Len(Rids(list)) = n
      /\ \A i \in 1 .. n : Rids(list)[i] = list[i].rid
  BY RidsFacts
<1>5. /\ y \in Seq(Resource) /\ Len(y) = n - 1
      /\ \A i \in 1 .. n - 1 : y[i] = Rids(list)[i]
  <2> DEFINE t == Rids(list)
  <2>1. y = SubSeq(t, 1, n - 1)
    BY <1>4 DEF Front
  <2>2. n - 1 \in Nat /\ n - 1 <= n
    BY <1>1
  <2> HIDE DEF t, y, n
  <2> QED
    BY <1>4, <2>1, <2>2 DEF t
<1>6. Last(Rids(list)) = list[n].rid
  BY <1>1, <1>4 DEF Last
<1> HIDE DEF x, y, n
<1>7. \A i \in 1 .. n - 1 : i \in 1 .. n /\ i < n
  BY <1>1
<1>8. \A i \in 1 .. n - 1 : x[i] = y[i]
  <2>1. \A i \in 1 .. n - 1 : RemoveAt(list, n)[i] = list[i]
    BY ONLY <1>2, <1>7
  <2>2. \A i \in 1 .. n - 1 : x[i] = list[i].rid
    BY ONLY <1>3, <2>1
  <2>3. \A i \in 1 .. n - 1 : y[i] = list[i].rid
    BY ONLY <1>4, <1>5, <1>7
  <2> QED
    BY ONLY <2>2, <2>3
<1>9. x = y
  BY ONLY <1>3, <1>5, <1>8, SeqEqual
<1> QED
  BY <1>6, <1>9 DEF x, y, n

(* Resuming and answering from the cache leave every fiber its resource. *)
LEMMA SameFrames ==
  ASSUME IInv, Resume \/ \E r, d \in Resource : AskCached(r, d)
  PROVE  /\ UNCHANGED <<cached, escaped>> /\ fibers' \in Seq(Fiber)
         /\ Len(fibers') = Len(fibers)
         /\ \A i \in 1 .. Len(fibers) : fibers'[i].rid = fibers[i].rid
<1> DEFINE n == Len(fibers)
<1>1. UNCHANGED <<cached, escaped>> /\ fibers # << >>
  <2>1. CASE Resume
    BY <2>1 DEF Resume
  <2>2. CASE \E r, d \in Resource : AskCached(r, d)
    BY <2>2, LoaderFacts, EmptyList DEF AskCached, InLoader, IInv
  <2> QED
    BY <2>1, <2>2
<1>2. n > 0 /\ n \in 1 .. n /\ DOMAIN fibers = 1 .. n /\ fibers \in Seq(Fiber) /\ fibers[n] \in Fiber
  BY <1>1, EmptyList, ListFacts DEF IInv
<1>3. PICK e \in Fiber : e.rid = fibers[n].rid /\ fibers' = [fibers EXCEPT ![n] = e]
  <2>1. CASE Resume
    <3> DEFINE e == [fibers[n] EXCEPT !.state = "Running", !.awaits = None]
    <3>1. fibers' = [fibers EXCEPT ![n] = e]
      BY <1>2, <2>1 DEF Resume, Top
    <3>2. e \in Fiber /\ e.rid = fibers[n].rid
      BY <1>2 DEF Fiber, FiberState
    <3> QED
      BY <3>1, <3>2
  <2>2. ASSUME NEW r \in Resource, NEW d \in Resource, AskCached(r, d)
        PROVE  \E e \in Fiber : e.rid = fibers[n].rid /\ fibers' = [fibers EXCEPT ![n] = e]
    <3> DEFINE e == [fibers[n] EXCEPT !.asks = @ \ {d}]
    <3>1. fibers' = [fibers EXCEPT ![n] = e]
      BY <1>2, <2>2 DEF AskCached, Top
    <3>2. e \in Fiber /\ e.rid = fibers[n].rid
      BY <1>2 DEF Fiber
    <3> QED
      BY <3>1, <3>2
  <2> QED
    BY <2>1, <2>2
<1>4. /\ fibers' \in Seq(Fiber) /\ Len(fibers') = n
      /\ \A j \in 1 .. n : fibers'[j] = IF j = n THEN e ELSE fibers[j]
  BY <1>2, <1>3, ReplaceFacts
<1> HIDE DEF n
<1>5. \A j \in 1 .. n : fibers'[j].rid = fibers[j].rid
  BY <1>3, <1>4
<1> QED
  BY <1>1, <1>4, <1>5 DEF n

(* A nested load pushes a frame for something that the last one needs. *)
LEMMA NestedFrame ==
  ASSUME IInv, NEW r \in Resource, NEW d \in Resource, AskNested(r, d)
  PROVE  /\ Rids(fibers') = Append(Rids(fibers), d)
         /\ d \in Needs[Last(Rids(fibers))]
<1> DEFINE n    == Len(fibers)
           e    == [fibers[n] EXCEPT !.state = "Sleeping", !.asks = @ \ {d}, !.awaits = d]
           list == [fibers EXCEPT ![n] = e]
<1>1. pc = "loader"
  BY DEF AskNested, InLoader
<1>2. /\ fibers \in Seq(Fiber) /\ n \in 1 .. n /\ n > 0 /\ fibers[n] \in Fiber /\ ~escaped
      /\ DOMAIN fibers = 1 .. n
  BY <1>1, LoaderFacts, ListFacts DEF IInv
<1>3. d \in fibers[n].asks /\ fibers' = Append(list, NewFiber(d))
  BY <1>2 DEF AskNested, Ask, Top
<1>4. e \in Fiber /\ e.rid = fibers[n].rid
  BY <1>2 DEF Fiber, FiberState
<1> HIDE DEF e
<1>5. /\ list \in Seq(Fiber) /\ Len(list) = n
      /\ \A j \in 1 .. n : list[j] = IF j = n THEN e ELSE fibers[j]
  BY <1>2, <1>4, ReplaceFacts
<1> HIDE DEF list
<1>6. \A j \in 1 .. n : list[j].rid = fibers[j].rid
  BY <1>4, <1>5
<1>7. Rids(list) = Rids(fibers)
  BY ONLY <1>2, <1>5, <1>6, SameRids
<1>8. Rids(fibers') = Append(Rids(list), d)
  BY <1>3, <1>5, PushedRids, NewFiberFacts
<1>9. d \in Needs[fibers[n].rid]
  <2>1. fibers[n].asks \subseteq Needs[fibers[n].rid]
    BY <1>2 DEF IInv, ChainInv
  <2> QED
    BY <1>3, <2>1
<1>10. Last(Rids(fibers)) = fibers[n].rid
  BY <1>2, PoppedRids
<1> QED
  BY <1>7, <1>8, <1>9, <1>10

LEMMA InitRefines == Init => Calls!Init
<1> SUFFICES ASSUME Init PROVE Calls!Init
  OBVIOUS
<1>1. cached = {} /\ fibers = << >> /\ escaped = FALSE
  BY DEF Init
<1>2. [i \in DOMAIN fibers |-> fibers[i].rid] = << >>
  BY <1>1, EmptyRids DEF Rids
<1> QED
  BY <1>1, <1>2 DEF Calls!Init

LEMMA StepRefines == IInv /\ [Next]_vars => [Calls!Next]_(Calls!vars)
<1> SUFFICES ASSUME IInv, [Next]_vars, ~UNCHANGED Calls!vars
             PROVE  Calls!Next
  OBVIOUS
<1> DEFINE frames == IF escaped THEN << >> ELSE Rids(fibers)
<1>1. Calls!vars = <<cached, frames, escaped>>
  BY DEF Calls!vars, Rids
<1>2. Calls!vars' = <<cached', frames', escaped'>>
  BY DEF Calls!vars, Rids
<1>3. ~UNCHANGED <<cached, frames, escaped>>
  BY <1>1, <1>2
<1>4. ~UNCHANGED <<cached, fibers, escaped>>
  BY <1>3
<1>5. ~escaped => (flag <=> pc \in {"loop", "loader"}) /\ (~flag => fibers = << >>)
  BY DEF IInv, FlagTracksLoad
<1>6. escaped => flag /\ pc \in {"host", "crashed"}
  BY DEF IInv, PhaseInv
<1>7. fibers \in Seq(Fiber)
  BY ListFacts DEF IInv
<1>8. CASE clear
  <2>1. /\ pc = "host" /\ cached' = {} /\ fibers' = << >> /\ escaped' = escaped
    BY <1>8 DEF clear
  <2>2. frames = << >> /\ frames' = << >>
    BY <1>5, <2>1, EmptyRids
  <2>3. Calls!Forget
    BY <2>1, <2>2 DEF Calls!Forget, Rids
  <2> QED
    BY <2>3 DEF Calls!Next
<1>9. ASSUME NEW r \in Resource, Load(r) PROVE Calls!Next
  <2>1. /\ r \notin cached /\ ~flag /\ fibers' = Append(fibers, NewFiber(r))
        /\ UNCHANGED <<cached, escaped>>
    BY <1>9 DEF Load
  <2>2. ~escaped /\ fibers = << >>
    BY <1>5, <1>6, <2>1
  <2>3. frames = << >> /\ frames' = Append(frames, r)
    BY <1>7, <2>1, <2>2, EmptyRids, PushedRids, NewFiberFacts
  <2>4. Calls!Call(r)
    BY <2>1, <2>2, <2>3 DEF Calls!Call, Rids
  <2> QED
    BY <2>4 DEF Calls!Next
<1>10. ASSUME NEW r \in Resource, LoadStuck(r) PROVE Calls!Next
  <2>1. pc = "host" /\ flag /\ UNCHANGED <<cached, escaped>>
    BY <1>10 DEF LoadStuck
  <2> QED
    BY <1>3, <1>5, <2>1
<1>11. ASSUME Resume \/ \E r, d \in Resource : AskCached(r, d) PROVE Calls!Next
  <2>1. /\ UNCHANGED <<cached, escaped>> /\ fibers' \in Seq(Fiber)
        /\ Len(fibers') = Len(fibers)
        /\ \A i \in 1 .. Len(fibers) : fibers'[i].rid = fibers[i].rid
    BY <1>11, SameFrames
  <2>2. Rids(fibers') = Rids(fibers)
    BY ONLY <1>7, <2>1, SameRids
  <2> QED
    BY <1>3, <2>1, <2>2
<1>12. ASSUME NEW r \in Resource, NEW d \in Resource, AskNested(r, d) PROVE Calls!Next
  <2>1. pc = "loader" /\ d \notin cached /\ UNCHANGED <<cached, escaped>>
    BY <1>12 DEF AskNested, InLoader
  <2>2. ~escaped
    BY <1>6, <2>1
  <2>3. Rids(fibers') = Append(Rids(fibers), d) /\ d \in Needs[Last(Rids(fibers))]
    BY <1>12, NestedFrame
  <2>4. frames' = Append(frames, d) /\ d \in Needs[Last(frames)]
    BY <2>1, <2>2, <2>3
  <2>5. Calls!Call(d)
    BY <2>1, <2>2, <2>4 DEF Calls!Call, Calls!Last, Last, Rids
  <2> QED
    BY <2>5 DEF Calls!Next
<1>13. ASSUME NEW r \in Resource, Pop(r),
              NEW found \in BOOLEAN,
              cached' = IF found THEN cached \union {r} ELSE cached
       PROVE  Calls!Next
  <2>1. pc = "loader" /\ r = fibers[Len(fibers)].rid
        /\ fibers' = RemoveAt(fibers, Len(fibers)) /\ escaped' = escaped
    BY <1>13 DEF Pop, InLoader, Top
  <2>2. ~escaped /\ Len(fibers) > 0
    BY <1>6, <2>1, LoaderFacts
  <2>3. r = Last(Rids(fibers)) /\ Rids(fibers') = Front(Rids(fibers)) /\ Rids(fibers) # << >>
    BY <1>7, <2>1, <2>2, PoppedRids, RidsFacts
  <2>4. Calls!Return(r, found)
    BY <1>13, <2>1, <2>2, <2>3
       DEF Calls!Return, Calls!Last, Calls!Front, Last, Front, Rids
  <2> QED
    BY <2>4 DEF Calls!Next
<1>14. ASSUME NEW r \in Resource, Succeed(r) \/ Fail(r) PROVE Calls!Next
  <2>1. CASE Succeed(r)
    BY <1>13, <2>1 DEF Succeed
  <2>2. CASE Fail(r)
    BY <1>13, <2>2 DEF Fail
  <2> QED
    BY <1>14, <2>1, <2>2
<1>15. ASSUME NEW r \in Resource, Throw(r) PROVE Calls!Next
  <2>1. pc = "loader" /\ escaped' = TRUE /\ cached' = cached
    BY <1>15 DEF Throw, InLoader
  <2>2. ~escaped /\ Rids(fibers) # << >>
    BY <1>6, <1>7, <2>1, LoaderFacts, RidsFacts
  <2>3. Calls!Break
    BY <2>1, <2>2 DEF Calls!Break, Rids
  <2> QED
    BY <2>3 DEF Calls!Next
<1>16. CASE \/ add_loader \/ garbage_collect \/ UpdateEnd \/ UNCHANGED vars
            \/ \E content \in SUBSET Resource : add_archive(content)
            \/ \E r \in Resource : Release(r) \/ LoadCached(r)
  BY <1>4, <1>16 DEF add_loader, garbage_collect, UpdateEnd, vars, fiberVars, add_archive,
     Release, LoadCached
<1> QED
  BY <1>8, <1>9, <1>10, <1>11, <1>12, <1>14, <1>15, <1>16 DEF Next, Update, LoaderStep

(* The loops and yields of the resource manager amount to plain recursive  *)
(* calls of the loaders.                                                   *)
THEOREM Refinement == Spec => CallsSpec
<1>1. Init => Calls!Init
  BY InitRefines
<1>2. IInv /\ [Next]_vars => [Calls!Next]_(Calls!vars)
  BY StepRefines
<1> QED
  BY <1>1, <1>2, Invariant, PTL DEF Spec, CallsSpec, Calls!Spec

=============================================================================
