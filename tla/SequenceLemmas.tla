--------------------------- MODULE SequenceLemmas ---------------------------
(***************************************************************************)
(* Lemmas about the data that the components are built on, for the proofs  *)
(* about them: what the list operations of base/array leave behind,        *)
(* induction over the numbers for the loops that are recursive functions,  *)
(* what such loops of ObjectMemory do to the elements they move, lists     *)
(* linked through a function, numbers that are owned, and sums.            *)
(***************************************************************************)
EXTENDS SequencesExt, SequenceTheorems, FiniteSetTheorems, WellFoundedInduction, TLAPS

(* push_back and emplace_back: the elements keep their indices. *)
LEMMA AppendFacts ==
  ASSUME NEW S, NEW s \in Seq(S), NEW e \in S
  PROVE  /\ Append(s, e) \in Seq(S)
         /\ Len(Append(s, e)) = Len(s) + 1
         /\ DOMAIN Append(s, e) = 1 .. Len(s) + 1
         /\ \A j \in 1 .. Len(s) : Append(s, e)[j] = s[j]
         /\ Append(s, e)[Len(s) + 1] = e
OBVIOUS

(* operator[]: one element is replaced. *)
LEMMA ReplaceFacts ==
  ASSUME NEW S, NEW s \in Seq(S), NEW i \in 1 .. Len(s), NEW e \in S
  PROVE  /\ [s EXCEPT ![i] = e] \in Seq(S)
         /\ Len([s EXCEPT ![i] = e]) = Len(s)
         /\ DOMAIN [s EXCEPT ![i] = e] = 1 .. Len(s)
         /\ \A j \in 1 .. Len(s) : [s EXCEPT ![i] = e][j] = IF j = i THEN e ELSE s[j]
OBVIOUS

(* erase: what lies behind the erased element moves down by one. *)
LEMMA RemoveAtFacts ==
  ASSUME NEW S, NEW s \in Seq(S), NEW i \in 1 .. Len(s)
  PROVE  /\ RemoveAt(s, i) \in Seq(S)
         /\ Len(RemoveAt(s, i)) = Len(s) - 1
         /\ DOMAIN RemoveAt(s, i) = 1 .. Len(s) - 1
         /\ \A j \in 1 .. Len(s) - 1 :
              RemoveAt(s, i)[j] = IF j < i THEN s[j] ELSE s[j + 1]
<1> DEFINE a == SubSeq(s, 1, i - 1)
           b == SubSeq(s, i + 1, Len(s))
<1>1. a \in Seq(S) /\ Len(a) = i - 1 /\ \A j \in 1 .. i - 1 : a[j] = s[j]
  OBVIOUS
<1>2. /\ b \in Seq(S)
      /\ Len(b) = Len(s) - i
      /\ \A j \in 1 .. Len(s) - i : b[j] = s[i + j]
  OBVIOUS
<1>3. RemoveAt(s, i) = a \o b
  BY DEF RemoveAt
<1> HIDE DEF a, b
<1>4. /\ a \o b \in Seq(S)
      /\ Len(a \o b) = Len(a) + Len(b)
      /\ \A j \in 1 .. Len(a) + Len(b) :
           (a \o b)[j] = IF j <= Len(a) THEN a[j] ELSE b[j - Len(a)]
  BY <1>1, <1>2, ConcatProperties
<1>5. Len(a \o b) = Len(s) - 1 /\ DOMAIN (a \o b) = 1 .. Len(s) - 1
  BY <1>1, <1>2, <1>4
<1>6. ASSUME NEW j \in 1 .. Len(s) - 1
      PROVE  (a \o b)[j] = IF j < i THEN s[j] ELSE s[j + 1]
  BY <1>1, <1>2, <1>4
<1> QED
  BY <1>3, <1>4, <1>5, <1>6

(* pop_back: the other elements keep their indices. *)
LEMMA FrontFacts ==
  ASSUME NEW S, NEW s \in Seq(S), Len(s) > 0
  PROVE  /\ Front(s) \in Seq(S)
         /\ Len(Front(s)) = Len(s) - 1
         /\ \A j \in 1 .. Len(s) - 1 : Front(s)[j] = s[j]
<1>1. ASSUME NEW i \in 1 .. Len(s)
      PROVE  /\ SubSeq(s, 1, i - 1) \in Seq(S)
             /\ Len(SubSeq(s, 1, i - 1)) = i - 1
             /\ \A j \in 1 .. i - 1 : SubSeq(s, 1, i - 1)[j] = s[j]
  OBVIOUS
<1>2. Len(s) \in 1 .. Len(s)
  OBVIOUS
<1> QED
  BY <1>1, <1>2 DEF Front

(* Without its last element a sequence is its front. *)
LEMMA RemoveLast ==
  ASSUME NEW S, NEW s \in Seq(S), Len(s) > 0
  PROVE  RemoveAt(s, Len(s)) = Front(s)
<1> DEFINE n == Len(s)
           u == RemoveAt(s, n)
           v == Front(s)
<1>1. n \in 1 .. n /\ n \in Nat
  OBVIOUS
<1>2. u \in Seq(S) /\ Len(u) = n - 1 /\ \A j \in 1 .. n - 1 : u[j] = IF j < n THEN s[j] ELSE s[j + 1]
  BY <1>1, RemoveAtFacts
<1>3. v \in Seq(S) /\ Len(v) = n - 1 /\ \A j \in 1 .. n - 1 : v[j] = s[j]
  BY FrontFacts
<1> HIDE DEF n, u, v
<1>4. \A j \in 1 .. n - 1 : u[j] = v[j]
  BY <1>1, <1>2, <1>3
<1> QED
  BY <1>2, <1>3, <1>4 DEF n, u, v

(* InsertAt: what lies at the place and behind it moves up by one. *)
LEMMA InsertAtFacts ==
  ASSUME NEW S, NEW s \in Seq(S), NEW i \in 1 .. Len(s) + 1, NEW e \in S
  PROVE  /\ InsertAt(s, i, e) \in Seq(S)
         /\ Len(InsertAt(s, i, e)) = Len(s) + 1
         /\ \A j \in 1 .. Len(s) + 1 :
              InsertAt(s, i, e)[j] = IF j < i THEN s[j] ELSE IF j = i THEN e ELSE s[j - 1]
<1> DEFINE a == SubSeq(s, 1, i - 1)
           b == SubSeq(s, i, Len(s))
           c == a \o <<e>>
<1>1. a \in Seq(S) /\ Len(a) = i - 1 /\ \A j \in 1 .. i - 1 : a[j] = s[j]
  OBVIOUS
<1>2. /\ b \in Seq(S) /\ Len(b) = Len(s) + 1 - i
      /\ \A j \in 1 .. Len(s) + 1 - i : b[j] = s[i - 1 + j]
  OBVIOUS
<1> HIDE DEF a, b
<1>3. /\ c \in Seq(S) /\ Len(c) = i
      /\ \A j \in 1 .. i : c[j] = IF j < i THEN s[j] ELSE e
  BY <1>1
<1> HIDE DEF c
<1>4. /\ c \o b \in Seq(S) /\ Len(c \o b) = Len(s) + 1
      /\ \A j \in 1 .. Len(s) + 1 : (c \o b)[j] = IF j <= i THEN c[j] ELSE b[j - i]
  BY <1>2, <1>3
<1>5. ASSUME NEW j \in 1 .. Len(s) + 1
      PROVE  (c \o b)[j] = IF j < i THEN s[j] ELSE IF j = i THEN e ELSE s[j - 1]
  <2>1. CASE j <= i
    BY <1>3, <1>4, <2>1
  <2>2. CASE j > i
    <3>1. j - i \in 1 .. Len(s) + 1 - i /\ i - 1 + (j - i) = j - 1
      BY <2>2
    <3> QED
      BY <1>2, <1>4, <2>2, <3>1
  <2>3. j <= i \/ j > i
    OBVIOUS
  <2> QED
    BY <2>1, <2>2, <2>3, Zenon
<1> QED
  BY <1>4, <1>5 DEF InsertAt, a, b, c

(* A set of natural numbers has a smallest one. *)
LEMMA MinFacts ==
  ASSUME NEW S \in SUBSET Nat, S # {}
  PROVE  Min(S) \in S /\ \A x \in S : Min(S) <= x
<1>1. \E x \in S : \A y \in S : ~(<<y, x>> \in OpToRel(<, Nat))
  BY NatLessThanWellFounded, WFMin, Zenon
<1>2. \A x, y \in Nat : y < x => <<y, x>> \in OpToRel(<, Nat)
  BY Zenon DEF OpToRel
<1>3. \E x \in S : \A y \in S : ~(y < x)
  BY <1>1, <1>2, Zenon
<1>4. \E x \in S : \A y \in S : x <= y
  BY <1>3
<1> QED
  BY <1>4 DEF Min

(* RemoveFirst erases one element that is e, if there is one. *)
LEMMA RemoveFirstFacts ==
  ASSUME NEW S, NEW s \in Seq(S), NEW e
  PROVE  IF \E i \in 1 .. Len(s) : s[i] = e
         THEN \E i \in 1 .. Len(s) : s[i] = e /\ RemoveFirst(s, e) = RemoveAt(s, i)
         ELSE RemoveFirst(s, e) = s
<1> DEFINE I == {i \in 1 .. Len(s) : s[i] = e}
<1>1. I \in SUBSET Nat
  OBVIOUS
<1>2. SelectInSeq(s, LAMBDA v : v = e) = IF I # {} THEN Min(I) ELSE 0
  BY DEF SelectInSeq
<1>3. CASE \E i \in 1 .. Len(s) : s[i] = e
  <2>1. I # {}
    BY <1>3
  <2> HIDE DEF I
  <2>2. Min(I) \in I
    BY <1>1, <2>1, MinFacts
  <2>3. RemoveFirst(s, e) = RemoveAt(s, Min(I))
    BY <1>2, <1>3, <2>1 DEF RemoveFirst
  <2> QED
    BY <1>3, <2>2, <2>3 DEF I
<1>4. CASE ~\E i \in 1 .. Len(s) : s[i] = e
  BY <1>4 DEF RemoveFirst
<1> QED
  BY <1>3, <1>4

(* Induction over the numbers, with a set for the property: the induction
   theorems of the library take an operator. *)
LEMMA Induction ==
  ASSUME NEW T, 0 \in T, \A n \in Nat : n \in T => n + 1 \in T
  PROVE  Nat \subseteq T
<1> SUFFICES ASSUME Nat \ T # {}
             PROVE  FALSE
  OBVIOUS
<1>1. PICK n \in Nat \ T : \A m \in Nat \ T : n <= m
  BY MinFacts
<1>2. n # 0 /\ n - 1 \in Nat
  BY <1>1
<1>3. n - 1 \in T
  BY <1>1, <1>2
<1> QED
  BY <1>1, <1>2, <1>3

(* The loops of the code are recursive functions over 0 .. N. Such a function
   exists if the step is defined on what the steps before lead to, G[n]. *)
LoopSteps(N, S, G, first, step) ==
    /\ N \in Nat /\ first \in G[0] /\ \A n \in 0 .. N : G[n] \subseteq S
    /\ \A n \in 1 .. N : \A x \in G[n - 1] : step[<<n, x>>] \in G[n]

LoopRuns(N, S, G, first, step) ==
    \E f \in [0 .. N -> S] : /\ f[0] = first
                             /\ \A n \in 0 .. N : f[n] \in G[n]
                             /\ \A n \in 1 .. N : f[n] = step[<<n, f[n - 1]>>]

(* Each prefix of the loop can be run one step further. *)
LEMMA Recursion ==
  ASSUME NEW N, NEW S, NEW G, NEW first, NEW step, LoopSteps(N, S, G, first, step)
  PROVE  LoopRuns(N, S, G, first, step)
<1> USE DEF LoopSteps
<1> DEFINE Def(n, f) == /\ \A k \in 0 .. n : f[k] \in G[k]
                        /\ f = [k \in 0 .. n |-> IF k = 0 THEN first ELSE step[<<k, f[k - 1]>>]]
           T == {n \in Nat : n <= N => \E f : Def(n, f)}
<1>1. 0 \in T
  <2> DEFINE g == [k \in 0 .. 0 |-> first]
  <2>1. g = [k \in 0 .. 0 |-> IF k = 0 THEN first ELSE step[<<k, g[k - 1]>>]]
    OBVIOUS
  <2>2. \A k \in 0 .. 0 : g[k] \in G[k]
    OBVIOUS
  <2> HIDE DEF g
  <2> QED
    BY <2>1, <2>2
<1>2. ASSUME NEW n \in Nat, n \in T
      PROVE  n + 1 \in T
  <2> SUFFICES ASSUME n + 1 <= N
               PROVE  \E f : Def(n + 1, f)
    OBVIOUS
  <2>1. PICK f : Def(n, f)
    BY <1>2
  <2> DEFINE g == [k \in 0 .. n + 1 |-> IF k = n + 1 THEN step[<<n + 1, f[n]>>] ELSE f[k]]
  <2>2. step[<<n + 1, f[n]>>] \in G[n + 1]
    <3>1. n + 1 \in 1 .. N /\ (n + 1) - 1 = n /\ f[n] \in G[n]
      BY <2>1
    <3> QED
      BY <3>1
  <2>3. ASSUME NEW k \in 0 .. n + 1
        PROVE  g[k] \in G[k] /\ g[k] = IF k = 0 THEN first ELSE step[<<k, g[k - 1]>>]
    <3>1. CASE k = n + 1
      <4>1. k - 1 = n /\ n \in 0 .. n + 1 /\ n # n + 1 /\ g[n + 1] = step[<<n + 1, f[n]>>] /\ k # 0
        BY <3>1
      <4>2. g[n] = f[n]
        BY <4>1
      <4> HIDE DEF g
      <4> QED
        BY ONLY <2>2, <3>1, <4>1, <4>2
    <3>2. CASE k \in 1 .. n
      <4>1. k \in 0 .. n /\ k - 1 \in 0 .. n + 1 /\ k - 1 # n + 1 /\ k # n + 1 /\ k # 0
        BY <3>2
      <4>2. g[k] = f[k] /\ g[k - 1] = f[k - 1]
        BY <4>1
      <4>3. f[k] \in G[k] /\ f[k] = step[<<k, f[k - 1]>>]
        BY <2>1, <4>1
      <4> HIDE DEF g
      <4> QED
        BY ONLY <4>1, <4>2, <4>3
    <3>3. CASE k = 0
      <4>1. g[0] = f[0]
        OBVIOUS
      <4>2. f[0] = first /\ f[0] \in G[0]
        BY <2>1
      <4> HIDE DEF g
      <4> QED
        BY ONLY <3>3, <4>1, <4>2
    <3> QED
      BY <3>1, <3>2, <3>3
  <2>4. g = [k \in 0 .. n + 1 |-> IF k = 0 THEN first ELSE step[<<k, g[k - 1]>>]]
    <3>1. \E b : g = [k \in 0 .. n + 1 |-> b[k]]
      <4> DEFINE b == g
      <4>1. g = [k \in 0 .. n + 1 |-> g[k]]
        OBVIOUS
      <4> HIDE DEF g
      <4> QED
        BY <4>1
    <3> HIDE DEF g
    <3> QED
      BY <2>3, <3>1
  <2> HIDE DEF g
  <2> QED
    BY <2>3, <2>4
<1>3. N \in T
  BY <1>1, <1>2, Induction
<1>4. PICK f : Def(N, f)
  BY <1>3
<1>5. f \in [0 .. N -> S] /\ f[0] = first /\ \A n \in 1 .. N : f[n] = step[<<n, f[n - 1]>>]
  BY <1>4
<1> QED
  BY <1>4, <1>5 DEF LoopRuns

(* A loop that keeps to G from one step to the next keeps to it to the end.  *)
LEMMA LoopInduction ==
  ASSUME NEW N \in Nat, NEW G, NEW f, f[0] \in G[0],
         \A n \in 0 .. N - 1 : f[n] \in G[n] => f[n + 1] \in G[n + 1]
  PROVE  \A n \in 0 .. N : f[n] \in G[n]
<1> DEFINE T == {n \in Nat : n <= N => f[n] \in G[n]}
<1>1. 0 \in T
  OBVIOUS
<1>2. ASSUME NEW n \in Nat, n \in T
      PROVE  n + 1 \in T
  BY <1>2
<1> HIDE DEF T
<1>3. Nat \subseteq T
  BY <1>1, <1>2, Induction
<1> QED
  BY <1>3 DEF T

-----------------------------------------------------------------------------
Memory == INSTANCE ObjectMemory

(* Memory. A block holds a sequence of objects if they are in its first     *)
(* places and the rest of it is raw.                                        *)
Objs == Nat \cup {Memory!Moved}

Holds(cells, values) ==
    /\ cells \in Seq(Int) /\ values \in Seq(Objs) /\ Len(values) <= Len(cells)
    /\ \A i \in 1 .. Len(cells) : cells[i] = IF i <= Len(values) THEN values[i] ELSE Memory!Raw

(* What the loop of an insertion has done after k steps: the last k objects  *)
(* are add places further up, and between them and the others there are      *)
(* objects to assign to, up to the size, and raw memory behind it.           *)
Shifted(values, room, at, add, k) ==
    LET n == Len(values)
    IN  {m \in [1 .. room -> Int] :
           \A i \in 1 .. room :
             /\ i <= n - k => m[i] = values[i]
             /\ n - k < i /\ i <= n /\ i <= n + add - k => Memory!IsObject(m[i])
             /\ n < i /\ i <= n + add - k => m[i] = Memory!Raw
             /\ n + add - k < i /\ i <= n + add => m[i] = values[i - add]
             /\ n + add < i => m[i] = Memory!Raw}

MovedUp(m, dst, src)   == Memory!move_or_copy_construct(m, dst, src, TRUE)
MovedOver(m, dst, src) == Memory!move_or_copy(m, dst, src, TRUE)

DownStep(m, at, k) == MovedOver(m, at + k - 1, at + k)

UpStep(m, size, at, add, k) ==
    LET dst == size + add + 1 - k
    IN  IF dst > size THEN MovedUp(m, dst, dst - add) ELSE MovedOver(m, dst, dst - add)

(* Whatever is in Objs is an object, and Leave marks it as moved from.       *)
LEMMA ObjectFacts ==
  ASSUME NEW o \in Objs
  PROVE  /\ o \in Int /\ Memory!IsObject(o) /\ Memory!Leave(o, TRUE) = Memory!Moved
         /\ Memory!IsObject(Memory!Moved) /\ Memory!Moved \in Int /\ Memory!Raw \in Int /\ o # Memory!Raw
         /\ ~Memory!IsObject(Memory!Raw)
BY DEF Objs, Memory!IsObject, Memory!Moved, Memory!Leave, Memory!Raw

(* An object is moved to another place.                                     *)
Moving(m, dst, src) == [i \in DOMAIN m |-> IF i = dst THEN m[src] ELSE IF i = src THEN Memory!Moved ELSE m[i]]

(* Both ways of moving an object to another place, by construction where     *)
(* nothing is and by assignment where an object is, come to that.            *)
MovesAnyWay(m, dst, src, room) ==
    /\ Moving(m, dst, src) \in [1 .. room -> Int]
    /\ m[dst] = Memory!Raw => MovedUp(m, dst, src) = Moving(m, dst, src)
    /\ Memory!IsObject(m[dst]) => MovedOver(m, dst, src) = Moving(m, dst, src)

(* Moving an object to another place, by assignment or construction, leaves  *)
(* a moved-from object behind and no other place touched.                    *)
LEMMA MoveFacts ==
  ASSUME NEW room, NEW m, NEW src, NEW dst, m \in [1 .. room -> Int], src \in 1 .. room, dst \in 1 .. room,
         m[src] \in Objs
  PROVE  MovesAnyWay(m, dst, src, room)
<1>1. /\ m[src] \in Int /\ Memory!IsObject(m[src]) /\ Memory!Leave(m[src], TRUE) = Memory!Moved
      /\ Memory!IsObject(Memory!Moved) /\ Memory!Moved \in Int /\ m[src] # Memory!Raw
  BY ObjectFacts
<1>2. Moving(m, dst, src) \in [1 .. room -> Int]
  BY <1>1 DEF Moving
<1>3. ASSUME m[dst] = Memory!Raw
      PROVE  MovedUp(m, dst, src) = Moving(m, dst, src)
  <2>1. src # dst
    BY <1>1, <1>3
  <2>2. Memory!Construct(m[dst], m[src]) = m[src]
    BY <1>1, <1>3 DEF Memory!Construct
  <2>3. MovedUp(m, dst, src)
           = [m EXCEPT ![src] = Memory!Moved, ![dst] = Memory!Construct(m[dst], m[src])]
    BY <1>1, <2>1 DEF MovedUp, Memory!move_or_copy_construct
  <2> QED
    BY <2>1, <2>2, <2>3 DEF Moving
<1>4. ASSUME Memory!IsObject(m[dst])
      PROVE  MovedOver(m, dst, src) = Moving(m, dst, src)
  <2> DEFINE left == [m EXCEPT ![src] = Memory!Moved]
  <2>1. MovedOver(m, dst, src) = [left EXCEPT ![dst] = Memory!Assign(m[dst], m[src])]
    BY <1>1 DEF MovedOver, Memory!move_or_copy
  <2>2. left \in [1 .. room -> Int] /\ \A i \in 1 .. room : left[i] = IF i = src THEN Memory!Moved ELSE m[i]
    BY <1>1
  <2> HIDE DEF left
  <2>3. Memory!Assign(m[dst], m[src]) = m[src]
    BY <1>1, <1>4 DEF Memory!Assign
  <2> QED
    BY <2>1, <2>2, <2>3 DEF Moving
<1> QED
  BY <1>2, <1>3, <1>4 DEF MovesAnyWay

(* One step of the loop that opens a gap: the highest object left moves up.  *)
LEMMA ShiftUpStep ==
  ASSUME NEW values, NEW room, NEW add, NEW at, NEW k, NEW m,
         values \in Seq(Objs), room \in Nat, add \in Nat, at \in 0 .. Len(values),
         Len(values) + add <= room, k \in 1 .. Len(values) - at,
         m \in Shifted(values, room, at, add, k - 1)
  PROVE  UpStep(m, Len(values), at, add, k) \in Shifted(values, room, at, add, k)
<1> DEFINE n == Len(values)
           dst == n + add + 1 - k
           src == dst - add
           u == UpStep(m, n, at, add, k)
<1>1. n \in Nat /\ dst \in 1 .. room /\ src \in 1 .. n /\ src \in 1 .. room /\ src = n + 1 - k /\ dst = src + add
      /\ k \in Nat /\ add \in Nat /\ room \in Nat /\ n + add <= room /\ k >= 1
  OBVIOUS
<1>2. m \in [1 .. room -> Int] /\ m[src] = values[src] /\ values[src] \in Objs
  <2>1. m \in [1 .. room -> Int] /\ \A i \in 1 .. room : i <= Len(values) - (k - 1) => m[i] = values[i]
    BY ONLY m \in Shifted(values, room, at, add, k - 1) DEF Shifted
  <2>2. src <= Len(values) - (k - 1) /\ src \in 1 .. room /\ src \in 1 .. Len(values)
    BY ONLY <1>1
  <2> HIDE DEF dst, src
  <2>3. values[src] \in Objs
    BY ONLY <2>2, values \in Seq(Objs)
  <2> QED
    BY ONLY <2>1, <2>2, <2>3
<1>3. ASSUME NEW i \in 1 .. room
      PROVE /\ i <= n - (k - 1) => m[i] = values[i]
            /\ n - (k - 1) < i /\ i <= n /\ i <= n + add - (k - 1) => Memory!IsObject(m[i])
            /\ n < i /\ i <= n + add - (k - 1) => m[i] = Memory!Raw
            /\ n + add - (k - 1) < i /\ i <= n + add => m[i] = values[i - add]
            /\ n + add < i => m[i] = Memory!Raw
  <2> HIDE DEF dst, src, u
  <2> QED
    BY ONLY i \in 1 .. room, m \in Shifted(values, room, at, add, k - 1) DEF Shifted
<1>u. u = IF dst > n THEN MovedUp(m, dst, src) ELSE MovedOver(m, dst, src)
  BY DEF UpStep
<1> HIDE DEF n, dst, src, u
<1>4. dst > n => m[dst] = Memory!Raw
  <2>1. dst \in 1 .. room /\ dst <= n + add - (k - 1) /\ (dst > n => n < dst)
    BY ONLY <1>1
  <2> QED
    BY ONLY <1>3, <2>1
<1>5. ~(dst > n) => Memory!IsObject(m[dst])
  <2>1. CASE add = 0
    <3>1. dst = src
      BY <1>1, <2>1
    <3> QED
      BY <1>2, <3>1, ObjectFacts
  <2>2. CASE add > 0
    BY ONLY <1>1, <1>3, <2>2
  <2> QED
    BY <1>1, <2>1, <2>2
<1>6. u = Moving(m, dst, src) /\ u \in [1 .. room -> Int]
  <2>1. m \in [1 .. room -> Int] /\ src \in 1 .. room /\ dst \in 1 .. room /\ m[src] \in Objs
    <3>1. m \in [1 .. room -> Int] /\ m[src] = values[src] /\ values[src] \in Objs
      BY ONLY <1>2
    <3>2. src \in 1 .. room /\ dst \in 1 .. room
      BY ONLY <1>1
    <3> QED
      BY ONLY <3>1, <3>2
  <2>2. /\ Moving(m, dst, src) \in [1 .. room -> Int]
        /\ m[dst] = Memory!Raw => MovedUp(m, dst, src) = Moving(m, dst, src)
        /\ Memory!IsObject(m[dst]) => MovedOver(m, dst, src) = Moving(m, dst, src)
    <3>1. MovesAnyWay(m, dst, src, room)
      BY ONLY <2>1, MoveFacts
    <3> QED
      BY ONLY <3>1 DEF MovesAnyWay
  <2> QED
    BY <1>4, <1>5, <1>u, <2>2
<1>7. \A i \in 1 .. room : u[i] = IF i = dst THEN values[src] ELSE IF i = src THEN Memory!Moved ELSE m[i]
  BY <1>1, <1>2, <1>6 DEF Moving
<1>8. ASSUME NEW i \in 1 .. room
      PROVE  /\ i <= n - k => u[i] = values[i]
             /\ n - k < i /\ i <= n /\ i <= n + add - k => Memory!IsObject(u[i])
             /\ n < i /\ i <= n + add - k => u[i] = Memory!Raw
             /\ n + add - k < i /\ i <= n + add => u[i] = values[i - add]
             /\ n + add < i => u[i] = Memory!Raw
  <2>1. Memory!IsObject(Memory!Moved)
    BY DEF Memory!IsObject
  <2>2. CASE i = dst
    <3>1. u[i] = values[i - add]
      BY <1>1, <1>7, <2>2
    <3>2. ~(i <= n - k) /\ ~(i <= n + add - k) /\ ~(n + add < i)
      BY ONLY <1>1, <2>2
    <3> QED
      BY ONLY <3>1, <3>2
  <2>3. CASE i # dst /\ i = src
    <3>1. u[i] = Memory!Moved
      BY <1>7, <2>3
    <3>2. i <= n /\ ~(n < i) /\ ~(i <= n - k) /\ ~(n + add - k < i) /\ ~(n + add < i)
      BY ONLY <1>1, <2>3
    <3> QED
      BY ONLY <2>1, <3>1, <3>2
  <2>4. CASE i # dst /\ i # src
    <3>1. u[i] = m[i]
      BY <1>7, <2>4
    <3> QED
      BY <1>1, <1>3, <2>4, <3>1
  <2> QED
    BY <2>2, <2>3, <2>4
<1> QED
  BY <1>6, <1>8 DEF Shifted, u, n

(* A loop over 0 .. N, each step from the one before.                       *)
LEMMA ShiftUpFacts ==
  ASSUME NEW cells, NEW values, NEW at, NEW add, Holds(cells, values), at \in 0 .. Len(values), add \in Nat,
         Len(values) + add <= Len(cells)
  PROVE  Memory!ShiftUp(cells, Len(values), at, add)
            \in Shifted(values, Len(cells), at, add, Len(values) - at)
<1> DEFINE n == Len(values)
           N == n - at
           room == Len(cells)
           S == [1 .. room -> Int]
           G == [k \in 0 .. N |-> Shifted(values, room, at, add, k)]
           after[k \in 0 .. N] == IF k = 0 THEN cells ELSE UpStep(after[k - 1], n, at, add, k)
<1>1. Memory!ShiftUp(cells, n, at, add) = after[N]
  BY DEF Memory!ShiftUp, UpStep, MovedUp, MovedOver
<1> HIDE DEF after
<1>2. /\ n \in Nat /\ room \in Nat /\ N \in Nat /\ N = n - at /\ n + add <= room /\ values \in Seq(Objs)
      /\ \A i \in 1 .. room : cells[i] = IF i <= n THEN values[i] ELSE Memory!Raw
      /\ cells \in [1 .. room -> Int]
  BY DEF Holds
<1>3. cells \in G[0]
  <2>1. cells \in Shifted(values, room, at, add, 0)
    BY <1>2 DEF Shifted
  <2> QED
    BY <1>2, <2>1
<1>4. \A k \in 0 .. N : G[k] \subseteq S
  BY DEF Shifted
<1>5. ASSUME NEW k \in 1 .. N, NEW m \in G[k - 1]
      PROVE  UpStep(m, n, at, add, k) \in G[k]
  <2>1. k - 1 \in 0 .. N /\ k \in 0 .. N /\ k \in 1 .. Len(values) - at
    BY <1>2
  <2>2. m \in Shifted(values, room, at, add, k - 1)
    BY <1>5, <2>1
  <2>3. UpStep(m, n, at, add, k) \in Shifted(values, room, at, add, k)
    BY <1>2, <2>1, <2>2, ShiftUpStep
  <2> QED
    BY <2>1, <2>3
<1> HIDE DEF n, N, room, S, G
<1>6. after = [k \in 0 .. N |-> IF k = 0 THEN cells ELSE UpStep(after[k - 1], n, at, add, k)]
  <2> DEFINE step == [x \in (1 .. N) \X S |-> UpStep(x[2], n, at, add, x[1])]
  <2>1. \A k \in 1 .. N, m \in S : step[<<k, m>>] = UpStep(m, n, at, add, k)
    OBVIOUS
  <2> HIDE DEF step
  <2>2. \A k \in 1 .. N : k \in 0 .. N /\ k - 1 \in 0 .. N
    BY <1>2
  <2>3. LoopSteps(N, S, G, cells, step)
    BY <1>2, <1>3, <1>4, <1>5, <2>1, <2>2 DEF LoopSteps
  <2>4. PICK f \in [0 .. N -> S] : f[0] = cells /\ \A k \in 1 .. N : f[k] = step[<<k, f[k - 1]>>]
    BY <2>3, Recursion DEF LoopRuns
  <2>5. \A k \in 1 .. N : f[k] = UpStep(f[k - 1], n, at, add, k)
    BY <2>1, <2>2, <2>4
  <2>6. f = [k \in 0 .. N |-> IF k = 0 THEN cells ELSE UpStep(f[k - 1], n, at, add, k)]
    BY <1>2, <2>4, <2>5
  <2> QED
    BY <2>6, Zenon DEF after
<1>7. after[0] = cells /\ \A k \in 0 .. N - 1 : after[k + 1] = UpStep(after[k], n, at, add, k + 1)
  <2>1. \A k \in 0 .. N - 1 : k + 1 \in 0 .. N /\ k + 1 # 0 /\ (k + 1) - 1 = k
    BY <1>2
  <2>2. 0 \in 0 .. N
    BY <1>2
  <2> QED
    BY <1>6, <2>1, <2>2
<1>8. \A k \in 0 .. N - 1 : after[k] \in G[k] => after[k + 1] \in G[k + 1]
  <2> SUFFICES ASSUME NEW k \in 0 .. N - 1, after[k] \in G[k]
               PROVE  UpStep(after[k], n, at, add, k + 1) \in G[k + 1]
    BY <1>7
  <2>1. k + 1 \in 1 .. N /\ (k + 1) - 1 = k
    BY <1>2
  <2> QED
    BY <1>5, <2>1
<1>9. \A k \in 0 .. N : after[k] \in G[k]
  BY <1>2, <1>3, <1>7, <1>8, LoopInduction
<1>10. N \in 0 .. N
  BY <1>2
<1> QED
  BY <1>1, <1>9, <1>10 DEF G, N, n, room

(* Two sequences, one behind the other.                                     *)
LEMMA ConcatFacts ==
  ASSUME NEW S, NEW a, NEW b, a \in Seq(S), b \in Seq(S)
  PROVE  /\ a \o b \in Seq(S) /\ Len(a \o b) = Len(a) + Len(b)
         /\ \A j \in 1 .. Len(a) + Len(b) : (a \o b)[j] = IF j <= Len(a) THEN a[j] ELSE b[j - Len(a)]
BY ConcatProperties

(* The sequence with items in it.                                           *)
LEMMA InsertedFacts ==
  ASSUME NEW S, NEW values, NEW at, NEW items, values \in Seq(S), items \in Seq(S), at \in 0 .. Len(values)
  PROVE  /\ Memory!Inserted(values, at, items) \in Seq(S)
         /\ Len(Memory!Inserted(values, at, items)) = Len(values) + Len(items)
         /\ \A j \in 1 .. Len(values) + Len(items) :
              Memory!Inserted(values, at, items)[j] =
                IF j <= at THEN values[j]
                ELSE IF j <= at + Len(items) THEN items[j - at] ELSE values[j - Len(items)]
<1> DEFINE n == Len(values)
           a == SubSeq(values, 1, at)
           b == SubSeq(values, at + 1, n)
           c == a \o items
<1>1. a \in Seq(S) /\ Len(a) = at /\ \A j \in 1 .. at : a[j] = values[j]
  OBVIOUS
<1>2. b \in Seq(S) /\ Len(b) = n - at /\ \A j \in 1 .. n - at : b[j] = values[at + j]
  OBVIOUS
<1> HIDE DEF a, b
<1>3. /\ c \in Seq(S) /\ Len(c) = at + Len(items)
      /\ \A j \in 1 .. at + Len(items) : c[j] = IF j <= at THEN a[j] ELSE items[j - at]
  <2>1. /\ c \in Seq(S) /\ Len(c) = Len(a) + Len(items)
        /\ \A j \in 1 .. Len(a) + Len(items) : c[j] = IF j <= Len(a) THEN a[j] ELSE items[j - Len(a)]
    BY <1>1, ConcatFacts
  <2> HIDE DEF c
  <2> QED
    BY <1>1, <2>1
<1> HIDE DEF c
<1>4. /\ c \o b \in Seq(S) /\ Len(c \o b) = n + Len(items)
      /\ \A j \in 1 .. n + Len(items) : (c \o b)[j] = IF j <= at + Len(items) THEN c[j] ELSE b[j - (at + Len(items))]
  <2> DEFINE d == c \o b
  <2>1. /\ d \in Seq(S) /\ Len(d) = Len(c) + Len(b)
        /\ \A j \in 1 .. Len(c) + Len(b) : d[j] = IF j <= Len(c) THEN c[j] ELSE b[j - Len(c)]
    <3>1. c \in Seq(S) /\ b \in Seq(S)
      BY <1>2, <1>3
    <3> QED
      BY ONLY <3>1, ConcatFacts
  <2>2. Len(c) + Len(b) = n + Len(items)
    BY <1>2, <1>3
  <2> HIDE DEF d
  <2>3. /\ d \in Seq(S) /\ Len(d) = n + Len(items)
        /\ \A j \in 1 .. n + Len(items) : d[j] = IF j <= at + Len(items) THEN c[j] ELSE b[j - (at + Len(items))]
    BY <1>3, <2>1, <2>2
  <2> QED
    BY <2>3 DEF d
<1>5. ASSUME NEW j \in 1 .. n + Len(items)
      PROVE  (c \o b)[j] = IF j <= at THEN values[j]
                           ELSE IF j <= at + Len(items) THEN items[j - at] ELSE values[j - Len(items)]
  <2> DEFINE add == Len(items)
  <2>0. add \in Nat /\ n \in Nat /\ at \in 0 .. n
    OBVIOUS
  <2> HIDE DEF add, n
  <2>1. CASE j <= at + add
    BY <1>1, <1>3, <1>4, <2>0, <2>1 DEF add
  <2>2. CASE ~(j <= at + add)
    <3>1. j - (at + add) \in 1 .. n - at /\ at + (j - (at + add)) = j - add /\ ~(j <= at)
      BY <2>0, <2>2 DEF add
    <3> QED
      BY <1>2, <1>4, <2>2, <3>1 DEF add
  <2> QED
    BY <2>1, <2>2
<1> QED
  BY <1>4, <1>5 DEF Memory!Inserted, a, b, c

(* Into the empty sequence.                                                 *)
LEMMA InsertedInNone ==
  ASSUME NEW S, NEW items, items \in Seq(S)
  PROVE  Memory!Inserted(<<>>, 0, items) = items
<1> DEFINE none == SubSeq(<<>>, 1, 0)
<1>1. none = <<>>
  OBVIOUS
<1>2. Memory!Inserted(<<>>, 0, items) = none \o items \o SubSeq(<<>>, 0 + 1, Len(<<>>))
  BY DEF Memory!Inserted
<1>3. SubSeq(<<>>, 0 + 1, Len(<<>>)) = <<>>
  OBVIOUS
<1> HIDE DEF none
<1>4. Memory!Inserted(<<>>, 0, items) = (<<>> \o items) \o <<>>
  BY <1>1, <1>2, <1>3
<1>5. <<>> \o items = items /\ items \o <<>> = items
  OBVIOUS
<1> QED
  BY <1>4, <1>5

(* The gap is filled: assigned to up to the size, constructed behind it.    *)
LEMMA InsertFacts ==
  ASSUME NEW cells, NEW values, NEW at, NEW items, Holds(cells, values), at \in 0 .. Len(values),
         items \in Seq(Objs), Len(values) + Len(items) <= Len(cells)
  PROVE  /\ Holds(Memory!Fill(Memory!ShiftUp(cells, Len(values), at, Len(items)), Len(values), at, items),
                  Memory!Inserted(values, at, items))
         /\ Len(Memory!Fill(Memory!ShiftUp(cells, Len(values), at, Len(items)), Len(values), at, items)) = Len(cells)
<1> DEFINE n == Len(values)
           add == Len(items)
           room == Len(cells)
           m == Memory!ShiftUp(cells, n, at, add)
           u == Memory!Fill(m, n, at, items)
           w == Memory!Inserted(values, at, items)
<1>1. n \in Nat /\ add \in Nat /\ room \in Nat /\ n + add <= room /\ at \in 0 .. n /\ values \in Seq(Objs)
  BY DEF Holds
<1>2. m \in Shifted(values, room, at, add, n - at)
  BY <1>1, ShiftUpFacts
<1> HIDE DEF m
<1>3. m \in [1 .. room -> Int] /\ DOMAIN m = 1 .. room
  BY <1>2 DEF Shifted
<1>4. ASSUME NEW i \in 1 .. room
      PROVE  /\ i <= at => m[i] = values[i]
             /\ at < i /\ i <= n /\ i <= at + add => Memory!IsObject(m[i])
             /\ n < i /\ i <= at + add => m[i] = Memory!Raw
             /\ at + add < i /\ i <= n + add => m[i] = values[i - add]
             /\ n + add < i => m[i] = Memory!Raw
  <2>1. n - (n - at) = at /\ n + add - (n - at) = at + add
    BY <1>1
  <2>2. /\ i <= n - (n - at) => m[i] = values[i]
        /\ n - (n - at) < i /\ i <= n /\ i <= n + add - (n - at) => Memory!IsObject(m[i])
        /\ n < i /\ i <= n + add - (n - at) => m[i] = Memory!Raw
        /\ n + add - (n - at) < i /\ i <= n + add => m[i] = values[i - add]
        /\ n + add < i => m[i] = Memory!Raw
    BY <1>2 DEF Shifted
  <2> HIDE DEF n, add
  <2> QED
    BY ONLY <2>1, <2>2
<1>5. /\ w \in Seq(Objs) /\ Len(w) = n + add
      /\ \A j \in 1 .. n + add : w[j] = IF j <= at THEN values[j]
                                        ELSE IF j <= at + add THEN items[j - at] ELSE values[j - add]
  <2>1. items \in Seq(Objs) /\ values \in Seq(Objs) /\ at \in 0 .. Len(values)
    BY <1>1
  <2> QED
    BY ONLY <2>1, InsertedFacts
<1>6. u = [i \in 1 .. room |-> IF i \notin at + 1 .. at + add THEN m[i]
                              ELSE IF i <= n THEN Memory!Assign(m[i], items[i - at])
                              ELSE Memory!Construct(m[i], items[i - at])]
  BY <1>3 DEF Memory!Fill
<1>7. \A j \in 1 .. add : items[j] \in Objs
  OBVIOUS
<1> HIDE DEF n, add, room, u, w
<1>8. ASSUME NEW i \in 1 .. room
      PROVE  u[i] = (IF i <= n + add THEN w[i] ELSE Memory!Raw) /\ u[i] \in Int
  <2>1. CASE i \in at + 1 .. at + add
    <3>1. i - at \in 1 .. add /\ i <= n + add /\ ~(i <= at) /\ i <= at + add /\ i \in 1 .. n + add
      BY ONLY <1>1, <2>1
    <3>2. items[i - at] \in Objs /\ w[i] = items[i - at]
      BY <1>5, <1>7, <3>1
    <3>3. items[i - at] \in Int /\ Memory!IsObject(items[i - at])
      BY <3>2, ObjectFacts
    <3>4. CASE i <= n
      <4>1. Memory!IsObject(m[i])
        BY <1>1, <1>4, <3>1, <3>4
      <4>2. u[i] = Memory!Assign(m[i], items[i - at])
        BY <1>6, <2>1, <3>4
      <4> QED
        BY <3>1, <3>2, <3>3, <4>1, <4>2 DEF Memory!Assign
    <3>5. CASE ~(i <= n)
      <4>1. m[i] = Memory!Raw
        <5>1. n < i /\ i <= at + add
          BY ONLY <1>1, <3>1, <3>5
        <5> QED
          BY ONLY <1>4, <5>1
      <4>2. u[i] = Memory!Construct(m[i], items[i - at])
        BY <1>6, <2>1, <3>5
      <4> QED
        BY <3>1, <3>2, <3>3, <4>1, <4>2 DEF Memory!Construct
    <3> QED
      BY <3>4, <3>5
  <2>2. CASE i \notin at + 1 .. at + add
    <3>1. u[i] = m[i] /\ m[i] \in Int
      BY <1>3, <1>6, <2>2
    <3>2. CASE i <= at
      <4>1. i <= n + add /\ i \in 1 .. n + add
        BY <1>1, <3>2
      <4> QED
        BY <1>4, <1>5, <3>1, <3>2, <4>1
    <3>3. CASE at + add < i /\ i <= n + add
      <4>1. i \in 1 .. n + add /\ ~(i <= at) /\ ~(i <= at + add)
        BY <1>1, <3>3
      <4> QED
        BY <1>4, <1>5, <3>1, <3>3, <4>1
    <3>4. CASE n + add < i
      BY <1>1, <1>4, <3>1, <3>4
    <3>5. i <= at \/ (at + add < i /\ i <= n + add) \/ n + add < i
      BY ONLY <1>1, <2>2, i \in 1 .. room
    <3> QED
      BY <3>2, <3>3, <3>4, <3>5
  <2> QED
    BY <2>1, <2>2
<1>9. u \in Seq(Int) /\ Len(u) = room
  <2>1. \A i \in 1 .. room : u[i] \in Int
    BY <1>8
  <2>2. u \in [1 .. room -> Int]
    BY <1>6, <2>1
  <2> QED
    BY <1>1, <2>2
<1>10. Holds(u, w)
  BY <1>1, <1>5, <1>8, <1>9 DEF Holds
<1> QED
  BY <1>9, <1>10 DEF u, w, m, n, add, room

(* What the loop of an erasure has done after k steps: k objects have moved  *)
(* down by one, and the place of the last of them holds what is left there.  *)
Closed(values, room, at, k) ==
    {m \in [1 .. room -> Int] :
       \A i \in 1 .. room :
         /\ i < at => m[i] = values[i]
         /\ at <= i /\ i < at + k => m[i] = values[i + 1]
         /\ i = at + k => Memory!IsObject(m[i])
         /\ at + k < i /\ i <= Len(values) => m[i] = values[i]
         /\ Len(values) < i => m[i] = Memory!Raw}

(* One step of the loop that closes a gap: the next object moves down by     *)
(* one.                                                                      *)
LEMMA ShiftDownStep ==
  ASSUME NEW values, NEW room, NEW at, NEW k, NEW m,
         values \in Seq(Objs), room \in Nat, at \in 1 .. Len(values), Len(values) <= room,
         k \in 1 .. Len(values) - at, m \in Closed(values, room, at, k - 1)
  PROVE  MovedOver(m, at + k - 1, at + k) \in Closed(values, room, at, k)
<1> DEFINE n == Len(values)
           dst == at + k - 1
           src == at + k
           u == MovedOver(m, at + k - 1, at + k)
<1>1. /\ n \in Nat /\ room \in Nat /\ dst \in 1 .. n /\ src \in 1 .. n /\ src \in 1 .. room /\ dst \in 1 .. room
      /\ k \in Nat /\ k >= 1 /\ at \in 1 .. n /\ n <= room
      /\ at + k = src /\ at + (k - 1) = dst /\ src = dst + 1
  OBVIOUS
<1>2. ASSUME NEW i \in 1 .. room
      PROVE  /\ i < at => m[i] = values[i]
             /\ at <= i /\ i < at + (k - 1) => m[i] = values[i + 1]
             /\ i = at + (k - 1) => Memory!IsObject(m[i])
             /\ at + (k - 1) < i /\ i <= n => m[i] = values[i]
             /\ n < i => m[i] = Memory!Raw
  BY DEF Closed
<1>3. values[src] \in Objs /\ m \in [1 .. room -> Int]
  BY <1>1 DEF Closed
<1> HIDE DEF n, dst, src, u
<1>4. m[src] = values[src] /\ Memory!IsObject(m[dst])
  BY ONLY <1>1, <1>2
<1>5. u = Moving(m, dst, src) /\ u \in [1 .. room -> Int]
  <2>1. m \in [1 .. room -> Int] /\ src \in 1 .. room /\ dst \in 1 .. room /\ m[src] \in Objs
    <3>1. m \in [1 .. room -> Int] /\ m[src] = values[src] /\ values[src] \in Objs
      BY ONLY <1>3, <1>4
    <3>2. src \in 1 .. room /\ dst \in 1 .. room
      BY ONLY <1>1
    <3> QED
      BY ONLY <3>1, <3>2
  <2>2. /\ Moving(m, dst, src) \in [1 .. room -> Int]
        /\ Memory!IsObject(m[dst]) => MovedOver(m, dst, src) = Moving(m, dst, src)
    <3>1. MovesAnyWay(m, dst, src, room)
      BY ONLY <2>1, MoveFacts
    <3> QED
      BY ONLY <3>1 DEF MovesAnyWay
  <2> QED
    BY <1>4, <2>2 DEF u, dst, src
<1>6. \A i \in 1 .. room : u[i] = IF i = dst THEN values[src] ELSE IF i = src THEN Memory!Moved ELSE m[i]
  BY <1>1, <1>3, <1>4, <1>5 DEF Moving
<1>7. ASSUME NEW i \in 1 .. room
      PROVE  /\ i < at => u[i] = values[i]
             /\ at <= i /\ i < src => u[i] = values[i + 1]
             /\ i = src => Memory!IsObject(u[i])
             /\ src < i /\ i <= n => u[i] = values[i]
             /\ n < i => u[i] = Memory!Raw
  <2>1. Memory!IsObject(Memory!Moved)
    BY DEF Memory!IsObject
  <2>2. CASE i = dst
    <3>1. u[i] = values[i + 1] /\ ~(i < at) /\ i # src /\ ~(src < i) /\ ~(n < i)
      BY <1>1, <1>6, <2>2
    <3> QED
      BY ONLY <3>1
  <2>3. CASE i = src
    <3>1. u[i] = Memory!Moved /\ ~(i < at) /\ ~(i < src) /\ ~(src < i) /\ ~(n < i)
      BY <1>1, <1>6, <2>3
    <3> QED
      BY ONLY <2>1, <3>1
  <2>4. CASE i # dst /\ i # src
    <3>1. u[i] = m[i]
      BY <1>6, <2>4
    <3>2. /\ at <= i /\ i < src => i < at + (k - 1)
          /\ src < i => at + (k - 1) < i
      BY ONLY <1>1, <2>4, i \in 1 .. room
    <3> QED
      BY ONLY <1>2, <2>4, <3>1, <3>2, i \in 1 .. room
  <2> QED
    BY <2>2, <2>3, <2>4
<1> QED
  BY <1>1, <1>5, <1>7 DEF Closed, u, n

(* The loop of an erasure, and the last place given up.                     *)
LEMMA ShiftDownFacts ==
  ASSUME NEW cells, NEW values, NEW at, Holds(cells, values), at \in 1 .. Len(values)
  PROVE  /\ Holds(Memory!ShiftDown(cells, Len(values), at), RemoveAt(values, at))
         /\ Len(Memory!ShiftDown(cells, Len(values), at)) = Len(cells)
<1> DEFINE n == Len(values)
           N == n - at
           room == Len(cells)
           S == [1 .. room -> Int]
           G == [k \in 0 .. N |-> Closed(values, room, at, k)]
           after[k \in 0 .. N] == IF k = 0 THEN cells ELSE DownStep(after[k - 1], at, k)
           front == SubSeq(after[N], 1, n - 1)
           behind == SubSeq(cells, n + 1, room)
           u == Append(front, Memory!Raw) \o behind
           w == RemoveAt(values, at)
<1>1. Memory!ShiftDown(cells, n, at) = u
  BY DEF Memory!ShiftDown, DownStep, MovedOver
<1> HIDE DEF after
<1>2. /\ n \in Nat /\ room \in Nat /\ N \in Nat /\ N = n - at /\ n <= room /\ values \in Seq(Objs)
      /\ \A i \in 1 .. room : cells[i] = IF i <= n THEN values[i] ELSE Memory!Raw
      /\ cells \in [1 .. room -> Int] /\ at \in 1 .. n /\ cells \in Seq(Int)
  BY DEF Holds
<1>3. cells \in G[0]
  <2>1. values[at] \in Objs
    BY <1>2
  <2>2. Memory!IsObject(values[at])
    BY <2>1, ObjectFacts
  <2>3. cells \in Closed(values, room, at, 0)
    <3> HIDE DEF N
    <3> QED
      BY <1>2, <2>2 DEF Closed
  <2> QED
    BY <1>2, <2>3
<1>4. \A k \in 0 .. N : G[k] \subseteq S
  BY DEF Closed
<1>5. ASSUME NEW k \in 1 .. N, NEW m \in G[k - 1]
      PROVE  DownStep(m, at, k) \in G[k]
  <2>1. k - 1 \in 0 .. N /\ k \in 0 .. N /\ k \in 1 .. Len(values) - at
    BY <1>2
  <2>2. m \in Closed(values, room, at, k - 1)
    BY <1>5, <2>1
  <2>3. MovedOver(m, at + k - 1, at + k) \in Closed(values, room, at, k)
    BY <1>2, <2>1, <2>2, ShiftDownStep
  <2> QED
    BY <2>1, <2>3 DEF DownStep
<1> HIDE DEF n, N, room, S, G
<1>6. after = [k \in 0 .. N |-> IF k = 0 THEN cells ELSE DownStep(after[k - 1], at, k)]
  <2> DEFINE step == [x \in (1 .. N) \X S |-> DownStep(x[2], at, x[1])]
  <2>1. \A k \in 1 .. N, m \in S : step[<<k, m>>] = DownStep(m, at, k)
    OBVIOUS
  <2> HIDE DEF step
  <2>2. \A k \in 1 .. N : k \in 0 .. N /\ k - 1 \in 0 .. N
    BY <1>2
  <2>3. LoopSteps(N, S, G, cells, step)
    BY <1>2, <1>3, <1>4, <1>5, <2>1, <2>2 DEF LoopSteps
  <2>4. PICK f \in [0 .. N -> S] : f[0] = cells /\ \A k \in 1 .. N : f[k] = step[<<k, f[k - 1]>>]
    BY <2>3, Recursion DEF LoopRuns
  <2>5. \A k \in 1 .. N : f[k] = DownStep(f[k - 1], at, k)
    BY <2>1, <2>2, <2>4
  <2>6. f = [k \in 0 .. N |-> IF k = 0 THEN cells ELSE DownStep(f[k - 1], at, k)]
    BY <1>2, <2>4, <2>5
  <2> QED
    BY <2>6, Zenon DEF after
<1>7. after[0] = cells /\ \A k \in 0 .. N - 1 : after[k + 1] = DownStep(after[k], at, k + 1)
  <2>1. \A k \in 0 .. N - 1 : k + 1 \in 0 .. N /\ k + 1 # 0 /\ (k + 1) - 1 = k
    BY <1>2
  <2>2. 0 \in 0 .. N
    BY <1>2
  <2> QED
    BY <1>6, <2>1, <2>2
<1>8. \A k \in 0 .. N - 1 : after[k] \in G[k] => after[k + 1] \in G[k + 1]
  <2> SUFFICES ASSUME NEW k \in 0 .. N - 1, after[k] \in G[k]
               PROVE  DownStep(after[k], at, k + 1) \in G[k + 1]
    BY <1>7
  <2>1. k + 1 \in 1 .. N /\ (k + 1) - 1 = k
    BY <1>2
  <2> QED
    BY <1>5, <2>1
<1>9. after[N] \in Closed(values, room, at, N)
  <2>1. \A k \in 0 .. N : after[k] \in G[k]
    BY <1>2, <1>3, <1>7, <1>8, LoopInduction
  <2>2. N \in 0 .. N
    BY <1>2
  <2> QED
    BY <2>1, <2>2 DEF G
<1> DEFINE last == after[N]
<1>10. /\ last \in [1 .. room -> Int]
       /\ \A i \in 1 .. n - 1 : last[i] = IF i < at THEN values[i] ELSE values[i + 1]
  <2>1. at + N = n
    BY <1>2
  <2>2. /\ last \in [1 .. room -> Int]
        /\ \A i \in 1 .. room : /\ i < at => last[i] = values[i]
                                /\ at <= i /\ i < n => last[i] = values[i + 1]
    BY <1>9, <2>1 DEF Closed
  <2> HIDE DEF last
  <2>3. ASSUME NEW i \in 1 .. n - 1
        PROVE  i \in 1 .. room /\ i < n /\ (i < at \/ at <= i)
    BY ONLY <1>2, i \in 1 .. n - 1
  <2> QED
    BY <2>2, <2>3
<1>11. front \in Seq(Int) /\ Len(front) = n - 1 /\ \A i \in 1 .. n - 1 : front[i] = last[i]
  <2>1. last \in Seq(Int) /\ Len(last) = room
    BY <1>2, <1>10
  <2> HIDE DEF last
  <2>2. SubSeq(last, 1, n - 1) \in Seq(Int) /\ Len(SubSeq(last, 1, n - 1)) = n - 1
        /\ \A i \in 1 .. n - 1 : SubSeq(last, 1, n - 1)[i] = last[i]
    <3>1. n - 1 \in Nat /\ n - 1 <= Len(last)
      BY <1>2, <2>1
    <3> QED
      BY ONLY <2>1, <3>1
  <2> QED
    BY <2>2 DEF last, front
<1>12. /\ behind \in Seq(Int) /\ Len(behind) = room - n
       /\ \A i \in 1 .. room - n : behind[i] = cells[n + i]
  <2>1. cells \in Seq(Int) /\ Len(cells) = room /\ n \in Nat /\ room \in Nat /\ n <= room
    BY <1>2 DEF room
  <2>2. /\ SubSeq(cells, n + 1, room) \in Seq(Int) /\ Len(SubSeq(cells, n + 1, room)) = room - n
        /\ \A i \in 1 .. room - n : SubSeq(cells, n + 1, room)[i] = cells[n + i]
    BY ONLY <2>1
  <2> QED
    BY <2>2
<1> HIDE DEF last, front, behind
<1>13. /\ Append(front, Memory!Raw) \in Seq(Int) /\ Len(Append(front, Memory!Raw)) = n
       /\ \A i \in 1 .. n : Append(front, Memory!Raw)[i] = IF i < n THEN front[i] ELSE Memory!Raw
  BY <1>2, <1>11 DEF Memory!Raw
<1> DEFINE b == Append(front, Memory!Raw)
<1> HIDE DEF b
<1>14. /\ u \in Seq(Int) /\ Len(u) = room
       /\ \A i \in 1 .. room : u[i] = IF i <= n THEN b[i] ELSE behind[i - n]
  <2>1. b \in Seq(Int) /\ Len(b) = n
    BY <1>13 DEF b
  <2>2. /\ b \o behind \in Seq(Int) /\ Len(b \o behind) = n + (room - n)
        /\ \A i \in 1 .. n + (room - n) : (b \o behind)[i] = IF i <= n THEN b[i] ELSE behind[i - n]
    <3>1. b \in Seq(Int) /\ behind \in Seq(Int)
      BY <1>12, <2>1
    <3>2. /\ b \o behind \in Seq(Int) /\ Len(b \o behind) = Len(b) + Len(behind)
          /\ \A i \in 1 .. Len(b) + Len(behind) :
                (b \o behind)[i] = IF i <= Len(b) THEN b[i] ELSE behind[i - Len(b)]
      BY ONLY <3>1, ConcatFacts
    <3>3. Len(b) = n /\ Len(behind) = room - n
      BY <1>12, <2>1
    <3> QED
      BY ONLY <3>2, <3>3
  <2>3. n + (room - n) = room
    BY ONLY <1>2
  <2> QED
    BY <2>2, <2>3 DEF b
<1>15. /\ w \in Seq(Objs) /\ Len(w) = n - 1
       /\ \A i \in 1 .. n - 1 : w[i] = IF i < at THEN values[i] ELSE values[i + 1]
  BY <1>2, RemoveAtFacts DEF n
<1> HIDE DEF u, w
<1>16. ASSUME NEW i \in 1 .. room
       PROVE  u[i] = IF i <= n - 1 THEN w[i] ELSE Memory!Raw
  <2>1. CASE i <= n - 1
    <3>1. i \in 1 .. n - 1 /\ i \in 1 .. n /\ i < n /\ i <= n
      BY ONLY <1>2, <2>1, i \in 1 .. room
    <3> QED
      BY <1>10, <1>11, <1>13, <1>14, <1>15, <2>1, <3>1 DEF b
  <2>2. CASE i = n
    <3>1. i \in 1 .. n /\ ~(i < n) /\ i <= n /\ ~(i <= n - 1)
      BY ONLY <1>2, <2>2, i \in 1 .. room
    <3> QED
      BY <1>13, <1>14, <3>1 DEF b
  <2>3. CASE n < i
    <3>1. i - n \in 1 .. room - n /\ n + (i - n) = i /\ ~(i <= n) /\ ~(i <= n - 1)
      BY ONLY <1>2, <2>3, i \in 1 .. room
    <3> QED
      BY <1>2, <1>12, <1>14, <3>1
  <2> QED
    BY <1>2, <2>1, <2>2, <2>3
<1>17. Holds(u, w)
  BY <1>2, <1>14, <1>15, <1>16 DEF Holds
<1> QED
  BY <1>1, <1>14, <1>17 DEF n, w, room

(* The values are what the first places hold.                               *)
LEMMA ValuesFacts ==
  ASSUME NEW cells, NEW values, Holds(cells, values)
  PROVE  Memory!Values(cells, Len(values)) = values
<1>1. /\ cells \in Seq(Int) /\ values \in Seq(Objs) /\ Len(values) <= Len(cells)
      /\ \A i \in 1 .. Len(values) : cells[i] = values[i]
  BY DEF Holds
<1> DEFINE s == SubSeq(cells, 1, Len(values))
<1>2. s \in Seq(Int) /\ Len(s) = Len(values) /\ \A i \in 1 .. Len(values) : s[i] = cells[i]
  BY <1>1
<1> HIDE DEF s
<1>3. s = values
  <2>1. values \in Seq(Int)
    <3>1. Objs \subseteq Int
      BY ONLY ObjectFacts
    <3> QED BY ONLY <1>1, <3>1, SeqMonotonic
  <2>2. \A i \in 1 .. Len(s) : s[i] = values[i]
    BY ONLY <1>1, <1>2
  <2> QED BY ONLY <1>2, <2>1, <2>2, SeqEqual
<1> QED
  BY <1>3 DEF Memory!Values, s

(* An object is constructed behind the last one.                            *)
LEMMA BehindFacts ==
  ASSUME NEW cells, NEW values, NEW value, Holds(cells, values), value \in Objs, Len(values) + 1 <= Len(cells)
  PROVE  Holds([cells EXCEPT ![Len(values) + 1] = Memory!Construct(@, value)], Append(values, value))
<1> DEFINE n == Len(values)
           u == [cells EXCEPT ![n + 1] = Memory!Construct(@, value)]
           w == Append(values, value)
<1>1. /\ n \in Nat /\ n + 1 \in 1 .. Len(cells) /\ cells \in Seq(Int) /\ values \in Seq(Objs)
      /\ \A i \in 1 .. Len(cells) : cells[i] = IF i <= n THEN values[i] ELSE Memory!Raw
  BY DEF Holds
<1>2. value \in Int /\ Memory!IsObject(value)
  BY ObjectFacts
<1>3. Memory!Construct(cells[n + 1], value) = value
  BY <1>1, <1>2 DEF Memory!Construct
<1>4. u = [cells EXCEPT ![n + 1] = value]
  BY <1>3
<1>5. w \in Seq(Objs) /\ Len(w) = n + 1 /\ \A i \in 1 .. n + 1 : w[i] = IF i <= n THEN values[i] ELSE value
  BY <1>1
<1>6. u \in Seq(Int) /\ Len(u) = Len(cells) /\ \A i \in 1 .. Len(cells) : u[i] = IF i = n + 1 THEN value ELSE cells[i]
  BY <1>1, <1>2, <1>4
<1> HIDE DEF n, u, w
<1>7. ASSUME NEW i \in 1 .. Len(cells)
      PROVE  u[i] = IF i <= n + 1 THEN w[i] ELSE Memory!Raw
  <2>1. (i <= n + 1 => i \in 1 .. n + 1) /\ (i <= n + 1 /\ i # n + 1 => i <= n) /\ (~(i <= n + 1) => ~(i <= n) /\ i # n + 1)
        /\ (i = n + 1 => i <= n + 1 /\ ~(i <= n))
    BY ONLY <1>1, i \in 1 .. Len(cells)
  <2> QED
    BY <1>1, <1>5, <1>6, <2>1
<1>8. Len(w) <= Len(u) /\ \A i \in 1 .. Len(u) : u[i] = IF i <= Len(w) THEN w[i] ELSE Memory!Raw
  BY <1>1, <1>5, <1>6, <1>7
<1>9. Holds(u, w)
  BY <1>5, <1>6, <1>8 DEF Holds
<1> QED
  BY <1>9 DEF u, w, n

(* The last object is destroyed.                                            *)
LEMMA LastFacts ==
  ASSUME NEW cells, NEW values, Holds(cells, values), Len(values) > 0
  PROVE  Holds([cells EXCEPT ![Len(values)] = Memory!Destroy(@)], Front(values))
<1> DEFINE n == Len(values)
           u == [cells EXCEPT ![n] = Memory!Destroy(@)]
           w == Front(values)
<1>1. /\ n \in Nat /\ n \in 1 .. Len(cells) /\ n \in 1 .. n /\ cells \in Seq(Int) /\ values \in Seq(Objs)
      /\ \A i \in 1 .. Len(cells) : cells[i] = IF i <= n THEN values[i] ELSE Memory!Raw
  BY DEF Holds
<1>2. cells[n] \in Objs
  BY <1>1
<1>3. Memory!Destroy(cells[n]) = Memory!Raw /\ Memory!Raw \in Int
  BY <1>2, ObjectFacts DEF Memory!Destroy
<1>4. u = [cells EXCEPT ![n] = Memory!Raw]
  BY <1>3
<1>5. w \in Seq(Objs) /\ Len(w) = n - 1 /\ \A i \in 1 .. n - 1 : w[i] = values[i]
  BY <1>1, FrontFacts
<1>6. u \in Seq(Int) /\ Len(u) = Len(cells) /\ \A i \in 1 .. Len(cells) : u[i] = IF i = n THEN Memory!Raw ELSE cells[i]
  BY <1>1, <1>3, <1>4
<1> HIDE DEF n, u, w
<1>7. ASSUME NEW i \in 1 .. Len(cells)
      PROVE  u[i] = IF i <= n - 1 THEN w[i] ELSE Memory!Raw
  BY <1>1, <1>5, <1>6
<1>8. Holds(u, w)
  BY <1>1, <1>5, <1>6, <1>7 DEF Holds
<1> QED
  BY <1>8 DEF u, w, n

(* All are destroyed: nothing is left in the block.                         *)
LEMMA DestructFacts ==
  ASSUME NEW cells, NEW values, Holds(cells, values)
  PROVE  /\ Holds(Memory!destruct_range(cells, 1, Len(values)), <<>>)
         /\ Memory!Occupied(Memory!destruct_range(cells, 1, Len(values))) = {}
         /\ Len(Memory!destruct_range(cells, 1, Len(values))) = Len(cells)
<1> DEFINE n == Len(values)
           u == Memory!destruct_range(cells, 1, n)
<1>1. /\ n \in Nat /\ Len(cells) \in Nat /\ cells \in Seq(Int) /\ values \in Seq(Objs) /\ DOMAIN cells = 1 .. Len(cells)
      /\ \A i \in 1 .. Len(cells) : cells[i] = IF i <= n THEN values[i] ELSE Memory!Raw
  BY DEF Holds
<1>2. u = [i \in 1 .. Len(cells) |-> IF i \in 1 .. n THEN Memory!Destroy(cells[i]) ELSE cells[i]]
  BY <1>1 DEF Memory!destruct_range
<1> HIDE DEF u
<1>3. ASSUME NEW i \in 1 .. Len(cells)
      PROVE  u[i] = Memory!Raw
  <2>1. CASE i <= n
    <3>1. cells[i] \in Objs
      BY <1>1, <2>1
    <3>2. Memory!Destroy(cells[i]) = Memory!Raw
      BY <3>1, ObjectFacts DEF Memory!Destroy
    <3> QED
      BY <1>1, <1>2, <2>1, <3>2
  <2>2. CASE ~(i <= n)
    BY <1>1, <1>2, <2>2
  <2> QED
    BY <2>1, <2>2
<1>4. Memory!Raw \in Int
  BY DEF Memory!Raw
<1>5. u \in Seq(Int) /\ Len(u) = Len(cells) /\ DOMAIN u = 1 .. Len(cells)
  <2>1. u \in [1 .. Len(cells) -> Int]
    BY <1>2, <1>3, <1>4
  <2> QED
    BY <1>1, <2>1
<1>6. Holds(u, <<>>)
  <2>1. <<>> \in Seq(Objs) /\ Len(<<>>) = 0
    OBVIOUS
  <2>2. \A i \in 1 .. Len(u) : u[i] = IF i <= 0 THEN <<>>[i] ELSE Memory!Raw
    BY <1>3, <1>5
  <2> QED
    BY <1>1, <1>5, <2>1, <2>2 DEF Holds
<1>7. Memory!Occupied(u) = {}
  BY <1>3, <1>5 DEF Memory!Occupied
<1> QED
  BY <1>5, <1>6, <1>7 DEF u, n

-----------------------------------------------------------------------------
(* InsertAt adds one element.                                               *)
LEMMA InsertedElements ==
  ASSUME NEW S, NEW s \in Seq(S), NEW i \in 1 .. Len(s) + 1, NEW e \in S
  PROVE  \A j \in 1 .. Len(InsertAt(s, i, e)) :
           InsertAt(s, i, e)[j] = e \/ \E k \in 1 .. Len(s) : InsertAt(s, i, e)[j] = s[k]
<1>1. /\ Len(InsertAt(s, i, e)) = Len(s) + 1
      /\ \A j \in 1 .. Len(s) + 1 :
           InsertAt(s, i, e)[j] = IF j < i THEN s[j] ELSE IF j = i THEN e ELSE s[j - 1]
  BY InsertAtFacts
<1> QED
  BY <1>1

(* What InsertAt puts at one place of a sequence.                           *)
LEMMA InsertedPlace ==
  ASSUME NEW S, NEW s \in Seq(S), NEW i \in 1 .. Len(s) + 1, NEW e \in S, NEW j \in 1 .. Len(s) + 1
  PROVE  InsertAt(s, i, e)[j] = IF j < i THEN s[j] ELSE IF j = i THEN e ELSE s[j - 1]
<1>1. \A k \in 1 .. Len(s) + 1 :
        InsertAt(s, i, e)[k] = IF k < i THEN s[k] ELSE IF k = i THEN e ELSE s[k - 1]
  BY InsertAtFacts
<1> QED
  BY ONLY <1>1, j \in 1 .. Len(s) + 1

(* Append and <<e>> \o s insert at the ends.                                *)
LEMMA InsertedAtEnds ==
  ASSUME NEW S, NEW s \in Seq(S), NEW e \in S
  PROVE  Append(s, e) = InsertAt(s, Len(s) + 1, e) /\ <<e>> \o s = InsertAt(s, 1, e)
<1>1. Len(s) + 1 \in 1 .. Len(s) + 1 /\ 1 \in 1 .. Len(s) + 1
  OBVIOUS
<1> DEFINE back == InsertAt(s, Len(s) + 1, e)
           front == InsertAt(s, 1, e)
<1>2. /\ back \in Seq(S) /\ Len(back) = Len(s) + 1
      /\ \A j \in 1 .. Len(s) + 1 : back[j] = IF j = Len(s) + 1 THEN e ELSE s[j]
  <2>1. back \in Seq(S)
    BY <1>1, InsertAtFacts
  <2>2. Len(back) = Len(s) + 1
    BY <1>1, InsertAtFacts
  <2>3. ASSUME NEW j \in 1 .. Len(s) + 1
        PROVE  back[j] = IF j = Len(s) + 1 THEN e ELSE s[j]
    <3>1. back[j] = IF j < Len(s) + 1 THEN s[j] ELSE IF j = Len(s) + 1 THEN e ELSE s[j - 1]
      BY <1>1, InsertedPlace
    <3> QED
      BY <3>1
  <2> QED
    BY <2>1, <2>2, <2>3
<1>3. /\ front \in Seq(S) /\ Len(front) = Len(s) + 1
      /\ \A j \in 1 .. Len(s) + 1 : front[j] = IF j = 1 THEN e ELSE s[j - 1]
  <2>1. front \in Seq(S)
    BY <1>1, InsertAtFacts
  <2>2. Len(front) = Len(s) + 1
    BY <1>1, InsertAtFacts
  <2>3. ASSUME NEW j \in 1 .. Len(s) + 1
        PROVE  front[j] = IF j = 1 THEN e ELSE s[j - 1]
    <3>1. front[j] = IF j < 1 THEN s[j] ELSE IF j = 1 THEN e ELSE s[j - 1]
      BY <1>1, InsertedPlace
    <3> QED
      BY <3>1
  <2> QED
    BY <2>1, <2>2, <2>3
<1> HIDE DEF back, front
<1>4. Append(s, e) = back
  <2>1. /\ Append(s, e) \in Seq(S) /\ Len(Append(s, e)) = Len(s) + 1
        /\ \A j \in 1 .. Len(s) + 1 : Append(s, e)[j] = IF j = Len(s) + 1 THEN e ELSE s[j]
    OBVIOUS
  <2>2. \A j \in 1 .. Len(Append(s, e)) : Append(s, e)[j] = back[j]
    BY <1>2, <2>1
  <2> QED
    BY <1>2, <2>1, <2>2, SeqEqual
<1>5. <<e>> \o s = front
  <2>1. /\ <<e>> \o s \in Seq(S) /\ Len(<<e>> \o s) = Len(s) + 1
        /\ \A j \in 1 .. Len(s) + 1 : (<<e>> \o s)[j] = IF j = 1 THEN e ELSE s[j - 1]
    OBVIOUS
  <2>2. \A j \in 1 .. Len(<<e>> \o s) : (<<e>> \o s)[j] = front[j]
    BY <1>3, <2>1
  <2> QED
    BY <1>3, <2>1, <2>2, SeqEqual
<1> QED
  BY <1>4, <1>5 DEF back, front

(* A sequence that is made longer: k places in all, unless it has more.     *)
Longer(values, k, value) == values \o [i \in 1 .. k - Len(values) |-> value]

(* The loop of resize appends one value after the other.                     *)
LEMMA LongerFacts ==
  ASSUME NEW S, NEW values, NEW k, NEW value, values \in Seq(S), value \in S, k \in Nat
  PROVE  /\ Longer(values, k, value) \in Seq(S)
         /\ k <= Len(values) => Longer(values, k, value) = values
         /\ k >= Len(values) => Longer(values, k + 1, value) = Append(Longer(values, k, value), value)
<1> DEFINE n == Len(values)
           more(j) == [i \in 1 .. j - n |-> value]
<1>1. n \in Nat /\ \A j \in Nat : j - n \in Int
  OBVIOUS
<1>2. ASSUME NEW j, j \in Nat
      PROVE  more(j) \in Seq(S) /\ (j >= n => Len(more(j)) = j - n) /\ (j <= n => more(j) = <<>>)
  <2>1. CASE j >= n
    <3>1. j - n \in Nat
      BY <1>1, <1>2, <2>1
    <3>2. more(j) \in Seq(S) /\ Len(more(j)) = j - n
      BY <3>1
    <3>3. j <= n => more(j) = <<>>
      BY <1>1, <1>2, <2>1, <3>2
    <3> QED
      BY <2>1, <3>2, <3>3
  <2>2. CASE ~(j >= n)
    <3>1. 1 .. j - n = {}
      BY <1>1, <1>2, <2>2
    <3>2. more(j) = <<>>
      BY <3>1
    <3>3. <<>> \in Seq(S)
      OBVIOUS
    <3> HIDE DEF more
    <3> QED
      BY <2>2, <3>2, <3>3
  <2> QED
    BY <2>1, <2>2
<1>3. Longer(values, k, value) \in Seq(S)
  <2>1. more(k) \in Seq(S)
    BY <1>2
  <2> HIDE DEF more
  <2>2. values \o more(k) \in Seq(S)
    BY <2>1
  <2> QED
    BY <2>2 DEF Longer, more
<1>4. ASSUME k <= n
      PROVE  Longer(values, k, value) = values
  <2>1. more(k) = <<>>
    BY <1>2, <1>4
  <2> HIDE DEF more
  <2>2. values \o more(k) = values
    BY <2>1
  <2> QED
    BY <2>2 DEF Longer, more
<1>5. ASSUME k >= n
      PROVE  Longer(values, k + 1, value) = Append(Longer(values, k, value), value)
  <2>1. /\ more(k) \in Seq(S) /\ Len(more(k)) = k - n /\ more(k + 1) \in Seq(S) /\ Len(more(k + 1)) = k + 1 - n
        /\ k + 1 \in Nat /\ k - n \in Nat
    <3>1. k + 1 \in Nat /\ k + 1 >= n
      BY <1>1, <1>5
    <3> QED
      BY <1>1, <1>2, <1>5, <3>1
  <2>2. \A i \in 1 .. k + 1 - n : more(k + 1)[i] = value
    OBVIOUS
  <2>3. \A i \in 1 .. k - n : more(k)[i] = value
    OBVIOUS
  <2> HIDE DEF more
  <2> DEFINE p == values \o more(k + 1)
             q == values \o more(k)
  <2>4. /\ p \in Seq(S) /\ Len(p) = k + 1
        /\ \A i \in 1 .. k + 1 : p[i] = IF i <= n THEN values[i] ELSE value
    <3>1. /\ p \in Seq(S) /\ Len(p) = n + Len(more(k + 1))
          /\ \A j \in 1 .. n + Len(more(k + 1)) : p[j] = IF j <= n THEN values[j] ELSE more(k + 1)[j - n]
      BY <2>1, ConcatFacts
    <3>2. n + Len(more(k + 1)) = k + 1
      BY <1>1, <2>1
    <3> HIDE DEF p, n
    <3>3. \A j \in 1 .. k + 1 : ~(j <= n) => j - n \in 1 .. k + 1 - n
      BY ONLY <1>1, k \in Nat
    <3> QED
      BY <2>2, <3>1, <3>2, <3>3
  <2>5. /\ q \in Seq(S) /\ Len(q) = k
        /\ \A i \in 1 .. k : q[i] = IF i <= n THEN values[i] ELSE value
    <3>1. /\ q \in Seq(S) /\ Len(q) = n + Len(more(k))
          /\ \A j \in 1 .. n + Len(more(k)) : q[j] = IF j <= n THEN values[j] ELSE more(k)[j - n]
      BY <2>1, ConcatFacts
    <3>2. n + Len(more(k)) = k
      BY <1>1, <2>1
    <3> HIDE DEF q, n
    <3>3. \A j \in 1 .. k : ~(j <= n) => j - n \in 1 .. k - n
      BY ONLY <1>1, k \in Nat
    <3> QED
      BY <2>3, <3>1, <3>2, <3>3
  <2> HIDE DEF p, q
  <2>6. p = Append(q, value)
    <3> DEFINE r == Append(q, value)
    <3>1. r \in Seq(S) /\ Len(r) = k + 1 /\ \A i \in 1 .. k + 1 : r[i] = IF i <= k THEN q[i] ELSE value
      BY <2>5
    <3> HIDE DEF r
    <3>2. \A i \in 1 .. k + 1 : r[i] = p[i]
      <4>1. ASSUME NEW i \in 1 .. k + 1
            PROVE  (i <= k => i \in 1 .. k) /\ (~(i <= k) => ~(i <= n))
        BY ONLY <1>1, <1>5, i \in 1 .. k + 1, k \in Nat
      <4> QED
        BY <2>4, <2>5, <3>1, <4>1
    <3>3. r = p
      BY <2>4, <3>1, <3>2
    <3> QED
      BY <3>3 DEF r
  <2> QED
    BY <2>6 DEF p, q, Longer, more
<1> QED
  BY <1>3, <1>4, <1>5

-----------------------------------------------------------------------------
(* Sequences in which nothing occurs twice.                                 *)
Members(c) == {c[i] : i \in 1 .. Len(c)}
Single(c, S) == c \in Seq(S) /\ \A i, j \in 1 .. Len(c) : c[i] = c[j] => i = j

(* They are no longer than their set is large.                              *)
LEMMA SingleFacts ==
  ASSUME NEW S, IsFiniteSet(S), NEW c, Single(c, S)
  PROVE  /\ Len(c) \in Nat /\ Len(c) <= Cardinality(S) /\ Cardinality(S) \in Nat
         /\ Cardinality(Members(c)) = Len(c)
<1> DEFINE I == 1 .. Len(c)
           M == Members(c)
           f == [i \in I |-> c[i]]
<1>1. Len(c) \in Nat /\ \A i \in I : c[i] \in S /\ f[i] = c[i]
  BY DEF Single
<1>2. IsFiniteSet(I) /\ Cardinality(I) = Len(c)
  <2>1. 1 \in Int /\ Len(c) \in Int /\ Len(c) >= 0
    BY <1>1
  <2>2. IsFiniteSet(1 .. Len(c)) /\ Cardinality(1 .. Len(c)) = IF 1 > Len(c) THEN 0 ELSE Len(c) - 1 + 1
    BY ONLY <2>1, FS_Interval
  <2> QED
    BY ONLY <2>1, <2>2
<1>3. f \in Bijection(I, M)
  <2>1. \A i, j \in I : f[i] = f[j] => i = j
    BY <1>1 DEF Single
  <2>2. f \in [I -> M] /\ \A m \in M : \E i \in I : f[i] = m
    BY DEF Members
  <2> QED
    BY <2>1, <2>2 DEF Bijection, Injection, Surjection, IsInjective
<1>4. f \in Injection(I, S)
  <2>1. \A i, j \in I : f[i] = f[j] => i = j
    BY <1>1 DEF Single
  <2>2. f \in [I -> S]
    BY <1>1
  <2> QED
    BY <2>1, <2>2 DEF Injection, IsInjective
<1> HIDE DEF I, M, f
<1>5. Cardinality(M) = Cardinality(I)
  BY <1>2, <1>3, FS_Bijection DEF ExistsBijection
<1>6. Cardinality(I) <= Cardinality(S)
  BY <1>4, FS_Injection
<1>7. Cardinality(S) \in Nat
  BY FS_CardinalityType
<1> QED
  BY <1>1, <1>2, <1>5, <1>6, <1>7 DEF M

(* Something new goes behind the others, something goes from among them.    *)
LEMMA SingleAppend ==
  ASSUME NEW S, NEW e, Single(e, S), NEW b \in S, b \notin Members(e)
  PROVE  Single(Append(e, b), S) /\ Members(Append(e, b)) = Members(e) \cup {b} /\ Len(Append(e, b)) = Len(e) + 1
<1> DEFINE u == Append(e, b)
           L == Len(e)
<1>1. e \in Seq(S) /\ L \in Nat /\ \A i, j \in 1 .. L : e[i] = e[j] => i = j
  BY DEF Single
<1>2. u \in Seq(S) /\ Len(u) = L + 1 /\ u[L + 1] = b /\ \A i \in 1 .. L : u[i] = e[i]
  BY <1>1
<1>3. \A i : i \in 1 .. L + 1 <=> i \in 1 .. L \/ i = L + 1
  BY <1>1
<1>4. \A i \in 1 .. L : e[i] # b
  BY DEF Members
<1> HIDE DEF u, L
<1>5. Single(u, S)
  BY <1>1, <1>2, <1>3, <1>4 DEF Single
<1>6. Members(u) = {u[i] : i \in 1 .. L + 1} /\ Members(e) = {e[i] : i \in 1 .. L}
  BY <1>2 DEF Members, L
<1>7. Members(u) = Members(e) \cup {b}
  BY <1>2, <1>3, <1>6
<1> QED
  BY <1>2, <1>5, <1>7 DEF u, L

LEMMA SingleRemove ==
  ASSUME NEW S, NEW e, Single(e, S), NEW i \in 1 .. Len(e)
  PROVE  /\ Single(RemoveAt(e, i), S) /\ Members(RemoveAt(e, i)) = Members(e) \ {e[i]}
         /\ Len(RemoveAt(e, i)) = Len(e) - 1
<1> DEFINE u == RemoveAt(e, i)
           L == Len(e)
           at(j) == IF j < i THEN j ELSE j + 1
<1>1. e \in Seq(S) /\ L \in Nat /\ \A j, k \in 1 .. L : e[j] = e[k] => j = k
  BY DEF Single
<1>2. u \in Seq(S) /\ Len(u) = L - 1 /\ \A j \in 1 .. L - 1 : u[j] = e[at(j)]
  BY <1>1, RemoveAtFacts
<1>3. /\ \A j \in 1 .. L - 1 : at(j) \in 1 .. L /\ at(j) # i
      /\ \A j, k \in 1 .. L - 1 : at(j) = at(k) => j = k
      /\ \A j \in 1 .. L : j # i => \E k \in 1 .. L - 1 : at(k) = j
  <2>1. ASSUME NEW j \in 1 .. L, j # i
        PROVE  \E k \in 1 .. L - 1 : at(k) = j
    <3>1. CASE j < i
      <4>1. j \in 1 .. L - 1 /\ at(j) = j
        BY <1>1, <3>1
      <4> QED
        BY <4>1
    <3>2. CASE j > i
      <4>1. j - 1 \in 1 .. L - 1 /\ at(j - 1) = j
        BY <1>1, <3>2
      <4> QED
        BY <4>1
    <3> QED
      BY <1>1, <2>1, <3>1, <3>2
  <2> QED
    BY <1>1, <2>1
<1> HIDE DEF u, L, at
<1>4. Single(u, S)
  <2> SUFFICES ASSUME NEW j \in 1 .. L - 1, NEW k \in 1 .. L - 1, u[j] = u[k]
               PROVE  j = k
    BY <1>2 DEF Single
  <2>1. e[at(j)] = e[at(k)] /\ at(j) \in 1 .. L /\ at(k) \in 1 .. L
    BY <1>2, <1>3
  <2>2. at(j) = at(k)
    BY <1>1, <2>1
  <2> QED
    BY <1>3, <2>2
<1>5. Members(u) = {u[j] : j \in 1 .. L - 1} /\ Members(e) = {e[j] : j \in 1 .. L}
  BY <1>2 DEF Members, L
<1>6. i \in 1 .. L
  BY DEF L
<1>7. Members(u) = Members(e) \ {e[i]}
  <2>1. ASSUME NEW x \in Members(u)
        PROVE  x \in Members(e) \ {e[i]}
    <3>1. PICK j \in 1 .. L - 1 : x = u[j]
      BY <1>5, <2>1
    <3>2. x = e[at(j)] /\ at(j) \in 1 .. L /\ at(j) # i
      BY <1>2, <1>3, <3>1
    <3> QED
      BY <1>1, <1>5, <1>6, <3>2
  <2>2. ASSUME NEW x \in Members(e) \ {e[i]}
        PROVE  x \in Members(u)
    <3>1. PICK j \in 1 .. L : x = e[j] /\ j # i
      BY <1>5, <2>2
    <3> QED
      BY <1>2, <1>3, <1>5, <3>1
  <2> QED
    BY <2>1, <2>2
<1> QED
  BY <1>2, <1>4, <1>7 DEF u, L

(* A list that is linked through next from its head on; 0 is null.          *)
LinkedFrom(head, next, c) ==
    /\ head = IF Len(c) = 0 THEN 0 ELSE c[1]
    /\ \A i \in 1 .. Len(c) : next[c[i]] = IF i = Len(c) THEN 0 ELSE c[i + 1]

(* Link by link the walk meets them all.                                    *)
Walk(head, next, N) ==
    LET block[k \in 0 .. N] == IF k = 0 THEN head ELSE IF block[k - 1] = 0 THEN 0 ELSE next[block[k - 1]]
    IN  {block[k] : k \in 0 .. N} \ {0}

LEMMA WalkFacts ==
  ASSUME NEW S, 0 \notin S, NEW head, NEW next, NEW c, Single(c, S), LinkedFrom(head, next, c), NEW N \in Nat, Len(c) <= N
  PROVE  Walk(head, next, N) = Members(c)
<1> DEFINE L == Len(c)
           T == S \cup {0}
           At(k) == IF k < L THEN c[k + 1] ELSE 0
           G == [k \in 0 .. N |-> {At(k)}]
           after(b) == IF b = 0 THEN 0 ELSE next[b]
           block[k \in 0 .. N] == IF k = 0 THEN head ELSE IF block[k - 1] = 0 THEN 0 ELSE next[block[k - 1]]
<1> HIDE DEF block
<1>1. L \in Nat /\ N \in Nat /\ L <= N
  BY DEF Single
<1>2. \A i \in 1 .. L : c[i] \in S /\ c[i] # 0 /\ next[c[i]] = IF i = L THEN 0 ELSE c[i + 1]
  BY DEF LinkedFrom, Single
<1>3. \A k \in 0 .. N : G[k] = {At(k)} /\ At(k) \in T
  <2>1. \A k \in 0 .. N : k < L => k + 1 \in 1 .. L
    BY <1>1
  <2> HIDE DEF L
  <2> QED
    BY <1>2, <2>1
<1>4. head = At(0)
  <2>1. head = IF L = 0 THEN 0 ELSE c[1]
    BY DEF LinkedFrom
  <2>2. 0 < L <=> L # 0
    BY <1>1
  <2> HIDE DEF L
  <2> QED
    BY <2>1, <2>2
<1>5. \A k \in 1 .. N : after(At(k - 1)) = At(k)
  <2> TAKE k \in 1 .. N
  <2> HIDE DEF L
  <2>1. CASE k - 1 < L
    <3>1. (k - 1) + 1 = k /\ k \in 1 .. L /\ (k = L <=> ~(k < L))
      BY <1>1, <2>1
    <3>2. At(k - 1) = c[k] /\ c[k] # 0
      BY <1>2, <2>1, <3>1
    <3> QED
      BY <1>2, <3>1, <3>2
  <2>2. CASE ~(k - 1 < L)
    <3>1. ~(k < L)
      BY <1>1, <2>2
    <3> QED
      BY <2>2, <3>1
  <2> QED
    BY <2>1, <2>2
<1> HIDE DEF L, G, At, T
<1>6. block = [k \in 0 .. N |-> IF k = 0 THEN head ELSE IF block[k - 1] = 0 THEN 0 ELSE next[block[k - 1]]]
  <2> DEFINE f == [k \in 0 .. N |-> At(k)]
  <2>1. \A k \in 1 .. N : k - 1 \in 0 .. N /\ k \in 0 .. N /\ k # 0
    BY <1>1
  <2>2. f[0] = head /\ \A k \in 1 .. N : f[k] = after(f[k - 1])
    BY <1>1, <1>4, <1>5, <2>1
  <2>3. f = [k \in 0 .. N |-> IF k = 0 THEN head ELSE after(f[k - 1])]
    <3>1. \A k \in 0 .. N : k = 0 \/ k \in 1 .. N
      BY <1>1
    <3>2. \A k \in 0 .. N : f[k] = IF k = 0 THEN head ELSE after(f[k - 1])
      BY <2>1, <2>2, <3>1
    <3>3. f = [k \in 0 .. N |-> f[k]]
      OBVIOUS
    <3> HIDE DEF f, after
    <3> QED
      BY <3>2, <3>3
  <2> HIDE DEF f
  <2>4. f = [k \in 0 .. N |-> IF k = 0 THEN head ELSE IF f[k - 1] = 0 THEN 0 ELSE next[f[k - 1]]]
    BY <2>3
  <2> QED
    BY <2>4, Zenon DEF block
<1>7. \A k \in 0 .. N : block[k] = At(k)
  <2>1. block[0] \in G[0]
    BY <1>1, <1>3, <1>4, <1>6
  <2>2. ASSUME NEW k \in 0 .. N - 1, block[k] \in G[k]
        PROVE  block[k + 1] \in G[k + 1]
    <3>1. k \in 0 .. N /\ k + 1 \in 0 .. N /\ k + 1 \in 1 .. N /\ (k + 1) - 1 = k /\ k + 1 # 0
      BY <1>1
    <3>2. block[k] = At(k)
      BY <1>3, <2>2, <3>1
    <3>3. block[k + 1] = after(block[k])
      BY <1>6, <3>1
    <3>4. after(At(k)) = At(k + 1)
      BY <1>5, <3>1
    <3> HIDE DEF after
    <3> QED
      BY <1>3, <3>1, <3>2, <3>3, <3>4
  <2>3. \A k \in 0 .. N : block[k] \in G[k]
    BY <1>1, <2>1, <2>2, LoopInduction
  <2> QED
    BY <1>3, <2>3
<1>8. ASSUME NEW b \in {block[k] : k \in 0 .. N} \ {0}
       PROVE  b \in Members(c)
  <2>1. PICK k \in 0 .. N : b = At(k) /\ b # 0
    BY <1>7, <1>8
  <2>2. k < L /\ b = c[k + 1]
    BY <2>1 DEF At
  <2>3. k + 1 \in 1 .. L
    BY <1>1, <2>2
  <2> QED
    BY <2>2, <2>3 DEF Members, L
<1>9. ASSUME NEW b \in Members(c)
       PROVE  b \in {block[k] : k \in 0 .. N} \ {0}
  <2>1. PICK i \in 1 .. L : b = c[i]
    BY <1>9 DEF Members, L
  <2>2. i - 1 \in 0 .. N /\ i - 1 < L /\ (i - 1) + 1 = i
    BY <1>1
  <2>3. At(i - 1) = b /\ b # 0
    BY <1>2, <2>1, <2>2 DEF At
  <2> QED
    BY <1>7, <2>2, <2>3
<1>10. {block[k] : k \in 0 .. N} \ {0} = Members(c)
  BY <1>8, <1>9
<1> QED
  BY <1>10, Zenon DEF block, Walk

(* Something new in front of the list.                                      *)
LEMMA LinkedInFront ==
  ASSUME NEW S, NEW head, NEW next, NEW c, Single(c, S), LinkedFrom(head, next, c), NEW b \in S, b \notin Members(c),
         NEW then, then[b] = head, \A x \in S : x # b => then[x] = next[x]
  PROVE  Single(<<b>> \o c, S) /\ LinkedFrom(b, then, <<b>> \o c) /\ Members(<<b>> \o c) = Members(c) \cup {b}
<1> DEFINE d == <<b>> \o c
           L == Len(c)
<1>1. /\ c \in Seq(S) /\ L \in Nat /\ \A i, j \in 1 .. L : c[i] = c[j] => i = j
      /\ head = IF L = 0 THEN 0 ELSE c[1]
      /\ \A i \in 1 .. L : next[c[i]] = IF i = L THEN 0 ELSE c[i + 1]
      /\ \A i \in 1 .. L : c[i] \in S /\ c[i] # b
  BY DEF LinkedFrom, Single, Members
<1>2. /\ d \in Seq(S) /\ Len(d) = L + 1 /\ d[1] = b /\ \A i \in 1 .. L : d[i + 1] = c[i]
  BY <1>1
<1> HIDE DEF d, L
<1>3. \A i \in 1 .. L + 1 : i = 1 \/ (i # 1 /\ i - 1 \in 1 .. L /\ (i - 1) + 1 = i)
  BY <1>1
<1>4. \A i \in 1 .. L + 1 : i # 1 => d[i] = c[i - 1] /\ d[i] # b
  BY <1>1, <1>2, <1>3
<1>5. \A i, j \in 1 .. L + 1 : d[i] = d[j] => i = j
  <2> SUFFICES ASSUME NEW i \in 1 .. L + 1, NEW j \in 1 .. L + 1, d[i] = d[j]
               PROVE  i = j
    OBVIOUS
  <2>1. CASE i = 1 \/ j = 1
    BY <1>2, <1>4, <2>1
  <2>2. CASE i # 1 /\ j # 1
    <3>1. i - 1 = j - 1
      BY <1>1, <1>3, <1>4, <2>2
    <3> QED
      BY <1>3, <2>2, <3>1
  <2> QED
    BY <2>1, <2>2
<1>6. ASSUME NEW i \in 1 .. L + 1
      PROVE  then[d[i]] = IF i = L + 1 THEN 0 ELSE d[i + 1]
  <2>1. CASE i = 1
    <3>1. (L = 0 <=> i = L + 1) /\ (L # 0 => 1 \in 1 .. L) /\ i + 1 = 1 + 1
      BY <1>1, <2>1
    <3>2. L # 0 => d[i + 1] = c[1]
      BY <1>2, <3>1
    <3> QED
      BY <1>1, <1>2, <2>1, <3>1, <3>2
  <2>2. CASE i # 1
    <3>1. i - 1 \in 1 .. L /\ (i - 1 = L <=> i = L + 1) /\ (i # L + 1 => i \in 1 .. L) /\ (i - 1) + 1 = i
      BY <1>1, <2>2
    <3>2. d[i] = c[i - 1] /\ c[i - 1] \in S /\ c[i - 1] # b
      BY <1>1, <1>4, <2>2, <3>1
    <3>3. then[d[i]] = IF i - 1 = L THEN 0 ELSE c[i]
      BY <1>1, <3>1, <3>2
    <3>4. i # L + 1 => d[i + 1] = c[i]
      BY <1>2, <3>1
    <3> QED
      BY <3>1, <3>3, <3>4
  <2> QED
    BY <2>1, <2>2
<1>7. Single(d, S) /\ LinkedFrom(b, then, d)
  <2>1. Len(d) # 0
    BY <1>1, <1>2
  <2> QED
    BY <1>2, <1>5, <1>6, <2>1 DEF LinkedFrom, Single
<1>8. Members(d) = Members(c) \cup {b}
  <2>1. \A x : x \in Members(d) <=> \E i \in 1 .. L + 1 : x = d[i]
    BY <1>2 DEF Members
  <2>2. \A x : x \in Members(c) <=> \E i \in 1 .. L : x = c[i]
    BY DEF Members, L
  <2>3. 1 \in 1 .. L + 1 /\ \A i \in 1 .. L : i + 1 \in 1 .. L + 1
    BY <1>1
  <2>4. ASSUME NEW x \in Members(d)
        PROVE  x \in Members(c) \cup {b}
    BY <1>2, <1>3, <1>4, <2>1, <2>2, <2>4
  <2>5. ASSUME NEW x \in Members(c) \cup {b}
        PROVE  x \in Members(d)
    BY <1>2, <2>1, <2>2, <2>3, <2>5
  <2> QED
    BY <2>4, <2>5
<1> QED
  BY <1>7, <1>8 DEF d

(* The list without its first two.                                          *)
LEMMA LinkedWithoutTwo ==
  ASSUME NEW S, NEW head, NEW next, NEW c, Single(c, S), LinkedFrom(head, next, c), Len(c) > 1
  PROVE  LET d == SubSeq(c, 3, Len(c))
         IN  /\ Single(d, S) /\ LinkedFrom(next[c[2]], next, d) /\ Members(c) = Members(d) \cup {c[1], c[2]}
             /\ c[1] # c[2] /\ c[1] \notin Members(d) /\ c[2] \notin Members(d)
<1> DEFINE L == Len(c)
           d == SubSeq(c, 3, L)
<1>1. /\ c \in Seq(S) /\ L \in Nat /\ \A i, j \in 1 .. L : c[i] = c[j] => i = j
      /\ \A i \in 1 .. L : c[i] \in S /\ next[c[i]] = IF i = L THEN 0 ELSE c[i + 1]
      /\ L > 1 /\ 1 \in 1 .. L /\ 2 \in 1 .. L
  BY DEF LinkedFrom, Single
<1>2. d \in Seq(S) /\ Len(d) = L - 2 /\ \A i \in 1 .. L - 2 : d[i] = c[i + 2]
  <2>1. c \in Seq(S) /\ L = Len(c) /\ L \in Nat /\ L > 1
    BY <1>1
  <2> HIDE DEF L
  <2> QED
    BY ONLY <2>1
<1> HIDE DEF L, d
<1>3. \A i \in 1 .. L - 2 : i + 2 \in 1 .. L /\ i + 2 # 1 /\ i + 2 # 2
  BY <1>1
<1>4. Single(d, S)
  <2> SUFFICES ASSUME NEW i \in 1 .. L - 2, NEW j \in 1 .. L - 2, d[i] = d[j]
               PROVE  i = j
    BY <1>2 DEF Single
  <2>1. i + 2 = j + 2
    BY <1>1, <1>2, <1>3
  <2> QED
    BY <2>1
<1>5. next[c[2]] = IF Len(d) = 0 THEN 0 ELSE d[1]
  <2>1. (Len(d) = 0 <=> L = 2) /\ (L # 2 => 1 \in 1 .. L - 2 /\ 1 + 2 = 3) /\ 2 + 1 = 3
    BY <1>1, <1>2
  <2>2. next[c[2]] = IF L = 2 THEN 0 ELSE c[3]
    BY <1>1, <2>1
  <2> QED
    BY <1>2, <2>1, <2>2
<1>6. ASSUME NEW i \in 1 .. L - 2
      PROVE  next[d[i]] = IF i = L - 2 THEN 0 ELSE d[i + 1]
  <2>1. i + 2 \in 1 .. L /\ (i + 2 = L <=> i = L - 2) /\ (i # L - 2 => i + 1 \in 1 .. L - 2 /\ (i + 1) + 2 = (i + 2) + 1)
    BY <1>1
  <2>2. d[i] = c[i + 2] /\ (i # L - 2 => d[i + 1] = c[(i + 2) + 1])
    BY <1>2, <2>1
  <2> QED
    BY <1>1, <2>1, <2>2
<1>7. LinkedFrom(next[c[2]], next, d)
  BY <1>2, <1>5, <1>6 DEF LinkedFrom
<1>8. c[1] # c[2] /\ c[1] \notin Members(d) /\ c[2] \notin Members(d)
  BY <1>1, <1>2, <1>3 DEF Members
<1>9. Members(c) = Members(d) \cup {c[1], c[2]}
  <2>1. Members(d) = {c[i + 2] : i \in 1 .. L - 2}
    BY <1>2 DEF Members
  <2>2. \A i \in 1 .. L : i = 1 \/ i = 2 \/ (i - 2 \in 1 .. L - 2 /\ (i - 2) + 2 = i)
    BY <1>1
  <2>3. Members(c) = {c[i] : i \in 1 .. L}
    BY DEF Members, L
  <2>4. ASSUME NEW x \in Members(c)
        PROVE  x \in Members(d) \cup {c[1], c[2]}
    <3>1. PICK i \in 1 .. L : x = c[i]
      BY <2>3
    <3>2. i = 1 \/ i = 2 \/ (i - 2 \in 1 .. L - 2 /\ (i - 2) + 2 = i)
      BY <2>2
    <3> QED
      BY <2>1, <3>1, <3>2
  <2>5. ASSUME NEW x \in Members(d) \cup {c[1], c[2]}
        PROVE  x \in Members(c)
    BY <1>1, <1>3, <2>1, <2>3
  <2> QED
    BY <2>4, <2>5
<1> QED
  BY <1>4, <1>7, <1>8, <1>9 DEF d, L

-----------------------------------------------------------------------------
(* Two things that own numbers, each for a finite set of keys: no number is *)
(* for two keys, and those in use are below the next one.                   *)
Image(p, u) == {p[t] : t \in u}

Owned(p, u) ==
    /\ IsFiniteSet(u) /\ p \in [u -> Nat]
    /\ \A s, t \in u : p[s] = p[t] => s = t

Owners(p, u, q, w, live, next) ==
    /\ Owned(p, u) /\ Owned(q, w)
    /\ \A s \in u, t \in w : p[s] # q[t]
    /\ live = Image(p, u) \cup Image(q, w)
    /\ next \in Nat /\ \A i \in live : i < next

(* The two may be named either way.                                         *)
LEMMA OwnersSymmetry ==
  ASSUME NEW p, NEW u, NEW q, NEW w, NEW live, NEW next, Owners(p, u, q, w, live, next)
  PROVE  Owners(q, w, p, u, live, next)
BY DEF Owners

(* As many numbers as keys.                                                 *)
LEMMA OwnedCardinality ==
  ASSUME NEW p, NEW u, Owned(p, u)
  PROVE  Cardinality(Image(p, u)) = Cardinality(u)
<1> DEFINE T == Image(p, u)
<1>1. p \in Bijection(u, T)
  BY DEF Owned, Image, Bijection, Injection, Surjection, IsInjective
<1>2. ExistsBijection(u, T)
  BY <1>1 DEF ExistsBijection
<1> HIDE DEF T
<1>3. Cardinality(T) = Cardinality(u)
  BY <1>2, FS_Bijection DEF Owned
<1> QED
  BY <1>3 DEF T

(* A new key gets a number.                                                 *)
WithKey(p, u, key, number) == [t \in u \cup {key} |-> IF t \in u THEN p[t] ELSE number]

(* One that nobody had stays with it alone.                                 *)
LEMMA OwnersInsert ==
  ASSUME NEW p, NEW u, NEW q, NEW w, NEW live, NEW next, NEW key,
         Owners(p, u, q, w, live, next), key \notin u
  PROVE  Owners(WithKey(p, u, key, next), u \cup {key}, q, w, live \cup {next}, next + 1)
<1> DEFINE P == WithKey(p, u, key, next)
           U == u \cup {key}
<1>1. IsFiniteSet(U)
  BY FS_AddElement DEF Owners, Owned
<1>2. /\ p \in [u -> Nat] /\ next \in Nat /\ \A t \in u : p[t] \in live
      /\ q \in [w -> Nat] /\ \A t \in w : q[t] \in live
      /\ \A i \in live : i < next
  BY DEF Owners, Owned, Image
<1>3. P \in [U -> Nat] /\ P[key] = next /\ \A t \in u : P[t] = p[t]
  BY <1>2 DEF WithKey
<1>4. \A s, t \in U : P[s] = P[t] => s = t
  BY <1>2, <1>3 DEF Owners, Owned
<1>5. \A s \in U, t \in w : P[s] # q[t]
  BY <1>2, <1>3 DEF Owners
<1> HIDE DEF P
<1>6. live \cup {next} = Image(P, U) \cup Image(q, w)
  BY <1>3 DEF Owners, Image
<1>7. next + 1 \in Nat /\ \A i \in live \cup {next} : i < next + 1
  <2>1. \A i \in live : i \in Nat
    BY DEF Owners, Owned, Image
  <2> QED
    BY <1>2, <2>1
<1> HIDE DEF U
<1>8. Owners(P, U, q, w, live \cup {next}, next + 1)
  BY <1>1, <1>3, <1>4, <1>5, <1>6, <1>7 DEF Owners, Owned
<1> QED
  BY <1>8 DEF P, U

(* The number of a key that goes is no longer in use,                       *)
LEMMA OwnersErase ==
  ASSUME NEW p, NEW u, NEW q, NEW w, NEW live, NEW next, NEW key,
         Owners(p, u, q, w, live, next), key \in u
  PROVE  Owners([t \in u \ {key} |-> p[t]], u \ {key}, q, w, live \ {p[key]}, next)
<1> DEFINE P == [t \in u \ {key} |-> p[t]]
           U == u \ {key}
<1>1. IsFiniteSet(U)
  BY FS_RemoveElement DEF Owners, Owned
<1>2. P \in [U -> Nat] /\ \A t \in U : P[t] = p[t] /\ t \in u
  BY DEF Owners, Owned
<1> HIDE DEF P
<1>3. live \ {p[key]} = Image(P, U) \cup Image(q, w)
  BY <1>2 DEF Owners, Owned, Image
<1>4. (\A s, t \in U : P[s] = P[t] => s = t) /\ \A s \in U, t \in w : P[s] # q[t]
  BY <1>2 DEF Owners, Owned
<1> HIDE DEF U
<1>5. Owners(P, U, q, w, live \ {p[key]}, next)
  BY <1>1, <1>2, <1>3, <1>4 DEF Owners, Owned
<1> QED
  BY <1>5 DEF P, U

(* nor are those of all keys when all of them go.                           *)
LEMMA OwnersClear ==
  ASSUME NEW p, NEW u, NEW q, NEW w, NEW live, NEW next, Owners(p, u, q, w, live, next), NEW none \in [{} -> Nat]
  PROVE  Owners(none, {}, q, w, live \ Image(p, u), next)
<1>1. Owned(none, {})
  BY FS_EmptySet DEF Owned
<1>2. live \ Image(p, u) = Image(none, {}) \cup Image(q, w)
  BY DEF Owners, Owned, Image
<1> QED
  BY <1>1, <1>2 DEF Owners

(* A copy has numbers of its own, as many as there are keys.                *)
LEMMA OwnersCopy ==
  ASSUME NEW p, NEW u, NEW q, NEW w, NEW live, NEW next, NEW copy, NEW n,
         Owners(p, u, q, w, live, next), u = {}, n = Cardinality(w),
         copy \in [w -> next .. next + n - 1], \A s, t \in w : copy[s] = copy[t] => s = t
  PROVE  Owners(copy, w, q, w, live \cup (next .. next + n - 1), next + n)
<1> DEFINE T == next .. next + n - 1
<1>1. IsFiniteSet(w) /\ next \in Nat
  BY DEF Owners, Owned
<1>2. n \in Nat
  BY <1>1, FS_CardinalityType
<1>3. IsFiniteSet(T) /\ Cardinality(T) = n
  <2>1. next \in Int /\ next + n - 1 \in Int
    BY <1>1, <1>2
  <2>2. IsFiniteSet(T) /\ Cardinality(T) = IF next > next + n - 1 THEN 0 ELSE (next + n - 1) - next + 1
    BY <2>1, FS_Interval
  <2> HIDE DEF T
  <2> QED
    BY <1>1, <1>2, <2>2
<1>4. copy \in Injection(w, T)
  BY DEF Injection, IsInjective
<1> HIDE DEF T
<1>5. copy \in Surjection(w, T)
  BY <1>3, <1>4, FS_Injection
<1>6. \A i \in T : \E t \in w : copy[t] = i
  BY <1>5 DEF Surjection
<1>7. \A i \in T : i \in Nat /\ next <= i /\ i < next + n
  BY <1>1, <1>2 DEF T
<1>8. \A i \in live : i \in Nat /\ i < next
  BY DEF Owners, Owned, Image
<1>9. copy \in [w -> T]
  BY DEF T
<1>10. Owned(copy, w)
  BY <1>1, <1>7, <1>9 DEF Owned
<1>11. \A s \in w, t \in w : copy[s] # q[t]
  <2>1. \A t \in w : q[t] \in live
    BY DEF Owners, Image
  <2> QED
    <3> SUFFICES ASSUME NEW s \in w, NEW t \in w
                 PROVE  copy[s] # q[t]
      OBVIOUS
    <3>1. copy[s] \in T /\ q[t] \in live
      BY <1>9, <2>1
    <3>2. next <= copy[s] /\ copy[s] \in Nat /\ q[t] \in Nat /\ q[t] < next
      BY <1>7, <1>8, <3>1
    <3> QED
      BY ONLY <1>1, <3>2
<1>12. live \cup T = Image(copy, w) \cup Image(q, w)
  <2>1. live = Image(q, w)
    BY <1>1 DEF Owners, Image
  <2>2. T = Image(copy, w)
    <3>1. \A t \in w : copy[t] \in T
      BY <1>9
    <3> QED
      BY ONLY <1>6, <3>1 DEF Image
  <2> QED
    BY <2>1, <2>2
<1>13. next + n \in Nat /\ \A i \in live \cup T : i < next + n
  BY <1>1, <1>2, <1>7, <1>8
<1>14. Owners(copy, w, q, w, live \cup T, next + n)
  BY <1>10, <1>11, <1>12, <1>13 DEF Owners
<1> QED
  BY <1>14 DEF T

-----------------------------------------------------------------------------
(* The sum of a weight over a set of numbers up to a last one.              *)
SumUpTo(A, last, weight) ==
    LET upto[n \in 0 .. last] ==
            IF n = 0 THEN 0
            ELSE IF n \in A THEN upto[n - 1] + weight[n] ELSE upto[n - 1]
    IN  upto[last]

Weighed(A, last, weight) == last \in Nat /\ A \subseteq 1 .. last /\ weight \in [A -> Int]

Term(A, weight, n) == IF n \in A THEN weight[n] ELSE 0

(* It is summed up number by number.                                        *)
LEMMA SumFacts ==
  ASSUME NEW A, NEW last, NEW weight, Weighed(A, last, weight)
  PROVE  \E f \in [0 .. last -> Int] :
            /\ f[0] = 0 /\ SumUpTo(A, last, weight) = f[last]
            /\ \A n \in 1 .. last : f[n] = f[n - 1] + Term(A, weight, n)
<1> DEFINE N == last
           G == [n \in 0 .. N |-> Int]
           upto[n \in 0 .. N] == IF n = 0 THEN 0
                                 ELSE IF n \in A THEN upto[n - 1] + weight[n] ELSE upto[n - 1]
           step == [x \in (1 .. N) \X Int |-> x[2] + Term(A, weight, x[1])]
<1>1. SumUpTo(A, last, weight) = upto[N]
  BY Zenon DEF SumUpTo
<1> HIDE DEF upto
<1>2. N \in Nat /\ \A n \in 1 .. N : n \in 0 .. N /\ n - 1 \in 0 .. N /\ n # 0
  BY DEF Weighed
<1>3. \A n \in 1 .. N : Term(A, weight, n) \in Int
  BY DEF Term, Weighed
<1>4. \A n \in 1 .. N, x \in Int : step[<<n, x>>] = x + Term(A, weight, n)
  OBVIOUS
<1> HIDE DEF step
<1>5. LoopSteps(N, Int, G, 0, step)
  <2>1. \A n \in 0 .. N : G[n] = Int
    OBVIOUS
  <2> HIDE DEF G, N
  <2>2. ASSUME NEW n \in 1 .. N, NEW x \in G[n - 1]
        PROVE  step[<<n, x>>] \in G[n]
    <3>1. x \in Int /\ G[n] = Int
      BY <1>2, <2>1, <2>2
    <3> QED
      BY <1>3, <1>4, <3>1
  <2>3. 0 \in G[0] /\ \A n \in 0 .. N : G[n] \subseteq Int
    BY <1>2, <2>1
  <2> QED
    BY <1>2, <2>2, <2>3 DEF LoopSteps
<1> HIDE DEF G
<1>6. PICK f \in [0 .. N -> Int] : f[0] = 0 /\ \A n \in 1 .. N : f[n] = step[<<n, f[n - 1]>>]
  BY <1>5, Recursion DEF LoopRuns
<1>7. \A n \in 1 .. N : f[n] = f[n - 1] + Term(A, weight, n)
  BY <1>2, <1>4, <1>6
<1>8. \A n \in 1 .. N : f[n] = IF n \in A THEN f[n - 1] + weight[n] ELSE f[n - 1]
  BY <1>2, <1>6, <1>7 DEF Term
<1>9. f = [n \in 0 .. N |-> IF n = 0 THEN 0
                            ELSE IF n \in A THEN f[n - 1] + weight[n] ELSE f[n - 1]]
  BY <1>2, <1>6, <1>8
<1>10. upto = [n \in 0 .. N |-> IF n = 0 THEN 0
                             ELSE IF n \in A THEN upto[n - 1] + weight[n] ELSE upto[n - 1]]
  BY <1>9, Zenon DEF upto
<1>11. upto \in [0 .. N -> Int] /\ upto[0] = 0 /\ \A n \in 1 .. N : upto[n] = upto[n - 1] + Term(A, weight, n)
  <2> DEFINE H == [n \in 0 .. N |-> {f[n]}]
  <2>1. DOMAIN upto = 0 .. N /\ upto[0] = 0
        /\ \A n \in 1 .. N : upto[n] = IF n \in A THEN upto[n - 1] + weight[n] ELSE upto[n - 1]
    BY <1>2, <1>10
  <2>2. \A n \in 0 .. N : H[n] = {f[n]}
    OBVIOUS
  <2> HIDE DEF H
  <2>3. ASSUME NEW n \in 0 .. N - 1, upto[n] \in H[n]
        PROVE  upto[n + 1] \in H[n + 1]
    <3>1. n + 1 \in 1 .. N /\ (n + 1) - 1 = n /\ n \in 0 .. N /\ n + 1 \in 0 .. N
      BY <1>2
    <3>2. upto[n] = f[n]
      BY <2>2, <2>3, <3>1
    <3>3. upto[n + 1] = f[n + 1]
      BY <1>8, <2>1, <3>1, <3>2
    <3> QED
      BY <2>2, <3>1, <3>3
  <2>4. upto[0] \in H[0]
    BY <1>2, <1>6, <2>1, <2>2
  <2>5. \A n \in 0 .. N : upto[n] \in H[n]
    BY <1>2, <2>3, <2>4, LoopInduction
  <2>6. \A n \in 0 .. N : upto[n] = f[n]
    BY <2>2, <2>5
  <2>7. upto = f
    BY <1>10, <2>1, <2>6, <1>6
  <2> QED
    BY <1>6, <1>7, <2>7
<1> QED
  BY <1>1, <1>11

(* Weights that differ in one number have sums that differ by as much.      *)
LEMMA SumChange ==
  ASSUME NEW A, NEW last, NEW old, NEW new, Weighed(A, last, old), Weighed(A, last, new), NEW a \in A,
         \A c \in A : c # a => new[c] = old[c]
  PROVE  /\ SumUpTo(A, last, old) \in Int
         /\ SumUpTo(A, last, new) = SumUpTo(A, last, old) - old[a] + new[a]
<1> DEFINE N == last
           d == new[a] - old[a]
<1>1. N \in Nat /\ a \in 1 .. N /\ \A n \in 1 .. N : n \in 0 .. N /\ n - 1 \in 0 .. N
  BY DEF Weighed
<1>2. new[a] \in Int /\ old[a] \in Int /\ d \in Int
  BY DEF Weighed
<1>3. PICK f \in [0 .. N -> Int] : /\ f[0] = 0 /\ SumUpTo(A, last, old) = f[N]
                                   /\ \A n \in 1 .. N : f[n] = f[n - 1] + Term(A, old, n)
  BY SumFacts
<1>4. PICK g \in [0 .. N -> Int] : /\ g[0] = 0 /\ SumUpTo(A, last, new) = g[N]
                                   /\ \A n \in 1 .. N : g[n] = g[n - 1] + Term(A, new, n)
  BY SumFacts
<1>5. \A n \in 1 .. N : Term(A, old, n) \in Int /\ Term(A, new, n) = IF n = a THEN Term(A, old, n) + d ELSE Term(A, old, n)
  <2>1. \A n \in 1 .. N : Term(A, old, n) \in Int
    BY DEF Term, Weighed
  <2>2. Term(A, new, a) = Term(A, old, a) + d
    BY <1>2 DEF Term
  <2>3. \A n \in 1 .. N : n # a => Term(A, new, n) = Term(A, old, n)
    BY DEF Term
  <2> QED
    BY <2>1, <2>2, <2>3
<1> DEFINE H == [n \in 0 .. N |-> {f[n] + IF a <= n THEN d ELSE 0}]
<1>6. \A n \in 0 .. N : H[n] = {f[n] + IF a <= n THEN d ELSE 0}
  OBVIOUS
<1> HIDE DEF d, H
<1>7. ASSUME NEW n \in 0 .. N - 1, g[n] \in H[n]
      PROVE  g[n + 1] \in H[n + 1]
  <2>1. n + 1 \in 1 .. N /\ (n + 1) - 1 = n /\ n \in 0 .. N /\ n + 1 \in 0 .. N
    BY <1>1
  <2>2. g[n] = f[n] + IF a <= n THEN d ELSE 0
    BY <1>6, <1>7, <2>1
  <2>3. f[n + 1] = f[n] + Term(A, old, n + 1) /\ g[n + 1] = g[n] + Term(A, new, n + 1)
    BY <1>3, <1>4, <2>1
  <2>4. f[n] \in Int /\ g[n] \in Int /\ Term(A, old, n + 1) \in Int
        /\ Term(A, new, n + 1) = IF n + 1 = a THEN Term(A, old, n + 1) + d ELSE Term(A, old, n + 1)
    BY <1>3, <1>4, <1>5, <2>1
  <2>5. g[n + 1] = f[n + 1] + IF a <= n + 1 THEN d ELSE 0
    <3>1. a \in Int /\ n \in Int
      BY <1>1
    <3>2. CASE n + 1 = a
      <4>1. ~(a <= n) /\ a <= n + 1
        BY <3>1, <3>2
      <4> QED
        BY <1>2, <2>2, <2>3, <2>4, <3>2, <4>1
    <3>3. CASE n + 1 # a
      <4>1. a <= n <=> a <= n + 1
        BY <3>1, <3>3
      <4> QED
        BY <1>2, <2>2, <2>3, <2>4, <3>3, <4>1
    <3> QED
      BY <3>2, <3>3
  <2> QED
    BY <1>6, <2>1, <2>5
<1>8. g[0] \in H[0]
  BY <1>1, <1>3, <1>4, <1>6
<1>9. g[N] \in H[N]
  <2>1. \A n \in 0 .. N : g[n] \in H[n]
    BY <1>1, <1>7, <1>8, LoopInduction
  <2> QED
    BY <1>1, <2>1
<1>10. g[N] = f[N] + d /\ f[N] \in Int
  BY <1>1, <1>3, <1>6, <1>9
<1> QED
  BY <1>2, <1>3, <1>4, <1>10 DEF d

(* Of nothing the sum is nothing.                                           *)
LEMMA SumNone ==
  ASSUME NEW A, NEW last, NEW weight, Weighed(A, last, weight), \A a \in A : weight[a] = 0
  PROVE  SumUpTo(A, last, weight) = 0
<1> DEFINE N == last
           H == [n \in 0 .. N |-> {0}]
<1>1. N \in Nat
  BY DEF Weighed
<1>2. PICK f \in [0 .. N -> Int] : /\ f[0] = 0 /\ SumUpTo(A, last, weight) = f[N]
                                   /\ \A n \in 1 .. N : f[n] = f[n - 1] + Term(A, weight, n)
  BY SumFacts
<1>3. \A n \in 1 .. N : Term(A, weight, n) = 0
  BY DEF Term
<1>4. \A n \in 0 .. N : H[n] = {0}
  OBVIOUS
<1> HIDE DEF H
<1>5. ASSUME NEW n \in 0 .. N - 1, f[n] \in H[n]
      PROVE  f[n + 1] \in H[n + 1]
  <2>1. n + 1 \in 1 .. N /\ (n + 1) - 1 = n /\ n \in 0 .. N /\ n + 1 \in 0 .. N
    BY <1>1
  <2> QED
    BY <1>2, <1>3, <1>4, <1>5, <2>1
<1>6. f[0] \in H[0]
  BY <1>1, <1>2, <1>4
<1>7. f[N] \in H[N]
  <2>1. \A n \in 0 .. N : f[n] \in H[n]
    BY <1>1, <1>5, <1>6, LoopInduction
  <2> QED
    BY <1>1, <2>1
<1> QED
  BY <1>1, <1>2, <1>4, <1>7

(* Its value is a number.                                                   *)
LEMMA SumInteger ==
  ASSUME NEW A, NEW last, NEW weight, Weighed(A, last, weight)
  PROVE  SumUpTo(A, last, weight) \in Int
<1>1. PICK f \in [0 .. last -> Int] : SumUpTo(A, last, weight) = f[last]
  BY SumFacts
<1>2. last \in 0 .. last
  BY DEF Weighed
<1> QED
  BY <1>1, <1>2
=============================================================================
