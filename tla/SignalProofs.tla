---------------------------- MODULE SignalProofs ----------------------------
(***************************************************************************)
(* Theorems about Signal, for any handlers and any depth of invocations    *)
(* within invocations.                                                     *)
(***************************************************************************)
EXTENDS Signal, SequenceLemmas, TLAPS

(* Invocations are under way exactly while the thread is in one. *)
PhaseInv ==
  /\ pc \in {"loop", "handler"} => Len(frames) > 0
  /\ pc \in {"host", "destructor", "gone"} => Len(frames) = 0
  /\ pc = "gone" => next[Sentinel] = Sentinel

(* Where an invocation will go on. *)
To(i) == IF i = Len(frames) /\ pc = "loop" THEN frames[i].it ELSE frames[i].saved

(* If that is in the list, it divides the list: what is before it has been *)
(* called, and the rest has not.  At the end, what was there at the start  *)
(* has been called.                                                        *)
Divided(n, f, all, list) ==
  /\ n \in all \union {Sentinel}
  /\ f.owes \subseteq all /\ f.called \subseteq all
  /\ n = Sentinel => \A q \in 1 .. Len(list) : list[q] \in f.owes => list[q] \in f.called
  /\ \A p \in 1 .. Len(list) : list[p] = n =>
       \A q \in 1 .. Len(list) : /\ q < p => list[q] \in f.called
                                 /\ p <= q => list[q] \notin f.called

(* It exists, unless somebody has failed in the duty. *)
Placed(n, f, all, list, alive, excused) ==
  /\ Divided(n, f, all, list)
  /\ ~excused => n \in alive \union {Sentinel}

FrameInv ==
  pc # "corrupt" => \A i \in 1 .. Len(frames) :
                      Placed(To(i), frames[i], used, order, live, meddled)

CorruptInv == pc = "corrupt" => meddled

IInv == TypeOK /\ ListIsSound /\ PhaseInv /\ FrameInv /\ CorruptInv

-----------------------------------------------------------------------------
LEMMA OrderFacts ==
  ASSUME TypeOK
  PROVE  /\ order \in Seq(Handler)
         /\ Len(order) \in Nat
         /\ DOMAIN order = 1 .. Len(order)
         /\ \A i \in 1 .. Len(order) : order[i] \in Handler
BY DEF TypeOK

LEMMA FrameFacts ==
  ASSUME TypeOK
  PROVE  /\ frames \in Seq(Frame)
         /\ Len(frames) \in Nat
         /\ DOMAIN frames = 1 .. Len(frames)
         /\ \A i \in 1 .. Len(frames) : frames[i] \in Frame
BY DEF TypeOK

(* ListIsSound, on the indices of the sequence. *)
Sound ==
  /\ \A h \in Handler : h \in live <=> \E i \in 1 .. Len(order) : order[i] = h
  /\ \A i, j \in 1 .. Len(order) : order[i] = order[j] => i = j
  /\ \A i \in 0 .. Len(order) : /\ next[Ring(order, i)] = Ring(order, i + 1)
                                /\ previous[Ring(order, i + 1)] = Ring(order, i)

LEMMA SoundIsSound ==
  ASSUME TypeOK
  PROVE  ListIsSound <=> Sound
<1>1. DOMAIN order = 1 .. Len(order)
  BY OrderFacts
<1>2. ToSet(order) = {order[i] : i \in 1 .. Len(order)}
  BY <1>1 DEF ToSet
<1>3. live \subseteq Handler /\ ToSet(order) \subseteq Handler
  BY <1>2, OrderFacts DEF TypeOK
<1>4. ToSet(order) = live <=>
        \A h \in Handler : h \in live <=> \E i \in 1 .. Len(order) : order[i] = h
  BY <1>2, <1>3
<1> QED
  BY <1>1, <1>4 DEF ListIsSound, Sound

(* No element is twice in the ring, but for the sentinel at both ends. *)
LEMMA RingFacts ==
  ASSUME NEW list \in Seq(Handler),
         \A i, j \in 1 .. Len(list) : list[i] = list[j] => i = j
  PROVE  /\ Ring(list, 0) = Sentinel /\ Ring(list, Len(list) + 1) = Sentinel
         /\ \A i \in 1 .. Len(list) : Ring(list, i) = list[i]
         /\ \A i \in 0 .. Len(list) + 1 : Ring(list, i) \in Node
         /\ \A i, j \in 0 .. Len(list) : Ring(list, i) = Ring(list, j) => i = j
         /\ \A i, j \in 1 .. Len(list) + 1 : Ring(list, i) = Ring(list, j) => i = j
<1> DEFINE n == Len(list)
           R(i) == Ring(list, i)
<1>1. n \in Nat /\ DOMAIN list = 1 .. n /\ \A i \in 1 .. n : list[i] \in Handler
  OBVIOUS
<1>2. Sentinel \notin Handler
  BY SignalAssumption
<1> HIDE DEF n
<1>3. 0 \notin 1 .. n /\ n + 1 \notin 1 .. n
  BY <1>1
<1>4. R(0) = Sentinel /\ R(n + 1) = Sentinel
  BY <1>1, <1>3 DEF Ring
<1>5. \A i \in 1 .. n : R(i) = list[i] /\ R(i) \in Handler
  BY <1>1 DEF Ring
<1>6. \A i \in 0 .. n + 1 : i = 0 \/ i \in 1 .. n \/ i = n + 1
  BY <1>1
<1>7. \A i \in 0 .. n : i = 0 \/ i \in 1 .. n
  BY <1>1
<1>8. \A i \in 1 .. n + 1 : i = n + 1 \/ i \in 1 .. n
  BY <1>1
<1> HIDE DEF R
<1>9. \A i \in 0 .. n + 1 : R(i) \in Node
  BY <1>4, <1>5, <1>6 DEF Node
<1>10. \A i, j \in 1 .. n : R(i) = R(j) => i = j
  BY <1>5 DEF n
<1>11. \A i, j \in 0 .. n : R(i) = R(j) => i = j
  BY <1>2, <1>4, <1>5, <1>7, <1>10
<1>12. \A i, j \in 1 .. n + 1 : R(i) = R(j) => i = j
  BY <1>2, <1>4, <1>5, <1>8, <1>10
<1> QED
  BY <1>4, <1>5, <1>9, <1>11, <1>12 DEF n, R

LEMMA InitIInv == Init => IInv
<1> SUFFICES ASSUME Init PROVE IInv
  OBVIOUS
<1>1. order = << >> /\ frames = << >> /\ Len(order) = 0 /\ Len(frames) = 0
  BY DEF Init
<1>2. << >> \in Seq(Frame) /\ << >> \in Seq(Handler)
  OBVIOUS
<1>3. TypeOK
  BY <1>2 DEF Init, TypeOK, Node
<1>4. Sound
  <2>1. \A i : Ring(order, i) = Sentinel
    BY <1>1 DEF Ring
  <2> QED
    BY <1>1, <2>1 DEF Init, Sound, Node
<1>5. PhaseInv /\ FrameInv /\ CorruptInv
  BY <1>1 DEF Init, PhaseInv, FrameInv, CorruptInv
<1> QED
  BY <1>3, <1>4, <1>5, SoundIsSound DEF IInv

-----------------------------------------------------------------------------
(* The list *)

(* link_tail keeps the ring, with the new element before its end. *)
LEMMA LinkTailFacts ==
  ASSUME IInv, NEW h \in Handler, connect(h)
  PROVE  TypeOK' /\ Sound'
<1> DEFINE n == Len(order)
<1>1. /\ order \in Seq(Handler) /\ n \in Nat
      /\ \A i \in 1 .. n : order[i] \in Handler
  BY OrderFacts DEF IInv
<1>2. /\ h \notin used /\ live' = live \union {h} /\ used' = used \union {h}
      /\ order' = Append(order, h) /\ UNCHANGED <<frames, pc, meddled, foreign>>
      /\ next' = [next EXCEPT ![h] = Sentinel, ![previous[Sentinel]] = h]
      /\ previous' = [previous EXCEPT ![h] = previous[Sentinel], ![Sentinel] = h]
  BY DEF connect, link_tail
<1>3. Sound
  BY SoundIsSound DEF IInv
<1>4. /\ order' \in Seq(Handler) /\ Len(order') = n + 1 /\ DOMAIN order' = 1 .. n + 1
      /\ \A i \in 1 .. n : order'[i] = order[i]
      /\ order'[n + 1] = h
  BY ONLY <1>1, <1>2, AppendFacts
<1>5. /\ Ring(order, 0) = Sentinel /\ Ring(order, n + 1) = Sentinel
      /\ \A i \in 1 .. n : Ring(order, i) = order[i]
      /\ \A i \in 0 .. n + 1 : Ring(order, i) \in Node
      /\ \A i, j \in 0 .. n : Ring(order, i) = Ring(order, j) => i = j
      /\ \A i, j \in 1 .. n + 1 : Ring(order, i) = Ring(order, j) => i = j
  BY <1>1, <1>3, RingFacts DEF Sound
<1>6. h # Sentinel /\ h \in Node
  BY SignalAssumption DEF Node
<1>7. /\ next \in [Node -> Node \union {Null}] /\ previous \in [Node -> Node \union {Null}]
      /\ live \subseteq used /\ used \subseteq Handler
  BY DEF IInv, TypeOK
<1>8. /\ \A x \in Handler : x \in live <=> \E i \in 1 .. n : order[i] = x
      /\ \A i, j \in 1 .. n : order[i] = order[j] => i = j
      /\ \A i \in 0 .. n : next[Ring(order, i)] = Ring(order, i + 1) /\ previous[Ring(order, i + 1)] = Ring(order, i)
  BY <1>3 DEF Sound
<1> HIDE DEF n
<1>9. previous[Sentinel] = Ring(order, n) /\ Ring(order, n) \in Node
  <2>1. n \in 0 .. n /\ n \in 0 .. n + 1
    BY <1>1
  <2> QED
    BY <1>5, <1>8, <2>1
<1>10. \A i \in 0 .. n : Ring(order, i) # h
  <2>1. \A i \in 0 .. n : i = 0 \/ i \in 1 .. n
    BY <1>1
  <2>2. \A i \in 1 .. n : order[i] # h
    BY <1>1, <1>2, <1>7, <1>8
  <2> QED
    BY <1>5, <1>6, <2>1, <2>2
<1>11. TypeOK'
  BY <1>2, <1>4, <1>6, <1>7, <1>9 DEF IInv, TypeOK, Node
<1>12. /\ \A i \in 0 .. n : Ring(order', i) = Ring(order, i)
       /\ Ring(order', n + 1) = h /\ Ring(order', n + 2) = Sentinel
  <2>1. \A i \in 1 .. n : Ring(order', i) = Ring(order, i)
    <3>1. \A i \in 1 .. n : i \in DOMAIN order'
      BY <1>1, <1>4
    <3> QED
      BY <1>4, <1>5, <3>1 DEF Ring
  <2>2. Ring(order', 0) = Ring(order, 0) /\ Ring(order', n + 2) = Sentinel /\ Ring(order', n + 1) = h
    <3>1. 0 \notin DOMAIN order' /\ n + 2 \notin DOMAIN order' /\ n + 1 \in DOMAIN order'
      BY <1>1, <1>4
    <3> QED
      BY <1>4, <1>5, <3>1 DEF Ring
  <2>3. \A i \in 0 .. n : i = 0 \/ i \in 1 .. n
    BY <1>1
  <2> QED
    BY <2>1, <2>2, <2>3
<1>13. \A i \in 0 .. n + 1 : /\ next'[Ring(order', i)] = Ring(order', i + 1)
                             /\ previous'[Ring(order', i + 1)] = Ring(order', i)
  <2>1. CASE n = 0
    <3>1. \A i \in 0 .. n + 1 : i = 0 \/ i = 1
      BY <2>1
    <3>2. Ring(order', 0) = Sentinel /\ Ring(order', 1) = h /\ Ring(order', 2) = Sentinel /\ Ring(order, n) = Sentinel
      BY <1>1, <1>5, <1>12, <2>1
    <3>3. /\ next'[Sentinel] = h /\ next'[h] = Sentinel
          /\ previous'[h] = Sentinel /\ previous'[Sentinel] = h
      BY <1>2, <1>6, <1>7, <1>9, <3>2 DEF Node
    <3> QED
      BY <3>1, <3>2, <3>3
  <2>2. ASSUME NEW i \in 0 .. n + 1, n > 0, i < n
        PROVE  /\ next'[Ring(order', i)] = Ring(order', i + 1)
               /\ previous'[Ring(order', i + 1)] = Ring(order', i)
    <3>1. /\ i \in 0 .. n /\ i + 1 \in 0 .. n /\ i + 1 \in 1 .. n + 1 /\ n \in 0 .. n
          /\ n + 1 \in 1 .. n + 1 /\ i # n /\ i + 1 # n + 1
      BY <1>1, <2>2
    <3>2. Ring(order', i) = Ring(order, i) /\ Ring(order', i + 1) = Ring(order, i + 1)
      BY <1>12, <3>1
    <3>3. Ring(order, i) # h /\ Ring(order, i) # Ring(order, n) /\ Ring(order, i) \in Node
      BY <1>5, <1>10, <3>1
    <3>4. Ring(order, i + 1) # h /\ Ring(order, i + 1) # Sentinel /\ Ring(order, i + 1) \in Node
      BY <1>5, <1>10, <3>1
    <3>5. next'[Ring(order, i)] = next[Ring(order, i)] /\ previous'[Ring(order, i + 1)] = previous[Ring(order, i + 1)]
      BY <1>2, <1>7, <1>9, <3>3, <3>4
    <3> QED
      BY <1>8, <3>1, <3>2, <3>5
  <2>3. ASSUME n > 0
        PROVE  next'[Ring(order', n)] = Ring(order', n + 1) /\ previous'[Ring(order', n + 1)] = Ring(order', n)
    <3>1. n \in 0 .. n
      BY <1>1
    <3>2. Ring(order', n) = Ring(order, n) /\ Ring(order', n + 1) = h /\ Ring(order, n) # h
      BY <1>10, <1>12, <3>1
    <3> QED
      BY <1>2, <1>6, <1>7, <1>9, <3>2
  <2>4. ASSUME n > 0
        PROVE  next'[Ring(order', n + 1)] = Ring(order', n + 2) /\ previous'[Ring(order', n + 2)] = Ring(order', n + 1)
    <3>1. n \in 0 .. n
      BY <1>1
    <3> QED
      BY <1>2, <1>6, <1>7, <1>9, <1>10, <1>12, <3>1 DEF Node
  <2>5. \A i \in 0 .. n + 1 : i < n \/ i = n \/ i = n + 1
    BY <1>1
  <2>6. n + 1 + 1 = n + 2 /\ (n = 0 \/ n > 0)
    BY <1>1
  <2> QED
    BY <2>1, <2>2, <2>3, <2>4, <2>5, <2>6
<1>14. \A i, j \in 1 .. n + 1 : order'[i] = order'[j] => i = j
  <2>1. \A i \in 1 .. n + 1 : i \in 1 .. n \/ i = n + 1
    BY <1>1
  <2>2. \A i \in 1 .. n : order[i] # h
    BY <1>1, <1>2, <1>7, <1>8
  <2> QED
    BY <1>4, <1>8, <2>1, <2>2
<1>15. \A x \in Handler : x \in live' <=> \E i \in 1 .. n + 1 : order'[i] = x
  <2>1. \A i \in 1 .. n + 1 : i \in 1 .. n \/ i = n + 1
    BY <1>1
  <2>2. n + 1 \in 1 .. n + 1 /\ \A i \in 1 .. n : i \in 1 .. n + 1
    BY <1>1
  <2> QED
    BY <1>2, <1>4, <1>8, <2>1, <2>2
<1> QED
  BY <1>4, <1>11, <1>13, <1>14, <1>15 DEF Sound
(* unlink closes the ring around the element that leaves. *)
LEMMA UnlinkFacts ==
  ASSUME TypeOK, Sound, NEW k \in 1 .. Len(order),
         order' = RemoveAt(order, k), unlink(order[k]),
         live' = live \ {order[k]}
  PROVE  /\ order' \in Seq(Handler) /\ Len(order') = Len(order) - 1
         /\ \A j \in 1 .. Len(order) - 1 :
              order'[j] = IF j < k THEN order[j] ELSE order[j + 1]
         /\ next' \in [Node -> Node \union {Null}]
         /\ previous' \in [Node -> Node \union {Null}]
         /\ Sound'
<1> DEFINE n == Len(order)
           h == order[k]
           R(i) == Ring(order, i)
           Q(i) == Ring(order', i)
<1>1. /\ order \in Seq(Handler) /\ n \in Nat
      /\ \A i \in 1 .. n : order[i] \in Handler
  BY OrderFacts
<1>2. /\ order' \in Seq(Handler) /\ Len(order') = n - 1 /\ DOMAIN order' = 1 .. n - 1
      /\ \A j \in 1 .. n - 1 : order'[j] = IF j < k THEN order[j] ELSE order[j + 1]
  BY ONLY <1>1, RemoveAtFacts, k \in 1 .. Len(order), order' = RemoveAt(order, k)
<1>3. /\ \A x \in Handler : x \in live <=> \E i \in 1 .. n : order[i] = x
      /\ \A i, j \in 1 .. n : order[i] = order[j] => i = j
      /\ \A i \in 0 .. n : next[R(i)] = R(i + 1) /\ previous[R(i + 1)] = R(i)
  BY DEF Sound
<1>4. /\ R(0) = Sentinel /\ R(n + 1) = Sentinel
      /\ \A i \in 1 .. n : R(i) = order[i]
      /\ \A i \in 0 .. n + 1 : R(i) \in Node
      /\ \A i, j \in 0 .. n : R(i) = R(j) => i = j
      /\ \A i, j \in 1 .. n + 1 : R(i) = R(j) => i = j
  BY <1>1, <1>3, RingFacts
<1>5. /\ next' = [next EXCEPT ![previous[h]] = next[h]]
      /\ previous' = [previous EXCEPT ![next[h]] = previous[h]]
  BY DEF unlink
<1>6. next \in [Node -> Node \union {Null}] /\ previous \in [Node -> Node \union {Null}]
  BY DEF TypeOK
<1>7. \A i : Q(i) = IF i \in 1 .. n - 1 THEN order'[i] ELSE Sentinel
  BY <1>2 DEF Ring
<1>8. k \in Int /\ 1 <= k /\ k <= n
  BY <1>1
<1> HIDE DEF n, h, R, Q
<1>9. /\ k - 1 \in 0 .. n /\ k \in 0 .. n /\ k \in 1 .. n /\ k - 1 + 1 = k
      /\ k + 1 \in 0 .. n + 1 /\ k - 1 \in 0 .. n + 1 /\ k + 1 \in 1 .. n + 1
  BY <1>1, <1>8
<1>10. R(k) = h
  BY <1>4, <1>9 DEF h
<1>11. next[h] = R(k + 1) /\ previous[h] = R(k - 1)
  BY <1>3, <1>9, <1>10
<1>12. R(k + 1) \in Node /\ R(k - 1) \in Node
  BY <1>4, <1>9
<1>13. /\ next' \in [Node -> Node \union {Null}] /\ previous' \in [Node -> Node \union {Null}]
       /\ next'[R(k - 1)] = R(k + 1)
       /\ previous'[R(k + 1)] = R(k - 1)
       /\ \A x \in Node : x # R(k - 1) => next'[x] = next[x]
       /\ \A x \in Node : x # R(k + 1) => previous'[x] = previous[x]
  BY <1>5, <1>6, <1>11, <1>12
<1>14. \A i \in 0 .. n : /\ i < k => Q(i) = R(i)
                         /\ i >= k => Q(i) = R(i + 1)
  <2> SUFFICES ASSUME NEW i \in 0 .. n
               PROVE  /\ i < k => Q(i) = R(i)
                      /\ i >= k => Q(i) = R(i + 1)
    OBVIOUS
  <2>1. CASE i = 0
    <3>1. i \notin 1 .. n - 1 /\ i < k
      BY <1>8, <2>1
    <3> QED
      BY <1>4, <1>7, <2>1, <3>1
  <2>2. CASE i = n
    <3>1. i \notin 1 .. n - 1 /\ ~(i < k)
      BY <1>1, <1>8, <2>2
    <3> QED
      BY <1>4, <1>7, <2>2, <3>1
  <2>3. CASE i # 0 /\ i # n
    <3>1. i \in 1 .. n - 1 /\ i \in 1 .. n /\ i + 1 \in 1 .. n /\ (i >= k <=> ~(i < k))
      BY <1>1, <1>8, <2>3
    <3> QED
      BY <1>2, <1>4, <1>7, <3>1
  <2> QED
    BY <2>1, <2>2, <2>3
<1>15. \A i \in 0 .. n - 1 : next'[Q(i)] = Q(i + 1) /\ previous'[Q(i + 1)] = Q(i)
  <2> SUFFICES ASSUME NEW i \in 0 .. n - 1
               PROVE  next'[Q(i)] = Q(i + 1) /\ previous'[Q(i + 1)] = Q(i)
    OBVIOUS
  <2>1. i \in 0 .. n /\ i + 1 \in 0 .. n /\ i + 1 \in 0 .. n + 1 /\ i + 1 + 1 = i + 2
        /\ i \in 0 .. n + 1 /\ i + 1 \in 1 .. n + 1 /\ i + 2 \in 1 .. n + 1 /\ i + 2 \in 0 .. n + 1
    BY <1>1
  <2>2. CASE i < k - 1
    <3>1. Q(i) = R(i) /\ Q(i + 1) = R(i + 1)
      BY <1>8, <1>14, <2>1, <2>2
    <3>2. R(i) # R(k - 1) /\ R(i + 1) # R(k + 1)
      BY <1>4, <1>8, <1>9, <2>1, <2>2
    <3> QED
      BY <1>3, <1>4, <1>13, <2>1, <3>1, <3>2
  <2>3. CASE i = k - 1
    <3>1. Q(i) = R(k - 1) /\ Q(i + 1) = R(k + 1)
      BY <1>8, <1>9, <1>14, <2>1, <2>3
    <3> QED
      BY <1>13, <3>1
  <2>4. CASE i > k - 1
    <3>1. Q(i) = R(i + 1) /\ Q(i + 1) = R(i + 2)
      BY <1>8, <1>14, <2>1, <2>4
    <3>2. R(i + 1) # R(k - 1) /\ R(i + 2) # R(k + 1)
      BY <1>4, <1>8, <1>9, <2>1, <2>4
    <3> QED
      BY <1>3, <1>4, <1>13, <2>1, <3>1, <3>2
  <2> QED
    BY <1>8, <2>1, <2>2, <2>3, <2>4
<1>16. \A i, j \in 1 .. n - 1 : order'[i] = order'[j] => i = j
  <2> SUFFICES ASSUME NEW i \in 1 .. n - 1, NEW j \in 1 .. n - 1, order'[i] = order'[j]
               PROVE  i = j
    OBVIOUS
  <2>1. i \in 1 .. n /\ i + 1 \in 1 .. n /\ j \in 1 .. n /\ j + 1 \in 1 .. n
    BY <1>1
  <2>2. \A a, b \in 1 .. n : order[a] = order[b] => a = b
    BY <1>3
  <2> DEFINE from(a) == IF a < k THEN a ELSE a + 1
  <2>3. from(i) \in 1 .. n /\ from(j) \in 1 .. n
    BY <2>1
  <2>4. order[from(i)] = order[from(j)]
    BY <1>2
  <2>5. from(i) = from(j) => i = j
    BY <1>8
  <2> HIDE DEF from
  <2> QED
    BY ONLY <2>2, <2>3, <2>4, <2>5
<1>17. \A x \in Handler : x \in live' <=> \E i \in 1 .. n - 1 : order'[i] = x
  <2> SUFFICES ASSUME NEW x \in Handler
               PROVE  x \in live' <=> \E i \in 1 .. n - 1 : order'[i] = x
    OBVIOUS
  <2>1. ASSUME x \in live' PROVE \E i \in 1 .. n - 1 : order'[i] = x
    <3>1. PICK j \in 1 .. n : order[j] = x
      BY <1>3, <2>1
    <3>2. j # k
      BY <2>1, <3>1
    <3>3. CASE j < k
      <4>1. j \in 1 .. n - 1
        BY <1>1, <1>8, <3>3
      <4> QED
        BY <1>2, <3>1, <3>3, <4>1
    <3>4. CASE j > k
      <4>1. j - 1 \in 1 .. n - 1 /\ ~(j - 1 < k) /\ (j - 1) + 1 = j
        BY <1>1, <1>8, <3>4
      <4> QED
        BY <1>2, <3>1, <4>1
    <3> QED
      BY <1>8, <3>2, <3>3, <3>4
  <2>2. ASSUME NEW i \in 1 .. n - 1, order'[i] = x PROVE x \in live'
    <3>1. i \in 1 .. n /\ i + 1 \in 1 .. n
      BY <1>1
    <3>2. PICK j \in 1 .. n : order[j] = x /\ j # k
      BY <1>2, <1>8, <2>2, <3>1
    <3>3. x # order[k]
      BY <1>3, <1>9, <3>2
    <3> QED
      BY <1>3, <3>2, <3>3
  <2> QED
    BY <2>1, <2>2
<1>18. Sound'
  BY <1>2, <1>15, <1>16, <1>17 DEF Sound, Q
<1> QED
  BY <1>2, <1>13, <1>18 DEF n

-----------------------------------------------------------------------------
(* The invocations *)

(* Connecting disturbs no invocation under way. *)
LEMMA DividedByConnect ==
  ASSUME NEW n, NEW f, NEW all, NEW list \in Seq(Handler), NEW alive, NEW excused,
         Placed(n, f, all, list, alive, excused),
         NEW h \in Handler, h \notin all
  PROVE  Placed(n, f, all \union {h}, Append(list, h), alive \union {h}, excused)
<1> DEFINE long == Append(list, h)
           m    == Len(list)
<1>1. /\ Len(long) = m + 1 /\ m \in Nat
      /\ \A j \in 1 .. m : long[j] = list[j]
      /\ long[m + 1] = h
  BY AppendFacts
<1>2. h # Sentinel
  BY SignalAssumption
<1>3. /\ n \in all \union {Sentinel} /\ f.owes \subseteq all /\ f.called \subseteq all
      /\ n = Sentinel => \A q \in 1 .. m : list[q] \in f.owes => list[q] \in f.called
      /\ \A p \in 1 .. m : list[p] = n =>
           \A q \in 1 .. m : /\ q < p => list[q] \in f.called
                             /\ p <= q => list[q] \notin f.called
      /\ ~excused => n \in alive \union {Sentinel}
  BY DEF Divided, Placed
<1> HIDE DEF long, m
<1>4. \A q \in 1 .. m + 1 : q \in 1 .. m \/ q = m + 1
  BY <1>1
<1>5. n # h /\ h \notin f.owes /\ h \notin f.called
  BY <1>2, <1>3
<1>6. n = Sentinel => \A q \in 1 .. m + 1 : long[q] \in f.owes => long[q] \in f.called
  BY <1>1, <1>3, <1>4, <1>5
<1>7. ASSUME NEW p \in 1 .. m + 1, long[p] = n, NEW q \in 1 .. m + 1
      PROVE  /\ q < p => long[q] \in f.called
             /\ p <= q => long[q] \notin f.called
  <2>1. p \in 1 .. m
    BY <1>1, <1>4, <1>5, <1>7
  <2>2. CASE q \in 1 .. m
    BY <1>1, <1>3, <1>7, <2>1, <2>2
  <2>3. CASE q = m + 1
    BY <1>1, <1>5, <2>1, <2>3
  <2> QED
    BY <1>4, <2>2, <2>3
<1> QED
  BY <1>1, <1>3, <1>6, <1>7 DEF Divided, Placed, long

(* Neither does destroying an invoker, unless it is the one they point to. *)
LEMMA DividedByDestroy ==
  ASSUME NEW n, NEW f, NEW all, NEW list \in Seq(Handler), Divided(n, f, all, list),
         NEW k \in 1 .. Len(list), NEW short, Len(short) = Len(list) - 1,
         \A j \in 1 .. Len(list) - 1 : short[j] = IF j < k THEN list[j] ELSE list[j + 1]
  PROVE  /\ Divided(n, f, all, short)
         /\ n = list[k] => list[k] \notin f.called
<1> DEFINE m == Len(list)
           At(j) == IF j < k THEN j ELSE j + 1
<1>1. m \in Nat /\ k \in Int /\ 1 <= k /\ k <= m
  OBVIOUS
<1>2. /\ n \in all \union {Sentinel} /\ f.owes \subseteq all /\ f.called \subseteq all
      /\ n = Sentinel => \A q \in 1 .. m : list[q] \in f.owes => list[q] \in f.called
      /\ \A p \in 1 .. m : list[p] = n =>
           \A q \in 1 .. m : /\ q < p => list[q] \in f.called
                             /\ p <= q => list[q] \notin f.called
  BY DEF Divided
<1>3. \A j \in 1 .. m - 1 : short[j] = list[At(j)]
  OBVIOUS
<1> HIDE DEF m
<1>4. \A j \in 1 .. m - 1 : At(j) \in 1 .. m
  BY <1>1
<1>5. \A p, q \in 1 .. m - 1 : (q < p => At(q) < At(p)) /\ (p <= q => At(p) <= At(q))
  BY <1>1
<1> HIDE DEF At
<1>6. n = Sentinel => \A q \in 1 .. m - 1 : short[q] \in f.owes => short[q] \in f.called
  BY <1>2, <1>3, <1>4
<1>7. \A p \in 1 .. m - 1 : short[p] = n =>
        \A q \in 1 .. m - 1 : /\ q < p => short[q] \in f.called
                              /\ p <= q => short[q] \notin f.called
  BY <1>2, <1>3, <1>4, <1>5
<1>8. n = list[k] => list[k] \notin f.called
  <2>1. k \in 1 .. m /\ k <= k
    BY <1>1
  <2> QED
    BY <1>2, <2>1
<1> QED
  BY <1>2, <1>6, <1>7, <1>8 DEF Divided, m

LEMMA ConnectPreserves ==
  ASSUME IInv, NEW h \in Handler, connect(h)
  PROVE  IInv'
<1>1. /\ pc \in {"host", "handler"} /\ h \notin used
      /\ live' = live \union {h} /\ used' = used \union {h} /\ order' = Append(order, h)
      /\ UNCHANGED <<frames, pc, meddled, foreign>>
  BY DEF connect, UserCode
<1>2. TypeOK' /\ Sound'
  BY LinkTailFacts
<1>3. PhaseInv' /\ CorruptInv'
  BY <1>1 DEF IInv, PhaseInv, CorruptInv
<1>4. FrameInv'
  <2> SUFFICES ASSUME NEW i \in 1 .. Len(frames)
               PROVE  Placed(To(i)', frames[i], used', order', live', meddled')
    BY <1>1 DEF FrameInv
  <2>1. Placed(To(i), frames[i], used, order, live, meddled)
    BY <1>1 DEF IInv, FrameInv
  <2>2. To(i)' = To(i)
    BY <1>1 DEF To
  <2>3. order \in Seq(Handler)
    BY OrderFacts DEF IInv
  <2> QED
    BY <1>1, <2>1, <2>2, <2>3, DividedByConnect
<1> QED
  BY <1>2, <1>3, <1>4, SoundIsSound, PTL DEF IInv

(* What destroy does, wherever it is called. *)
LEMMA DestroyFacts ==
  ASSUME IInv, NEW h \in live, destroy(h), pc' \in {pc}, foreign' \in BOOLEAN
  PROVE  TypeOK' /\ ListIsSound' /\ FrameInv'
<1>1. PICK k \in 1 .. Len(order) : order[k] = h /\ order' = RemoveAt(order, k)
  BY OrderFacts DEF destroy, IInv
<1>2. /\ unlink(h) /\ live' = live \ {h} /\ UNCHANGED <<frames, used>>
      /\ meddled' = (meddled \/ \E i \in DOMAIN frames : h \notin frames[i].called)
  BY DEF destroy
<1>3. Sound
  BY SoundIsSound DEF IInv
<1>4. /\ order' \in Seq(Handler) /\ Len(order') = Len(order) - 1
      /\ \A j \in 1 .. Len(order) - 1 :
           order'[j] = IF j < k THEN order[j] ELSE order[j + 1]
      /\ next' \in [Node -> Node \union {Null}] /\ previous' \in [Node -> Node \union {Null}]
      /\ Sound'
  BY <1>1, <1>2, <1>3, UnlinkFacts DEF IInv
<1>5. TypeOK'
  BY <1>2, <1>4 DEF IInv, TypeOK
<1>6. ListIsSound'
  BY <1>4, <1>5, SoundIsSound, PTL
<1>7. FrameInv'
  <2> SUFFICES ASSUME pc # "corrupt", NEW i \in 1 .. Len(frames)
               PROVE  Placed(To(i)', frames[i], used', order', live', meddled')
    BY <1>2 DEF FrameInv
  <2>1. Placed(To(i), frames[i], used, order, live, meddled)
    BY <1>2 DEF IInv, FrameInv
  <2>2. To(i)' = To(i)
    BY <1>2 DEF To
  <2>3. /\ Len(order') = Len(order) - 1
        /\ \A j \in 1 .. Len(order) - 1 :
             order'[j] = IF j < k THEN order[j] ELSE order[j + 1]
    BY <1>4
  <2>4. order \in Seq(Handler) /\ i \in DOMAIN frames
    BY <1>2, OrderFacts, FrameFacts DEF IInv
  <2>5. Divided(To(i), frames[i], used, order)
    BY <2>1 DEF Placed
  <2>6. /\ Divided(To(i), frames[i], used, order')
        /\ To(i) = order[k] => order[k] \notin frames[i].called
    BY ONLY <1>1, <2>3, <2>4, <2>5, DividedByDestroy
  <2>7. ~meddled' => To(i) \in live' \union {Sentinel}
    BY <1>1, <1>2, <2>1, <2>4, <2>6 DEF Placed
  <2> QED
    BY <1>2, <2>2, <2>6, <2>7 DEF Placed
<1> QED
  BY <1>5, <1>6, <1>7

LEMMA DisconnectPreserves ==
  ASSUME IInv, NEW h \in Handler, disconnect(h)
  PROVE  IInv'
<1>1. pc' = pc /\ pc \in {"host", "handler"} /\ h \in live /\ destroy(h) /\ frames' = frames
  BY DEF disconnect, UserCode, destroy
<1>2. foreign' \in BOOLEAN
  BY DEF disconnect, IInv, TypeOK
<1>3. TypeOK' /\ ListIsSound' /\ FrameInv'
  BY <1>1, <1>2, DestroyFacts
<1>4. PhaseInv' /\ CorruptInv'
  BY <1>1 DEF IInv, PhaseInv, CorruptInv
<1> QED
  BY <1>3, <1>4 DEF IInv

LEMMA DestroyHeadPreserves ==
  ASSUME IInv, DestroyHead
  PROVE  IInv'
<1>1. /\ pc = "destructor" /\ pc' = pc /\ foreign' = foreign /\ next[Sentinel] # Sentinel
      /\ destroy(next[Sentinel]) /\ frames' = frames
  BY DEF DestroyHead, destroy
<1>2. next[Sentinel] \in live
  <2>1. Sound /\ order \in Seq(Handler) /\ Len(order) \in Nat
    BY SoundIsSound, OrderFacts DEF IInv
  <2>2. Ring(order, 0) = Sentinel /\ Ring(order, Len(order) + 1) = Sentinel
        /\ \A i \in 1 .. Len(order) : Ring(order, i) = order[i] /\ order[i] \in Handler
    BY <2>1, RingFacts DEF Sound
  <2>3. next[Ring(order, 0)] = Ring(order, 0 + 1)
    BY <2>1 DEF Sound
  <2>4. Len(order) # 0
    BY <1>1, <2>2, <2>3
  <2>5. 1 \in 1 .. Len(order)
    BY <2>1, <2>4
  <2> QED
    BY <2>1, <2>2, <2>3, <2>5 DEF Sound
<1>3. foreign' \in BOOLEAN
  BY <1>1 DEF IInv, TypeOK
<1>4. TypeOK' /\ ListIsSound' /\ FrameInv'
  BY <1>1, <1>2, <1>3, DestroyFacts
<1>5. PhaseInv' /\ CorruptInv'
  BY <1>1 DEF IInv, PhaseInv, CorruptInv
<1> QED
  BY <1>4, <1>5 DEF IInv

LEMMA ListUnchanged ==
  ASSUME IInv, UNCHANGED <<links, live, order>>
  PROVE  ListIsSound'
<1>1. UNCHANGED <<next, previous, live, order>>
  BY DEF links
<1> QED
  BY <1>1 DEF IInv, ListIsSound

(* Invocations go on as before under a last one that is new. *)
LEMMA InvokePreserves ==
  ASSUME IInv, invoke
  PROVE  IInv'
<1> DEFINE n == Len(frames)
           e == [it |-> next[Sentinel], saved |-> Sentinel, owes |-> live, called |-> {}]
<1>1. /\ pc \in {"host", "handler"} /\ pc' = "loop" /\ frames' = Append(frames, e)
      /\ UNCHANGED <<links, live, used, order, meddled, foreign>>
  BY DEF invoke, UserCode
<1>2. /\ n \in Nat /\ frames \in Seq(Frame)
      /\ live \subseteq used /\ used \subseteq Handler
  BY FrameFacts DEF IInv, TypeOK
<1>3. /\ Sound /\ order \in Seq(Handler) /\ Len(order) \in Nat
      /\ \A j \in 1 .. Len(order) : order[j] \in Handler
  BY SoundIsSound, OrderFacts DEF IInv
<1>4. /\ Ring(order, 0) = Sentinel /\ Ring(order, Len(order) + 1) = Sentinel
      /\ Ring(order, 1) \in Node
      /\ \A j \in 1 .. Len(order) : Ring(order, j) = order[j]
  <2>1. 1 \in 0 .. Len(order) + 1
    BY <1>3
  <2> QED
    BY <1>3, <2>1, RingFacts DEF Sound
<1>5. next[Sentinel] = Ring(order, 1)
  <2>1. 0 \in 0 .. Len(order) /\ 0 + 1 = 1
    BY <1>3
  <2>2. next[Ring(order, 0)] = Ring(order, 0 + 1)
    BY <1>3, <2>1 DEF Sound
  <2> QED
    BY <1>4, <2>1, <2>2
<1>6. e \in Frame
  BY <1>2, <1>4, <1>5 DEF Frame, Node
<1>7. /\ frames' \in Seq(Frame) /\ Len(frames') = n + 1
      /\ \A j \in 1 .. n : frames'[j] = frames[j]
      /\ frames'[n + 1] = e
  BY ONLY <1>1, <1>2, <1>6, AppendFacts
<1>8. e.it = next[Sentinel] /\ e.owes = live /\ e.called = {}
  OBVIOUS
<1> HIDE DEF e, n
<1>9. Placed(next[Sentinel], e, used, order, live, meddled)
  <2>1. next[Sentinel] = Sentinel => Len(order) = 0
    <3>1. Len(order) # 0 => 1 \in 1 .. Len(order)
      BY <1>3
    <3> QED
      BY <1>3, <1>4, <1>5, <3>1, SignalAssumption
  <2>2. next[Sentinel] # Sentinel =>
          /\ 1 \in 1 .. Len(order) /\ next[Sentinel] = order[1] /\ next[Sentinel] \in live
    <3>1. Len(order) # 0 => 1 \in 1 .. Len(order)
      BY <1>3
    <3> QED
      BY <1>3, <1>4, <1>5, <3>1 DEF Sound
  <2>3. \A p, q \in 1 .. Len(order) : order[p] = order[1] /\ q < p => FALSE
    <3> SUFFICES ASSUME NEW p \in 1 .. Len(order), NEW q \in 1 .. Len(order),
                        order[p] = order[1], q < p
                 PROVE  FALSE
      OBVIOUS
    <3>1. 1 \in 1 .. Len(order)
      BY <1>3
    <3>2. p = 1
      BY <1>3, <3>1 DEF Sound
    <3> QED
      BY <3>2
  <2>4. /\ e.owes \subseteq used /\ e.called \subseteq used
        /\ next[Sentinel] \in live \union {Sentinel}
        /\ \A x : x \notin e.called
    BY <1>2, <1>8, <2>2
  <2> QED
    BY <1>2, <2>1, <2>2, <2>3, <2>4 DEF Divided, Placed
<1>10. TypeOK'
  BY <1>1, <1>7 DEF IInv, TypeOK, links
<1>11. ListIsSound'
  BY <1>1, ListUnchanged
<1>12. PhaseInv' /\ CorruptInv'
  BY <1>1, <1>2, <1>7 DEF PhaseInv, CorruptInv
<1>13. FrameInv'
  <2> SUFFICES ASSUME NEW i \in 1 .. n + 1
               PROVE  Placed(To(i)', frames'[i], used, order, live, meddled)
    BY <1>1, <1>7 DEF FrameInv
  <2>1. CASE i = n + 1
    BY <1>1, <1>7, <1>8, <1>9, <2>1 DEF To
  <2>2. CASE i # n + 1
    <3>1. i \in 1 .. n
      BY <1>2, <2>2
    <3>2. To(i)' = To(i)
      BY <1>1, <1>7, <2>2, <3>1 DEF To, n
    <3> QED
      BY <1>1, <1>7, <3>1, <3>2 DEF IInv, FrameInv, n
  <2> QED
    BY <2>1, <2>2
<1> QED
  BY <1>10, <1>11, <1>12, <1>13 DEF IInv

(* The iterator that is saved divides the list one further. *)
LEMMA CallPreserves ==
  ASSUME IInv, NEW h \in Handler, Call(h)
  PROVE  IInv'
<1> DEFINE n == Len(frames)
           f == frames[n]
           e == [f EXCEPT !.saved = next[h], !.called = @ \union {h}]
<1>1. /\ pc = "loop" /\ pc' = "handler" /\ h = f.it /\ h \in live
      /\ UNCHANGED <<links, live, used, order, meddled, foreign>>
  BY DEF Call, Top
<1>2. /\ n \in Nat /\ n > 0 /\ n \in 1 .. n /\ frames \in Seq(Frame) /\ f \in Frame
      /\ live \subseteq used /\ used \subseteq Handler /\ DOMAIN frames = 1 .. n
  BY <1>1, FrameFacts DEF IInv, TypeOK, PhaseInv
<1>3. frames' = [frames EXCEPT ![n] = e]
  BY <1>2 DEF Call
<1>4. /\ Sound /\ order \in Seq(Handler) /\ Len(order) \in Nat
      /\ \A j \in 1 .. Len(order) : order[j] \in Handler
  BY SoundIsSound, OrderFacts DEF IInv
<1>5. PICK p \in 1 .. Len(order) : order[p] = h
  BY <1>1, <1>4 DEF Sound
<1>6. /\ p + 1 \in 0 .. Len(order) + 1 /\ p \in 0 .. Len(order)
      /\ p = Len(order) \/ p + 1 \in 1 .. Len(order)
  BY <1>4
<1>7. /\ Ring(order, p) = h /\ Ring(order, Len(order) + 1) = Sentinel
      /\ Ring(order, p + 1) \in Node
      /\ \A j \in 1 .. Len(order) : Ring(order, j) = order[j]
  BY <1>4, <1>5, <1>6, RingFacts DEF Sound
<1>8. next[h] = Ring(order, p + 1)
  BY <1>4, <1>6, <1>7 DEF Sound
<1>9. /\ e \in Frame /\ e.owes = f.owes /\ e.called = f.called \union {h}
      /\ e.saved = next[h]
  BY <1>2, <1>7, <1>8 DEF Frame
<1> HIDE DEF e
<1>10. /\ frames' \in Seq(Frame) /\ Len(frames') = n
       /\ \A j \in 1 .. n : frames'[j] = IF j = n THEN e ELSE frames[j]
  BY ONLY <1>2, <1>3, <1>9, ReplaceFacts
<1>11. Placed(h, f, used, order, live, meddled)
  <2>1. To(n) = h
    BY <1>1 DEF To
  <2> QED
    BY <1>1, <1>2, <2>1 DEF IInv, FrameInv
<1> HIDE DEF f, n
<1>12. \A q \in 1 .. Len(order) : /\ q <= p => order[q] \in e.called
                                  /\ p < q => order[q] \notin e.called
  <2> SUFFICES ASSUME NEW q \in 1 .. Len(order)
               PROVE  /\ q <= p => order[q] \in e.called
                      /\ p < q => order[q] \notin e.called
    OBVIOUS
  <2>1. /\ q < p => order[q] \in f.called
        /\ p <= q => order[q] \notin f.called
    BY <1>5, <1>11 DEF Divided, Placed
  <2>2. order[q] = h => q = p
    BY <1>4, <1>5 DEF Sound
  <2>3. (q <= p => q < p \/ q = p) /\ (p < q => p <= q /\ q # p)
    BY <1>4
  <2> QED
    BY <1>5, <1>9, <2>1, <2>2, <2>3
<1>13. Placed(next[h], e, used, order, live, meddled)
  <2>1. CASE p = Len(order)
    <3>1. next[h] = Sentinel
      BY <1>7, <1>8, <2>1
    <3>2. \A q \in 1 .. Len(order) : q <= p
      BY <1>4, <2>1
    <3>3. \A q \in 1 .. Len(order) : order[q] # Sentinel
      BY <1>4, SignalAssumption
    <3> QED
      BY <1>1, <1>2, <1>9, <1>11, <1>12, <3>1, <3>2, <3>3 DEF Divided, Placed
  <2>2. CASE p + 1 \in 1 .. Len(order)
    <3>1. next[h] = order[p + 1] /\ next[h] \in live /\ next[h] # Sentinel
      BY <1>4, <1>7, <1>8, <2>2, SignalAssumption DEF Sound
    <3>2. \A a \in 1 .. Len(order) : order[a] = next[h] => a = p + 1
      BY <1>4, <2>2, <3>1 DEF Sound
    <3>3. \A q \in 1 .. Len(order) : (q < p + 1 => q <= p) /\ (p + 1 <= q => p < q)
      BY <1>4
    <3>4. \A a \in 1 .. Len(order) : order[a] = next[h] =>
            \A q \in 1 .. Len(order) : /\ q < a => order[q] \in e.called
                                       /\ a <= q => order[q] \notin e.called
      BY <1>12, <3>2, <3>3
    <3> QED
      BY <1>1, <1>2, <1>9, <1>11, <3>1, <3>4 DEF Divided, Placed
  <2> QED
    BY <1>6, <2>1, <2>2
<1>14. TypeOK'
  BY <1>1, <1>10 DEF IInv, TypeOK, links
<1>15. ListIsSound'
  BY <1>1, ListUnchanged
<1>16. PhaseInv' /\ CorruptInv'
  BY <1>1, <1>2, <1>10 DEF PhaseInv, CorruptInv
<1>17. FrameInv'
  <2> SUFFICES ASSUME NEW i \in 1 .. n
               PROVE  Placed(To(i)', frames'[i], used, order, live, meddled)
    BY <1>1, <1>10 DEF FrameInv
  <2>1. CASE i = n
    BY <1>1, <1>2, <1>9, <1>10, <1>13, <2>1 DEF To
  <2>2. CASE i # n
    <3>1. To(i)' = To(i)
      BY <1>1, <1>10, <2>2 DEF To, n
    <3> QED
      BY <1>1, <1>10, <2>2, <3>1 DEF IInv, FrameInv, n
  <2> QED
    BY <2>1, <2>2
<1> QED
  BY <1>14, <1>15, <1>16, <1>17 DEF IInv

LEMMA HandlerReturnsPreserves ==
  ASSUME IInv, HandlerReturns
  PROVE  IInv'
<1> DEFINE n == Len(frames)
           e == [frames[n] EXCEPT !.it = frames[n].saved]
<1>1. /\ pc = "handler" /\ pc' = "loop"
      /\ UNCHANGED <<links, live, used, order, meddled, foreign>>
  BY DEF HandlerReturns
<1>2. /\ n \in Nat /\ n > 0 /\ n \in 1 .. n /\ frames \in Seq(Frame) /\ frames[n] \in Frame
      /\ DOMAIN frames = 1 .. n
  BY <1>1, FrameFacts DEF IInv, PhaseInv
<1>3. frames' = [frames EXCEPT ![n] = e]
  BY <1>2 DEF HandlerReturns, Top
<1>4. /\ e \in Frame /\ e.it = frames[n].saved /\ e.owes = frames[n].owes
      /\ e.called = frames[n].called /\ e.saved = frames[n].saved
  BY <1>2 DEF Frame
<1> HIDE DEF e
<1>5. /\ frames' \in Seq(Frame) /\ Len(frames') = n
      /\ \A j \in 1 .. n : frames'[j] = IF j = n THEN e ELSE frames[j]
  BY ONLY <1>2, <1>3, <1>4, ReplaceFacts
<1>6. TypeOK'
  BY <1>1, <1>5 DEF IInv, TypeOK, links
<1>7. ListIsSound'
  BY <1>1, ListUnchanged
<1>8. PhaseInv' /\ CorruptInv'
  BY <1>1, <1>2, <1>5 DEF PhaseInv, CorruptInv
<1> HIDE DEF n
<1>9. FrameInv'
  <2> SUFFICES ASSUME NEW i \in 1 .. n
               PROVE  Placed(To(i)', frames'[i], used, order, live, meddled)
    BY <1>1, <1>5 DEF FrameInv
  <2>1. To(i)' = To(i)
    BY <1>1, <1>2, <1>4, <1>5 DEF To, n
  <2>2. frames'[i].owes = frames[i].owes /\ frames'[i].called = frames[i].called
    BY <1>4, <1>5
  <2>3. Placed(To(i), frames[i], used, order, live, meddled)
    BY <1>1 DEF IInv, FrameInv, n
  <2> QED
    BY <2>1, <2>2, <2>3 DEF Divided, Placed
<1> QED
  BY <1>6, <1>7, <1>8, <1>9 DEF IInv

(* When the last invocation is gone, the handler of the one below has the  *)
(* thread again.                                                           *)
LEMMA PopPreserves ==
  ASSUME IInv, Pop, pc \in {"loop", "handler"}
  PROVE  IInv'
<1> DEFINE n == Len(frames)
<1>1. /\ frames' = Front(frames) /\ pc' = IF n = 1 THEN "host" ELSE "handler"
      /\ UNCHANGED <<links, live, used, order, meddled, foreign>>
  BY DEF Pop
<1>2. n \in Nat /\ n > 0 /\ frames \in Seq(Frame)
  BY FrameFacts DEF IInv, PhaseInv
<1>3. /\ frames' \in Seq(Frame) /\ Len(frames') = n - 1
      /\ \A j \in 1 .. n - 1 : frames'[j] = frames[j]
  BY ONLY <1>1, <1>2, FrontFacts
<1> HIDE DEF n
<1>4. TypeOK'
  BY <1>1, <1>3 DEF IInv, TypeOK, links
<1>5. ListIsSound'
  BY <1>1, ListUnchanged
<1>6. PhaseInv' /\ CorruptInv'
  BY <1>1, <1>2, <1>3 DEF PhaseInv, CorruptInv
<1>7. FrameInv'
  <2> SUFFICES ASSUME NEW i \in 1 .. n - 1
               PROVE  Placed(To(i)', frames'[i], used, order, live, meddled)
    BY <1>1, <1>3 DEF FrameInv
  <2>1. i \in 1 .. n /\ i # n
    BY <1>2
  <2>2. To(i)' = To(i)
    BY <1>1, <1>3, <2>1 DEF To, n
  <2> QED
    BY <1>3, <2>1, <2>2 DEF IInv, FrameInv, n
<1> QED
  BY <1>4, <1>5, <1>6, <1>7 DEF IInv

LEMMA CallDanglingPreserves ==
  ASSUME IInv, CallDangling
  PROVE  IInv'
<1> DEFINE n == Len(frames)
<1>1. /\ pc = "loop" /\ pc' = "corrupt" /\ frames[n].it \notin live \union {Sentinel}
      /\ UNCHANGED <<links, live, frames, used, order, meddled, foreign>>
  BY DEF CallDangling, Top
<1>2. n \in 1 .. n /\ To(n) = frames[n].it
  BY <1>1, FrameFacts DEF IInv, PhaseInv, To
<1>3. meddled
  BY <1>1, <1>2 DEF IInv, FrameInv, Divided, Placed
<1>4. TypeOK'
  BY <1>1 DEF IInv, TypeOK, links
<1>5. ListIsSound'
  BY <1>1, ListUnchanged
<1> QED
  BY <1>1, <1>3, <1>4, <1>5 DEF IInv, PhaseInv, FrameInv, CorruptInv

LEMMA DestructPreserves ==
  ASSUME IInv, Destruct \/ DestructEnd
  PROVE  IInv'
<1>1. /\ pc \in {"host", "destructor"} /\ pc' \in {"destructor", "gone"}
      /\ pc' = "gone" => next[Sentinel] = Sentinel
      /\ UNCHANGED <<links, live, frames, used, order, meddled, foreign>>
  BY DEF Destruct, DestructEnd
<1>2. TypeOK'
  BY <1>1 DEF IInv, TypeOK, links
<1>3. ListIsSound'
  BY <1>1, ListUnchanged
<1>4. PhaseInv' /\ CorruptInv'
  BY <1>1 DEF IInv, PhaseInv, CorruptInv, links
<1>5. FrameInv'
  <2>1. Len(frames) = 0
    BY <1>1 DEF IInv, PhaseInv
  <2> QED
    BY <1>1, <2>1 DEF FrameInv
<1> QED
  BY <1>2, <1>3, <1>4, <1>5 DEF IInv

LEMMA NextPreserves == IInv /\ [Next]_vars => IInv'
<1> SUFFICES ASSUME IInv, [Next]_vars PROVE IInv'
  OBVIOUS
<1>1. ASSUME NEW h \in Handler, connect(h) \/ disconnect(h) \/ Call(h) PROVE IInv'
  BY <1>1, ConnectPreserves, DisconnectPreserves, CallPreserves
<1>2. CASE invoke
  BY <1>2, InvokePreserves
<1>3. CASE CallDangling \/ HandlerReturns
  BY <1>3, CallDanglingPreserves, HandlerReturnsPreserves
<1>4. CASE invokeEnd \/ HandlerThrows
  BY <1>4, PopPreserves DEF invokeEnd, HandlerThrows
<1>5. CASE Destruct \/ DestroyHead \/ DestructEnd
  BY <1>5, DestructPreserves, DestroyHeadPreserves
<1>6. CASE UNCHANGED vars
  <2>1. UNCHANGED <<links, next, previous, live, frames, pc, used, order, meddled, foreign>>
    BY <1>6 DEF vars, links
  <2>2. ListIsSound'
    BY <2>1, ListUnchanged
  <2>3. \A i : To(i)' = To(i)
    BY <2>1 DEF To
  <2> QED
    BY <2>1, <2>2, <2>3 DEF IInv, TypeOK, PhaseInv, FrameInv, CorruptInv
<1> QED
  BY <1>1, <1>2, <1>3, <1>4, <1>5, <1>6 DEF Next

(* IInv is an invariant: the links form the ring of the handlers in their  *)
(* order, and the place of each invocation divides it.                     *)
THEOREM Invariant == Spec => []IInv
<1>1. Init => IInv
  BY InitIInv
<1>2. IInv /\ [Next]_vars => IInv'
  BY NextPreserves
<1> QED
  BY <1>1, <1>2, PTL DEF Spec

-----------------------------------------------------------------------------
(* Type correctness of the signal. *)
THEOREM TypeCorrect == Spec => []TypeOK
<1>1. IInv => TypeOK
  BY DEF IInv
<1> QED
  BY <1>1, Invariant, PTL

(* The links are a sound ring of the invokers that exist, whatever the     *)
(* handlers do.                                                            *)
THEOREM ListStaysSound == Spec => []ListIsSound
<1>1. IInv => ListIsSound
  BY DEF IInv
<1> QED
  BY <1>1, Invariant, PTL

(* Nobody touches a destroyed invoker, as long as who is disconnected      *)
(* during invocations has been called by each of them.                     *)
THEOREM DutyIsEnough == Spec => []NoDangling
<1>1. IInv => NoDangling
  BY DEF IInv, CorruptInv, NoDangling
<1> QED
  BY <1>1, Invariant, PTL

(* ~Signal leaves no invoker behind. *)
THEOREM EveryInvokerFreed == Spec => []NothingLeaked
<1>1. ASSUME IInv, pc = "gone" PROVE live = {}
  <2>1. /\ Sound /\ order \in Seq(Handler) /\ Len(order) \in Nat
        /\ \A j \in 1 .. Len(order) : order[j] \in Handler
    BY <1>1, SoundIsSound, OrderFacts DEF IInv
  <2>2. /\ Ring(order, 0) = Sentinel
        /\ \A j \in 1 .. Len(order) : Ring(order, j) = order[j]
    BY <2>1, RingFacts DEF Sound
  <2>3. next[Sentinel] = Sentinel
    BY <1>1 DEF IInv, PhaseInv
  <2>4. Ring(order, 1) = Sentinel
    <3>1. 0 \in 0 .. Len(order) /\ 0 + 1 = 1
      BY <2>1
    <3>2. next[Ring(order, 0)] = Ring(order, 0 + 1)
      BY <2>1, <3>1 DEF Sound
    <3> QED
      BY <2>2, <2>3, <3>1, <3>2
  <2>5. Len(order) = 0
    <3>1. Len(order) # 0 => 1 \in 1 .. Len(order)
      BY <2>1
    <3> QED
      BY <2>1, <2>2, <2>4, <3>1, SignalAssumption
  <2>6. \A h \in Handler : h \notin live
    BY <2>1, <2>5 DEF Sound
  <2> QED
    BY <1>1, <2>6 DEF IInv, TypeOK
<1>2. IInv => NothingLeaked
  BY <1>1 DEF NothingLeaked
<1> QED
  BY <1>2, Invariant, PTL

-----------------------------------------------------------------------------
(* What the contract sees of the invocations. *)
View(list) == [i \in DOMAIN list |-> [owes |-> list[i].owes, called |-> list[i].called]]

ViewFrame == [owes : SUBSET Handler, called : SUBSET Handler]

LEMMA ViewFacts ==
  ASSUME NEW list \in Seq(Frame)
  PROVE  /\ View(list) \in Seq(ViewFrame)
         /\ Len(View(list)) = Len(list) /\ DOMAIN View(list) = DOMAIN list
         /\ \A i \in 1 .. Len(list) : /\ View(list)[i].owes = list[i].owes
                                      /\ View(list)[i].called = list[i].called
<1>1. /\ Len(list) \in Nat /\ DOMAIN list = 1 .. Len(list)
      /\ \A i \in 1 .. Len(list) : list[i] \in Frame
  OBVIOUS
<1>2. \A i \in 1 .. Len(list) :
        [owes |-> list[i].owes, called |-> list[i].called] \in ViewFrame
  BY <1>1 DEF Frame, ViewFrame
<1>3. View(list) = [i \in 1 .. Len(list) |->
                      [owes |-> list[i].owes, called |-> list[i].called]]
  BY <1>1 DEF View
<1>4. View(list) \in [1 .. Len(list) -> ViewFrame]
  BY <1>2, <1>3
<1>5. View(list) \in Seq(ViewFrame) /\ Len(View(list)) = Len(list)
  BY <1>1, <1>4
<1> QED
  BY <1>1, <1>3, <1>5

LEMMA SameView ==
  ASSUME NEW a \in Seq(Frame), NEW b \in Seq(Frame), Len(a) = Len(b),
         \A i \in 1 .. Len(a) : a[i].owes = b[i].owes /\ a[i].called = b[i].called
  PROVE  View(a) = View(b)
<1>1. DOMAIN a = DOMAIN b /\ DOMAIN a = 1 .. Len(a)
  OBVIOUS
<1> QED
  BY <1>1 DEF View

LEMMA PushedView ==
  ASSUME NEW list \in Seq(Frame), NEW e \in Frame
  PROVE  View(Append(list, e)) = Append(View(list), [owes |-> e.owes, called |-> e.called])
<1> DEFINE n == Len(list)
           v == [owes |-> e.owes, called |-> e.called]
           x == View(Append(list, e))
           y == Append(View(list), v)
<1>1. /\ Append(list, e) \in Seq(Frame) /\ Len(Append(list, e)) = n + 1 /\ n \in Nat
      /\ DOMAIN Append(list, e) = 1 .. n + 1
      /\ \A j \in 1 .. n : Append(list, e)[j] = list[j]
      /\ Append(list, e)[n + 1] = e
  BY AppendFacts
<1>2. /\ View(list) \in Seq(ViewFrame) /\ Len(View(list)) = n /\ DOMAIN list = 1 .. n
  BY ViewFacts
<1>3. v \in ViewFrame
  BY DEF Frame, ViewFrame
<1> HIDE DEF v, n
<1>4. /\ y \in Seq(ViewFrame) /\ Len(y) = n + 1
      /\ \A j \in 1 .. n : y[j] = View(list)[j]
      /\ y[n + 1] = v
  BY <1>2, <1>3, AppendFacts
<1>5. x \in Seq(ViewFrame) /\ Len(x) = n + 1
  BY <1>1, ViewFacts
<1>6. \A i \in 1 .. n + 1 :
        x[i] = [owes |-> Append(list, e)[i].owes, called |-> Append(list, e)[i].called]
  BY <1>1 DEF View
<1>7. \A i \in 1 .. n : View(list)[i] = [owes |-> list[i].owes, called |-> list[i].called]
  BY <1>2 DEF View
<1> HIDE DEF x, y
<1>8. \A i \in 1 .. n + 1 : i \in 1 .. n \/ i = n + 1
  BY <1>1
<1>9. n + 1 \in 1 .. n + 1 /\ \A i \in 1 .. n : i \in 1 .. n + 1
  BY <1>1
<1>10. \A i \in 1 .. n : x[i] = y[i]
  BY <1>1, <1>4, <1>6, <1>7, <1>9
<1>11. x[n + 1] = y[n + 1]
  BY <1>1, <1>4, <1>6, <1>9 DEF v
<1>12. x = y
  BY <1>4, <1>5, <1>8, <1>10, <1>11, SeqEqual
<1> QED
  BY <1>12 DEF x, y, v

LEMMA PoppedView ==
  ASSUME NEW list \in Seq(Frame), Len(list) > 0
  PROVE  View(Front(list)) = Front(View(list))
<1> DEFINE n == Len(list)
           x == View(Front(list))
           y == Front(View(list))
<1>1. /\ Front(list) \in Seq(Frame) /\ Len(Front(list)) = n - 1 /\ n \in Nat
      /\ \A j \in 1 .. n - 1 : Front(list)[j] = list[j]
  BY FrontFacts
<1>2. /\ View(list) \in Seq(ViewFrame) /\ Len(View(list)) = n /\ DOMAIN list = 1 .. n
  BY ViewFacts
<1>3. /\ y \in Seq(ViewFrame) /\ Len(y) = n - 1
      /\ \A j \in 1 .. n - 1 : y[j] = View(list)[j]
  BY <1>2, FrontFacts
<1>4. x \in Seq(ViewFrame) /\ Len(x) = n - 1
  BY <1>1, ViewFacts
<1>5. \A i \in 1 .. n - 1 :
        x[i] = [owes |-> Front(list)[i].owes, called |-> Front(list)[i].called]
  BY <1>1 DEF View
<1>6. \A i \in 1 .. n : View(list)[i] = [owes |-> list[i].owes, called |-> list[i].called]
  BY <1>2 DEF View
<1> HIDE DEF x, y, n
<1>7. \A i \in 1 .. n - 1 : i \in 1 .. n
  BY <1>1
<1>8. \A i \in 1 .. n - 1 : x[i] = y[i]
  BY <1>1, <1>3, <1>5, <1>6, <1>7
<1>9. x = y
  BY ONLY <1>3, <1>4, <1>8, SeqEqual
<1> QED
  BY <1>9 DEF x, y

(* A handler that is called is in the list of those called. *)
LEMMA CalledView ==
  ASSUME IInv, NEW h \in Handler, Call(h)
  PROVE  View(frames') =
           [View(frames) EXCEPT ![Len(View(frames))].called = @ \union {h}]
<1> DEFINE n == Len(frames)
           e == [frames[n] EXCEPT !.saved = next[h], !.called = @ \union {h}]
<1>1. /\ n \in 1 .. n /\ frames \in Seq(Frame) /\ frames[n] \in Frame /\ DOMAIN frames = 1 .. n
  BY FrameFacts DEF Call, IInv, PhaseInv
<1>2. frames' = [frames EXCEPT ![n] = e]
  BY <1>1 DEF Call
<1>3. e.owes = frames[n].owes /\ e.called = frames[n].called \union {h}
  BY <1>1 DEF Frame
<1>4. /\ Len(View(frames)) = n /\ DOMAIN View(frames) = 1 .. n
      /\ \A i \in 1 .. n : View(frames)[i] = [owes |-> frames[i].owes, called |-> frames[i].called]
  BY <1>1, ViewFacts DEF View
<1>5. DOMAIN frames' = 1 .. n /\ \A i \in 1 .. n : frames'[i] = IF i = n THEN e ELSE frames[i]
  BY <1>1, <1>2
<1> HIDE DEF e, n
<1> DEFINE x == View(frames')
           y == [View(frames) EXCEPT ![n].called = @ \union {h}]
<1>6. x = [i \in 1 .. n |-> [owes |-> frames'[i].owes, called |-> frames'[i].called]]
  BY <1>5 DEF View
<1>7. View(frames) = [i \in 1 .. n |-> [owes |-> frames[i].owes, called |-> frames[i].called]]
  BY <1>1 DEF View
<1>8. y = [i \in 1 .. n |->
             IF i = n THEN [owes |-> frames[n].owes, called |-> frames[n].called \union {h}]
                      ELSE [owes |-> frames[i].owes, called |-> frames[i].called]]
  <2> DEFINE v == [owes |-> frames[n].owes, called |-> frames[n].called]
  <2>1. [v EXCEPT !.called = v.called \union {h}] =
          [owes |-> frames[n].owes, called |-> frames[n].called \union {h}]
    OBVIOUS
  <2>2. View(frames)[n] = v
    BY <1>1, <1>4
  <2> HIDE DEF v
  <2>3. y = [i \in 1 .. n |-> IF i = n THEN [v EXCEPT !.called = v.called \union {h}]
                                       ELSE View(frames)[i]]
    BY <1>4, <2>2
  <2>4. \A i \in 1 .. n : View(frames)[i] = [owes |-> frames[i].owes, called |-> frames[i].called]
    BY <1>4
  <2> QED
    BY ONLY <2>1, <2>3, <2>4
<1>9. \A i \in 1 .. n : [owes |-> frames'[i].owes, called |-> frames'[i].called] =
             IF i = n THEN [owes |-> frames[n].owes, called |-> frames[n].called \union {h}]
                      ELSE [owes |-> frames[i].owes, called |-> frames[i].called]
  BY <1>3, <1>5
<1>10. x = y
  BY ONLY <1>6, <1>8, <1>9
<1> QED
  BY <1>4, <1>10

LEMMA InitRefines == Init => Contract!Init
<1> SUFFICES ASSUME Init PROVE Contract!Init
  OBVIOUS
<1>1. View(frames) = << >>
  BY DEF Init, View
<1> QED
  BY <1>1 DEF Init, Contract!Init, View

(* A call meets its guard in the contract: it follows all calls so far in  *)
(* the order and leaves out nobody.                                        *)
LEMMA CallKeepsOrder ==
  ASSUME IInv, NEW h \in Handler, Call(h)
  PROVE  LET f == frames[Len(frames)] IN
         /\ h \in Contract!ToSet(order) \ f.called
         /\ \A g \in f.called : ~Contract!Before(h, g)
         /\ \A g \in f.owes \ f.called : ~Contract!Before(g, h)
<1> DEFINE f == frames[Len(frames)]
<1>1. /\ Sound /\ order \in Seq(Handler) /\ Len(order) \in Nat /\ DOMAIN order = 1 .. Len(order)
  BY SoundIsSound, OrderFacts DEF IInv
<1>2. pc = "loop" /\ h = f.it /\ h \in live
  BY DEF Call, Top
<1>3. Len(frames) \in 1 .. Len(frames) /\ To(Len(frames)) = h
  BY <1>2, FrameFacts DEF IInv, PhaseInv, To
<1>4. Placed(h, f, used, order, live, meddled)
  BY <1>2, <1>3 DEF IInv, FrameInv
<1> HIDE DEF f
<1>5. PICK p \in 1 .. Len(order) : order[p] = h
  BY <1>1, <1>2 DEF Sound
<1>6. \A q \in 1 .. Len(order) : /\ q < p => order[q] \in f.called
                                 /\ p <= q => order[q] \notin f.called
  BY <1>4, <1>5 DEF Divided, Placed
<1>7. h \in Contract!ToSet(order) /\ h \notin f.called
  BY <1>1, <1>5, <1>6 DEF Contract!ToSet
<1>8. \A q \in 1 .. Len(order) : order[q] = h => q = p
  BY <1>1, <1>5 DEF Sound
<1>9. ASSUME NEW g \in f.called, Contract!Before(h, g) PROVE FALSE
  <2>1. PICK i, j \in 1 .. Len(order) : i < j /\ order[i] = h /\ order[j] = g
    BY <1>1, <1>9 DEF Contract!Before
  <2>2. p <= j
    BY <1>8, <2>1
  <2> QED
    BY <1>6, <1>9, <2>1, <2>2
<1>10. ASSUME NEW g \in f.owes \ f.called, Contract!Before(g, h) PROVE FALSE
  <2>1. PICK i, j \in 1 .. Len(order) : i < j /\ order[i] = g /\ order[j] = h
    BY <1>1, <1>10 DEF Contract!Before
  <2>2. i < p
    BY <1>8, <2>1
  <2> QED
    BY <1>6, <1>10, <2>1, <2>2
<1> QED
  BY <1>7, <1>9, <1>10 DEF f

LEMMA StepRefines == IInv /\ [Next]_vars => [Contract!Next]_(Contract!vars)
<1> SUFFICES ASSUME IInv, [Next]_vars, ~UNCHANGED Contract!vars
             PROVE  Contract!Next
  OBVIOUS
<1>1. Contract!vars = <<order, used, View(frames), meddled, pc = "corrupt">>
  BY DEF Contract!vars, View
<1>2. Contract!vars' = <<order', used', View(frames'), meddled', pc' = "corrupt">>
  BY DEF Contract!vars, View
<1>3. ~(/\ UNCHANGED <<order, used, meddled>> /\ View(frames') = View(frames)
        /\ (pc' = "corrupt") = (pc = "corrupt"))
  BY <1>1, <1>2
<1>4. frames \in Seq(Frame) /\ Len(frames) \in Nat /\ DOMAIN frames = 1 .. Len(frames)
  BY FrameFacts DEF IInv
<1>5. /\ Len(View(frames)) = Len(frames) /\ DOMAIN View(frames) = DOMAIN frames
      /\ \A i \in 1 .. Len(frames) : /\ View(frames)[i].owes = frames[i].owes
                                     /\ View(frames)[i].called = frames[i].called
  BY <1>4, ViewFacts
<1>6. ASSUME NEW h \in Handler, connect(h) PROVE Contract!Next
  <2>1. /\ pc # "corrupt" /\ pc' = pc /\ h \notin used /\ order' = Append(order, h)
        /\ used' = used \union {h} /\ frames' = frames /\ meddled' = meddled
    BY <1>6 DEF connect, UserCode
  <2>2. Contract!Connect(h)
    BY <2>1 DEF Contract!Connect
  <2> QED
    BY <2>2 DEF Contract!Next
<1>7. ASSUME NEW h \in Handler, destroy(h), pc' = pc, pc # "corrupt" PROVE Contract!Next
  <2>1. /\ \E i \in DOMAIN order : order[i] = h /\ order' = RemoveAt(order, i)
        /\ used' = used /\ frames' = frames
        /\ meddled' = (meddled \/ \E i \in DOMAIN frames : h \notin frames[i].called)
    BY <1>7 DEF destroy
  <2>2. (\E i \in DOMAIN frames : h \notin frames[i].called)
          <=> \E i \in DOMAIN View(frames) : h \notin View(frames)[i].called
    BY <1>4, <1>5
  <2>3. meddled' <=> (meddled \/ \E i \in DOMAIN View(frames) : h \notin View(frames)[i].called)
    BY <2>1, <2>2
  <2>4. Contract!Disconnect(h)
    BY <1>7, <2>1, <2>3 DEF Contract!Disconnect, Contract!RemoveAt, RemoveAt, View
  <2> QED
    BY <2>4 DEF Contract!Next
<1>8. ASSUME NEW h \in Handler, disconnect(h) PROVE Contract!Next
  BY <1>7, <1>8 DEF disconnect, UserCode
<1>9. ASSUME DestroyHead PROVE Contract!Next
  <2>1. next[Sentinel] \in Handler
    <3>1. next[Sentinel] \in Node \union {Null}
      BY DEF IInv, TypeOK, Node
    <3>2. \E i \in DOMAIN order : order[i] = next[Sentinel]
      BY <1>9 DEF DestroyHead, destroy
    <3> QED
      BY <3>2, OrderFacts DEF IInv
  <2> QED
    BY <1>7, <1>9, <2>1 DEF DestroyHead
<1>10. ASSUME invoke PROVE Contract!Next
  <2> DEFINE e == [it |-> next[Sentinel], saved |-> Sentinel, owes |-> live, called |-> {}]
  <2>1. /\ pc # "corrupt" /\ pc' # "corrupt" /\ frames' = Append(frames, e)
        /\ UNCHANGED <<order, used, meddled>>
    BY <1>10 DEF invoke, UserCode
  <2>2. e \in Frame
    <3>1. frames' \in Seq(Frame)
      BY <1>10, InvokePreserves DEF IInv, TypeOK
    <3>2. Len(frames') = Len(frames) + 1 /\ frames'[Len(frames) + 1] = e
      BY <1>4, <2>1
    <3>3. Len(frames) + 1 \in 1 .. Len(frames')
      BY <1>4, <3>2
    <3> QED
      BY <3>1, <3>2, <3>3
  <2>3. e.owes = live /\ e.called = {}
    OBVIOUS
  <2> HIDE DEF e
  <2>4. View(frames') = Append(View(frames), [owes |-> live, called |-> {}])
    BY <1>4, <2>1, <2>2, <2>3, PushedView
  <2>5. Contract!ToSet(order) = live
    BY DEF IInv, ListIsSound, ToSet, Contract!ToSet
  <2>6. Contract!Begin
    BY <2>1, <2>4, <2>5 DEF Contract!Begin, View
  <2> QED
    BY <2>6 DEF Contract!Next
<1>11. ASSUME NEW h \in Handler, Call(h) PROVE Contract!Next
  <2>1. /\ pc = "loop" /\ pc' = "handler" /\ UNCHANGED <<order, used, meddled>>
    BY <1>11 DEF Call
  <2>2. Len(frames) \in 1 .. Len(frames) /\ View(frames) # << >>
    BY <1>4, <1>5, <2>1 DEF IInv, PhaseInv
  <2>3. /\ Contract!Last(View(frames)).owes = frames[Len(frames)].owes
        /\ Contract!Last(View(frames)).called = frames[Len(frames)].called
    BY <1>5, <2>2 DEF Contract!Last
  <2>4. View(frames') = [View(frames) EXCEPT ![Len(View(frames))].called = @ \union {h}]
    BY <1>11, CalledView
  <2>5. /\ h \in Contract!ToSet(order) \ Contract!Last(View(frames)).called
        /\ \A g \in Contract!Last(View(frames)).called : ~Contract!Before(h, g)
        /\ \A g \in Contract!Last(View(frames)).owes \ Contract!Last(View(frames)).called :
             ~Contract!Before(g, h)
    BY <1>11, <2>3, CallKeepsOrder
  <2>6. Contract!Call(h)
    BY <2>1, <2>2, <2>4, <2>5 DEF Contract!Call, View
  <2> QED
    BY <2>6 DEF Contract!Next
<1>12. ASSUME CallDangling PROVE Contract!Next
  <2>1. pc' = "corrupt" /\ UNCHANGED <<order, used, frames, meddled>>
    BY <1>12 DEF CallDangling
  <2>2. meddled
    BY <1>12, <2>1, CallDanglingPreserves DEF IInv, CorruptInv
  <2>3. Contract!Break
    BY <2>1, <2>2 DEF Contract!Break
  <2> QED
    BY <2>3 DEF Contract!Next
<1>13. ASSUME HandlerReturns PROVE Contract!Next
  <2>1. UNCHANGED <<order, used, meddled>> /\ pc # "corrupt" /\ pc' # "corrupt"
    BY <1>13 DEF HandlerReturns
  <2>2. frames' \in Seq(Frame)
    BY <1>13, HandlerReturnsPreserves DEF IInv, TypeOK
  <2>3. /\ Len(frames') = Len(frames)
        /\ \A i \in 1 .. Len(frames) : /\ frames'[i].owes = frames[i].owes
                                       /\ frames'[i].called = frames[i].called
    <3> DEFINE n == Len(frames)
               e == [frames[n] EXCEPT !.it = frames[n].saved]
    <3>1. n \in 1 .. n /\ frames[n] \in Frame
      BY <1>4, <1>13 DEF HandlerReturns, IInv, PhaseInv
    <3>2. frames' = [frames EXCEPT ![n] = e]
      BY <1>4, <1>13, <3>1 DEF HandlerReturns, Top
    <3>3. e \in Frame /\ e.owes = frames[n].owes /\ e.called = frames[n].called
      BY <3>1 DEF Frame
    <3> HIDE DEF e, n
    <3>4. Len(frames') = n /\ \A j \in 1 .. n : frames'[j] = IF j = n THEN e ELSE frames[j]
      BY ONLY <1>4, <3>1, <3>2, <3>3, ReplaceFacts DEF n
    <3> QED
      BY <3>3, <3>4 DEF n
  <2>4. View(frames') = View(frames)
    BY ONLY <1>4, <2>2, <2>3, SameView
  <2> QED
    BY <1>3, <2>1, <2>4
<1>14. ASSUME Pop, pc \in {"loop", "handler"}
       PROVE  /\ View(frames) # << >> /\ View(frames') = Front(View(frames))
              /\ pc # "corrupt" /\ pc' # "corrupt" /\ UNCHANGED <<order, used, meddled>>
  <2>1. Len(frames) > 0
    BY <1>14 DEF IInv, PhaseInv
  <2>2. View(frames') = Front(View(frames))
    BY <1>4, <1>14, <2>1, PoppedView DEF Pop
  <2> QED
    BY <1>5, <1>14, <2>1, <2>2 DEF Pop
<1>15. ASSUME invokeEnd PROVE Contract!Next
  <2>1. pc = "loop" /\ frames[Len(frames)].it = Sentinel /\ Pop
    BY <1>15 DEF invokeEnd, Top
  <2>2. Len(frames) \in 1 .. Len(frames) /\ To(Len(frames)) = Sentinel
    BY <1>4, <2>1 DEF IInv, PhaseInv, To
  <2>3. Placed(Sentinel, frames[Len(frames)], used, order, live, meddled)
    BY <2>1, <2>2 DEF IInv, FrameInv
  <2>4. /\ Contract!Last(View(frames)).owes = frames[Len(frames)].owes
        /\ Contract!Last(View(frames)).called = frames[Len(frames)].called
    BY <1>5, <2>2 DEF Contract!Last
  <2>5. \A g \in Contract!ToSet(order) : \E q \in 1 .. Len(order) : order[q] = g
    BY OrderFacts DEF IInv, Contract!ToSet
  <2>6. Contract!Last(View(frames)).owes \intersect Contract!ToSet(order)
          \subseteq Contract!Last(View(frames)).called
    BY <2>3, <2>4, <2>5 DEF Divided, Placed
  <2>7. Contract!End
    BY <1>14, <2>1, <2>6 DEF Contract!End, Contract!Front, Front, View
  <2> QED
    BY <2>7 DEF Contract!Next
<1>16. ASSUME HandlerThrows PROVE Contract!Next
  <2>1. Contract!Abort
    BY <1>14, <1>16 DEF HandlerThrows, Contract!Abort, Contract!Front, Front, View
  <2> QED
    BY <2>1 DEF Contract!Next
<1>17. CASE Destruct \/ DestructEnd \/ UNCHANGED vars
  <2>1. UNCHANGED <<order, used, meddled, frames>> /\ (pc' = "corrupt") = (pc = "corrupt")
    BY <1>17 DEF Destruct, DestructEnd, vars
  <2> QED
    BY <1>3, <2>1
<1> QED
  BY <1>6, <1>8, <1>9, <1>10, <1>11, <1>12, <1>13, <1>15, <1>16, <1>17 DEF Next

(* Signal keeps the promise of SignalContract: invocations call in the     *)
(* order of connection, nobody twice, and leave out nobody who stays.      *)
THEOREM Refinement == Spec => ContractSpec
<1>1. Init => Contract!Init
  BY InitRefines
<1>2. IInv /\ [Next]_vars => [Contract!Next]_(Contract!vars)
  BY StepRefines
<1> QED
  BY <1>1, <1>2, Invariant, PTL DEF Spec, ContractSpec, Contract!Spec
=============================================================================
