------------------------- MODULE ScratchArenaProofs -------------------------
(***************************************************************************)
(* Proofs about ScratchArena.  While the order of construction is kept,    *)
(* the scopes are stacked: each begins where the one below it stopped      *)
(* allocating, so that its blocks lie in a region of their own, and only   *)
(* an overflow can separate the youngest from current_.                    *)
(***************************************************************************)
EXTENDS ScratchArena, SequenceLemmas, TLAPS

(* No ScratchAllocator is on the stack twice; the others hold nothing. *)
SlotInv ==
  /\ \A i, j \in DOMAIN open : open[i] = open[j] => i = j
  /\ \A s \in closing : IsOpen(s)
  /\ \A s \in Scratch : ~IsOpen(s) =>
       blocks[s] = << >> /\ finalizers[s] = << >> /\ reset[s] = 0 /\ last[s] = 0

(* last_current_ is past end_ only if the scope began there. *)
OverflowInv == \A s \in Scratch : last[s] > Capacity => reset[s] = last[s]

StackInv ==
  /\ open = << >> => current = 0
  /\ open # << >> => reset[open[1]] = 0
  /\ open # << >> => last[open[Len(open)]] = current \/ current > Capacity
  /\ \A s \in Scratch : reset[s] <= last[s]
  /\ \A i \in DOMAIN open : last[open[i]] <= current
  /\ \A i, j \in DOMAIN open : i < j => last[open[i]] <= reset[open[j]]
  /\ \A i \in 1 .. Len(open) - 1 :
       \/ last[open[i]] = reset[open[i + 1]]
       \/ reset[open[i + 1]] > Capacity

(* The blocks of one scope fill [lo, hi] upwards without overlapping. *)
Packed(list, lo, hi) ==
  /\ \A i \in DOMAIN list :
       /\ lo <= list[i].from
       /\ list[i].from <= list[i].to
       /\ list[i].to <= hi
       /\ list[i].to <= Capacity
  /\ \A i, j \in DOMAIN list : i < j => list[i].to <= list[j].from

BlockInv == \A s \in Scratch : Packed(blocks[s], reset[s], last[s])

Descending(list) == \A i, j \in DOMAIN list : i < j => list[j].to <= list[i].from

FinalizerInv ==
  /\ \A s \in Scratch : \A i \in DOMAIN finalizers[s] : finalizers[s][i].to <= last[s]
  /\ \A s \in Scratch : Descending(finalizers[s])
  /\ \A s \in Scratch : Descending(pending[s])

IInv ==
  /\ TypeOK
  /\ SlotInv
  /\ OverflowInv
  /\ Disciplined => StackInv
  /\ Disciplined => BlockInv
  /\ Disciplined => FinalizerInv
  /\ TrapsAreDeserved

-----------------------------------------------------------------------------
LEMMA InitIInv == Init => IInv
<1> SUFFICES ASSUME Init PROVE IInv
  OBVIOUS
<1> USE ArenaAssumption DEF Init
<1>1. TypeOK
  BY DEF TypeOK, Address
<1>2. SlotInv /\ OverflowInv
  BY DEF SlotInv, OverflowInv, IsOpen
<1>3. StackInv /\ BlockInv
  BY DEF StackInv, BlockInv, Packed
<1>4. FinalizerInv
  BY DEF FinalizerInv, Descending
<1>5. TrapsAreDeserved
  BY DEF TrapsAreDeserved
<1> QED
  BY <1>1, <1>2, <1>3, <1>4, <1>5 DEF IInv

(* A block begins at or behind current_ and does not end before it begins. *)
LEMMA BlockFacts ==
  ASSUME NEW c \in Nat, NEW n \in Nat, NEW a \in Nat \ {0}
  PROVE  /\ BlockAt(c, n, a).from = Align(c, a)
         /\ BlockAt(c, n, a).from \in Nat
         /\ BlockAt(c, n, a).to \in Nat
         /\ c <= BlockAt(c, n, a).from
         /\ BlockAt(c, n, a).from <= BlockAt(c, n, a).to
         /\ BlockAt(c, n, a) = [from |-> BlockAt(c, n, a).from, to |-> BlockAt(c, n, a).to]
<1>1. c % a \in 0 .. a - 1
  OBVIOUS
<1>2. Align(c, a) \in Nat /\ c <= Align(c, a)
  BY <1>1 DEF Align
<1> QED
  BY <1>2 DEF BlockAt

(* The same for the list node that follows an object. *)
LEMMA NodeFacts ==
  ASSUME NEW b \in [from : Nat, to : Nat]
  PROVE  /\ Node(b).from \in Nat
         /\ Node(b).to \in Nat
         /\ b.to <= Node(b).from
         /\ Node(b).from <= Node(b).to
         /\ Node(b) = [from |-> Node(b).from, to |-> Node(b).to]
BY BlockFacts, ArenaAssumption DEF Node

(* While the order is kept, only the youngest is used; and while there is  *)
(* room, it stopped allocating where the arena stands.                     *)
LEMMA UseFacts ==
  ASSUME IInv, NEW s \in Scratch, Use(s)
  PROVE  /\ breaches' \in Nat
         /\ Disciplined' => Disciplined /\ Innermost(s)
         /\ Disciplined' => Len(open) \in DOMAIN open /\ open[Len(open)] = s
         /\ Disciplined' /\ current <= Capacity => last[s] = current
<1> USE DEF IInv, TypeOK, Address
<1>1. breaches' \in Nat /\ (Disciplined' => Disciplined /\ Innermost(s))
  BY DEF Use, Disciplined
<1>2. Innermost(s) => Len(open) \in DOMAIN open /\ open[Len(open)] = s
  BY DEF Innermost
<1>3. Disciplined /\ Innermost(s) /\ current <= Capacity => last[s] = current
  BY ArenaAssumption DEF Innermost, StackInv
<1> QED
  BY <1>1, <1>2, <1>3

(* Indices below the top of the stack, and of a stack one higher. *)
LEMMA BelowTop ==
  ASSUME NEW n \in Nat, NEW i \in 1 .. n - 1
  PROVE  i \in 1 .. n /\ i # n /\ i + 1 \in 1 .. n
OBVIOUS

LEMMA NotTop ==
  ASSUME NEW n \in Nat, NEW i \in 1 .. n, i # n
  PROVE  i \in 1 .. n - 1 /\ i + 1 \in 1 .. n
OBVIOUS

LEMMA Appended ==
  ASSUME NEW n \in Nat, NEW i \in 1 .. n + 1
  PROVE  i = n + 1 \/ i \in 1 .. n
OBVIOUS

(* What every allocation does to the stack of scopes, whether it succeeds, *)
(* fails, or gets half way: current_ moves up to c, last_current_ to l.    *)
LEMMA AllocationKeepsStack ==
  ASSUME IInv, NEW s \in Scratch, Usable(s), Use(s),
         NEW c \in Address, current' = c, current <= c,
         NEW l \in Address, last' = [last EXCEPT ![s] = l], l <= c,
         l = last[s] \/ (current <= l /\ l <= Capacity),
         l = c \/ c > Capacity,
         UNCHANGED <<open, reset, closing>>
  PROVE  /\ OverflowInv'
         /\ Disciplined' => StackInv'
<1>1. /\ open \in Seq(Scratch) /\ Len(open) \in Nat /\ DOMAIN open = 1 .. Len(open)
      /\ reset \in [Scratch -> Nat] /\ last \in [Scratch -> Nat]
      /\ current \in Nat /\ c \in Nat /\ l \in Nat /\ Capacity \in Nat
  BY ArenaAssumption DEF IInv, TypeOK, Address
<1>2. \A i \in DOMAIN open : open[i] \in Scratch
  BY <1>1
<1>3. OverflowInv'
  BY <1>1 DEF OverflowInv, IInv
<1>4. ASSUME Disciplined' PROVE StackInv'
  <2>1. Disciplined /\ Len(open) \in DOMAIN open /\ open[Len(open)] = s
    BY <1>4, UseFacts
  <2>2. StackInv /\ SlotInv
    BY <2>1 DEF IInv
  <2>3. last[s] <= l
    BY <1>1, <2>1, <2>2 DEF StackInv
  <2>4. \A i \in DOMAIN open : i # Len(open) => open[i] # s
    BY <2>1, <2>2 DEF SlotInv
  <2>5. /\ last'[open[Len(open)]] = l
        /\ \A i \in DOMAIN open : i # Len(open) => last'[open[i]] = last[open[i]]
    BY <1>1, <1>2, <2>1, <2>4
  <2>6. open # << >> /\ reset[open[1]] = 0
    BY <1>1, <2>1, <2>2 DEF StackInv
  <2>7. \A x \in Scratch : reset[x] <= last'[x]
    BY <1>1, <2>2, <2>3 DEF StackInv
  <2>8. ASSUME NEW i \in DOMAIN open PROVE last'[open[i]] <= c
    <3>1. CASE i = Len(open)
      BY <3>1, <2>5
    <3>2. CASE i # Len(open)
      <4>1. last[open[i]] <= current /\ last[open[i]] \in Nat
        BY <1>1, <1>2, <2>2 DEF StackInv
      <4> QED
        BY <1>1, <3>2, <4>1, <2>5
    <3> QED
      BY <3>1, <3>2
  <2>9. ASSUME NEW i \in DOMAIN open, NEW j \in DOMAIN open, i < j
        PROVE  last'[open[i]] <= reset[open[j]]
    <3>1. i # Len(open)
      BY <1>1, <2>9
    <3> QED
      BY <2>2, <2>5, <2>9, <3>1 DEF StackInv
  <2>10. ASSUME NEW i \in 1 .. Len(open) - 1
         PROVE  last'[open[i]] = reset[open[i + 1]] \/ reset[open[i + 1]] > Capacity
    <3>1. i \in DOMAIN open /\ i # Len(open)
      BY <1>1, BelowTop
    <3> QED
      BY <2>2, <2>5, <3>1 DEF StackInv
  <2>11. last'[open[Len(open)]] = c \/ c > Capacity
    BY <2>5
  <2> QED
    BY <2>6, <2>7, <2>8, <2>9, <2>10, <2>11 DEF StackInv
<1> QED
  BY <1>3, <1>4

LEMMA BlockBounds ==
  ASSUME NEW b \in Block
  PROVE  b.from \in Nat /\ b.to \in Nat
BY ArenaAssumption DEF Block, Address

(* A block behind all those of a scope extends the part it has filled. *)
LEMMA AppendPacked ==
  ASSUME NEW list \in Seq(Block), NEW lo \in Nat, NEW hi \in Nat, lo <= hi,
         Packed(list, lo, hi),
         NEW b \in Block, hi <= b.from, b.from <= b.to, b.to <= Capacity
  PROVE  Packed(Append(list, b), lo, b.to)
<1> DEFINE longer == Append(list, b)
           n      == Len(list)
<1>1. Capacity \in Nat /\ n \in Nat /\ b.from \in Nat /\ b.to \in Nat
  BY ArenaAssumption, BlockBounds
<1>2. /\ DOMAIN longer = 1 .. n + 1 /\ DOMAIN list = 1 .. n
      /\ longer[n + 1] = b
      /\ \A i \in 1 .. n : longer[i] = list[i]
  BY AppendFacts
<1>3. ASSUME NEW i \in 1 .. n PROVE list[i].from \in Nat /\ list[i].to \in Nat
  <2>1. list[i] \in Block
    OBVIOUS
  <2> QED
    BY ONLY <2>1, BlockBounds
<1> HIDE DEF longer, n
<1>4. \A i \in 1 .. n : /\ lo <= list[i].from /\ list[i].from <= list[i].to
                       /\ list[i].to <= hi /\ list[i].to <= Capacity
  BY <1>2 DEF Packed
<1>5. \A i \in DOMAIN longer : /\ lo <= longer[i].from /\ longer[i].from <= longer[i].to
                               /\ longer[i].to <= b.to /\ longer[i].to <= Capacity
  <2> SUFFICES ASSUME NEW i \in DOMAIN longer
               PROVE  /\ lo <= longer[i].from /\ longer[i].from <= longer[i].to
                      /\ longer[i].to <= b.to /\ longer[i].to <= Capacity
    OBVIOUS
  <2>1. i = n + 1 \/ i \in 1 .. n
    BY <1>1, <1>2, Appended
  <2>2. CASE i = n + 1
    BY <2>2, <1>1, <1>2
  <2>3. CASE i \in 1 .. n
    BY <2>3, <1>1, <1>2, <1>3, <1>4
  <2> QED
    BY <2>1, <2>2, <2>3
<1>6. ASSUME NEW i \in DOMAIN longer, NEW j \in DOMAIN longer, i < j
      PROVE  longer[i].to <= longer[j].from
  <2>1. i \in 1 .. n /\ j \in 1 .. n + 1
    BY <1>1, <1>2, <1>6
  <2>2. CASE j = n + 1
    BY <2>1, <2>2, <1>1, <1>2, <1>3, <1>4
  <2>3. CASE j # n + 1
    <3>1. j \in 1 .. n
      BY <2>1, <2>3, <1>1
    <3>2. list[i].to <= list[j].from
      BY <2>1, <3>1, <1>2, <1>6 DEF Packed
    <3> QED
      BY <2>1, <3>1, <3>2, <1>2
  <2> QED
    BY <2>2, <2>3
<1>7. Packed(longer, lo, b.to)
  BY <1>5, <1>6 DEF Packed
<1> QED
  BY <1>7 DEF longer

(* A step of s that leaves its blocks packed keeps BlockInv. *)
LEMMA OthersStayPacked ==
  ASSUME IInv, BlockInv, NEW s \in Scratch, UNCHANGED reset,
         \A x \in Scratch : x # s => blocks'[x] = blocks[x] /\ last'[x] = last[x],
         Packed(blocks'[s], reset[s], last'[s])
  PROVE  BlockInv'
BY DEF BlockInv, Packed

(* A new last_current_ disturbs no list of finalizers if it is no lower. *)
LEMMA RaiseKeepsFinalizers ==
  ASSUME IInv, FinalizerInv, NEW s \in Scratch,
         NEW l \in Address, last' = [last EXCEPT ![s] = l], last[s] <= l,
         UNCHANGED <<finalizers, pending>>
  PROVE  FinalizerInv'
<1>1. /\ last \in [Scratch -> Nat] /\ l \in Nat /\ Address \subseteq Nat
      /\ finalizers \in [Scratch -> Seq(Block)]
  BY ArenaAssumption DEF IInv, TypeOK, Address
<1>2. ASSUME NEW x \in Scratch, NEW i \in DOMAIN finalizers[x]
      PROVE  finalizers[x][i].to <= last'[x]
  <2>1. finalizers[x][i] \in Block
    BY <1>1
  <2>2. finalizers[x][i].to <= last[x] /\ finalizers[x][i].to \in Nat
    BY <1>1, <2>1 DEF FinalizerInv, Block
  <2>3. last[x] <= last'[x] /\ last[x] \in Nat /\ last'[x] \in Nat
    BY <1>1
  <2> QED
    BY <2>2, <2>3
<1> QED
  BY <1>2 DEF FinalizerInv, Descending

LEMMA TakePreserves ==
  ASSUME IInv, NEW s \in Scratch, NEW n \in Nat, NEW a \in Nat \ {0},
         Take(s, BlockAt(current, n, a)),
         trap' \in {"none", "reallocate"}
  PROVE  /\ TypeOK' /\ SlotInv' /\ OverflowInv'
         /\ Disciplined' => StackInv' /\ BlockInv' /\ FinalizerInv' /\ last[s] = current
<1> DEFINE b == BlockAt(current, n, a)
<1>1. /\ current \in Nat /\ Capacity \in Nat /\ last \in [Scratch -> Nat]
      /\ blocks \in [Scratch -> Seq(Block)] /\ MaxCurrent \in Nat
  BY ArenaAssumption DEF IInv, TypeOK, Address
<1>2. /\ b.from \in Nat /\ b.to \in Nat /\ current <= b.from /\ b.from <= b.to
      /\ b = [from |-> b.from, to |-> b.to]
  BY <1>1, BlockFacts
<1> HIDE DEF b
<1>3. /\ Usable(s) /\ Use(s) /\ b.to <= MaxCurrent /\ b.to <= Capacity
      /\ current' = b.to /\ last' = [last EXCEPT ![s] = b.to]
      /\ blocks' = [blocks EXCEPT ![s] = Append(@, b)]
      /\ UNCHANGED <<open, reset, finalizers, closing, pending>>
  BY DEF Take, Fits, b
<1>4. b.to \in Address /\ b \in Block
  BY <1>1, <1>2, <1>3 DEF Address, Block
<1>5. TypeOK'
  <2>1. blocks' \in [Scratch -> Seq(Block)]
    BY <1>1, <1>3, <1>4, AppendFacts
  <2>2. breaches' \in Nat
    BY <1>3, UseFacts
  <2> QED
    BY <1>3, <1>4, <2>1, <2>2 DEF IInv, TypeOK
<1>6. SlotInv'
  BY <1>1, <1>3 DEF IInv, SlotInv, Usable, IsOpen
<1>7. OverflowInv' /\ (Disciplined' => StackInv')
  <2>1. current <= b.to /\ b.to <= b.to
    BY <1>1, <1>2
  <2> DEFINE c == b.to
  <2>2. c \in Address /\ current' = c /\ current <= c /\ c <= c /\ c <= Capacity
    BY <1>3, <1>4, <2>1
  <2>3. last' = [last EXCEPT ![s] = c]
    BY <1>3
  <2> HIDE DEF c
  <2> QED
    BY <1>3, <2>2, <2>3, AllocationKeepsStack
<1>8. ASSUME Disciplined' PROVE BlockInv' /\ FinalizerInv' /\ last[s] = current
  <2>1. Disciplined /\ last[s] = current
    <3>1. current <= Capacity
      BY <1>1, <1>2, <1>3
    <3> QED
      BY <1>3, <1>8, <3>1, UseFacts
  <2>2. StackInv /\ BlockInv /\ FinalizerInv
    BY <2>1 DEF IInv
  <2>3. BlockInv'
    <3>1. reset[s] \in Nat /\ last[s] \in Nat /\ reset[s] <= last[s] /\ blocks[s] \in Seq(Block)
      BY <1>1, <2>2, ArenaAssumption DEF StackInv, IInv, TypeOK, Address
    <3>2. Packed(Append(blocks[s], b), reset[s], b.to)
      BY <1>2, <1>3, <1>4, <2>1, <2>2, <3>1, AppendPacked DEF BlockInv
    <3>3. blocks'[s] = Append(blocks[s], b) /\ last'[s] = b.to
      BY <1>1, <1>3
    <3>4. \A x \in Scratch : x # s => blocks'[x] = blocks[x] /\ last'[x] = last[x]
      BY <1>1, <1>3
    <3> QED
      BY <1>3, <2>2, <3>2, <3>3, <3>4, OthersStayPacked
  <2>4. FinalizerInv'
    <3>1. last[s] <= b.to
      BY <1>1, <1>2, <2>1
    <3> QED
      BY <1>3, <1>4, <2>2, <3>1, RaiseKeepsFinalizers
  <2> QED
    BY <2>1, <2>3, <2>4
<1> QED
  BY <1>5, <1>6, <1>7, <1>8

LEMMA AllocatePreserves ==
  ASSUME IInv, NEW s \in Scratch, NEW n \in Nat, NEW a \in Nat \ {0}, allocate(s, n, a)
  PROVE  IInv'
<1>1. Take(s, BlockAt(current, n, a)) /\ trap' = "none"
  BY DEF allocate, Take, Usable
<1>2. TrapsAreDeserved'
  BY <1>1 DEF TrapsAreDeserved
<1> QED
  BY <1>1, <1>2, TakePreserves DEF IInv

LEMMA ReallocatePreserves ==
  ASSUME IInv, NEW s \in Scratch, NEW n \in Nat, NEW a \in Nat \ {0},
         NEW i \in DOMAIN blocks[s], reallocate(s, blocks[s][i], n, a)
  PROVE  IInv'
<1> DEFINE old == blocks[s][i]
           b   == BlockAt(current, n, a)
<1>1. Take(s, b) /\ trap' = IF old.from < Align(current, a) THEN "none" ELSE "reallocate"
  BY DEF reallocate
<1>2. /\ TypeOK' /\ SlotInv' /\ OverflowInv'
      /\ Disciplined' => StackInv' /\ BlockInv' /\ FinalizerInv' /\ last[s] = current
  BY <1>1, TakePreserves
<1>3. ASSUME Disciplined', trap' = "reallocate"
      PROVE  \E x \in Scratch : \E j \in DOMAIN blocks'[x] : Empty(blocks'[x][j])
  <2>1. Disciplined /\ last[s] = current
    BY <1>1, <1>2, <1>3, UseFacts DEF Take
  <2>2. current \in Nat /\ blocks \in [Scratch -> Seq(Block)] /\ blocks[s] \in Seq(Block)
    BY ArenaAssumption DEF IInv, TypeOK, Address
  <2>3. /\ b.from \in Nat /\ b.to \in Nat /\ current <= b.from /\ b.from = Align(current, a)
        /\ b.from <= b.to /\ b = [from |-> b.from, to |-> b.to]
    BY <2>2, BlockFacts
  <2>4. old \in Block
    BY <2>2
  <2>5. old.from \in Nat /\ old.to \in Nat
    BY <2>4, ArenaAssumption DEF Block, Address
  <2>6. old.from <= old.to /\ old.to <= current
    BY <2>1 DEF IInv, BlockInv, Packed
  <2>7. Empty(old)
    BY <1>1, <1>3, <2>2, <2>3, <2>5, <2>6 DEF Empty
  <2>8. b \in Block
    BY <1>1, <2>3, ArenaAssumption DEF Take, Block, Address
  <2>9. blocks'[s] = Append(blocks[s], b)
    BY <1>1, <2>2 DEF Take
  <2>10. i \in DOMAIN blocks'[s] /\ blocks'[s][i] = old
    BY <2>2, <2>8, <2>9, AppendFacts
  <2> QED
    BY <2>7, <2>10
<1>4. TrapsAreDeserved'
  BY <1>1, <1>3 DEF TrapsAreDeserved
<1> QED
  BY <1>1, <1>2, <1>4 DEF IInv

LEMMA OutOfMemoryPreserves ==
  ASSUME IInv, NEW s \in Scratch, NEW n \in Nat, NEW a \in Nat \ {0}, OutOfMemory(s, n, a)
  PROVE  IInv'
<1> DEFINE to == BlockAt(current, n, a).to
<1>1. current \in Nat /\ Capacity \in Nat /\ last \in [Scratch -> Address] /\ Address \subseteq Nat
  BY ArenaAssumption DEF IInv, TypeOK, Address
<1>2. to \in Nat /\ current <= to
  BY <1>1, BlockFacts
<1> HIDE DEF to
<1>3. /\ Usable(s) /\ Use(s) /\ to <= MaxCurrent /\ ~(to <= Capacity) /\ current' = to
      /\ UNCHANGED <<open, reset, last, finalizers, closing, pending, trap, blocks>>
  BY DEF OutOfMemory, Fits, to
<1>4. to \in Address /\ to > Capacity
  BY <1>1, <1>2, <1>3, ArenaAssumption DEF Address
<1>5. breaches' \in Nat /\ (Disciplined' => Disciplined /\ Innermost(s))
  BY <1>3, UseFacts
<1>6. TypeOK' /\ SlotInv'
  BY <1>3, <1>4, <1>5 DEF IInv, TypeOK, SlotInv, IsOpen
<1>7. OverflowInv'
  BY <1>3 DEF IInv, OverflowInv
<1>8. ASSUME Disciplined' PROVE StackInv' /\ BlockInv' /\ FinalizerInv'
  <2>1. StackInv /\ BlockInv /\ FinalizerInv
    BY <1>5, <1>8 DEF IInv
  <2>2. open # << >>
    BY <1>5, <1>8 DEF Innermost
  <2>3. ASSUME NEW i \in DOMAIN open PROVE last[open[i]] <= to
    <3>1. last[open[i]] <= current
      BY <2>1 DEF StackInv
    <3>2. open[i] \in Scratch
      BY DEF IInv, TypeOK
    <3>3. last[open[i]] \in Nat
      BY <1>1, <3>2
    <3> QED
      BY <1>1, <1>2, <3>1, <3>3
  <2>4. StackInv'
    BY <1>3, <1>4, <2>1, <2>2, <2>3 DEF StackInv
  <2> QED
    BY <1>3, <2>1, <2>4 DEF BlockInv, FinalizerInv, Descending, Packed
<1>9. TrapsAreDeserved'
  BY <1>3 DEF TrapsAreDeserved, Usable
<1> QED
  BY <1>6, <1>7, <1>8, <1>9 DEF IInv

(* An object in front of the list: it lies behind all those on the list. *)
LEMMA PrependDescending ==
  ASSUME NEW list \in Seq(Block), Descending(list), NEW b \in Block,
         \A i \in DOMAIN list : list[i].to <= b.from
  PROVE  /\ Descending(<<b>> \o list)
         /\ \A i \in DOMAIN (<<b>> \o list) :
              (<<b>> \o list)[i] = b \/ \E j \in DOMAIN list : (<<b>> \o list)[i] = list[j]
<1> DEFINE longer == <<b>> \o list
           n      == Len(list)
<1>1. /\ DOMAIN longer = 1 .. n + 1 /\ DOMAIN list = 1 .. n /\ n \in Nat
      /\ longer[1] = b
      /\ \A i \in 2 .. n + 1 : longer[i] = list[i - 1] /\ i - 1 \in 1 .. n
  <2>1. <<b>> \in Seq(Block) /\ Len(<<b>>) = 1 /\ <<b>>[1] = b
    OBVIOUS
  <2>2. /\ longer \in Seq(Block) /\ Len(longer) = n + 1 /\ n \in Nat
        /\ \A i \in 1 .. 1 + n : longer[i] = IF i <= 1 THEN <<b>>[i] ELSE list[i - 1]
    BY <2>1, ConcatProperties
  <2> QED
    BY <2>1, <2>2
<1> HIDE DEF longer, n
<1>2. ASSUME NEW i \in DOMAIN longer
      PROVE  longer[i] = b \/ \E j \in DOMAIN list : longer[i] = list[j]
  <2>1. CASE i = 1
    BY <2>1, <1>1
  <2>2. CASE i # 1
    <3>1. i \in 2 .. n + 1
      BY <2>2, <1>1
    <3>2. longer[i] = list[i - 1] /\ i - 1 \in DOMAIN list
      BY <3>1, <1>1
    <3> QED
      BY <3>2
  <2> QED
    BY <2>1, <2>2
<1>3. ASSUME NEW i \in DOMAIN longer, NEW j \in DOMAIN longer, i < j
      PROVE  longer[j].to <= longer[i].from
  <2>1. j \in 2 .. n + 1 /\ longer[j] = list[j - 1] /\ j - 1 \in DOMAIN list
    BY <1>1, <1>3
  <2>2. CASE i = 1
    BY <2>1, <2>2, <1>1
  <2>3. CASE i # 1
    <3>1. i \in 2 .. n + 1 /\ longer[i] = list[i - 1] /\ i - 1 \in DOMAIN list
      BY <2>3, <1>1
    <3>2. i - 1 < j - 1
      BY <1>1, <1>3
    <3> QED
      BY <2>1, <3>1, <3>2 DEF Descending
  <2> QED
    BY <2>2, <2>3
<1>4. Descending(longer)
  BY <1>3 DEF Descending
<1> QED
  BY <1>2, <1>4 DEF longer

LEMMA CreatePreserves ==
  ASSUME IInv, NEW s \in Scratch, NEW n \in Nat, NEW a \in Nat \ {0}, create(s, n, a)
  PROVE  IInv'
<1> DEFINE object == BlockAt(current, n, a)
           node   == Node(object)
<1>1. /\ current \in Nat /\ Capacity \in Nat /\ last \in [Scratch -> Nat]
      /\ blocks \in [Scratch -> Seq(Block)] /\ finalizers \in [Scratch -> Seq(Block)]
      /\ MaxCurrent \in Nat
  BY ArenaAssumption DEF IInv, TypeOK, Address
<1>2. /\ object.from \in Nat /\ object.to \in Nat
      /\ current <= object.from /\ object.from <= object.to
      /\ object = [from |-> object.from, to |-> object.to]
  BY <1>1, BlockFacts
<1>3. /\ node.from \in Nat /\ node.to \in Nat
      /\ object.to <= node.from /\ node.from <= node.to
      /\ node = [from |-> node.from, to |-> node.to]
  <2>1. object \in [from : Nat, to : Nat]
    BY <1>2
  <2> QED
    BY <2>1, NodeFacts
<1>4. /\ Usable(s) /\ Use(s) /\ node.to <= MaxCurrent /\ node.to <= Capacity
      /\ current' = node.to /\ last' = [last EXCEPT ![s] = node.to]
      /\ blocks' = [blocks EXCEPT ![s] = @ \o <<object, node>>]
      /\ finalizers' = [finalizers EXCEPT ![s] = <<object>> \o @]
      /\ UNCHANGED <<open, reset, closing, pending, trap>>
  BY DEF create, Fits
<1> HIDE DEF object, node
<1>5. /\ object \in Block /\ node \in Block /\ node.to \in Address
      /\ current <= node.to /\ object.to <= node.to
  BY SMTT(30), <1>1, <1>2, <1>3, <1>4 DEF Address, Block
<1>6. /\ Append(blocks[s], object) \in Seq(Block)
      /\ blocks'[s] = Append(Append(blocks[s], object), node)
      /\ blocks'[s] \in Seq(Block)
  <2>1. blocks[s] \in Seq(Block)
    BY <1>1
  <2>2. blocks'[s] = blocks[s] \o <<object, node>>
    BY <1>1, <1>4
  <2>3. blocks[s] \o <<object, node>> = Append(Append(blocks[s], object), node)
    BY <1>5, <2>1
  <2> QED
    BY <1>5, <2>1, <2>2, <2>3, AppendFacts
<1>7. TypeOK'
  <2>1. blocks' \in [Scratch -> Seq(Block)]
    BY <1>1, <1>4, <1>6
  <2>2. finalizers' \in [Scratch -> Seq(Block)]
    <3>1. <<object>> \o finalizers[s] \in Seq(Block)
      BY <1>1, <1>5
    <3> QED
      BY <1>1, <1>4, <3>1
  <2>3. breaches' \in Nat
    BY <1>4, UseFacts
  <2> QED
    BY <1>4, <1>5, <2>1, <2>2, <2>3 DEF IInv, TypeOK
<1>8. SlotInv'
  BY <1>1, <1>4 DEF IInv, SlotInv, Usable, IsOpen
<1>9. OverflowInv' /\ (Disciplined' => StackInv')
  <2> DEFINE c == node.to
  <2>1. c \in Address /\ current' = c /\ current <= c /\ c <= c /\ c <= Capacity
    BY <1>3, <1>4, <1>5
  <2>2. last' = [last EXCEPT ![s] = c]
    BY <1>4
  <2> HIDE DEF c
  <2> QED
    BY <1>4, <2>1, <2>2, AllocationKeepsStack
<1>10. ASSUME Disciplined' PROVE BlockInv' /\ FinalizerInv'
  <2>1. Disciplined /\ last[s] = current
    <3>1. current <= Capacity
      <4>1. current \in Nat /\ Capacity \in Nat /\ node.to \in Nat
        BY <1>1, <1>3, ArenaAssumption DEF IInv, TypeOK, Address
      <4> QED
        BY ONLY <4>1, <1>4, <1>5
    <3> QED
      BY <1>4, <1>10, <3>1, UseFacts
  <2>2. StackInv /\ BlockInv /\ FinalizerInv
    BY <2>1 DEF IInv
  <2>3. BlockInv'
    <3>1. /\ reset[s] \in Nat /\ last[s] \in Nat /\ reset[s] <= last[s]
          /\ blocks[s] \in Seq(Block) /\ reset[s] <= object.to /\ object.to <= Capacity
      <4>1. reset[s] \in Nat /\ last[s] \in Nat /\ blocks[s] \in Seq(Block)
        BY <1>1, ArenaAssumption DEF IInv, TypeOK, Address
      <4>2. reset[s] <= last[s]
        BY <2>2 DEF StackInv
      <4> QED
        BY SMTT(30), <1>1, <1>2, <1>3, <1>4, <2>1, <4>1, <4>2
    <3>2. Packed(Append(blocks[s], object), reset[s], object.to)
      BY <1>2, <1>5, <2>1, <2>2, <3>1, AppendPacked DEF BlockInv
    <3>3. Packed(blocks'[s], reset[s], node.to)
      BY <1>2, <1>3, <1>4, <1>5, <1>6, <3>1, <3>2, AppendPacked
    <3>4. /\ last'[s] = node.to
          /\ \A x \in Scratch : x # s => blocks'[x] = blocks[x] /\ last'[x] = last[x]
      BY <1>1, <1>4
    <3> QED
      BY <1>4, <2>2, <3>3, <3>4, OthersStayPacked
  <2>4. FinalizerInv'
    <3>1. /\ finalizers'[s] = <<object>> \o finalizers[s] /\ last'[s] = node.to
          /\ \A x \in Scratch : x # s => finalizers'[x] = finalizers[x] /\ last'[x] = last[x]
      BY <1>1, <1>4
    <3>2. \A i \in DOMAIN finalizers[s] : finalizers[s][i].to <= current
      BY <2>1, <2>2 DEF FinalizerInv
    <3>3. \A i \in DOMAIN finalizers[s] : finalizers[s][i].to \in Nat
      <4>1. ASSUME NEW i \in DOMAIN finalizers[s] PROVE finalizers[s][i] \in Block
        BY <1>1
      <4> QED
        BY ONLY <4>1, BlockBounds
    <3>4. \A i \in DOMAIN finalizers[s] :
            finalizers[s][i].to <= object.from /\ finalizers[s][i].to <= node.to
      BY SMTT(30), <1>1, <1>2, <1>3, <3>2, <3>3
    <3>5. finalizers[s] \in Seq(Block) /\ Descending(finalizers[s])
      BY <1>1, <2>2 DEF FinalizerInv
    <3>6. /\ Descending(finalizers'[s])
          /\ \A i \in DOMAIN finalizers'[s] : finalizers'[s][i].to <= node.to
      <4>1. Descending(<<object>> \o finalizers[s])
        BY <1>5, <3>4, <3>5, PrependDescending
      <4>2. ASSUME NEW i \in DOMAIN finalizers'[s]
            PROVE  finalizers'[s][i] = object
                   \/ \E j \in DOMAIN finalizers[s] : finalizers'[s][i] = finalizers[s][j]
        BY <1>5, <3>1, <3>4, <3>5, PrependDescending
      <4> QED
        BY <1>5, <3>1, <3>4, <4>1, <4>2
    <3>7. \A x \in Scratch : /\ Descending(finalizers'[x])
                            /\ \A i \in DOMAIN finalizers'[x] : finalizers'[x][i].to <= last'[x]
      BY <2>2, <3>1, <3>6 DEF FinalizerInv
    <3>8. \A x \in Scratch : Descending(pending'[x])
      BY <1>4, <2>2 DEF FinalizerInv
    <3> QED
      BY <3>7, <3>8 DEF FinalizerInv, Descending
  <2> QED
    BY <2>3, <2>4
<1>11. TrapsAreDeserved'
  BY <1>4 DEF TrapsAreDeserved, Usable
<1> QED
  BY <1>7, <1>8, <1>9, <1>10, <1>11 DEF IInv

LEMMA CreateFailsPreserves ==
  ASSUME IInv, NEW s \in Scratch, NEW n \in Nat, NEW a \in Nat \ {0}, CreateFails(s, n, a)
  PROVE  IInv'
<1> DEFINE object == BlockAt(current, n, a)
           c      == Node(object).to
<1>1. /\ current \in Nat /\ Capacity \in Nat /\ last \in [Scratch -> Nat]
      /\ blocks \in [Scratch -> Seq(Block)] /\ MaxCurrent \in Nat
  BY ArenaAssumption DEF IInv, TypeOK, Address
<1>2. /\ object.from \in Nat /\ object.to \in Nat
      /\ current <= object.from /\ object.from <= object.to
      /\ object = [from |-> object.from, to |-> object.to]
  BY <1>1, BlockFacts
<1>3. c \in Nat /\ object.to <= c
  <2>1. object \in [from : Nat, to : Nat]
    BY <1>2
  <2>2. /\ Node(object).from \in Nat /\ Node(object).to \in Nat
        /\ object.to <= Node(object).from /\ Node(object).from <= Node(object).to
    BY <2>1, NodeFacts
  <2> QED
    BY <1>2, <2>2
<1>4. /\ Usable(s) /\ Use(s) /\ c <= MaxCurrent /\ object.to <= Capacity /\ ~(c <= Capacity)
      /\ current' = c /\ last' = [last EXCEPT ![s] = object.to]
      /\ blocks' = [blocks EXCEPT ![s] = Append(@, object)]
      /\ UNCHANGED <<open, reset, finalizers, closing, pending, trap>>
  BY DEF CreateFails, Fits
<1> DEFINE l == object.to
<1>5. /\ object \in Block /\ c \in Address /\ l \in Address
      /\ current <= c /\ c > Capacity
  BY <1>1, <1>2, <1>3, <1>4 DEF Address, Block
<1> HIDE DEF c
<1>6. TypeOK'
  <2>1. blocks' \in [Scratch -> Seq(Block)]
    BY <1>1, <1>4, <1>5, AppendFacts
  <2>2. breaches' \in Nat
    BY <1>4, UseFacts
  <2> QED
    BY <1>4, <1>5, <2>1, <2>2 DEF IInv, TypeOK
<1>7. SlotInv'
  BY <1>1, <1>4 DEF IInv, SlotInv, Usable, IsOpen
<1>8. OverflowInv' /\ (Disciplined' => StackInv')
  <2>1. current <= l /\ l <= Capacity /\ l <= c
    BY <1>1, <1>2, <1>3, <1>4
  <2>2. last' = [last EXCEPT ![s] = l]
    BY <1>4
  <2> HIDE DEF l, object
  <2> QED
    BY <1>4, <1>5, <2>1, <2>2, AllocationKeepsStack
<1> HIDE DEF object
<1>9. ASSUME Disciplined' PROVE BlockInv' /\ FinalizerInv'
  <2>1. Disciplined /\ last[s] = current
    <3>1. current <= Capacity
      BY <1>1, <1>2, <1>4
    <3> QED
      BY <1>4, <1>9, <3>1, UseFacts
  <2>2. StackInv /\ BlockInv /\ FinalizerInv
    BY <2>1 DEF IInv
  <2>3. BlockInv'
    <3>1. reset[s] \in Nat /\ last[s] \in Nat /\ reset[s] <= last[s] /\ blocks[s] \in Seq(Block)
      BY <1>1, <2>2, ArenaAssumption DEF StackInv, IInv, TypeOK, Address
    <3>2. Packed(Append(blocks[s], object), reset[s], object.to)
      BY <1>2, <1>4, <1>5, <2>1, <2>2, <3>1, AppendPacked DEF BlockInv
    <3>3. /\ blocks'[s] = Append(blocks[s], object) /\ last'[s] = object.to
          /\ \A x \in Scratch : x # s => blocks'[x] = blocks[x] /\ last'[x] = last[x]
      BY <1>1, <1>4
    <3> QED
      BY <1>4, <2>2, <3>2, <3>3, OthersStayPacked
  <2>4. FinalizerInv'
    <3>1. last[s] <= l /\ last' = [last EXCEPT ![s] = l]
      BY <1>1, <1>2, <1>4, <2>1
    <3> HIDE DEF l
    <3> QED
      BY <1>4, <1>5, <2>2, <3>1, RaiseKeepsFinalizers
  <2> QED
    BY <2>3, <2>4
<1>10. TrapsAreDeserved'
  BY <1>4 DEF TrapsAreDeserved, Usable
<1> QED
  BY <1>6, <1>7, <1>8, <1>9, <1>10 DEF IInv

-----------------------------------------------------------------------------
LEMMA ConstructPreserves ==
  ASSUME IInv, NEW s \in Scratch, Construct(s)
  PROVE  IInv'
<1>1. /\ open \in Seq(Scratch) /\ Len(open) \in Nat /\ DOMAIN open = 1 .. Len(open)
      /\ reset \in [Scratch -> Nat] /\ last \in [Scratch -> Nat]
      /\ current \in Nat /\ Capacity \in Nat
  BY ArenaAssumption DEF IInv, TypeOK, Address
<1>2. /\ trap = "none" /\ ~IsOpen(s)
      /\ open' = Append(open, s)
      /\ reset' = [reset EXCEPT ![s] = current]
      /\ last' = [last EXCEPT ![s] = current]
      /\ UNCHANGED <<current, finalizers, closing, pending, trap, blocks, breaches>>
  BY DEF Construct
<1>3. /\ open' \in Seq(Scratch) /\ Len(open') = Len(open) + 1
      /\ DOMAIN open' = 1 .. Len(open) + 1
      /\ open'[Len(open) + 1] = s
      /\ \A i \in 1 .. Len(open) : open'[i] = open[i] /\ open[i] \in Scratch /\ open[i] # s
  <2>1. \A i \in 1 .. Len(open) : open[i] \in Scratch /\ open[i] # s
    <3> TAKE i \in 1 .. Len(open)
    <3>1. i \in DOMAIN open
      BY <1>1
    <3> QED
      BY ONLY <1>1, <1>2, <3>1 DEF IsOpen
  <2>2. /\ open' \in Seq(Scratch) /\ Len(open') = Len(open) + 1
        /\ DOMAIN open' = 1 .. Len(open) + 1
        /\ open'[Len(open) + 1] = s
        /\ \A i \in 1 .. Len(open) : open'[i] = open[i]
    BY ONLY <1>1, <1>2, AppendFacts, s \in Scratch
  <2> QED
    BY <2>1, <2>2
<1>4. /\ reset'[s] = current /\ last'[s] = current
      /\ \A x \in Scratch : x # s => reset'[x] = reset[x] /\ last'[x] = last[x]
  BY <1>1, <1>2
<1>5. blocks[s] = << >> /\ finalizers[s] = << >>
  BY <1>2 DEF IInv, SlotInv
<1>6. TypeOK'
  BY <1>2, <1>3 DEF IInv, TypeOK
<1>7. SlotInv'
  <2>1. ASSUME NEW i \in DOMAIN open', NEW j \in DOMAIN open', open'[i] = open'[j]
        PROVE  i = j
    <3>1. /\ i = Len(open) + 1 \/ i \in 1 .. Len(open)
          /\ j = Len(open) + 1 \/ j \in 1 .. Len(open)
      BY <1>1, <1>3, Appended
    <3>2. CASE i = Len(open) + 1 \/ j = Len(open) + 1
      BY <2>1, <3>1, <3>2, <1>3
    <3>3. CASE i \in 1 .. Len(open) /\ j \in 1 .. Len(open)
      BY <2>1, <3>3, <1>1, <1>3 DEF IInv, SlotInv
    <3> QED
      BY <3>1, <3>2, <3>3
  <2>2. \A x \in Scratch : ~IsOpen(x)' => ~IsOpen(x) /\ x # s
    <3>1. Len(open) + 1 \in DOMAIN open' /\ DOMAIN open \subseteq DOMAIN open'
      BY <1>1, <1>3
    <3> QED
      BY <3>1, <1>1, <1>3 DEF IsOpen
  <2>3. \A x \in closing : IsOpen(x)'
    <3>1. DOMAIN open \subseteq DOMAIN open'
      BY <1>1, <1>3
    <3> QED
      BY <3>1, <1>1, <1>3 DEF IsOpen, IInv, SlotInv
  <2> QED
    BY <1>2, <1>4, <2>1, <2>2, <2>3 DEF IInv, SlotInv
<1>8. OverflowInv'
  BY <1>4 DEF IInv, OverflowInv
<1>9. ASSUME Disciplined' PROVE StackInv' /\ BlockInv' /\ FinalizerInv'
  <2>1. StackInv /\ BlockInv /\ FinalizerInv
    BY <1>2, <1>9 DEF IInv, Disciplined
  <2>2. \A i \in 1 .. Len(open) : /\ last'[open'[i]] = last[open[i]]
                                 /\ reset'[open'[i]] = reset[open[i]]
                                 /\ last[open[i]] <= current
    BY <1>1, <1>3, <1>4, <2>1 DEF StackInv
  <2>3. reset'[open'[1]] = 0
    <3>1. CASE Len(open) = 0
      BY <3>1, <1>1, <1>3, <1>4, <2>1 DEF StackInv
    <3>2. CASE Len(open) # 0
      BY <3>2, <1>1, <2>1, <2>2 DEF StackInv
    <3> QED
      BY <3>1, <3>2
  <2>4. \A x \in Scratch : reset'[x] <= last'[x]
    BY <1>1, <1>4, <2>1 DEF StackInv
  <2>5. ASSUME NEW i \in DOMAIN open' PROVE last'[open'[i]] <= current
    <3>1. CASE i = Len(open) + 1
      BY <3>1, <1>1, <1>3, <1>4
    <3>2. CASE i # Len(open) + 1
      <4>1. i \in 1 .. Len(open)
        BY <3>2, <1>1, <1>3
      <4> QED
        BY <4>1, <2>2
    <3> QED
      BY <3>1, <3>2
  <2>6. ASSUME NEW i \in DOMAIN open', NEW j \in DOMAIN open', i < j
        PROVE  last'[open'[i]] <= reset'[open'[j]]
    <3>1. i \in 1 .. Len(open)
      BY <1>1, <1>3, <2>6
    <3>2. CASE j = Len(open) + 1
      BY <3>1, <3>2, <1>3, <1>4, <2>2
    <3>3. CASE j # Len(open) + 1
      <4>1. j \in 1 .. Len(open)
        BY <3>3, <1>1, <1>3
      <4> QED
        BY <3>1, <4>1, <1>1, <2>1, <2>2, <2>6 DEF StackInv
    <3> QED
      BY <3>2, <3>3
  <2>7. ASSUME NEW i \in 1 .. Len(open)
        PROVE  last'[open'[i]] = reset'[open'[i + 1]] \/ reset'[open'[i + 1]] > Capacity
    <3>1. CASE i = Len(open)
      BY <3>1, <1>1, <1>3, <1>4, <2>1, <2>2 DEF StackInv
    <3>2. CASE i # Len(open)
      <4>1. i \in 1 .. Len(open) - 1 /\ i + 1 \in 1 .. Len(open)
        BY <3>2, <1>1, NotTop
      <4> QED
        BY <4>1, <2>1, <2>2 DEF StackInv
    <3> QED
      BY <3>1, <3>2
  <2>8. open' # << >> /\ Len(open') - 1 = Len(open) /\ open'[Len(open')] = s
    BY <1>1, <1>3
  <2>9. StackInv'
    BY <1>2, <1>4, <2>3, <2>4, <2>5, <2>6, <2>7, <2>8 DEF StackInv
  <2>10. BlockInv'
    BY <1>2, <1>4, <1>5, <2>1 DEF BlockInv, Packed
  <2>11. FinalizerInv'
    BY <1>2, <1>4, <1>5, <2>1 DEF FinalizerInv, Descending
  <2> QED
    BY <2>9, <2>10, <2>11
<1>10. TrapsAreDeserved'
  BY <1>2 DEF TrapsAreDeserved
<1> QED
  BY <1>6, <1>7, <1>8, <1>9, <1>10 DEF IInv

LEMMA DestructPreserves ==
  ASSUME IInv, NEW s \in Scratch, Destruct(s)
  PROVE  IInv'
<1>1. /\ Usable(s) /\ Use(s)
      /\ closing' = closing \union {s} /\ pending' = [pending EXCEPT ![s] = finalizers[s]]
      /\ UNCHANGED <<current, open, reset, last, finalizers, trap, blocks>>
  BY DEF Destruct
<1>2. breaches' \in Nat /\ (Disciplined' => Disciplined)
  BY <1>1, UseFacts
<1>3. TypeOK'
  BY <1>1, <1>2 DEF IInv, TypeOK
<1>4. SlotInv' /\ OverflowInv'
  BY <1>1 DEF IInv, SlotInv, OverflowInv, IsOpen, Usable
<1>5. ASSUME Disciplined' PROVE StackInv' /\ BlockInv' /\ FinalizerInv'
  <2>1. StackInv /\ BlockInv /\ FinalizerInv
    BY <1>2, <1>5 DEF IInv
  <2>2. pending \in [Scratch -> Seq(Block)]
    BY DEF IInv, TypeOK
  <2>3. \A x \in Scratch : pending'[x] = IF x = s THEN finalizers[s] ELSE pending[x]
    BY <1>1, <2>2
  <2>4. FinalizerInv'
    BY <1>1, <2>1, <2>3 DEF FinalizerInv, Descending
  <2> QED
    BY <1>1, <2>1, <2>4 DEF StackInv, BlockInv, Packed
<1>6. TrapsAreDeserved'
  BY <1>1 DEF TrapsAreDeserved, Usable
<1> QED
  BY <1>2, <1>3, <1>4, <1>5, <1>6 DEF IInv

(* The ASSERT of ~ScratchAllocator: with the order kept and room left, the *)
(* youngest stopped allocating at current_.                                *)
LEMMA DestructFailsPreserves ==
  ASSUME IInv, NEW s \in Scratch, DestructFails(s)
  PROVE  IInv'
<1>1. /\ Usable(s) /\ Use(s) /\ last[s] # current /\ trap' = "asymmetric"
      /\ UNCHANGED <<current, open, reset, last, finalizers, closing, pending, blocks>>
  BY DEF DestructFails
<1>2. /\ breaches' \in Nat
      /\ Disciplined' => Disciplined /\ ~(current <= Capacity)
  BY <1>1, UseFacts
<1>3. current \in Nat /\ Capacity \in Nat
  BY ArenaAssumption DEF IInv, TypeOK, Address
<1>4. TypeOK' /\ SlotInv' /\ OverflowInv'
  BY <1>1, <1>2 DEF IInv, TypeOK, SlotInv, OverflowInv, IsOpen
<1>5. Disciplined' => StackInv' /\ BlockInv' /\ FinalizerInv'
  BY <1>1, <1>2 DEF IInv, StackInv, BlockInv, FinalizerInv, Packed, Descending
<1>6. TrapsAreDeserved'
  BY <1>1, <1>2, <1>3 DEF TrapsAreDeserved
<1> QED
  BY <1>4, <1>5, <1>6 DEF IInv

LEMMA FinalizePreserves ==
  ASSUME IInv, NEW s \in Scratch, Finalize(s)
  PROVE  IInv'
<1>1. /\ trap = "none" /\ pending[s] # << >> /\ Use(s)
      /\ pending' = [pending EXCEPT ![s] = Tail(@)]
      /\ UNCHANGED <<current, open, reset, last, finalizers, closing, trap, blocks>>
  BY DEF Finalize
<1>2. breaches' \in Nat /\ (Disciplined' => Disciplined)
  BY <1>1, UseFacts
<1>3. pending[s] \in Seq(Block) /\ pending \in [Scratch -> Seq(Block)]
  BY DEF IInv, TypeOK
<1>4. /\ Tail(pending[s]) \in Seq(Block)
      /\ \A i \in DOMAIN Tail(pending[s]) :
           i \in Nat /\ i + 1 \in DOMAIN pending[s] /\ Tail(pending[s])[i] = pending[s][i + 1]
  BY <1>1, <1>3
<1>5. TypeOK'
  BY <1>1, <1>2, <1>3, <1>4 DEF IInv, TypeOK
<1>6. SlotInv' /\ OverflowInv'
  BY <1>1 DEF IInv, SlotInv, OverflowInv, IsOpen
<1>7. ASSUME Disciplined' PROVE StackInv' /\ BlockInv' /\ FinalizerInv'
  <2>1. StackInv /\ BlockInv /\ FinalizerInv
    BY <1>2, <1>7 DEF IInv
  <2>2. Descending(Tail(pending[s]))
    <3> SUFFICES ASSUME NEW i \in DOMAIN Tail(pending[s]), NEW j \in DOMAIN Tail(pending[s]), i < j
                 PROVE  Tail(pending[s])[j].to <= Tail(pending[s])[i].from
      BY DEF Descending
    <3>1. i + 1 < j + 1
      BY <1>4
    <3> QED
      BY <1>4, <2>1, <3>1 DEF FinalizerInv, Descending
  <2>3. \A x \in Scratch : Descending(pending'[x])
    BY <1>1, <1>3, <2>1, <2>2 DEF FinalizerInv
  <2>4. FinalizerInv'
    BY <1>1, <2>1, <2>3 DEF FinalizerInv, Descending
  <2> QED
    BY <1>1, <2>1, <2>4 DEF StackInv, BlockInv, Packed
<1>8. TrapsAreDeserved'
  BY <1>1 DEF TrapsAreDeserved
<1> QED
  BY <1>2, <1>5, <1>6, <1>7, <1>8 DEF IInv

(* The end of a scope: what lay below it is again where it was before. *)
LEMMA ResetPreserves ==
  ASSUME IInv, NEW s \in Scratch, Reset(s)
  PROVE  IInv'
<1> DEFINE k == Position(s)
           n == Len(open)
<1>1. /\ trap = "none" /\ s \in closing /\ reset[s] < Capacity /\ Use(s)
      /\ current' = reset[s]
      /\ open' = RemoveAt(open, k)
      /\ closing' = closing \ {s}
      /\ reset' = [reset EXCEPT ![s] = 0] /\ last' = [last EXCEPT ![s] = 0]
      /\ finalizers' = [finalizers EXCEPT ![s] = << >>]
      /\ blocks' = [blocks EXCEPT ![s] = << >>]
      /\ UNCHANGED <<pending, trap>>
  BY DEF Reset, ResetTo
<1>2. /\ open \in Seq(Scratch) /\ n \in Nat /\ DOMAIN open = 1 .. n
      /\ reset \in [Scratch -> Nat] /\ last \in [Scratch -> Nat]
      /\ current \in Nat /\ Capacity \in Nat
      /\ blocks \in [Scratch -> Seq(Block)] /\ finalizers \in [Scratch -> Seq(Block)]
      /\ \A i \in DOMAIN open : open[i] \in Scratch
  BY ArenaAssumption DEF IInv, TypeOK, Address
<1>3. k \in 1 .. n /\ open[k] = s
  <2>1. \E i \in DOMAIN open : open[i] = s
    BY <1>1 DEF IInv, SlotInv, IsOpen
  <2> QED
    BY <1>2, <2>1 DEF Position
<1> HIDE DEF k
<1>4. \A i \in 1 .. n : i # k => open[i] # s
  BY <1>2, <1>3 DEF IInv, SlotInv
<1>5. /\ open' \in Seq(Scratch) /\ Len(open') = n - 1 /\ DOMAIN open' = 1 .. n - 1
      /\ \A i \in 1 .. n - 1 : open'[i] = IF i < k THEN open[i] ELSE open[i + 1]
  <2>1. open' = RemoveAt(open, k) /\ k \in 1 .. Len(open)
    BY <1>1, <1>3
  <2> QED
    BY ONLY <1>2, <2>1, RemoveAtFacts, n = Len(open)
<1>6. \A x \in Scratch :
        /\ reset'[x] = IF x = s THEN 0 ELSE reset[x]
        /\ last'[x] = IF x = s THEN 0 ELSE last[x]
        /\ blocks'[x] = IF x = s THEN << >> ELSE blocks[x]
        /\ finalizers'[x] = IF x = s THEN << >> ELSE finalizers[x]
  BY <1>1, <1>2
<1> HIDE DEF n
<1>7. breaches' \in Nat /\ (Disciplined' => Disciplined /\ n \in DOMAIN open /\ open[n] = s)
  BY <1>1, UseFacts DEF n
<1>8. TypeOK'
  <2>1. reset[s] \in Address /\ 0 \in Address
    BY ArenaAssumption DEF IInv, TypeOK, Address
  <2>2. << >> \in Seq(Block)
    OBVIOUS
  <2> QED
    BY <1>1, <1>5, <1>7, <2>1, <2>2 DEF IInv, TypeOK
<1>9. SlotInv'
  <2>1. ASSUME NEW i \in 1 .. n - 1
        PROVE  \E m \in 1 .. n : open'[i] = open[m] /\ m = IF i < k THEN i ELSE i + 1
    <3>1. i \in 1 .. n /\ i + 1 \in 1 .. n
      BY <1>2, BelowTop
    <3> QED
      BY <1>5, <3>1
  <2>2. ASSUME NEW i \in DOMAIN open', NEW j \in DOMAIN open', open'[i] = open'[j]
        PROVE  i = j
    <3>1. PICK m \in 1 .. n : open'[i] = open[m] /\ m = IF i < k THEN i ELSE i + 1
      BY <1>5, <2>1
    <3>2. PICK q \in 1 .. n : open'[j] = open[q] /\ q = IF j < k THEN j ELSE j + 1
      BY <1>5, <2>1
    <3>3. m = q
      BY <1>2, <2>2, <3>1, <3>2 DEF IInv, SlotInv
    <3>4. i \in Int /\ j \in Int /\ k \in Int
      BY <1>2, <1>3, <1>5
    <3> QED
      BY <3>1, <3>2, <3>3, <3>4
  <2>3. ASSUME NEW x \in Scratch, x # s, IsOpen(x)
        PROVE  IsOpen(x)'
    <3>1. PICK m \in 1 .. n : open[m] = x
      BY <1>2, <2>3 DEF IsOpen
    <3>2. CASE m < k
      <4>1. m \in 1 .. n - 1
        BY <1>2, <1>3, <3>1, <3>2
      <4> QED
        BY <1>5, <3>1, <3>2, <4>1 DEF IsOpen
    <3>3. CASE m > k
      <4>1. m - 1 \in 1 .. n - 1 /\ ~(m - 1 < k) /\ (m - 1) + 1 = m
        BY <1>2, <1>3, <3>1, <3>3
      <4> QED
        BY <1>5, <3>1, <4>1 DEF IsOpen
    <3> QED
      BY <1>3, <2>3, <3>1, <3>2, <3>3
  <2>4. \A x \in closing' : x \in Scratch /\ x # s /\ IsOpen(x)
    BY <1>1 DEF IInv, SlotInv, TypeOK
  <2>5. \A x \in Scratch : ~IsOpen(x)' =>
          blocks'[x] = << >> /\ finalizers'[x] = << >> /\ reset'[x] = 0 /\ last'[x] = 0
    BY <1>6, <2>3 DEF IInv, SlotInv
  <2> QED
    BY <2>2, <2>3, <2>4, <2>5 DEF SlotInv
<1>10. OverflowInv'
  BY <1>2, <1>6 DEF IInv, OverflowInv
<1>11. ASSUME Disciplined' PROVE StackInv' /\ BlockInv' /\ FinalizerInv'
  <2>1. StackInv /\ BlockInv /\ FinalizerInv
    BY <1>7, <1>11 DEF IInv
  <2>2. k = n /\ n \in 1 .. n
    BY <1>2, <1>3, <1>4, <1>7, <1>11
  <2>3. ASSUME NEW i \in 1 .. n - 1
        PROVE  /\ i \in 1 .. n /\ i # n /\ i + 1 \in 1 .. n /\ i < n
               /\ open'[i] = open[i] /\ open[i] # s /\ open[i] \in Scratch
               /\ reset'[open'[i]] = reset[open[i]] /\ last'[open'[i]] = last[open[i]]
               /\ last[open[i]] <= reset[s]
    <3>1. i \in 1 .. n /\ i # n /\ i + 1 \in 1 .. n /\ i < n
      BY <1>2, <2>3, BelowTop
    <3>2. open'[i] = open[i] /\ open[i] # s /\ open[i] \in Scratch
      BY <1>2, <1>4, <1>5, <2>2, <3>1
    <3>3. last[open[i]] <= reset[s]
      BY <1>2, <1>3, <2>1, <2>2, <3>1 DEF StackInv
    <3> QED
      BY <1>6, <3>1, <3>2, <3>3
  <2>4. open' = << >> => current' = 0
    <3>1. open' = << >> => n = 1
      BY <1>2, <1>5
    <3>2. n = 1 => reset[s] = 0
      BY <1>2, <1>3, <2>1, <2>2 DEF StackInv
    <3> QED
      BY <1>1, <3>1, <3>2
  <2>5. ASSUME open' # << >>
        PROVE  /\ reset'[open'[1]] = 0
               /\ last'[open'[Len(open')]] = current'
    <3>1. n - 1 \in 1 .. n - 1 /\ 1 \in 1 .. n - 1 /\ (n - 1) + 1 = n
      BY <1>2, <1>5, <2>5
    <3>2. reset[open[1]] = 0
      BY <1>2, <2>1, <2>2 DEF StackInv
    <3>3. last[open[n - 1]] = reset[open[n]]
      <4>1. last[open[n - 1]] = reset[open[n]] \/ reset[open[n]] > Capacity
        BY <3>1, <2>1 DEF StackInv, n
      <4> QED
        BY <1>1, <1>2, <1>3, <2>2, <4>1
    <3> QED
      BY <1>1, <1>3, <1>5, <2>2, <2>3, <3>1, <3>2, <3>3
  <2>6. \A x \in Scratch : reset'[x] <= last'[x]
    BY <1>6, <2>1 DEF StackInv
  <2>7. \A i \in 1 .. n - 1 : last'[open'[i]] <= current'
    BY <1>1, <2>3
  <2>8. ASSUME NEW i \in 1 .. n - 1, NEW j \in 1 .. n - 1, i < j
        PROVE  last'[open'[i]] <= reset'[open'[j]]
    BY <1>2, <2>1, <2>3, <2>8 DEF StackInv
  <2>9. ASSUME NEW i \in 1 .. Len(open') - 1
        PROVE  last'[open'[i]] = reset'[open'[i + 1]] \/ reset'[open'[i + 1]] > Capacity
    <3>0. n - 1 \in Nat /\ Len(open') = n - 1
      BY <1>2, <1>3, <1>5
    <3>1. i \in 1 .. n - 1 /\ i + 1 \in 1 .. n - 1
      BY <3>0, BelowTop
    <3>2. last[open[i]] = reset[open[i + 1]] \/ reset[open[i + 1]] > Capacity
      BY <2>1, <3>1 DEF StackInv, n
    <3> QED
      BY <2>3, <3>1, <3>2
  <2>10. StackInv'
    BY <1>5, <2>4, <2>5, <2>6, <2>7, <2>8, <2>9 DEF StackInv
  <2>11. BlockInv'
    BY <1>6, <2>1 DEF BlockInv, Packed
  <2>12. FinalizerInv'
    BY <1>1, <1>6, <2>1 DEF FinalizerInv, Descending
  <2> QED
    BY <2>10, <2>11, <2>12
<1>12. TrapsAreDeserved'
  BY <1>1 DEF TrapsAreDeserved
<1> QED
  BY <1>7, <1>8, <1>9, <1>10, <1>11, <1>12 DEF IInv

LEMMA ResetFailsPreserves ==
  ASSUME IInv, NEW s \in Scratch, ResetFails(s)
  PROVE  IInv'
<1>1. /\ Use(s) /\ ~(reset[s] < Capacity) /\ trap' = "reset"
      /\ UNCHANGED <<current, open, reset, last, finalizers, closing, pending, blocks>>
  BY DEF ResetFails, ResetTo
<1>2. /\ breaches' \in Nat
      /\ Disciplined' => Disciplined /\ Len(open) \in DOMAIN open /\ open[Len(open)] = s
  BY <1>1, UseFacts
<1>3. current \in Nat /\ Capacity \in Nat /\ reset[s] \in Nat /\ last[s] \in Nat
  BY ArenaAssumption DEF IInv, TypeOK, Address
<1>4. TypeOK' /\ SlotInv' /\ OverflowInv'
  BY <1>1, <1>2 DEF IInv, TypeOK, SlotInv, OverflowInv, IsOpen
<1>5. Disciplined' => StackInv' /\ BlockInv' /\ FinalizerInv'
  BY <1>1, <1>2 DEF IInv, StackInv, BlockInv, FinalizerInv, Packed, Descending
<1>6. ASSUME Disciplined' PROVE current >= Capacity
  <2>1. reset[s] <= last[s] /\ last[s] <= current
    BY <1>2, <1>6 DEF IInv, StackInv
  <2> QED
    BY <1>1, <1>3, <2>1
<1>7. TrapsAreDeserved'
  BY <1>1, <1>6 DEF TrapsAreDeserved
<1> QED
  BY <1>4, <1>5, <1>7 DEF IInv

LEMMA NextPreserves == IInv /\ [Next]_vars => IInv'
<1> SUFFICES ASSUME IInv, [Next]_vars PROVE IInv'
  OBVIOUS
<1>1. CASE UNCHANGED vars
  BY <1>1 DEF vars, IInv, TypeOK, SlotInv, OverflowInv, StackInv, BlockInv, FinalizerInv,
              Packed, Descending, IsOpen, Disciplined, TrapsAreDeserved, Empty
<1>2. CASE Next
  <2>1. PICK s \in Scratch :
          \/ Construct(s) \/ Request(s) \/ Destruct(s) \/ DestructFails(s)
          \/ Finalize(s) \/ Reset(s) \/ ResetFails(s)
    BY <1>2 DEF Next
  <2>2. CASE Request(s)
    <3>1. PICK n \in Sizes, a \in Alignments :
            \/ allocate(s, n, a) \/ OutOfMemory(s, n, a)
            \/ \E i \in DOMAIN blocks[s] : reallocate(s, blocks[s][i], n, a)
            \/ create(s, n, a) \/ CreateFails(s, n, a)
      BY <2>2 DEF Request
    <3>2. n \in Nat /\ a \in Nat \ {0}
      BY ArenaAssumption
    <3> QED
      BY <3>1, <3>2, AllocatePreserves, OutOfMemoryPreserves, ReallocatePreserves,
         CreatePreserves, CreateFailsPreserves
  <2> QED
    BY <2>1, <2>2, ConstructPreserves, DestructPreserves, DestructFailsPreserves,
       FinalizePreserves, ResetPreserves, ResetFailsPreserves
<1> QED
  BY <1>1, <1>2

THEOREM Invariant == Spec => []IInv
<1>1. Init => IInv
  BY InitIInv
<1>2. IInv /\ [Next]_vars => IInv'
  BY NextPreserves
<1> QED
  BY <1>1, <1>2, PTL DEF Spec

-----------------------------------------------------------------------------
(* Two different scopes lie one above the other. *)
LEMMA ScopesAreApart ==
  ASSUME IInv, StackInv, NEW s \in Scratch, NEW t \in Scratch, s # t, IsOpen(s), IsOpen(t)
  PROVE  last[s] <= reset[t] \/ last[t] <= reset[s]
<1>1. PICK i \in DOMAIN open : open[i] = s
  BY DEF IsOpen
<1>2. PICK j \in DOMAIN open : open[j] = t
  BY DEF IsOpen
<1>3. i \in Int /\ j \in Int /\ i # j
  <2>1. open \in Seq(Scratch)
    BY DEF IInv, TypeOK
  <2>2. DOMAIN open = 1 .. Len(open) /\ Len(open) \in Nat
    BY ONLY <2>1
  <2> QED
    BY <1>1, <1>2, <2>2
<1> QED
  BY <1>1, <1>2, <1>3 DEF StackInv

LEMMA NoOverlapFollows == IInv => NoOverlap
<1> SUFFICES ASSUME IInv, Disciplined,
                    NEW s \in Scratch, NEW t \in Scratch,
                    NEW i \in DOMAIN blocks[s], NEW j \in DOMAIN blocks[t]
             PROVE  /\ blocks[s][i].to <= Capacity
                    /\ blocks[s][i].to <= current
                    /\ <<s, i>> # <<t, j>> => Disjoint(blocks[s][i], blocks[t][j])
  BY DEF NoOverlap
<1> DEFINE b == blocks[s][i]
           c == blocks[t][j]
<1>1. StackInv /\ BlockInv /\ TypeOK /\ SlotInv
  BY DEF IInv
<1>2. b \in Block /\ c \in Block
  BY <1>1 DEF TypeOK
<1>3. /\ b.from \in Nat /\ b.to \in Nat /\ c.from \in Nat /\ c.to \in Nat
      /\ reset[s] \in Nat /\ last[s] \in Nat /\ reset[t] \in Nat /\ last[t] \in Nat
      /\ current \in Nat
  BY <1>1, <1>2, ArenaAssumption DEF Block, Address, TypeOK
<1>4. /\ reset[s] <= b.from /\ b.from <= b.to /\ b.to <= last[s] /\ b.to <= Capacity
      /\ reset[t] <= c.from /\ c.from <= c.to /\ c.to <= last[t]
  BY <1>1 DEF BlockInv, Packed
<1>5. IsOpen(s) /\ IsOpen(t)
  BY <1>1 DEF SlotInv
<1>6. last[s] <= current
  BY <1>1, <1>5 DEF StackInv, IsOpen
<1>7. ASSUME <<s, i>> # <<t, j>> PROVE b.to <= c.from \/ c.to <= b.from
  <2>1. CASE s = t
    <3>1. i \in Int /\ j \in Int /\ i # j
      BY <1>1, <1>7, <2>1 DEF TypeOK
    <3> QED
      BY <1>1, <2>1, <3>1 DEF BlockInv, Packed
  <2>2. CASE s # t
    <3>1. last[s] <= reset[t] \/ last[t] <= reset[s]
      BY <1>1, <1>5, <2>2, ScopesAreApart
    <3> QED
      BY <1>3, <1>4, <3>1
  <2> QED
    BY <2>1, <2>2
<1> QED
  BY <1>3, <1>4, <1>6, <1>7 DEF Disjoint

THEOREM TypeCorrect == Spec => []TypeOK
BY Invariant, PTL DEF IInv

(* For every arena, size and alignment: live blocks do not overlap. *)
THEOREM BlocksAreDisjoint == Spec => []NoOverlap
BY Invariant, NoOverlapFollows, PTL

(* The ASSERTs stop no program that keeps to the order and has room. *)
THEOREM AssertsHold == Spec => []TrapsAreDeserved
BY Invariant, PTL DEF IInv

THEOREM EmptyAfterLastScope == Spec => []ArenaBalanced
<1>1. IInv => ArenaBalanced
  BY DEF IInv, ArenaBalanced, StackInv
<1> QED
  BY <1>1, Invariant, PTL

LEMMA LostStep == IInv /\ [Next]_vars => (Lost => Lost')
<1> SUFFICES ASSUME IInv, [Next]_vars, Lost PROVE Lost'
  OBVIOUS
<1>1. /\ current \in Nat /\ Capacity \in Nat /\ current > Capacity
      /\ last \in [Scratch -> Nat] /\ reset \in [Scratch -> Nat]
      /\ \A s \in closing : s \in Scratch /\ reset[s] > Capacity
  BY ArenaAssumption DEF IInv, TypeOK, Address, Lost
<1>2. ASSUME NEW n \in Sizes, NEW a \in Alignments
      PROVE  ~Fits(BlockAt(current, n, a).to) /\ ~Fits(Node(BlockAt(current, n, a)).to)
  <2> DEFINE b == BlockAt(current, n, a)
  <2>1. /\ b.from \in Nat /\ b.to \in Nat /\ current <= b.from /\ b.from <= b.to
        /\ b = [from |-> b.from, to |-> b.to]
    BY <1>1, BlockFacts, ArenaAssumption
  <2> HIDE DEF b
  <2>2. /\ Node(b).from \in Nat /\ Node(b).to \in Nat
        /\ b.to <= Node(b).from /\ Node(b).from <= Node(b).to
    <3>1. b \in [from : Nat, to : Nat]
      BY <2>1
    <3> QED
      BY <3>1, NodeFacts
  <2>3. b.to > Capacity /\ Node(b).to > Capacity
    BY <1>1, <2>1, <2>2
  <2>4. ~Fits(b.to) /\ ~Fits(Node(b).to)
    BY <1>1, <2>1, <2>2, <2>3 DEF Fits
  <2> QED
    BY <2>4 DEF b
<1>3. CASE UNCHANGED vars
  BY <1>1, <1>3 DEF vars, Lost
<1>4. ASSUME NEW s \in Scratch, Construct(s) PROVE Lost'
  <2>1. s \notin closing
    BY <1>4 DEF Construct, IInv, SlotInv
  <2> QED
    BY <1>1, <1>4, <2>1 DEF Construct, Lost
<1>5. ASSUME NEW s \in Scratch, Request(s) PROVE Lost'
  <2>1. PICK n \in Sizes, a \in Alignments :
          \/ allocate(s, n, a) \/ OutOfMemory(s, n, a)
          \/ \E i \in DOMAIN blocks[s] : reallocate(s, blocks[s][i], n, a)
          \/ create(s, n, a) \/ CreateFails(s, n, a)
    BY <1>5 DEF Request
  <2>2. OutOfMemory(s, n, a)
    BY <1>2, <2>1 DEF allocate, reallocate, Take, create, CreateFails
  <2>3. /\ current' = BlockAt(current, n, a).to
        /\ current' \in Nat /\ current <= current'
        /\ UNCHANGED <<reset, closing>>
    <3>1. current' = BlockAt(current, n, a).to /\ UNCHANGED <<reset, closing>>
      BY <2>2 DEF OutOfMemory
    <3>2. /\ BlockAt(current, n, a).to \in Nat /\ BlockAt(current, n, a).from \in Nat
          /\ current <= BlockAt(current, n, a).from
          /\ BlockAt(current, n, a).from <= BlockAt(current, n, a).to
      BY <1>1, BlockFacts, ArenaAssumption
    <3> QED
      BY <1>1, <3>1, <3>2
  <2> QED
    BY <1>1, <2>3 DEF Lost
<1>6. ASSUME NEW s \in Scratch, Destruct(s) PROVE Lost'
  <2>1. last[s] > Capacity
    BY <1>1, <1>6 DEF Destruct
  <2>2. reset[s] > Capacity
    BY <2>1 DEF IInv, OverflowInv
  <2> QED
    BY <1>1, <1>6, <2>2 DEF Destruct, Lost
<1>7. ASSUME NEW s \in Scratch, DestructFails(s) \/ Finalize(s) \/ ResetFails(s) PROVE Lost'
  BY <1>1, <1>7 DEF DestructFails, Finalize, ResetFails, Lost
<1>8. ASSUME NEW s \in Scratch, Reset(s) PROVE FALSE
  BY <1>1, <1>8 DEF Reset, ResetTo
<1> QED
  BY <1>3, <1>4, <1>5, <1>6, <1>7, <1>8 DEF Next

(* An OutOfMemoryError is final, with or without the order kept. *)
THEOREM OverflowCannotBeUndone == Spec => OverflowIsFinal
<1>1. IInv /\ [Next]_vars => [Lost => Lost']_vars
  BY LostStep
<1> QED
  BY <1>1, Invariant, PTL DEF Spec, OverflowIsFinal

(* Objects of one scope are destroyed youngest first. *)
THEOREM ReverseDestruction == Spec => DestroyedInReverse
<1>1. IInv => (Disciplined => \A s \in Scratch : Finalize(s) =>
                 \A i \in 2 .. Len(pending[s]) : pending[s][i].to <= Head(pending[s]).from)
  <2> SUFFICES ASSUME IInv, Disciplined, NEW s \in Scratch, Finalize(s),
                      NEW i \in 2 .. Len(pending[s])
               PROVE  pending[s][i].to <= Head(pending[s]).from
    OBVIOUS
  <2>1. pending[s] \in Seq(Block) /\ pending[s] # << >>
    BY DEF IInv, TypeOK, Finalize
  <2>2. Head(pending[s]) = pending[s][1]
    BY <2>1
  <2>3. 1 \in DOMAIN pending[s] /\ i \in DOMAIN pending[s] /\ 1 < i
    BY <2>1
  <2>4. Descending(pending[s])
    BY DEF IInv, FinalizerInv
  <2> QED
    BY <2>2, <2>3, <2>4 DEF Descending
<1> QED
  BY <1>1, Invariant, PTL DEF Spec, DestroyedInReverse

=============================================================================
