---------------------------- MODULE ScratchArena ----------------------------
(***************************************************************************)
(* memory/allocator: LinearAllocator, one region of memory handed out by   *)
(* moving a pointer, and the ScratchAllocators that share it, each of      *)
(* which moves the pointer back when its scope ends.                       *)
(*                                                                         *)
(* Any live ScratchAllocator may be used at any time: an outer one is      *)
(* passed by reference to code that opens its own, destructors run while   *)
(* theirs ends, and fibers that yield inside a scope interleave theirs.    *)
(* Any may be destroyed next.  Whether the program has kept to the order   *)
(* the destructor's comment calls correct is recorded in breaches, and     *)
(* assumed where a property needs it.                                      *)
(***************************************************************************)
EXTENDS SequencesExt

CONSTANTS
  Scratch,        \* the places where a ScratchAllocator can live
  Capacity,       \* end_ - begin_; begin_ is address 0
  Sizes,          \* sizes asked for
  Alignments,     \* alignments asked for, after next_pow2
  FinalizerSize,  \* sizeof and alignof of ScratchAllocator::Finalizer
  FinalizerAlign,
  MaxCurrent,     \* bound on current_, which a failed allocation moves past the end
  MaxBlocks,      \* bound on the blocks each ScratchAllocator hands out
  MaxBreaches     \* bound on departures from the order of construction

ASSUME ArenaAssumption ==
  /\ Capacity \in Nat \ {0}
  /\ MaxCurrent \in Nat /\ MaxBlocks \in Nat /\ MaxBreaches \in Nat
  /\ Sizes \subseteq Nat
  /\ Alignments \subseteq Nat \ {0}
  /\ FinalizerSize \in Nat \ {0}
  /\ FinalizerAlign \in Nat \ {0}

VARIABLES
  current,      \* LinearAllocator::current_
  open,         \* the live ScratchAllocators, oldest first
  reset,        \* reset_ of each
  last,         \* last_current_ of each
  finalizers,   \* the objects on the finalizers_ list of each, newest first
  closing,      \* the ScratchAllocators whose destructor is running
  pending,      \* the part of finalizers_ the loop of that destructor has before it
  trap,         \* the ASSERT that has stopped the process, or "none"
  blocks,       \* history: the memory each has handed out, oldest first
  breaches      \* history: how often one that was not the youngest was used or destroyed

vars == <<current, open, reset, last, finalizers, closing, pending, trap, blocks, breaches>>

Address == 0 .. MaxCurrent

Block == [from : Address, to : Address]

TypeOK ==
  /\ current \in Address
  /\ open \in Seq(Scratch)
  /\ reset \in [Scratch -> Address]
  /\ last \in [Scratch -> Address]
  /\ finalizers \in [Scratch -> Seq(Block)]
  /\ closing \in SUBSET Scratch
  /\ pending \in [Scratch -> Seq(Block)]
  /\ trap \in {"none", "asymmetric", "reset", "reallocate"}
  /\ blocks \in [Scratch -> Seq(Block)]
  /\ breaches \in Nat

Init ==
  /\ current = 0
  /\ open = << >>
  /\ reset = [s \in Scratch |-> 0]
  /\ last = [s \in Scratch |-> 0]
  /\ finalizers = [s \in Scratch |-> << >>]
  /\ closing = {}
  /\ pending = [s \in Scratch |-> << >>]
  /\ trap = "none"
  /\ blocks = [s \in Scratch |-> << >>]
  /\ breaches = 0

-----------------------------------------------------------------------------
(* LinearAllocator::allocate.  An address that is aligned already moves by *)
(* a whole alignment too: the code tests rest != alignment.                *)

\* Mutant: an unaligned address is rounded down.
Align_Down(c, a) == IF a > 1 THEN c - (c % a) ELSE c

\* Mutant: the sign of the correction swapped.
Align_Swapped(c, a) == IF a > 1 THEN c - a + (c % a) ELSE c

Align(c, a) == IF a > 1 THEN c + a - (c % a) ELSE c

Fits(to) == to <= Capacity

BlockAt(c, n, a) == [from |-> Align(c, a), to |-> Align(c, a) + n]

IsOpen(s) == \E i \in DOMAIN open : open[i] = s

Usable(s) == trap = "none" /\ IsOpen(s)

Innermost(s) == open # << >> /\ s = open[Len(open)]

HasRoom(s, k) == Len(blocks[s]) + k <= MaxBlocks

Disciplined == breaches = 0

Use(s) ==
  \/ Innermost(s) /\ breaches' = breaches
  \/ ~Innermost(s) /\ breaches < MaxBreaches /\ breaches' = breaches + 1

-----------------------------------------------------------------------------
\* Mutant: last_current_ starts at the beginning of the arena.
Construct_LastAtBegin(s) ==
  /\ trap = "none" /\ ~IsOpen(s)
  /\ open' = Append(open, s)
  /\ reset' = [reset EXCEPT ![s] = current]
  /\ last' = [last EXCEPT ![s] = 0]
  /\ UNCHANGED <<current, finalizers, closing, pending, trap, blocks, breaches>>

Construct(s) ==
  /\ trap = "none" /\ ~IsOpen(s)
  /\ open' = Append(open, s)
  /\ reset' = [reset EXCEPT ![s] = current]
  /\ last' = [last EXCEPT ![s] = current]
  /\ UNCHANGED <<current, finalizers, closing, pending, trap, blocks, breaches>>

(* The part of a successful allocation that allocate and reallocate share. *)
Take(s, b) ==
  /\ Usable(s) /\ HasRoom(s, 1)
  /\ b.to <= MaxCurrent /\ Fits(b.to)
  /\ current' = b.to
  /\ last' = [last EXCEPT ![s] = b.to]
  /\ blocks' = [blocks EXCEPT ![s] = Append(@, b)]
  /\ Use(s)
  /\ UNCHANGED <<open, reset, finalizers, closing, pending>>

allocate(s, n, a) ==
  /\ Take(s, BlockAt(current, n, a))
  /\ UNCHANGED trap

\* Mutant: last_current_ is noted before the allocation can throw.
OutOfMemory_NoteLast(s, n, a) ==
  LET to == BlockAt(current, n, a).to
  IN  /\ Usable(s)
      /\ to <= MaxCurrent /\ ~Fits(to)
      /\ current' = to
      /\ last' = [last EXCEPT ![s] = to]
      /\ Use(s)
      /\ UNCHANGED <<open, reset, finalizers, closing, pending, trap, blocks>>

(* OutOfMemoryError is thrown with current_ past end_ and last_current_    *)
(* not updated; so in create, if the memory for the object does not fit.   *)
OutOfMemory(s, n, a) ==
  LET to == BlockAt(current, n, a).to
  IN  /\ Usable(s)
      /\ to <= MaxCurrent /\ ~Fits(to)
      /\ current' = to
      /\ Use(s)
      /\ UNCHANGED <<open, reset, last, finalizers, closing, pending, trap, blocks>>

(* A block of s moves to a new place; its old memory is not reused. *)
reallocate(s, old, n, a) ==
  /\ Take(s, BlockAt(current, n, a))
  /\ trap' = IF old.from < Align(current, a) THEN "none" ELSE "reallocate"

-----------------------------------------------------------------------------
(* create of a type with a destructor: allocate_with_finalizer takes the   *)
(* object and a list node, and prepends the node.                          *)

Node(b) == BlockAt(b.to, FinalizerSize, FinalizerAlign)

\* Mutant: the node is appended.
create_Append(s, n, a) ==
  LET object == BlockAt(current, n, a)
      node   == Node(object)
  IN  /\ Usable(s)
      /\ HasRoom(s, 2)
      /\ node.to <= MaxCurrent /\ Fits(node.to)
      /\ current' = node.to
      /\ last' = [last EXCEPT ![s] = node.to]
      /\ blocks' = [blocks EXCEPT ![s] = @ \o <<object, node>>]
      /\ finalizers' = [finalizers EXCEPT ![s] = Append(@, object)]
      /\ Use(s)
      /\ UNCHANGED <<open, reset, closing, pending, trap>>

create(s, n, a) ==
  LET object == BlockAt(current, n, a)
      node   == Node(object)
  IN  /\ Usable(s)
      /\ HasRoom(s, 2)
      /\ node.to <= MaxCurrent /\ Fits(node.to)
      /\ current' = node.to
      /\ last' = [last EXCEPT ![s] = node.to]
      /\ blocks' = [blocks EXCEPT ![s] = @ \o <<object, node>>]
      /\ finalizers' = [finalizers EXCEPT ![s] = <<object>> \o @]
      /\ Use(s)
      /\ UNCHANGED <<open, reset, closing, pending, trap>>

(* The object fits, its list node does not: the object is not registered. *)
CreateFails(s, n, a) ==
  LET object == BlockAt(current, n, a)
      node   == Node(object)
  IN  /\ Usable(s)
      /\ node.to <= MaxCurrent /\ Fits(object.to) /\ ~Fits(node.to)
      /\ current' = node.to
      /\ last' = [last EXCEPT ![s] = object.to]
      /\ blocks' = [blocks EXCEPT ![s] = Append(@, object)]
      /\ Use(s)
      /\ UNCHANGED <<open, reset, finalizers, closing, pending, trap>>

-----------------------------------------------------------------------------
(* ~ScratchAllocator.  The destructors in its finalizers may construct and *)
(* destroy ScratchAllocators of their own, and use this one.               *)

Destruct(s) ==
  /\ Usable(s) /\ s \notin closing
  /\ last[s] = current
  /\ Use(s)
  /\ closing' = closing \union {s}
  /\ pending' = [pending EXCEPT ![s] = finalizers[s]]
  /\ UNCHANGED <<current, open, reset, last, finalizers, trap, blocks>>

DestructFails(s) ==
  /\ Usable(s) /\ s \notin closing
  /\ last[s] # current
  /\ Use(s)
  /\ trap' = "asymmetric"
  /\ UNCHANGED <<current, open, reset, last, finalizers, closing, pending, blocks>>

Finalize(s) ==
  /\ trap = "none" /\ s \in closing /\ pending[s] # << >>
  /\ pending' = [pending EXCEPT ![s] = Tail(@)]
  /\ Use(s)
  /\ UNCHANGED <<current, open, reset, last, finalizers, closing, trap, blocks>>

\* Mutant: the arena goes back to the last allocation, not to reset_.
ResetTo_Last(s) == last[s]

ResetTo(s) == reset[s]

Position(s) == CHOOSE i \in DOMAIN open : open[i] = s

(* base_.reset(reset_) *)
Reset(s) ==
  /\ trap = "none" /\ s \in closing /\ pending[s] = << >>
  /\ ResetTo(s) < Capacity
  /\ Use(s)
  /\ current' = ResetTo(s)
  /\ open' = RemoveAt(open, Position(s))
  /\ closing' = closing \ {s}
  /\ reset' = [reset EXCEPT ![s] = 0]
  /\ last' = [last EXCEPT ![s] = 0]
  /\ finalizers' = [finalizers EXCEPT ![s] = << >>]
  /\ blocks' = [blocks EXCEPT ![s] = << >>]
  /\ UNCHANGED <<pending, trap>>

(* LinearAllocator::reset does not allow for reset_ = end_. *)
ResetFails(s) ==
  /\ trap = "none" /\ s \in closing /\ pending[s] = << >>
  /\ ~(ResetTo(s) < Capacity)
  /\ Use(s)
  /\ trap' = "reset"
  /\ UNCHANGED <<current, open, reset, last, finalizers, closing, pending, blocks>>

-----------------------------------------------------------------------------
Request(s) ==
  \E n \in Sizes, a \in Alignments :
    \/ allocate(s, n, a)
    \/ OutOfMemory(s, n, a)
    \/ \E i \in DOMAIN blocks[s] : reallocate(s, blocks[s][i], n, a)
    \/ create(s, n, a)
    \/ CreateFails(s, n, a)

Next ==
  \E s \in Scratch :
    \/ Construct(s)
    \/ Request(s)
    \/ Destruct(s) \/ DestructFails(s)
    \/ Finalize(s)
    \/ Reset(s) \/ ResetFails(s)

Spec == Init /\ [][Next]_vars

-----------------------------------------------------------------------------
Empty(b) == b.from = b.to

Disjoint(b, c) == b.to <= c.from \/ c.to <= b.from

(* Memory handed out is inside the arena and is not handed out again while *)
(* the ScratchAllocator that gave it lives, list nodes included.           *)
NoOverlap ==
  Disciplined =>
    \A s, t \in Scratch : \A i \in DOMAIN blocks[s], j \in DOMAIN blocks[t] :
      /\ blocks[s][i].to <= Capacity
      /\ blocks[s][i].to <= current
      /\ <<s, i>> # <<t, j>> => Disjoint(blocks[s][i], blocks[t][j])

(* The ASSERTs of ~ScratchAllocator, LinearAllocator::reset and reallocate *)
(* stop no program that keeps to the order and stays within the arena;     *)
(* but one that fills it to the last byte, or reallocates an empty block.  *)
TrapsAreDeserved ==
  Disciplined =>
    /\ trap = "asymmetric" => current > Capacity
    /\ trap = "reset"      => current >= Capacity
    /\ trap = "reallocate" => \E s \in Scratch : \E i \in DOMAIN blocks[s] : Empty(blocks[s][i])

(* When the last scope has ended, the arena is empty again. *)
ArenaBalanced == Disciplined /\ open = << >> => current = 0

(* OutOfMemoryError cannot be recovered from: whatever is destroyed or     *)
(* constructed afterwards, current_ stays past end_; unless the error is   *)
(* swallowed by a destructor that a ~ScratchAllocator below it runs.       *)
Lost == current > Capacity /\ \A s \in closing : reset[s] > Capacity

OverflowIsFinal == [][Lost => Lost']_vars

(* Objects are destroyed in the reverse order of their creation. *)
DestroyedInReverse ==
  [][Disciplined => \A s \in Scratch : Finalize(s) =>
       \A i \in 2 .. Len(pending[s]) : pending[s][i].to <= Head(pending[s]).from]_vars

(* The comment of ~ScratchAllocator: its ASSERT is a check for asymmetric  *)
(* allocators.  An OutOfMemoryError trips it too, as the stack unwinds.    *)
AssertMeansAsymmetric == trap = "asymmetric" => ~Disciplined

(* The same comment: to destroy alloc1 before alloc2 triggers the ASSERT.  *)
(* It does not when both have, or neither has, allocated last.             *)
AsymmetryIsCaught ==
  [][\A s \in Scratch : ~(Destruct(s) /\ \E t \in Scratch :
       reset[s] < reset[t] /\ \E i \in DOMAIN blocks[t] : ~Empty(blocks[t][i]))]_vars

=============================================================================
