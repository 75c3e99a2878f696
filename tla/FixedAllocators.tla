-------------------------- MODULE FixedAllocators ---------------------------
(***************************************************************************)
(* FixedAllocator (memory/fixed_allocator.hpp), which hands out blocks of  *)
(* one size and keeps the freed ones in a list linked through their first  *)
(* words, and ContainedBag (base/bag.hpp), whose elements live in it.      *)
(* rep.next is the first word of each block; rep.elements the bag's array. *)
(* ref has the bag, the blocks taken from the base allocator, and the      *)
(* blocks that nobody has any more.                                        *)
(***************************************************************************)
EXTENDS Integers, FiniteSets, SequencesExt

CONSTANTS Blocks
VARIABLES rep, ref, fault

vars == <<rep, ref, fault>>

Null == 0

Init ==
    /\ rep = [free_list |-> Null, next |-> [b \in Blocks |-> Null], usage |-> 0, elements |-> <<>>]
    /\ ref = [bag |-> {}, base |-> {}, lost |-> {}]
    /\ fault = "none"

(* The list from its head on, link by link; it has no more blocks than      *)
(* there are.                                                               *)
Chain(r) ==
    LET block[k \in 0 .. Cardinality(Blocks)] ==
            IF k = 0 THEN r.free_list
            ELSE IF block[k - 1] = Null THEN Null ELSE r.next[block[k - 1]]
    IN  {block[k] : k \in 0 .. Cardinality(Blocks)} \ {Null}

-----------------------------------------------------------------------------
(* The block handed out is the second one of the list: nobody has the first *)
(* one any more. With one block in the list it is null, and is read.        *)
FromList(r) == r.next[r.free_list]

Allocated(r, b) == [r EXCEPT !.usage = @ + 1, !.free_list = IF @ = Null THEN Null ELSE r.next[b]]

Taken(r, b) ==
    IF r.free_list = Null THEN b \in Blocks \ ref.base ELSE b = FromList(r) /\ b # Null

(* What the first word of the block is overwritten with does not matter.    *)
free(r, b) == [r EXCEPT !.usage = @ - 1, !.next[b] = r.free_list, !.free_list = b]

(* What allocate takes from the base allocator, and what it loses.          *)
Account(b) ==
    [ref EXCEPT !.base = @ \cup {b},
                !.lost = IF rep.free_list = Null THEN @ ELSE @ \cup {rep.free_list}]

-----------------------------------------------------------------------------
(* allocate of the bag: the element is constructed, then pushed.            *)
Allocate ==
    \E b \in Blocks :
      /\ Taken(rep, b)
      /\ rep' = [Allocated(rep, b) EXCEPT !.elements = Append(@, b)]
      /\ ref' = [Account(b) EXCEPT !.bag = @ \cup {b}]
      /\ UNCHANGED fault

(* A constructor that throws keeps its block: there is no operator delete   *)
(* to go with the operator new of an allocator.                             *)
AllocateThrows ==
    \E b \in Blocks :
      /\ Taken(rep, b)
      /\ rep' = Allocated(rep, b)
      /\ ref' = Account(b)
      /\ fault' = "constructor threw"

AllocateNull ==
    /\ rep.free_list # Null /\ FromList(rep) = Null
    /\ fault' = "null dereference" /\ UNCHANGED <<rep, ref>>

Deallocate ==
    \E i \in DOMAIN rep.elements :
      LET b == rep.elements[i]
      IN  /\ rep' = [free(rep, b) EXCEPT !.elements = RemoveAt(@, i)]
          /\ ref' = [ref EXCEPT !.bag = @ \ {b}]
          /\ UNCHANGED fault

clear(r) ==
    LET freed[n \in 0 .. Len(r.elements)] == IF n = 0 THEN r ELSE free(freed[n - 1], r.elements[n])
    IN  [freed[Len(r.elements)] EXCEPT !.elements = <<>>]

Clear ==
    /\ rep' = clear(rep)
    /\ ref' = [ref EXCEPT !.bag = {}]
    /\ UNCHANGED fault

(* The bag's destructor, then the allocator's: the blocks of the list go    *)
(* back to the base allocator, one after the other; then a new bag.         *)
Destruct ==
    /\ rep' = [clear(rep) EXCEPT !.free_list = Null]
    /\ ref' = [ref EXCEPT !.bag = {}, !.base = @ \ Chain(clear(rep))]
    /\ UNCHANGED fault

Next == fault = "none" /\ (Allocate \/ AllocateThrows \/ AllocateNull \/ Deallocate \/ Clear \/ Destruct)

Spec == Init /\ [][Next]_vars

-----------------------------------------------------------------------------
(* Every block taken from the base allocator is in the list, in the bag, or *)
(* was lost by allocate, and in one of them only: no block is handed out    *)
(* twice. usage counts the blocks in the bag.                               *)
ObjectsSound ==
    fault = "none" =>
      /\ ref.base = Chain(rep) \cup ToSet(rep.elements) \cup ref.lost
      /\ Chain(rep) \cap ToSet(rep.elements) = {}
      /\ ref.lost \cap (Chain(rep) \cup ToSet(rep.elements)) = {}
      /\ rep.usage = Len(rep.elements)

Represents == fault = "none" => ToSet(rep.elements) = ref.bag /\ Len(rep.elements) = Cardinality(ref.bag)
=============================================================================
