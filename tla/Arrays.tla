------------------------------- MODULE Arrays -------------------------------
(***************************************************************************)
(* Array (base/array.hpp) and the growth of its memory                     *)
(* (base/array_utils.hpp): two arrays, with one allocator or with two, and *)
(* the sequences of values that they should stand for.                     *)
(*                                                                         *)
(* rep    the arrays as they are in memory: cells, one per element that    *)
(*        was allocated, and size; shared: one allocator for both; lost:   *)
(*        the objects in memory that was given back or forgotten           *)
(* ref    the two sequences                                                *)
(* fault  "none", or the defect of the code that the program ran into,     *)
(*        after which it goes no further                                   *)
(***************************************************************************)
EXTENDS ObjectMemory, FiniteSets

CONSTANTS Data,           \* the values of elements
          Room,           \* an array is not grown beyond this size
          PageElements    \* as many elements fill a page

VARIABLES rep, ref, fault

vars == <<rep, ref, fault>>

Names == {"a", "b"}
Other(x) == IF x = "a" THEN "b" ELSE "a"
Empty == [cells |-> <<>>, size |-> 0]

Init ==
    /\ \E shared \in BOOLEAN :
          rep = [a |-> Empty, b |-> Empty, shared |-> shared, lost |-> 0]
    /\ ref = [a |-> <<>>, b |-> <<>>]
    /\ fault = "none"

(* Half as much again, rounded up, unless that is more than a page.        *)
Grow(n) == IF n < PageElements THEN (3 * n + ((3 * n) % 2)) \div 2 ELSE n

resize_allocation(memory, constructed, n) ==
    IF n <= Len(memory) THEN memory
    ELSE [i \in 1 .. Grow(n) |->
             IF i <= constructed THEN Construct(Raw, memory[i]) ELSE Raw]

reserve(array, n) == [array EXCEPT !.cells = resize_allocation(@, array.size, n)]

insert(array, items, at) ==
    LET add  == Len(items)
        room == reserve(array, array.size + add).cells
    IN  [cells |-> Fill(ShiftUp(room, array.size, at, add), array.size, at, items),
         size  |-> array.size + add]

push_back(array, value) ==
    LET room == reserve(array, array.size + 1)
    IN  [cells |-> [room.cells EXCEPT ![array.size + 1] = Construct(@, value)],
         size  |-> array.size + 1]

resize(array, n, value) ==
    LET longer[k \in 0 .. n] ==
            IF k <= array.size THEN reserve(array, n) ELSE push_back(longer[k - 1], value)
    IN  longer[n]

clear(array, deallocate) ==
    [cells |-> IF deallocate THEN <<>> ELSE destruct_range(array.cells, 1, array.size),
     size  |-> 0]

(* The objects that the loop of clear leaves in memory it gives back.      *)
Lost(array) == Cardinality(Occupied(destruct_range(array.cells, 1, array.size)))

\* Mutant: the last element is given up without its destructor.
erase_NoDestructor(array, idx) ==
    [cells |-> IF idx = array.size THEN array.cells ELSE ShiftDown(array.cells, array.size, idx),
     size  |-> array.size - 1]

erase(array, idx) ==
    [cells |-> IF idx = array.size
               THEN [array.cells EXCEPT ![idx] = Destroy(@)]
               ELSE ShiftDown(array.cells, array.size, idx),
     size  |-> array.size - 1]

Equal(p, q) == p.size = q.size /\ \A i \in 1 .. p.size : p.cells[i] = q.cells[i]

-----------------------------------------------------------------------------
Replace(x, array, values, freed) ==
    /\ rep' = [rep EXCEPT ![x] = array, !.lost = @ + IF freed THEN Lost(rep[x]) ELSE 0]
    /\ ref' = [ref EXCEPT ![x] = values]
    /\ UNCHANGED fault

Put(x, array, values) == Replace(x, array, values, FALSE)

Lists == {<<>>} \cup {<<v>> : v \in Data} \cup {<<v, v + 1>> : v \in Data}

Fits(x, n) == rep[x].size + n <= Room

InsertList(x) ==
    \E items \in Lists, at \in 0 .. rep[x].size :
        Fits(x, Len(items)) /\ Put(x, insert(rep[x], items, at), Inserted(ref[x], at, items))

(* The elements of the other array, copied or moved: a moved element       *)
(* stays there, emptied.                                                   *)
InsertOther(x) ==
    LET y     == Other(x)
        items == Values(rep[y].cells, rep[y].size)
    IN  \E at \in 0 .. rep[x].size, moving \in BOOLEAN :
          /\ items # <<>> /\ Fits(x, Len(items))
          /\ rep' = [rep EXCEPT ![x] = insert(@, items, at),
                                ![y].cells = [i \in DOMAIN @ |-> Leave(@[i], moving)]]
          /\ ref' = [ref EXCEPT ![x] = Inserted(@, at, ref[y]),
                                ![y] = [i \in DOMAIN @ |-> Leave(@[i], moving)]]
          /\ UNCHANGED fault

PushBack(x) ==
    \E v \in Data : Fits(x, 1) /\ Put(x, push_back(rep[x], v), Append(ref[x], v))

PopBack(x) ==
    rep[x].size > 0 /\ Put(x, erase(rep[x], rep[x].size), Removed(ref[x], Len(ref[x])))

(* The argument may be an element of the array: reserve frees it before    *)
(* the new element is made from it.                                        *)
EmplaceOwn(x) ==
    \E i \in 1 .. rep[x].size :
      /\ Fits(x, 1)
      /\ IF rep[x].size = Len(rep[x].cells)
         THEN fault' = "argument freed by the growth" /\ UNCHANGED <<rep, ref>>
         ELSE Put(x, push_back(rep[x], rep[x].cells[i]), Append(ref[x], ref[x][i]))

Reserve(x) == \E n \in 1 .. Room : Put(x, reserve(rep[x], n), ref[x])

(* A smaller size changes nothing.                                         *)
Resize(x) ==
    \E n \in 0 .. Room, v \in Data :
        Put(x, resize(rep[x], n, v), ref[x] \o [i \in 1 .. n - Len(ref[x]) |-> v])

Erase(x) ==
    \E idx \in 1 .. rep[x].size : Put(x, erase(rep[x], idx), Removed(ref[x], idx))

Clear(x) ==
    \E deallocate \in BOOLEAN :
        Replace(x, clear(rep[x], deallocate), <<>>, deallocate)

AssignList(x) ==
    \E items \in Lists :
        LET deallocate == Len(items) < Len(rep[x].cells)
        IN  Replace(x, insert(clear(rep[x], deallocate), items, 0), items, deallocate)

(* Self-assignment clears the array before it copies it.                   *)
AssignCopy(x) ==
    LET y     == Other(x)
        items == Values(rep[y].cells, rep[y].size)
    IN  \/ Replace(x, insert(reserve(clear(rep[x], TRUE), Len(items)), items, 0), ref[y], TRUE)
        \/ rep[x].size > 0 /\ fault' = "assigned to itself" /\ UNCHANGED <<rep, ref>>

(* With one allocator the pointers are taken over, whatever the target     *)
(* held; with two the elements are moved one by one.                       *)
AssignMove(x) ==
    LET y     == Other(x)
        items == Values(rep[y].cells, rep[y].size)
    IN  /\ rep' = [rep EXCEPT
              ![x] = IF rep.shared THEN rep[y]
                     ELSE insert(reserve(clear(@, TRUE), Len(items)), items, 0),
              ![y] = IF rep.shared THEN Empty ELSE clear(@, TRUE),
              !.lost = @ + IF rep.shared THEN Cardinality(Occupied(rep[x].cells)) ELSE Lost(rep[x])]
        /\ ref' = [ref EXCEPT ![x] = ref[y], ![y] = <<>>]
        /\ fault' = IF rep.shared /\ rep[x].size > 0 THEN "elements forgotten" ELSE fault

(* The destructor, and a new array in its place: a copy of the other one,   *)
(* with its own memory, or whatever the other one had, allocator included.  *)
CopyOf(items) == insert(reserve(Empty, Len(items)), items, 0)

Reconstruct(x) ==
    LET y == Other(x)
    IN  \/ Replace(x, CopyOf(Values(rep[y].cells, rep[y].size)), ref[y], TRUE)
        \/ /\ rep' = [rep EXCEPT ![x] = rep[y], ![y] = Empty, !.lost = @ + Lost(rep[x]),
                                 !.shared = TRUE]
           /\ ref' = [ref EXCEPT ![x] = ref[y], ![y] = <<>>]
           /\ UNCHANGED fault

Next ==
    /\ fault = "none"
    /\ \E x \in Names :
          \/ InsertList(x) \/ InsertOther(x) \/ PushBack(x) \/ PopBack(x)
          \/ EmplaceOwn(x) \/ Reserve(x) \/ Resize(x) \/ Erase(x) \/ Clear(x)
          \/ AssignList(x) \/ AssignCopy(x) \/ AssignMove(x) \/ Reconstruct(x)

Spec == Init /\ [][Next]_vars

-----------------------------------------------------------------------------
(* Every place before the size holds an object and no place behind it does; *)
(* nothing was assigned to or destroyed as raw memory, built over an object *)
(* or given back with an object in it: the split between assignment and     *)
(* construction in insert, and the last destructor in erase, are right at   *)
(* every size, capacity and position.                                       *)
ObjectsSound ==
    fault = "none" =>
      /\ rep.lost = 0
      /\ \A x \in Names : \A i \in DOMAIN rep[x].cells :
            IF i <= rep[x].size THEN IsObject(rep[x].cells[i]) ELSE rep[x].cells[i] = Raw

(* The arrays stand for the sequences, and compare as they do.              *)
Represents ==
    fault = "none" =>
      /\ \A x \in Names : Values(rep[x].cells, rep[x].size) = ref[x]
      /\ Equal(rep.a, rep.b) <=> ref.a = ref.b
=============================================================================
