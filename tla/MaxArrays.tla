------------------------------ MODULE MaxArrays ------------------------------
(***************************************************************************)
(* MaxArray (base/maxarray.hpp): an array in place, of at most Capacity    *)
(* elements. rep holds the places of its memory and its size, ref the      *)
(* sequence of values it should stand for, fault as in Arrays.             *)
(***************************************************************************)
EXTENDS ObjectMemory

CONSTANTS Data, Capacity
VARIABLES rep, ref, fault

vars == <<rep, ref, fault>>

Put(array, values) == rep' = array /\ ref' = values /\ UNCHANGED fault

(* MaxArrayTooSmallError and IndexOutOfBoundsException change nothing.     *)
Raise == UNCHANGED vars

Lists == {<<>>} \cup {<<v>> : v \in Data} \cup {<<v, v + 1>> : v \in Data}

clear(array) == [cells |-> destruct_range(array.cells, 1, array.size), size |-> 0]

push_back(array, value) ==
    [cells |-> [array.cells EXCEPT ![array.size + 1] = Construct(@, value)],
     size  |-> array.size + 1]

insert_impl(array, items, at) ==
    [cells |-> Fill(ShiftUp(array.cells, array.size, at, Len(items)), array.size, at, items),
     size  |-> array.size + Len(items)]

(* The constructors insert a list, or raise the error and make no array.    *)
Init ==
    \E items \in Lists :
        /\ Len(items) <= Capacity
        /\ rep = insert_impl([cells |-> Fresh(Capacity), size |-> 0], items, 0)
        /\ ref = items /\ fault = "none"

PushBack ==
    \E v \in Data : IF rep.size + 1 > Capacity THEN Raise
                    ELSE Put(push_back(rep, v), Append(ref, v))

Insert ==
    \E items \in Lists, at \in 0 .. rep.size :
        IF rep.size + Len(items) > Capacity THEN Raise
        ELSE Put(insert_impl(rep, items, at), Inserted(ref, at, items))

(* The last element is destroyed, and still counted.                       *)
pop_back(array) == [array EXCEPT !.cells[array.size] = Destroy(@)]

PopBack ==
    IF rep.size = 0 THEN Raise
    ELSE rep' = pop_back(rep) /\ ref' = Removed(ref, Len(ref)) /\ fault' = "popped and counted"

(* Down to a smaller size pop_back never gets there: it would loop on.     *)
resize(array, n, value) ==
    LET longer[k \in 0 .. n] ==
            IF k <= array.size THEN array ELSE push_back(longer[k - 1], value)
    IN  longer[n]

Resize ==
    \E n \in 0 .. Capacity + 1, v \in Data :
        IF n > Capacity THEN Raise
        ELSE IF rep.size <= n
             THEN Put(resize(rep, n, v), ref \o [i \in 1 .. n - Len(ref) |-> v])
             ELSE fault' = "resized down" /\ UNCHANGED <<rep, ref>>

(* The list's array is assigned, and the function returns nothing.         *)
AssignList ==
    \E items \in Lists :
        IF Len(items) > Capacity THEN rep' = clear(rep) /\ ref' = <<>> /\ UNCHANGED fault
        ELSE /\ rep' = insert_impl(clear(rep), items, 0)
             /\ ref' = items
             /\ fault' = "no result returned"

Clear == Put(clear(rep), <<>>)

erase(array, idx) ==
    [cells |-> IF idx = array.size
               THEN [array.cells EXCEPT ![idx] = Destroy(@)]
               ELSE ShiftDown(array.cells, array.size, idx),
     size  |-> array.size - 1]

Erase ==
    \E idx \in 1 .. Capacity :
        IF idx > rep.size THEN Raise ELSE Put(erase(rep, idx), Removed(ref, idx))

Next ==
    /\ fault = "none"
    /\ PushBack \/ Insert \/ PopBack \/ Resize \/ AssignList \/ Clear \/ Erase

Spec == Init /\ [][Next]_vars

(* The places before the size hold objects and the others do not.           *)
ObjectsSound ==
    fault = "none" =>
        \A i \in 1 .. Capacity : IF i <= rep.size THEN IsObject(rep.cells[i]) ELSE rep.cells[i] = Raw

(* The array stands for the sequence.                                       *)
Represents == fault = "none" => Values(rep.cells, rep.size) = ref
=============================================================================
