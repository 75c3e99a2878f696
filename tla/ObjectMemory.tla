---------------------------- MODULE ObjectMemory ----------------------------
(***************************************************************************)
(* What the places of a block of memory hold as far as constructors and    *)
(* destructors go (base/basic.hpp): nothing, an object with a value, or an *)
(* object that was moved from. The containers and holders of the library   *)
(* manage such places by hand. A place that was written or destroyed the   *)
(* wrong way is Bad from then on, whatever is done to it.                  *)
(***************************************************************************)
EXTENDS Integers, Sequences

Raw   == -1    \* memory without an object
Moved == -2    \* an object whose value was moved away
Bad   == -3    \* assigned to or destroyed as raw memory, or overwritten alive

IsObject(place) == place >= 0 \/ place = Moved

Fresh(n) == [i \in 1 .. n |-> Raw]

(* new(place) T(value): a live object there is overwritten, and never      *)
(* destroyed; an object made from raw memory is garbage.                   *)
Construct(place, value) == IF place = Raw /\ IsObject(value) THEN value ELSE Bad

(* place = value *)
Assign(place, value) == IF IsObject(place) /\ IsObject(value) THEN value ELSE Bad

(* place.~T() *)
Destroy(place) == IF IsObject(place) THEN Raw ELSE Bad

construct_range(memory, first, last, value) ==
    [i \in DOMAIN memory |->
        IF i \in first .. last THEN Construct(memory[i], value) ELSE memory[i]]

destruct_range(memory, first, last) ==
    [i \in DOMAIN memory |->
        IF i \in first .. last THEN Destroy(memory[i]) ELSE memory[i]]

(* What the source of a move or of a copy is left with.                    *)
Leave(place, moving) == IF moving /\ IsObject(place) THEN Moved ELSE place

move_or_copy(memory, to, from, moving) ==
    [memory EXCEPT ![from] = Leave(@, moving), ![to] = Assign(@, memory[from])]

move_or_copy_construct(memory, to, from, moving) ==
    [memory EXCEPT ![from] = Leave(@, moving), ![to] = Construct(@, memory[from])]

(* The loops with which an array opens and closes a gap, place by place in *)
(* the order of the code: ShiftUp moves the places after `at` up by `add`, *)
(* the highest first; Fill writes the new items into the gap; a place of   *)
(* the first `size` is assigned to and a place behind them constructed.    *)
ShiftUp(memory, size, at, add) ==
    LET after[k \in 0 .. size - at] ==
            IF k = 0 THEN memory
            ELSE LET dst == size + add + 1 - k
                 IN  IF dst > size THEN move_or_copy_construct(after[k - 1], dst, dst - add, TRUE)
                                   ELSE move_or_copy(after[k - 1], dst, dst - add, TRUE)
    IN  after[size - at]

Fill(memory, size, at, items) ==
    [i \in DOMAIN memory |->
        IF i \notin at + 1 .. at + Len(items) THEN memory[i]
        ELSE IF i <= size THEN Assign(memory[i], items[i - at])
        ELSE Construct(memory[i], items[i - at])]

ShiftDown(memory, size, at) ==
    LET after[k \in 0 .. size - at] ==
            IF k = 0 THEN memory ELSE move_or_copy(after[k - 1], at + k - 1, at + k, TRUE)
    IN  Append(SubSeq(after[size - at], 1, size - 1), Raw) \o SubSeq(memory, size + 1, Len(memory))

(* The same on the sequence of values that the places stand for.           *)
Values(memory, size) == SubSeq(memory, 1, size)
Inserted(values, at, items) == SubSeq(values, 1, at) \o items \o SubSeq(values, at + 1, Len(values))
Removed(values, idx) == SubSeq(values, 1, idx - 1) \o SubSeq(values, idx + 1, Len(values))

Occupied(memory) == {i \in DOMAIN memory : memory[i] # Raw}
=============================================================================
