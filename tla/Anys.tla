-------------------------------- MODULE Anys --------------------------------
(***************************************************************************)
(* Any (base/any.hpp, base/any.cpp): an object of any type, in place when  *)
(* it is small and in a block of memory when it is big. rep holds two of   *)
(* them: the type, the object, whether a block and (in a DEBUG build) the  *)
(* debug information are allocated; lost, the objects with a value and the *)
(* blocks that nothing refers to any more. ref holds type and value.       *)
(***************************************************************************)
EXTENDS ObjectMemory

CONSTANTS Data
VARIABLES rep, ref, fault

vars == <<rep, ref, fault>>

Names == {"a", "b"}
Other(x) == IF x = "a" THEN "b" ELSE "a"
Types == {"small", "big"}
Empty == [stored_type |-> "none", memory |-> Raw, block |-> FALSE, info |-> FALSE]
None == <<"none", Raw>>

Init ==
    /\ \E debug \in BOOLEAN : rep = [a |-> Empty, b |-> Empty, debug |-> debug, lost |-> 0]
    /\ ref = [x \in Names |-> None]
    /\ fault = "none"

is_empty(a) == a.stored_type = "none"

allocate_storage(type) == type = "big"

(* The destructor, deallocate_storage and clear_debug_info.                 *)
clear(a) == IF is_empty(a) THEN a ELSE [Empty EXCEPT !.memory = Destroy(a.memory)]

Stored(a, type, value, info) ==
    [stored_type |-> type, memory |-> Construct(clear(a).memory, value),
     block |-> allocate_storage(type), info |-> info]

assign_copy(a, other) ==
    IF is_empty(other) THEN clear(a) ELSE Stored(a, other.stored_type, other.memory, rep.debug)

assign_move(a, other) ==
    IF is_empty(other) THEN clear(a) ELSE Stored(a, other.stored_type, other.memory, other.info)

moved_from(a) ==
    [stored_type |-> a.stored_type, memory |-> Leave(a.memory, TRUE), block |-> a.block, info |-> FALSE]

(* What must not be dropped without a destructor or a free.                *)
Held(a) == IF is_empty(a) THEN 0
           ELSE (IF a.memory >= 0 THEN 1 ELSE 0) + (IF a.block THEN 1 ELSE 0)

(* duplicate is called on the debug information of the source.             *)
Copyable(a) == rep.debug /\ ~is_empty(a) => a.info

Set(x, a, value) ==
    /\ rep' = [rep EXCEPT ![x] = a]
    /\ ref' = [ref EXCEPT ![x] = value]

-----------------------------------------------------------------------------
AssignValue(x) ==
    \E t \in Types, v \in Data :
        Set(x, Stored(rep[x], t, v, rep.debug), <<t, v>>) /\ UNCHANGED fault

Clear(x) == Set(x, clear(rep[x]), None) /\ UNCHANGED fault

AssignCopy(x) ==
    LET y == Other(x)
    IN  IF Copyable(rep[y])
        THEN Set(x, assign_copy(rep[x], rep[y]), ref[y]) /\ UNCHANGED fault
        ELSE fault' = "no debug information to copy" /\ UNCHANGED <<rep, ref>>

AssignMove(x) ==
    LET y == Other(x)
    IN  /\ rep' = [rep EXCEPT ![x] = assign_move(@, rep[y]),
                              ![y] = clear(moved_from(@))]
        /\ ref' = [ref EXCEPT ![x] = ref[y], ![y] = None]
        /\ UNCHANGED fault

(* The own object is destroyed before it is looked at.                     *)
AssignSelf(x) ==
    /\ ~is_empty(rep[x])
    /\ rep' = [rep EXCEPT ![x] = clear(@)]
    /\ fault' = "assigned to itself" /\ UNCHANGED ref

(* The destructor, and in the same place the copy of the other: without an *)
(* allocator the copy is made twice, the second over the first.            *)
CopyConstruct(x) ==
    LET y    == Other(x)
        once == assign_copy(Empty, rep[y])
    IN  \E alloc \in BOOLEAN :
          IF ~Copyable(rep[y])
          THEN fault' = "no debug information to copy" /\ UNCHANGED <<rep, ref>>
          ELSE /\ rep' = [rep EXCEPT ![x] = once,
                                     !.lost = @ + IF alloc THEN 0 ELSE Held(once)]
               /\ ref' = [ref EXCEPT ![x] = ref[y]]
               /\ fault' = IF alloc \/ is_empty(rep[y]) THEN fault ELSE "constructed twice"

(* The destructor, and the other moved there: its block is freed and its    *)
(* type forgotten, and what is left of its object has no destructor called. *)
Dropped == Empty

MoveConstruct(x) ==
    LET y == Other(x)
    IN  /\ rep' = [rep EXCEPT ![x] = assign_move(Empty, rep[y]),
                              ![y] = IF is_empty(@) THEN @ ELSE Dropped,
                              !.lost = @ + Held(clear(rep[x]))]
        /\ ref' = [ref EXCEPT ![x] = ref[y], ![y] = None]
        /\ UNCHANGED fault

(* take_memory and copy_memory: an Any around an object that is somewhere  *)
(* in memory, without debug information.                                   *)
FromMemory(x) ==
    \E t \in Types, v \in Data :
        Set(x, Stored(rep[x], t, v, FALSE), <<t, v>>) /\ UNCHANGED fault

Next ==
    /\ fault = "none"
    /\ \E x \in Names :
         AssignValue(x) \/ Clear(x) \/ AssignCopy(x) \/ AssignMove(x) \/ AssignSelf(x)
           \/ CopyConstruct(x) \/ MoveConstruct(x) \/ FromMemory(x)

Spec == Init /\ [][Next]_vars

-----------------------------------------------------------------------------
(* There is an object exactly under a type and a block exactly under a big  *)
(* one; nothing was built over an object, freed twice or dropped with a     *)
(* value, whichever of the assignments and constructors moved it about.     *)
ObjectsSound ==
    fault = "none" =>
      /\ rep.lost = 0
      /\ \A x \in Names :
           /\ rep[x].memory # Bad
           /\ IsObject(rep[x].memory) <=> ~is_empty(rep[x])
           /\ rep[x].block <=> rep[x].stored_type = "big"
           /\ rep[x].info => ~is_empty(rep[x])

(* Type and value are those given last.                                     *)
Represents ==
    fault = "none" => \A x \in Names : <<rep[x].stored_type, rep[x].memory>> = ref[x]
=============================================================================
