------------------------------- MODULE Eithers -------------------------------
(***************************************************************************)
(* Either (base/either.hpp): memory for an object of one of several types  *)
(* and the index of its type; every operation on the object goes through   *)
(* the functions of that type (base/type_info.hpp). rep holds two of them, *)
(* ref the type and value of each.                                         *)
(***************************************************************************)
EXTENDS ObjectMemory

CONSTANTS Alternatives,      \* indices of the types, from 0
          Data
VARIABLES rep, ref, fault

vars == <<rep, ref, fault>>

Names == {"a", "b"}
Other(x) == IF x = "a" THEN "b" ELSE "a"
NoType == 255         \* UINT8_MAX
Unconstructed == [memory |-> Raw, type_index |-> NoType]

construct(e, type, value) ==      \* construct_copy, construct_move
    IF e.type_index # NoType THEN [e EXCEPT !.memory = Bad]       \* ASSERT
    ELSE [memory |-> Construct(e.memory, value), type_index |-> type]

construct_opaque(e, other) ==
    IF e.type_index # NoType THEN [e EXCEPT !.memory = Bad]
    ELSE [memory |-> Construct(Raw, other.memory), type_index |-> other.type_index]

destruct(e) ==
    IF e.type_index = NoType THEN [e EXCEPT !.memory = Bad]
    ELSE [memory |-> Destroy(e.memory), type_index |-> NoType]

assign(e, type, value) ==         \* assign_copy, assign_move
    IF e.type_index = type THEN [e EXCEPT !.memory = Assign(@, value)]
    ELSE construct(destruct(e), type, value)

assign_opaque(e, other) ==
    IF e.type_index = other.type_index THEN [e EXCEPT !.memory = Assign(@, other.memory)]
    ELSE construct_opaque(destruct(e), other)

left(e, moving) == [e EXCEPT !.memory = Leave(@, moving)]

Init ==
    /\ \E t \in Alternatives, v \in Data :
          /\ rep = [x \in Names |-> construct(Unconstructed, t, v)]
          /\ ref = [x \in Names |-> <<t, v>>]
    /\ fault = "none"

-----------------------------------------------------------------------------
AssignValue(x) ==
    \E t \in Alternatives, v \in Data :
      /\ rep' = [rep EXCEPT ![x] = assign(@, t, v)]
      /\ ref' = [ref EXCEPT ![x] = <<t, v>>]
      /\ UNCHANGED fault

(* A moved object stays where it is, with its type.                        *)
AssignOther(x) ==
    LET y == Other(x)
    IN  \E moving \in BOOLEAN :
          /\ rep' = [rep EXCEPT ![x] = assign_opaque(@, rep[y]), ![y] = left(@, moving)]
          /\ ref' = [ref EXCEPT ![x] = ref[y], ![y] = <<@[1], Leave(@[2], moving)>>]
          /\ UNCHANGED fault

AssignSelf(x) ==
    /\ rep' = [rep EXCEPT ![x] = assign_opaque(@, @)]
    /\ UNCHANGED <<ref, fault>>

(* The destructor and another Either in its place, from a value, as a copy *)
(* or by a move.                                                           *)
Reconstruct(x) ==
    LET y     == Other(x)
        fresh == [memory |-> destruct(rep[x]).memory, type_index |-> NoType]
    IN  /\ \/ \E t \in Alternatives, v \in Data :
                 /\ rep' = [rep EXCEPT ![x] = construct(fresh, t, v)]
                 /\ ref' = [ref EXCEPT ![x] = <<t, v>>]
           \/ \E moving \in BOOLEAN :
                 /\ rep' = [rep EXCEPT ![x] = construct_opaque(fresh, rep[y]), ![y] = left(@, moving)]
                 /\ ref' = [ref EXCEPT ![x] = ref[y], ![y] = <<@[1], Leave(@[2], moving)>>]
        /\ UNCHANGED fault

(* A constructor that throws, after another type's object was destroyed    *)
(* for it: the index says there is an object already.                      *)
ConstructorThrows(x) ==
    \E t \in Alternatives \ {rep[x].type_index} :
      /\ rep' = [rep EXCEPT ![x] = [memory |-> destruct(@).memory, type_index |-> t]]
      /\ fault' = "type without an object" /\ UNCHANGED ref

Next ==
    /\ fault = "none"
    /\ \E x \in Names : AssignValue(x) \/ AssignOther(x) \/ AssignSelf(x) \/ Reconstruct(x)
                          \/ ConstructorThrows(x)

Spec == Init /\ [][Next]_vars

-----------------------------------------------------------------------------
(* visit tries the types in order; when and either_switch take the same.   *)
visit(e) == {t \in Alternatives : e.type_index = t}

(* There is always one object, its type is the index, and no object was     *)
(* built over another, assigned as another type or destroyed twice.         *)
ObjectsSound ==
    fault = "none" => \A x \in Names : IsObject(rep[x].memory) /\ rep[x].type_index # NoType

(* Type and value are those given last, and exactly one branch of a visit   *)
(* sees them.                                                               *)
Represents ==
    fault = "none" =>
        \A x \in Names : <<rep[x].type_index, rep[x].memory>> = ref[x] /\ visit(rep[x]) = {ref[x][1]}
=============================================================================
