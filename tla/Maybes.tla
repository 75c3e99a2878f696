------------------------------- MODULE Maybes -------------------------------
(***************************************************************************)
(* Maybe (base/maybe.hpp): memory for one object and a byte that says      *)
(* whether there is one. rep holds two of them, ref the value of each or   *)
(* Raw for nothing; type says which of construction and assignment the     *)
(* type of the object has, which selects among three ways to assign.       *)
(***************************************************************************)
EXTENDS ObjectMemory

CONSTANTS Data
VARIABLES rep, ref, fault

vars == <<rep, ref, fault>>

Names == {"a", "b"}
Other(x) == IF x = "a" THEN "b" ELSE "a"
Types == {"constructible and assignable", "constructible", "assignable"}
Nothing == [memory |-> Raw, is_set |-> FALSE]

Init ==
    /\ \E type \in Types : rep = [a |-> Nothing, b |-> Nothing, type |-> type]
    /\ ref = [a |-> Raw, b |-> Raw]
    /\ fault = "none"

clear(m) == IF m.is_set THEN [memory |-> Destroy(m.memory), is_set |-> FALSE] ELSE m

assign(m, value) ==
    LET default == IF m.is_set THEN m.memory ELSE Construct(m.memory, 0)
        memory  == CASE rep.type = "constructible" -> Construct(clear(m).memory, value)
                     [] rep.type = "assignable"    -> Assign(default, value)
                     [] OTHER -> IF m.is_set THEN Assign(m.memory, value)
                                             ELSE Construct(m.memory, value)
    IN  [memory |-> memory, is_set |-> TRUE]

(* A Maybe whose object has been moved elsewhere.                          *)
moved_from(m) == [m EXCEPT !.memory = Leave(@, TRUE)]

get_or(m, default) == IF m.is_set THEN m.memory ELSE default

-----------------------------------------------------------------------------
AssignValue(x) ==
    \E v \in Data :
      /\ rep' = [rep EXCEPT ![x] = assign(@, v)]
      /\ ref' = [ref EXCEPT ![x] = v]
      /\ UNCHANGED fault

(* Copied from itself, a value that is not assignable is destroyed first.  *)
AssignCopy(x) ==
    \E y \in Names :
      /\ rep' = [rep EXCEPT ![x] = IF rep[y].is_set THEN assign(@, rep[y].memory) ELSE clear(@)]
      /\ ref' = [ref EXCEPT ![x] = ref[y]]
      /\ fault' = IF x = y /\ rep[x].is_set /\ rep.type = "constructible"
                  THEN "copied after destruction" ELSE fault

AssignMove(x) ==
    LET y == Other(x)
    IN  /\ rep' = IF rep[y].is_set
                  THEN [rep EXCEPT ![x] = assign(@, rep[y].memory),
                                   ![y] = clear(moved_from(@))]
                  ELSE [rep EXCEPT ![x] = clear(@)]
        /\ ref' = [ref EXCEPT ![x] = ref[y], ![y] = Raw]
        /\ UNCHANGED fault

(* Moved to itself, a value is cleared.                                    *)
AssignSelf(x) ==
    /\ rep[x].is_set
    /\ rep' = [rep EXCEPT ![x] = clear(@)]
    /\ fault' = "moved to itself" /\ UNCHANGED ref

Clear(x) ==
    /\ rep' = [rep EXCEPT ![x] = clear(@)]
    /\ ref' = [ref EXCEPT ![x] = Raw]
    /\ UNCHANGED fault

(* The destructor and another Maybe in the same place, made from nothing,  *)
(* as a copy or by a move; the memory is not initialized, the byte is.     *)
Reconstruct(x) ==
    LET y     == Other(x)
        fresh == [memory |-> clear(rep[x]).memory, is_set |-> FALSE]
    IN  \E moving \in BOOLEAN :
          /\ rep' = [rep EXCEPT ![x] = IF rep[y].is_set THEN assign(fresh, rep[y].memory) ELSE fresh,
                                ![y] = IF moving THEN clear(moved_from(@)) ELSE @]
          /\ ref' = [ref EXCEPT ![x] = ref[y], ![y] = IF moving THEN Raw ELSE @]
          /\ UNCHANGED fault

Next ==
    /\ fault = "none"
    /\ \E x \in Names :
         AssignValue(x) \/ AssignCopy(x) \/ AssignMove(x) \/ AssignSelf(x) \/ Clear(x) \/ Reconstruct(x)

Spec == Init /\ [][Next]_vars

-----------------------------------------------------------------------------
(* The byte is set exactly over an object, whichever way it came and went,  *)
(* and nothing was built over an object or assigned to raw memory.          *)
ObjectsSound ==
    fault = "none" =>
        \A x \in Names : rep[x].memory # Bad /\ (rep[x].is_set <=> IsObject(rep[x].memory))

(* The value is the one that was assigned, copied or moved last.            *)
Represents == fault = "none" => \A x \in Names : get_or(rep[x], Raw) = ref[x]
=============================================================================
