-------------------------- MODULE FunctionObjects --------------------------
(***************************************************************************)
(* Function (base/function.hpp): nothing, a pointer to a function, or a    *)
(* caller on the heap that holds a function object. rep holds two of them, *)
(* the allocator of every live caller and what it calls; ref what each     *)
(* Function should call.                                                   *)
(***************************************************************************)
CONSTANTS Code,          \* functions and function objects
          Allocators,
          Callers        \* places for callers on the heap
VARIABLES rep, ref, fault

vars == <<rep, ref, fault>>

Names == {"f", "g"}
Other(x) == IF x = "f" THEN "g" ELSE "f"
Null == "null"
Free == [object |-> Null, allocator |-> Null]
Empty == [type |-> "Empty", payload |-> Null, invoke |-> "empty_invoker_pad"]

Init ==
    /\ rep = [f |-> Empty, g |-> Empty, heap |-> [c \in Callers |-> Free]]
    /\ ref = [x \in Names |-> Null]
    /\ fault = "none"

Fat(c)  == [type |-> "Fat", payload |-> c, invoke |-> "cptr_invoker_pad"]
Thin(p) == [type |-> "Thin", payload |-> p, invoke |-> "fptr_invoker_pad"]
IsFat(x) == rep[x].type = "Fat"
CallerOf(x) == rep.heap[rep[x].payload]
Unused == {c \in Callers : rep.heap[c] = Free}

(* clear: the caller is destroyed with its own allocator.                  *)
Cleared(x) ==
    IF IsFat(x) /\ rep[x].payload # Null
    THEN [rep EXCEPT !.heap[rep[x].payload] = Free, ![x] = Empty]
    ELSE [rep EXCEPT ![x] = Empty]

New(r, x, object, allocator) ==
    LET c == CHOOSE d \in Unused : TRUE
    IN  [r EXCEPT !.heap[c] = [object |-> object, allocator |-> allocator], ![x] = Fat(c)]

Becomes(x, code) == ref' = [ref EXCEPT ![x] = code]

-----------------------------------------------------------------------------
Clear(x) == rep' = Cleared(x) /\ Becomes(x, Null) /\ UNCHANGED fault

AssignPointer(x) ==
    \E p \in Code : rep' = [Cleared(x) EXCEPT ![x] = Thin(p)] /\ Becomes(x, p) /\ UNCHANGED fault

AssignObject(x) ==
    \E p \in Code, alloc \in Allocators :
      /\ Unused # {}
      /\ rep' = New(Cleared(x), x, p, alloc) /\ Becomes(x, p) /\ UNCHANGED fault

(* With an allocator or with that of the caller that is duplicated.        *)
AssignCopy(x) ==
    LET y == Other(x)
    IN  \E alloc \in Allocators \cup IF IsFat(y) THEN {CallerOf(y).allocator} ELSE {} :
          /\ IsFat(y) => Unused # {}
          /\ rep' = IF IsFat(y) THEN New(Cleared(x), x, CallerOf(y).object, alloc)
                    ELSE IF rep[y].type = "Thin"
                    THEN [Cleared(x) EXCEPT ![x] = Thin(rep[y].payload)]
                    ELSE Cleared(x)
          /\ Becomes(x, ref[y])
          /\ UNCHANGED fault

AssignMove(x) ==
    LET y == Other(x)
    IN  /\ rep' = [Cleared(x) EXCEPT ![x] = rep[y], ![y] = Empty]
        /\ ref' = [ref EXCEPT ![x] = ref[y], ![y] = Null]
        /\ UNCHANGED fault

(* With the allocator of the other's caller, the other keeps the type of a *)
(* Function with a caller.                                                 *)
AssignMoveTo(x) ==
    LET y == Other(x)
    IN  \E alloc \in Allocators :
          /\ IsFat(y) /\ CallerOf(y).allocator # alloc => Unused # {}
          /\ rep' = IF ~IsFat(y) THEN [Cleared(x) EXCEPT ![x] = rep[y], ![y] = Empty]
                    ELSE IF CallerOf(y).allocator = alloc
                    THEN [Cleared(x) EXCEPT ![x] = rep[y],
                                            ![y] = [Empty EXCEPT !.type = "Fat"]]
                    ELSE [New(Cleared(x), x, CallerOf(y).object, alloc)
                            EXCEPT !.heap[rep[y].payload] = Free, ![y] = Empty]
          /\ ref' = [ref EXCEPT ![x] = ref[y], ![y] = Null]
          /\ fault' = IF IsFat(y) /\ CallerOf(y).allocator = alloc
                      THEN "type without a caller" ELSE fault

Next ==
    /\ fault = "none"
    /\ \E x \in Names : Clear(x) \/ AssignPointer(x) \/ AssignObject(x) \/ AssignCopy(x)
                          \/ AssignMove(x) \/ AssignMoveTo(x)

Spec == Init /\ [][Next]_vars

-----------------------------------------------------------------------------
(* The live callers are those of the two Functions, each of one.            *)
ObjectsSound ==
    fault = "none" =>
      /\ {c \in Callers : rep.heap[c] # Free} = {rep[x].payload : x \in {y \in Names : IsFat(y)}}
      /\ IsFat("f") /\ IsFat("g") => rep.f.payload # rep.g.payload

(* What a call reaches through the pad that is set.                         *)
invoke(x) ==
    IF rep[x].invoke = "cptr_invoker_pad" THEN CallerOf(x).object
    ELSE IF rep[x].invoke = "fptr_invoker_pad" THEN rep[x].payload
    ELSE Null

(* A call reaches what was assigned last, and EmptyFunctionCallError when   *)
(* operator bool says that there is nothing.                                *)
Represents ==
    fault = "none" =>
        \A x \in Names : invoke(x) = ref[x] /\ (rep[x].type = "Empty" <=> ref[x] = Null)
=============================================================================
