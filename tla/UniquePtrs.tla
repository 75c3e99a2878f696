----------------------------- MODULE UniquePtrs -----------------------------
(***************************************************************************)
(* UniquePtr (memory/unique_ptr.hpp): a pointer with the allocator that    *)
(* owns what it points to. rep.ptr holds the pointers, rep.heap tells for  *)
(* each object the allocator it lives in, None for no object. ref says     *)
(* which object each pointer owns and which were released to the caller.   *)
(***************************************************************************)
EXTENDS Integers

CONSTANTS Pointers, Objects, Allocators
VARIABLES rep, ref, fault

vars == <<rep, ref, fault>>

None == 0
Empty == [ptr |-> None, alloc |-> None]

Init ==
    /\ rep = [ptr |-> [x \in Pointers |-> Empty], heap |-> [o \in Objects |-> None], lost |-> {}]
    /\ ref = [owns |-> [x \in Pointers |-> None], released |-> {}]
    /\ fault = "none"

(* destroy(ptr, alloc) of an object that lives in another allocator, or no  *)
(* longer lives, is remembered in lost.                                     *)
destroy(r, o, alloc) ==
    [r EXCEPT !.heap[o] = None, !.lost = IF r.heap[o] = alloc THEN @ ELSE @ \cup {o}]

check_invariant(p) == p.ptr = None \/ p.alloc # None

(* reset, and whether its ASSERTs let it return: an empty pointer that is   *)
(* reset to nothing with an allocator does not pass.                        *)
reset(r, x, alloc, o) ==
    LET old  == r.ptr[x]
        gone == IF old.ptr # None /\ o # old.ptr THEN destroy(r, old.ptr, old.alloc) ELSE r
    IN  [gone EXCEPT !.ptr[x] = [ptr |-> o, alloc |-> alloc]]

ResetPasses(r, x, alloc, o) ==
    /\ o # r.ptr[x].ptr \/ alloc = r.ptr[x].alloc
    /\ check_invariant([ptr |-> o, alloc |-> alloc])

release(r, x) == [r EXCEPT !.ptr[x] = Empty]

Unused == {o \in Objects : rep.heap[o] = None}

-----------------------------------------------------------------------------
Reset(r, x, alloc, o) ==
    /\ rep' = reset(r, x, alloc, o)
    /\ fault' = IF ResetPasses(r, x, alloc, o) THEN fault ELSE "trap"

(* x = make_unique<T>(alloc), and x = copy_unique(y), which takes the       *)
(* allocator of y: a new object, moved into x from a temporary.             *)
MakeUnique(x) ==
    \E o \in Unused, alloc \in Allocators :
      /\ Reset([rep EXCEPT !.heap[o] = alloc], x, alloc, o)
      /\ ref' = [ref EXCEPT !.owns[x] = o]

CopyUnique(x, y) ==
    IF rep.ptr[y].ptr # None
    THEN \E o \in Unused :
           /\ Reset([rep EXCEPT !.heap[o] = rep.ptr[y].alloc], x, rep.ptr[y].alloc, o)
           /\ ref' = [ref EXCEPT !.owns[x] = o]
    ELSE /\ Reset(rep, x, None, None)
         /\ ref' = [ref EXCEPT !.owns[x] = None]

(* x = move(y): reset with the allocator of y and with y.release(), two     *)
(* arguments that are evaluated in either order. If y is released first its *)
(* allocator is gone when it is read.                                       *)
Move(x, y) ==
    \E allocFirst \in BOOLEAN :
      /\ Reset(release(rep, y), x, IF allocFirst THEN rep.ptr[y].alloc ELSE None, rep.ptr[y].ptr)
      /\ ref' = [ref EXCEPT !.owns = [@ EXCEPT ![y] = None, ![x] = ref.owns[y]]]

Swap(x, y) ==
    /\ rep' = [rep EXCEPT !.ptr[x] = rep.ptr[y], !.ptr[y] = rep.ptr[x]]
    /\ ref' = [ref EXCEPT !.owns[x] = ref.owns[y], !.owns[y] = ref.owns[x]]
    /\ UNCHANGED fault

(* p = x.release(), and x.reset(alloc, p) with a pointer of the caller's    *)
(* that lives in alloc, or with null.                                       *)
Release(x) ==
    /\ rep' = release(rep, x)
    /\ ref' = [owns |-> [ref.owns EXCEPT ![x] = None],
               released |-> ref.released \cup ({ref.owns[x]} \ {None})]
    /\ UNCHANGED fault

Adopt(x) ==
    \E o \in ref.released :
      /\ Reset(rep, x, rep.heap[o], o)
      /\ ref' = [owns |-> [ref.owns EXCEPT ![x] = o], released |-> ref.released \ {o}]

ResetToNull(x) ==
    \E alloc \in Allocators :
      /\ Reset(rep, x, alloc, None)
      /\ ref' = [ref EXCEPT !.owns[x] = None]

(* The destructor, and a new UniquePtr in its place, made from nothing or   *)
(* by the constructor that swaps with its argument.                         *)
Destruct(x) ==
    /\ Reset(rep, x, None, None)
    /\ ref' = [ref EXCEPT !.owns[x] = None]

Next ==
    /\ fault = "none"
    /\ \E x, y \in Pointers :
         \/ MakeUnique(x) \/ CopyUnique(x, y) \/ Move(x, y) \/ Swap(x, y)
         \/ Release(x) \/ Adopt(x) \/ ResetToNull(x) \/ Destruct(x)

Spec == Init /\ [][Next]_vars

-----------------------------------------------------------------------------
(* Every object that lives is owned by exactly one pointer or was released  *)
(* to the caller, each pointer knows the allocator of its object, and       *)
(* nothing was destroyed twice or with another allocator.                   *)
ObjectsSound ==
    fault = "none" =>
      /\ rep.lost = {}
      /\ \A x \in Pointers : rep.ptr[x].ptr # None => rep.heap[rep.ptr[x].ptr] = rep.ptr[x].alloc
      /\ \A o \in Objects \ ref.released :
           rep.heap[o] # None <=> \E x \in Pointers : \A y \in Pointers : rep.ptr[y].ptr = o <=> y = x
      /\ \A o \in ref.released : rep.heap[o] # None /\ \A x \in Pointers : rep.ptr[x].ptr # o

Represents == fault = "none" => \A x \in Pointers : rep.ptr[x].ptr = ref.owns[x]
=============================================================================
