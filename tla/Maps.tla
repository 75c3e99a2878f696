-------------------------------- MODULE Maps --------------------------------
(***************************************************************************)
(* Map (base/map.hpp): keys in order in one block of memory and their      *)
(* values in another, for two maps with one allocator or two. rep, ref and *)
(* fault are as in Arrays; ref holds two functions.                        *)
(***************************************************************************)
EXTENDS ObjectMemory, SequencesExt

CONSTANTS Keys, Data,     \* positive integers
          PageElements
VARIABLES rep, ref, fault

vars == <<rep, ref, fault>>

LOCAL A == INSTANCE Arrays WITH Room <- Cardinality(Keys)

Names == {"a", "b"}
Other(x) == IF x = "a" THEN "b" ELSE "a"
Empty == [keys |-> <<>>, values |-> <<>>, size |-> 0]
NoPairs == [k \in {} |-> 0]

Init ==
    /\ \E shared \in BOOLEAN :
          rep = [a |-> Empty, b |-> Empty, shared |-> shared, lost |-> 0]
    /\ ref = [a |-> NoPairs, b |-> NoPairs]
    /\ fault = "none"

reserve(map, n) ==
    [map EXCEPT !.keys   = A!resize_allocation(@, map.size, n),
                !.values = A!resize_allocation(@, map.size, n)]

(* std::lower_bound: how many keys are less.                               *)
lower_bound(map, key) == Cardinality({i \in 1 .. map.size : map.keys[i] < key})

find(map, key) ==
    LET i == lower_bound(map, key) + 1
    IN  IF i > map.size THEN 0 ELSE IF map.keys[i] # key THEN 0 ELSE i

(* A new last place is constructed empty before the pairs behind the new   *)
(* one move up.                                                            *)
Opened(memory, size, at) ==
    LET longer == [memory EXCEPT ![size + 1] = Construct(@, 0)]
    IN  FoldLeft(LAMBDA m, dst : move_or_copy(m, dst, dst - 1, TRUE),
                 longer, [k \in 1 .. size + 1 - at |-> size + 2 - k])

insert_one(map, key, value) ==
    LET at == lower_bound(map, key) + 1
    IN  IF at = map.size + 1
        THEN [keys   |-> [map.keys EXCEPT ![at] = Construct(@, key)],
              values |-> [map.values EXCEPT ![at] = Construct(@, value)],
              size   |-> at]
        ELSE IF map.keys[at] = key
        THEN [map EXCEPT !.values[at] = Assign(@, value)]
        ELSE [keys   |-> [Opened(map.keys, map.size, at) EXCEPT ![at] = Assign(@, key)],
              values |-> [Opened(map.values, map.size, at) EXCEPT ![at] = Assign(@, value)],
              size   |-> map.size + 1]

set(map, key, value) == insert_one(reserve(map, map.size + 1), key, value)

Pairs(map) == [i \in 1 .. map.size |-> <<map.keys[i], map.values[i]>>]

insert(map, pairs) ==
    FoldLeft(LAMBDA m, p : insert_one(m, p[1], p[2]),
             reserve(map, map.size + Len(pairs)), pairs)

clear(map, free_memory) ==
    IF free_memory THEN Empty
    ELSE [keys   |-> destruct_range(map.keys, 1, map.size),
          values |-> destruct_range(map.values, 1, map.size),
          size   |-> 0]

Lost(map) == LET left == clear(map, FALSE)
             IN  Cardinality(Occupied(left.keys)) + Cardinality(Occupied(left.values))

erase(map, at) ==
    [keys   |-> ShiftDown(map.keys, map.size, at),
     values |-> ShiftDown(map.values, map.size, at),
     size   |-> map.size - 1]

Equal(p, q) == p.size = q.size /\ Pairs(p) = Pairs(q)

-----------------------------------------------------------------------------
Put(x, map, pairs) ==
    /\ rep' = [rep EXCEPT ![x] = map]
    /\ ref' = [ref EXCEPT ![x] = pairs]
    /\ UNCHANGED fault

Set(x) ==
    \E k \in Keys, v \in Data : Put(x, set(rep[x], k, v), (k :> v) @@ ref[x])

(* operator[] makes the pair when there is none.                           *)
Subscript(x) ==
    \E k \in Keys :
        /\ find(rep[x], k) = 0
        /\ Put(x, set(rep[x], k, 0), (k :> 0) @@ ref[x])

(* A range of pairs, in any order and with keys that are there or repeated. *)
Insert(x) ==
    \E k1, k2 \in Keys, v1, v2 \in Data :
        Put(x, insert(rep[x], <<<<k1, v1>>, <<k2, v2>>>>), (k2 :> v2) @@ (k1 :> v1) @@ ref[x])

Erase(x) ==
    \E k \in Keys :
        /\ find(rep[x], k) # 0
        /\ Put(x, erase(rep[x], find(rep[x], k)), [j \in DOMAIN ref[x] \ {k} |-> ref[x][j]])

Clear(x) ==
    \E free_memory \in BOOLEAN :
      /\ rep' = [rep EXCEPT ![x] = clear(@, free_memory), !.lost = @ + Lost(rep[x])]
      /\ ref' = [ref EXCEPT ![x] = NoPairs]
      /\ UNCHANGED fault

(* Assigned to itself, a map is cleared before it is copied.               *)
AssignCopy(x) ==
    \/ Put(x, insert(clear(rep[x], FALSE), Pairs(rep[Other(x)])), ref[Other(x)])
    \/ /\ rep[x].size > 0
       /\ fault' = "assigned to itself" /\ UNCHANGED <<rep, ref>>

Taken(x, y) ==
    IF rep.shared THEN rep[y] ELSE insert(Empty, Pairs(rep[y]))

AssignMove(x) ==
    LET y == Other(x)
    IN  /\ rep' = [rep EXCEPT ![x] = Taken(x, y), ![y] = Empty,
                              !.lost = @ + Lost(rep[x])]
        /\ ref' = [ref EXCEPT ![x] = ref[y], ![y] = NoPairs]
        /\ UNCHANGED fault

(* With two allocators the pairs go around through a third map.            *)
Swap ==
    /\ rep' = [rep EXCEPT !.a = Taken("a", "b"), !.b = Taken("b", "a")]
    /\ ref' = [a |-> ref.b, b |-> ref.a]
    /\ UNCHANGED fault

Next ==
    /\ fault = "none"
    /\ \/ Swap
       \/ \E x \in Names :
            Set(x) \/ Subscript(x) \/ Insert(x) \/ Erase(x) \/ Clear(x)
              \/ AssignCopy(x) \/ AssignMove(x)

Spec == Init /\ [][Next]_vars

-----------------------------------------------------------------------------
(* Keys and values are objects up to the size and nowhere else, in step     *)
(* with each other through every shift, and none is dropped undestroyed.    *)
ObjectsSound ==
    fault = "none" =>
      /\ rep.lost = 0
      /\ \A x \in Names :
           /\ Len(rep[x].keys) = Len(rep[x].values)
           /\ \A i \in DOMAIN rep[x].keys :
                IF i <= rep[x].size
                THEN IsObject(rep[x].keys[i]) /\ IsObject(rep[x].values[i])
                ELSE rep[x].keys[i] = Raw /\ rep[x].values[i] = Raw

(* The keys are in order without repetition and the map is the function:    *)
(* find meets every key and no other, and maps compare as functions do.     *)
Represents ==
    fault = "none" =>
      /\ \A x \in Names :
           /\ \A i \in 1 .. rep[x].size - 1 : rep[x].keys[i] < rep[x].keys[i + 1]
           /\ \A k \in Keys :
                IF k \in DOMAIN ref[x]
                THEN find(rep[x], k) # 0 /\ rep[x].values[find(rep[x], k)] = ref[x][k]
                ELSE find(rep[x], k) = 0
      /\ Equal(rep.a, rep.b) <=> ref.a = ref.b
=============================================================================
