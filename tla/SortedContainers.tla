-------------------------- MODULE SortedContainers --------------------------
(***************************************************************************)
(* Set, PriorityQueue and MultiSet (base/set.hpp, priority_queue.hpp,      *)
(* multiset.hpp): sorted arrays. rep holds the elements of a set and of a  *)
(* queue, in the order of their arrays; ref what they should be: a set,    *)
(* and how often each value is in the queue. fault is as in Arrays.        *)
(***************************************************************************)
EXTENDS ObjectMemory, FiniteSets

CONSTANTS Data, Room
VARIABLES rep, ref, fault

vars == <<rep, ref, fault>>

Init ==
    /\ rep = [set |-> <<>>, queue |-> <<>>]
    /\ ref = [set |-> {}, queue |-> [v \in Data |-> 0]]
    /\ fault = "none"

(* std::lower_bound halves a range until it is empty. The range has no     *)
(* more than Len(s) places, and each turn takes one away or more.           *)
Halved(s, key, range) ==
    LET mid == (range[1] + range[2]) \div 2
    IN  IF range[1] = range[2] THEN range
        ELSE IF s[mid + 1] < key THEN <<mid + 1, range[2]>> ELSE <<range[1], mid>>

lower_bound(s, key) ==
    LET turn[k \in 0 .. Len(s)] == IF k = 0 THEN <<0, Len(s)>> ELSE Halved(s, key, turn[k - 1])
    IN  turn[Len(s)][1]

insert(s, element) == Inserted(s, lower_bound(s, element), <<element>>)

(* The place of the key or, for a key that is not there, the end.          *)
find(s, key) ==
    LET at == lower_bound(s, key)
    IN  IF at < Len(s) /\ s[at + 1] = key THEN at ELSE Len(s)

(* Equal keys are not looked for: a set holds them twice.                  *)
SetInsert ==
    \E v \in Data :
      /\ Len(rep.set) < Room
      /\ rep' = [rep EXCEPT !.set = insert(@, v)]
      /\ ref' = [ref EXCEPT !.set = @ \cup {v}]
      /\ fault' = IF v \in ref.set THEN "element repeated" ELSE fault

SetErase ==
    \E v \in Data :
      /\ find(rep.set, v) < Len(rep.set)
      /\ rep' = [rep EXCEPT !.set = Removed(@, find(rep.set, v) + 1)]
      /\ ref' = [ref EXCEPT !.set = @ \ {v}]
      /\ UNCHANGED fault

(* find looks at the element it stopped at, also at the end.               *)
SetFind ==
    \E v \in Data :
      /\ lower_bound(rep.set, v) = Len(rep.set)
      /\ fault' = "read past the end" /\ UNCHANGED <<rep, ref>>

QueueInsert ==
    \E v \in Data :
      /\ Len(rep.queue) < Room
      /\ rep' = [rep EXCEPT !.queue = insert(@, v)]
      /\ ref' = [ref EXCEPT !.queue[v] = @ + 1]
      /\ UNCHANGED fault

top(s)  == s[Len(s)]
back(s) == s[1]

QueuePop ==
    /\ rep.queue # <<>>      \* else IndexOutOfBoundsException
    /\ rep' = [rep EXCEPT !.queue = SubSeq(@, 1, Len(@) - 1)]
    /\ ref' = [ref EXCEPT !.queue[top(rep.queue)] = @ - 1]
    /\ UNCHANGED fault

QueueErase ==
    \E v \in Data :
      /\ find(rep.queue, v) < Len(rep.queue)
      /\ rep' = [rep EXCEPT !.queue = Removed(@, find(rep.queue, v) + 1)]
      /\ ref' = [ref EXCEPT !.queue[v] = @ - 1]
      /\ UNCHANGED fault

QueueFind ==
    \E v \in Data :
      /\ lower_bound(rep.queue, v) = Len(rep.queue)
      /\ fault' = "read past the end" /\ UNCHANGED <<rep, ref>>

Next ==
    /\ fault = "none"
    /\ SetInsert \/ SetErase \/ SetFind \/ QueueInsert \/ QueuePop \/ QueueErase \/ QueueFind

Spec == Init /\ [][Next]_vars

-----------------------------------------------------------------------------
(* The set has each element once and in order; the queue has each value as  *)
(* often as it was put in and not taken, its top is the greatest and its    *)
(* back the least; find meets whatever is there and nothing else.           *)
Represents ==
    fault = "none" =>
      /\ \A i \in 1 .. Len(rep.set) - 1 : rep.set[i] < rep.set[i + 1]
      /\ {rep.set[i] : i \in DOMAIN rep.set} = ref.set
      /\ \A v \in Data :
           /\ Cardinality({i \in DOMAIN rep.queue : rep.queue[i] = v}) = ref.queue[v]
           /\ (find(rep.queue, v) < Len(rep.queue)) <=> ref.queue[v] > 0
           /\ (find(rep.set, v) < Len(rep.set)) <=> v \in ref.set
           /\ ref.queue[v] > 0 => back(rep.queue) <= v /\ v <= top(rep.queue)
=============================================================================
