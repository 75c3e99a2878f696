------------------------------- MODULE Signal -------------------------------
(***************************************************************************)
(* object/signal.hpp: Signal, a list of invokers that is walked by invoke, *)
(* with the links of base/bare_link_list.hpp.  An invoker runs a handler,  *)
(* which may connect, disconnect and invoke in its turn, or throw.         *)
(***************************************************************************)
EXTENDS SequencesExt

CONSTANTS
  Handler,     \* invokers, each of which is connected once
  Sentinel,    \* the sentinel of invokers_
  Null,        \* no node
  MaxNesting   \* bound on invocations within invocations

ASSUME SignalAssumption ==
  /\ Sentinel \notin Handler
  /\ Null \notin Handler \union {Sentinel}
  /\ MaxNesting \in Nat

VARIABLES
  next, previous,  \* the links of the sentinel and of each invoker
  live,            \* the invokers that exist
  frames,          \* the invocations under way, outermost first
  pc,              \* who has the thread: code outside of invocations, the
                   \* loop of the last invocation, its handler, ~Signal
  used,            \* history: the invokers that have ever existed
  order,           \* history: those that exist, in the order of connection
  meddled,         \* history: an invoker was destroyed that an invocation
                   \* under way had not called
  foreign          \* history: during an invocation somebody disconnected a
                   \* handler other than the one that runs

links == <<next, previous>>
vars == <<next, previous, live, frames, pc, used, order, meddled, foreign>>

Node == Handler \union {Sentinel}

(* An invocation: its iterator, the next one that it has saved, the        *)
(* handlers that were there when it began, and those it has called.        *)
Frame == [it : Node, saved : Node, owes : SUBSET Handler, called : SUBSET Handler]

TypeOK ==
  /\ next \in [Node -> Node \union {Null}]
  /\ previous \in [Node -> Node \union {Null}]
  /\ live \in SUBSET used
  /\ frames \in Seq(Frame)
  /\ pc \in {"host", "loop", "handler", "destructor", "gone", "corrupt"}
  /\ used \in SUBSET Handler
  /\ order \in Seq(Handler)
  /\ meddled \in BOOLEAN
  /\ foreign \in BOOLEAN

Init ==
  /\ next = [n \in Node |-> IF n = Sentinel THEN Sentinel ELSE Null]
  /\ previous = next
  /\ live = {}
  /\ frames = << >>
  /\ pc = "host"
  /\ used = {} /\ order = << >>
  /\ meddled = FALSE /\ foreign = FALSE

-----------------------------------------------------------------------------
\* Mutant: next of the new element is not set.
link_tail_Half(h) ==
  /\ next' = [next EXCEPT ![previous[Sentinel]] = h]
  /\ previous' = [previous EXCEPT ![h] = previous[Sentinel], ![Sentinel] = h]

\* Mutant: the new element becomes the head.
link_tail_Head(h) ==
  /\ next' = [next EXCEPT ![h] = next[Sentinel], ![Sentinel] = h]
  /\ previous' = [previous EXCEPT ![h] = Sentinel, ![next[Sentinel]] = h]

link_tail(h) ==
  /\ next' = [next EXCEPT ![h] = Sentinel, ![previous[Sentinel]] = h]
  /\ previous' = [previous EXCEPT ![h] = previous[Sentinel], ![Sentinel] = h]

\* Mutant: only the forward link is bent.
unlink_Forward(h) ==
  /\ next' = [next EXCEPT ![previous[h]] = next[h]]
  /\ UNCHANGED previous

\* Mutant: ~ListLinkBase does not unlink.
unlink_Not(h) == UNCHANGED links

unlink(h) ==
  /\ next' = [next EXCEPT ![previous[h]] = next[h]]
  /\ previous' = [previous EXCEPT ![next[h]] = previous[h]]

(* The destructor of an invoker unlinks it. *)
destroy(h) ==
  /\ unlink(h)
  /\ live' = live \ {h}
  /\ \E i \in DOMAIN order : order[i] = h /\ order' = RemoveAt(order, i)
  /\ meddled' = (meddled \/ \E i \in DOMAIN frames : h \notin frames[i].called)
  /\ UNCHANGED <<frames, used>>

(* Code outside of any invocation, or a handler, has the thread. *)
UserCode == pc \in {"host", "handler"}

Top == frames[Len(frames)]

connect(h) ==
  /\ UserCode
  /\ h \notin used
  /\ link_tail(h)
  /\ live' = live \union {h}
  /\ used' = used \union {h}
  /\ order' = Append(order, h)
  /\ UNCHANGED <<frames, pc, meddled, foreign>>

disconnect(h) ==
  /\ UserCode
  /\ h \in live
  /\ destroy(h)
  /\ foreign' = (foreign \/ (pc = "handler" /\ h # Top.it))
  /\ UNCHANGED pc

-----------------------------------------------------------------------------
(* invoke *)

invoke ==
  /\ UserCode
  /\ Len(frames) < MaxNesting
  /\ frames' = Append(frames, [it |-> next[Sentinel], saved |-> Sentinel,
                               owes |-> live, called |-> {}])
  /\ pc' = "loop"
  /\ UNCHANGED <<links, live, used, order, meddled, foreign>>

Call(h) ==
  /\ pc = "loop"
  /\ h = Top.it /\ h \in live
  /\ frames' = [frames EXCEPT ![Len(frames)].saved = next[h],
                              ![Len(frames)].called = @ \union {h}]
  /\ pc' = "handler"
  /\ UNCHANGED <<links, live, used, order, meddled, foreign>>

(* The iterator points to an invoker that has been destroyed. *)
CallDangling ==
  /\ pc = "loop"
  /\ Top.it \notin live \union {Sentinel}
  /\ pc' = "corrupt"
  /\ UNCHANGED <<links, live, frames, used, order, meddled, foreign>>

HandlerReturns ==
  /\ pc = "handler"
  /\ frames' = [frames EXCEPT ![Len(frames)].it = Top.saved]
  /\ pc' = "loop"
  /\ UNCHANGED <<links, live, used, order, meddled, foreign>>

Pop ==
  /\ frames' = Front(frames)
  /\ pc' = IF Len(frames) = 1 THEN "host" ELSE "handler"
  /\ UNCHANGED <<links, live, used, order, meddled, foreign>>

invokeEnd ==
  /\ pc = "loop"
  /\ Top.it = Sentinel
  /\ Pop

(* An exception leaves the invocation, for whoever has called invoke to    *)
(* catch or to pass on.                                                    *)
HandlerThrows ==
  /\ pc = "handler"
  /\ Pop

-----------------------------------------------------------------------------
(* ~Signal *)

\* Mutant: the list is cleared and its elements forgotten.
Destruct_ForceClear ==
  /\ pc = "host"
  /\ pc' = "gone"
  /\ UNCHANGED <<links, live, frames, used, order, meddled, foreign>>

Destruct ==
  /\ pc = "host"
  /\ pc' = "destructor"
  /\ UNCHANGED <<links, live, frames, used, order, meddled, foreign>>

DestroyHead ==
  /\ pc = "destructor"
  /\ next[Sentinel] # Sentinel
  /\ destroy(next[Sentinel])
  /\ UNCHANGED <<pc, foreign>>

DestructEnd ==
  /\ pc = "destructor"
  /\ next[Sentinel] = Sentinel
  /\ pc' = "gone"
  /\ UNCHANGED <<links, live, frames, used, order, meddled, foreign>>

Next ==
  \/ \E h \in Handler : connect(h) \/ disconnect(h) \/ Call(h)
  \/ invoke \/ CallDangling \/ HandlerReturns \/ invokeEnd \/ HandlerThrows
  \/ Destruct \/ DestroyHead \/ DestructEnd

Spec == Init /\ [][Next]_vars

-----------------------------------------------------------------------------
(* The i-th element of the ring for a list: the sentinel, its elements, *)
(* and the sentinel again.                                                 *)
Ring(list, i) == IF i \in DOMAIN list THEN list[i] ELSE Sentinel

(* The links form that ring, the same in both directions, with every       *)
(* invoker that exists in it once and none that is destroyed.              *)
ListIsSound ==
  /\ ToSet(order) = live
  /\ \A i, j \in DOMAIN order : order[i] = order[j] => i = j
  /\ \A i \in 0 .. Len(order) : /\ next[Ring(order, i)] = Ring(order, i + 1)
                               /\ previous[Ring(order, i + 1)] = Ring(order, i)

(* No invocation touches a destroyed invoker as long as nobody destroys    *)
(* one that an invocation under way has not called.                        *)
NoDangling == ~meddled => pc # "corrupt"

(* signal.hpp, in invoke: "Signal handlers may remove themselves from the  *)
(* list".                                                                  *)
SelfRemovalIsSafe == ~foreign => pc # "corrupt"

(* A signal that is gone has left no invoker behind. *)
NothingLeaked == pc = "gone" => live = {}

(* Signal implements SignalContract. *)
Contract == INSTANCE SignalContract WITH
  calls  <- [i \in DOMAIN frames |->
               [owes |-> frames[i].owes, called |-> frames[i].called]],
  broken <- pc = "corrupt"

ContractSpec == Contract!Spec

=============================================================================
