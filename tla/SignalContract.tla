--------------------------- MODULE SignalContract ---------------------------
(***************************************************************************)
(* What the users of a signal rely on.  An invocation calls the handlers   *)
(* in the order in which they were connected, each once, and returns only  *)
(* when it has called all that were there at its start and still are.      *)
(* Handlers may connect, disconnect and invoke, with one duty: who is      *)
(* disconnected during invocations has been called by each of them.        *)
(***************************************************************************)
EXTENDS SequencesExt

CONSTANT Handler

VARIABLES
  order,    \* the connected handlers, in the order of connection
  used,     \* the handlers that have ever been connected
  calls,    \* the invocations under way, outermost first
  meddled,  \* whether somebody has failed in the duty
  broken    \* whether the signal has become unusable by that

vars == <<order, used, calls, meddled, broken>>

Before(g, h) == \E i, j \in DOMAIN order : i < j /\ order[i] = g /\ order[j] = h

Init ==
  /\ order = << >> /\ used = {} /\ calls = << >>
  /\ meddled = FALSE /\ broken = FALSE

Connect(h) ==
  /\ ~broken
  /\ h \notin used
  /\ order' = Append(order, h)
  /\ used' = used \union {h}
  /\ UNCHANGED <<calls, meddled, broken>>

Disconnect(h) ==
  /\ ~broken
  /\ \E i \in DOMAIN order : order[i] = h /\ order' = RemoveAt(order, i)
  /\ meddled' = (meddled \/ \E i \in DOMAIN calls : h \notin calls[i].called)
  /\ UNCHANGED <<used, calls, broken>>

Begin ==
  /\ ~broken
  /\ calls' = Append(calls, [owes |-> ToSet(order), called |-> {}])
  /\ UNCHANGED <<order, used, meddled, broken>>

Call(h) ==
  LET top == Last(calls) IN
  /\ ~broken /\ calls # << >>
  /\ h \in ToSet(order) \ top.called
  /\ \A g \in top.called : ~Before(h, g)
  /\ \A g \in top.owes \ top.called : ~Before(g, h)
  /\ calls' = [calls EXCEPT ![Len(calls)].called = @ \union {h}]
  /\ UNCHANGED <<order, used, meddled, broken>>

End ==
  /\ ~broken /\ calls # << >>
  /\ Last(calls).owes \intersect ToSet(order) \subseteq Last(calls).called
  /\ calls' = Front(calls)
  /\ UNCHANGED <<order, used, meddled, broken>>

(* An exception leaves the invocation. *)
Abort ==
  /\ calls # << >>
  /\ calls' = Front(calls)
  /\ UNCHANGED <<order, used, meddled, broken>>

Break ==
  /\ meddled
  /\ broken' = TRUE
  /\ UNCHANGED <<order, used, calls, meddled>>

Next ==
  \/ \E h \in Handler : Connect(h) \/ Disconnect(h) \/ Call(h)
  \/ Begin \/ End \/ Abort \/ Break

Spec == Init /\ [][Next]_vars

=============================================================================
