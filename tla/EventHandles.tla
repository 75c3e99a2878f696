---------------------------- MODULE EventHandles ----------------------------
(***************************************************************************)
(* The other handles of platform/event_loop_libevent.cpp: timers, and the  *)
(* handle for standard input, on the events of libevent. rep.event holds   *)
(* the event of each handle: whether it is pending and whether it persists;*)
(* rep.calling is the handle whose callback runs, rep.is_running the loop  *)
(* flag. ref.armed says for which handles the program expects a callback.  *)
(***************************************************************************)
CONSTANTS Timers, StdIn
VARIABLES rep, ref, fault

vars == <<rep, ref, fault>>

Handles == Timers \cup {StdIn}
Nobody == "nobody"
NoEvent == [exists |-> FALSE, pending |-> FALSE, persist |-> FALSE]

Init ==
    /\ rep = [event |-> [h \in Handles |-> NoEvent], calling |-> Nobody, is_running |-> TRUE, stdin |-> TRUE]
    /\ ref = [armed |-> {}]
    /\ fault = "none"

is_active(h) == rep.event[h].pending
is_repeating(h) == h = StdIn \/ rep.event[h].persist

(* event_add and event_del.                                                 *)
activate(r, h) == [r EXCEPT !.event[h].pending = TRUE]
cancel(r, h) == [r EXCEPT !.event[h].pending = FALSE]
Created(h, persist) == [rep EXCEPT !.event[h] = [exists |-> TRUE, pending |-> FALSE, persist |-> persist]]

-----------------------------------------------------------------------------
(* By the host or by a callback.                                            *)
schedule(t) ==
    /\ ~rep.event[t].exists
    /\ rep' = activate(Created(t, FALSE), t)
    /\ ref' = [armed |-> ref.armed \cup {t}]
    /\ UNCHANGED fault

call_repeatedly(t) ==
    /\ ~rep.event[t].exists
    /\ rep' = activate(Created(t, TRUE), t)
    /\ ref' = [armed |-> ref.armed \cup {t}]
    /\ UNCHANGED fault

(* The event for input does not persist: it reports one line and no more,   *)
(* though the handle says that it repeats.                                  *)
stdin ==
    /\ ~rep.event[StdIn].exists /\ rep.stdin
    /\ rep' = activate(Created(StdIn, FALSE), StdIn)
    /\ ref' = [armed |-> ref.armed \cup {StdIn}]
    /\ UNCHANGED fault

Activate(h) ==
    /\ rep.event[h].exists
    /\ rep' = activate(rep, h)
    /\ ref' = [armed |-> ref.armed \cup {h}]
    /\ UNCHANGED fault

Cancel(h) ==
    /\ rep.event[h].exists
    /\ rep' = cancel(rep, h)
    /\ ref' = [armed |-> ref.armed \ {h}]
    /\ UNCHANGED fault

set_timeout(h) ==
    /\ rep.event[h].exists
    /\ rep' = IF is_active(h) THEN activate(rep, h) ELSE rep
    /\ UNCHANGED <<ref, fault>>

(* The destructors; the one for input closes the descriptor for good. A     *)
(* handle that its own callback destroys takes the running Function along.  *)
Destroy(h) ==
    /\ rep.event[h].exists
    /\ rep' = [cancel(rep, h) EXCEPT !.event[h] = NoEvent, !.stdin = @ /\ h # StdIn]
    /\ ref' = [armed |-> ref.armed \ {h}]
    /\ fault' = IF rep.calling = h THEN "destroyed by its callback" ELSE fault

quit ==
    /\ rep' = [rep EXCEPT !.is_running = FALSE]
    /\ UNCHANGED <<ref, fault>>

-----------------------------------------------------------------------------
(* run: libevent takes a handle whose event is due off, unless it persists, *)
(* and calls it. An event for input that is due and late at once is neither *)
(* Read nor Timeout to its invoke, which traps.                             *)
Dispatch(h) ==
    /\ rep.calling = Nobody /\ rep.is_running /\ is_active(h)
    /\ rep' = [rep EXCEPT !.event[h].pending = rep.event[h].persist, !.calling = h]
    /\ ref' = [armed |-> IF is_repeating(h) THEN ref.armed ELSE ref.armed \ {h}]
    /\ fault' = IF h = StdIn THEN "said to repeat" ELSE fault

DispatchLate ==
    /\ rep.calling = Nobody /\ rep.is_running /\ is_active(StdIn)
    /\ fault' = "trap" /\ UNCHANGED <<rep, ref>>

CallbackReturns ==
    /\ rep.calling # Nobody
    /\ rep' = [rep EXCEPT !.calling = Nobody]
    /\ UNCHANGED <<ref, fault>>

Next ==
    /\ fault = "none"
    /\ \/ \E t \in Timers : schedule(t) \/ call_repeatedly(t)
       \/ \E h \in Handles : Activate(h) \/ Cancel(h) \/ set_timeout(h) \/ Destroy(h) \/ Dispatch(h)
       \/ stdin \/ quit \/ DispatchLate \/ CallbackReturns

Spec == Init /\ [][Next]_vars

-----------------------------------------------------------------------------
(* A callback only runs on a handle that is alive.                          *)
ObjectsSound == fault = "none" /\ rep.calling # Nobody => rep.event[rep.calling].exists

(* The events that are pending are those of the handles from which a        *)
(* callback is to be expected, also within the callback and after it.       *)
Represents == fault = "none" => {h \in Handles : is_active(h)} = ref.armed
=============================================================================
