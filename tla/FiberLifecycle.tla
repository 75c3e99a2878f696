--------------------------- MODULE FiberLifecycle ---------------------------
(***************************************************************************)
(* What base/fiber promises to the code that launches fibers, without the  *)
(* list, the index and the saved stacks that implement it: a fiber is      *)
(* launched once, runs only when its alarm has passed, at most one runs at *)
(* a time, and once it has finished or failed it never runs again.         *)
(***************************************************************************)
EXTENDS Naturals

CONSTANTS
  Fiber,     \* every Fiber object the program may create
  Time       \* the instants of the game clock

VARIABLES
  phase,     \* the life of each fiber: absent, waiting, running, cancelled,
             \* failed or gone
  due,       \* the instant at which a waiting fiber may run
  clock      \* the game clock, as the last update saw it

vars == <<phase, due, clock>>

Phase == {"absent", "waiting", "running", "cancelled", "failed", "gone"}

Init ==
  /\ phase = [f \in Fiber |-> "absent"]
  /\ due = [f \in Fiber |-> 0]
  /\ clock = 0

Become(f, p) == phase' = [phase EXCEPT ![f] = p]

Advance(t) ==
  /\ \A f \in Fiber : phase[f] # "running"
  /\ clock' = t
  /\ UNCHANGED <<phase, due>>

Spawn(f, t) ==
  /\ phase[f] = "absent"
  /\ Become(f, "waiting")
  /\ due' = [due EXCEPT ![f] = t]
  /\ UNCHANGED clock

Run(f) ==
  /\ phase[f] = "waiting"
  /\ due[f] <= clock
  /\ \A g \in Fiber : phase[g] # "running"
  /\ Become(f, "running")
  /\ UNCHANGED <<due, clock>>

Suspend(f, t) ==
  /\ phase[f] = "running"
  /\ t = due[f] \/ t >= clock
  /\ Become(f, "waiting")
  /\ due' = [due EXCEPT ![f] = t]
  /\ UNCHANGED clock

(* The function returns, or its stack has been unwound. *)
Exit(f) ==
  /\ phase[f] \in {"running", "cancelled"}
  /\ Become(f, "gone")
  /\ UNCHANGED <<due, clock>>

Fail(f) ==
  /\ phase[f] \in {"running", "cancelled"}
  /\ Become(f, "failed")
  /\ UNCHANGED <<due, clock>>

(* The manager goes: a suspended fiber is unwound, and one with no frames  *)
(* of its own is discarded.                                                *)
Cancel(f) ==
  /\ phase[f] = "waiting"
  /\ Become(f, "cancelled")
  /\ UNCHANGED <<due, clock>>

Discard(f) ==
  /\ phase[f] \in {"waiting", "failed"}
  /\ Become(f, "gone")
  /\ UNCHANGED <<due, clock>>

Next ==
  \/ \E t \in Time : Advance(t)
  \/ \E f \in Fiber :
       \/ \E t \in Time : Spawn(f, t) \/ Suspend(f, t)
       \/ Run(f) \/ Exit(f) \/ Fail(f) \/ Cancel(f) \/ Discard(f)

Spec == Init /\ [][Next]_vars

=============================================================================
