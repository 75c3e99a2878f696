---------------------------- MODULE FiberManager ----------------------------
(***************************************************************************)
(* base/fiber: Fiber, a function with a saved stack that runs on the       *)
(* stack of whoever resumes it, and FiberManager, which resumes the fibers *)
(* whose alarm has passed each time the host calls update().               *)
(*                                                                         *)
(* A fiber's body is any sequence of the calls the API offers: launch and  *)
(* defer other fibers, yield, sleep, return, terminate itself, or throw.   *)
(* update() is split where fiber code runs, so that what a body does to    *)
(* the list happens between two reads of it by the loop.                   *)
(***************************************************************************)
EXTENDS SequencesExt

CONSTANTS
  Fiber,      \* Fiber objects, each allocated at most once
  NoFiber,    \* the null Fiber pointer
  MaxTime,    \* bound on the game clock
  MaxDelay,   \* bound on the delta given to sleep
  MayThrow    \* whether fiber bodies may let an exception escape

ASSUME FiberAssumption == NoFiber \notin Fiber
ASSUME TimeAssumption  == MaxTime \in Nat /\ MaxDelay \in Nat
ASSUME ThrowAssumption == MayThrow \in BOOLEAN

VARIABLES
  fibers,     \* FiberManager::fibers_, [fiber, wakeUpAt] in launch order
  state,      \* Impl::state of each Fiber; "None" before and "Freed" after its life
  current,    \* FiberManager::current_
  now,        \* FiberManager::now_
  manager,    \* IFiberManager::current_manager_: "null" or "this"
  pc,         \* who has the thread: host code, the loop of update, the fiber it
              \* resumed, or ~FiberManager
  index,      \* the loop variable of update and of the clear() in ~FiberManager
  due,        \* history: the instant each fiber last asked to be resumed at
  entered,    \* history: how often the function of each fiber was entered
  frames,     \* history: the fibers with live frames on a stack or in saved_stack
  resumed     \* history: the fibers resumed since update began

managerVars == <<fibers, current, now, manager, pc, index>>
historyVars == <<due, entered, frames, resumed>>
vars == <<managerVars, state, historyVars>>

Time == 0 .. MaxTime

FiberState == {"Unstarted", "Running", "Sleeping", "Terminating", "UnhandledException"}

FiberInfo == [fiber : Fiber, wakeUpAt : Time]

TypeOK ==
  /\ fibers \in Seq(FiberInfo)
  /\ state \in [Fiber -> FiberState \union {"None", "Freed"}]
  /\ current \in Fiber \union {NoFiber}
  /\ now \in Time
  /\ manager \in {"null", "this"}
  /\ pc \in {"host", "loop", "fiber", "destroy", "destroyed", "aborted"}
  /\ index \in Nat
  /\ due \in [Fiber -> Time]
  /\ entered \in [Fiber -> Nat]
  /\ frames \in SUBSET Fiber
  /\ resumed \in SUBSET Fiber

Init ==
  /\ fibers = << >>
  /\ state = [f \in Fiber |-> "None"]
  /\ current = NoFiber
  /\ now = 0
  /\ manager = "null"
  /\ pc = "host"
  /\ index = 0
  /\ due = [f \in Fiber |-> 0]
  /\ entered = [f \in Fiber |-> 0]
  /\ frames = {}
  /\ resumed = {}

-----------------------------------------------------------------------------
(* Launching: by the host, by the running fiber, or by the destructors of  *)
(* a fiber that ~FiberManager is unwinding.                                *)

Running(f) == pc = "fiber" /\ state[f] = "Running"

Unwinding(f) == pc = "destroy" /\ state[f] = "Terminating"

CanCall == pc = "host" \/ \E f \in Fiber : Running(f) \/ Unwinding(f)

defer(f, until) ==
  /\ CanCall
  /\ state[f] = "None"
  /\ state' = [state EXCEPT ![f] = "Unstarted"]
  /\ fibers' = Append(fibers, [fiber |-> f, wakeUpAt |-> until])
  /\ due' = [due EXCEPT ![f] = until]
  /\ UNCHANGED <<current, now, manager, pc, index, entered, frames, resumed>>

\* Mutant: the alarm of a launched fiber one instant after now_.
launch_Late(f) == defer(f, now + 1)

launch(f) == defer(f, now)

-----------------------------------------------------------------------------
(* FiberManager::update *)

\* Mutant: update without set_current_manager(this).
UpdateBegin_NoManager(t) ==
  /\ pc = "host"
  /\ pc' = "loop"
  /\ now' = t
  /\ index' = 1
  /\ resumed' = {}
  /\ UNCHANGED <<fibers, current, manager, state, due, entered, frames>>

UpdateBegin(t) ==
  /\ pc = "host"
  /\ pc' = "loop"
  /\ manager' = "this"
  /\ now' = t
  /\ index' = 1
  /\ resumed' = {}
  /\ UNCHANGED <<fibers, current, state, due, entered, frames>>

UpdateEnd ==
  /\ pc = "loop"
  /\ index > Len(fibers)
  /\ pc' = "host"
  /\ UNCHANGED <<fibers, current, now, manager, index, state, historyVars>>

\* Mutant: the alarm compared with < instead of <=.
IsDue_Strict(info) == info.wakeUpAt < now

IsDue(info) == info.wakeUpAt <= now

AtFiber(f) == pc = "loop" /\ index <= Len(fibers) /\ f = fibers[index].fiber

SkipSleeping(f) ==
  /\ AtFiber(f)
  /\ ~IsDue(fibers[index])
  /\ index' = index + 1
  /\ UNCHANGED <<fibers, current, now, manager, pc, state, historyVars>>

Resumable(f) == state[f] \in {"Sleeping", "Unstarted"}

(* resume_into_state(Running): launch the function or restore its stack. *)
Resume(f) ==
  /\ AtFiber(f)
  /\ IsDue(fibers[index])
  /\ Resumable(f)
  /\ pc' = "fiber"
  /\ current' = f
  /\ state' = [state EXCEPT ![f] = "Running"]
  /\ entered' = [entered EXCEPT ![f] = IF state[f] = "Unstarted" THEN @ + 1 ELSE @]
  /\ frames' = frames \union {f}
  /\ resumed' = resumed \union {f}
  /\ UNCHANGED <<fibers, now, manager, index, due>>

(* resume() raises FiberError, which leaves update with current_ set. *)
ResumeFails(f) ==
  /\ AtFiber(f)
  /\ IsDue(fibers[index])
  /\ ~Resumable(f)
  /\ current' = f
  /\ pc' = "host"
  /\ UNCHANGED <<fibers, now, manager, index, state, historyVars>>

-----------------------------------------------------------------------------
(* The body of the running fiber.  Each of these ends with longjmp back    *)
(* into resume() and so with the rest of the iteration in update.          *)

\* Mutant: no ++i behind a fiber that is still alive.
yield_Stay(f) ==
  /\ Running(f)
  /\ state' = [state EXCEPT ![f] = "Sleeping"]
  /\ pc' = "loop"
  /\ current' = NoFiber
  /\ UNCHANGED <<fibers, now, manager, index, historyVars>>

(* yield(): the alarm is left as it is, so the fiber is due again at once. *)
yield(f) ==
  /\ Running(f)
  /\ state' = [state EXCEPT ![f] = "Sleeping"]
  /\ pc' = "loop"
  /\ current' = NoFiber
  /\ index' = index + 1
  /\ UNCHANGED <<fibers, now, manager, historyVars>>

\* Mutant: the alarm of the first entry is set, whichever fiber asks.
set_alarm_clock_First(f, at) == fibers' = [fibers EXCEPT ![1].wakeUpAt = at]

(* set_alarm_clock looks the fiber up by identity, wherever it is now. *)
set_alarm_clock(f, at) ==
  fibers' = [i \in DOMAIN fibers |->
               IF fibers[i].fiber = f THEN [fiber |-> f, wakeUpAt |-> at]
                                      ELSE fibers[i]]

sleep(f, delta) ==
  /\ Running(f)
  /\ now + delta \in Time
  /\ set_alarm_clock(f, now + delta)
  /\ due' = [due EXCEPT ![f] = now + delta]
  /\ state' = [state EXCEPT ![f] = "Sleeping"]
  /\ pc' = "loop"
  /\ current' = NoFiber
  /\ index' = index + 1
  /\ UNCHANGED <<now, manager, entered, frames, resumed>>

\* Mutant: the loop goes on behind a fiber it has erased.
Finish_Advance(f) ==
  /\ Running(f)
  /\ state' = [state EXCEPT ![f] = "Freed"]
  /\ fibers' = RemoveAt(fibers, index)
  /\ frames' = frames \ {f}
  /\ pc' = "loop"
  /\ current' = NoFiber
  /\ index' = index + 1
  /\ UNCHANGED <<now, manager, due, entered, resumed>>

\* Mutant: a finished fiber stays in the list.
Finish_NoErase(f) ==
  /\ Running(f)
  /\ state' = [state EXCEPT ![f] = "Unstarted"]
  /\ frames' = frames \ {f}
  /\ pc' = "loop"
  /\ current' = NoFiber
  /\ index' = index + 1
  /\ UNCHANGED <<fibers, now, manager, due, entered, resumed>>

(* The function returns, or FiberTerminated unwinds it to the launchpad:   *)
(* the state is Unstarted again, which update takes as the sign to erase.  *)
Finish(f) ==
  /\ Running(f)
  /\ state' = [state EXCEPT ![f] = "Unstarted", ![fibers[index].fiber] = "Freed"]
  /\ fibers' = RemoveAt(fibers, index)
  /\ frames' = frames \ {f}
  /\ pc' = "loop"
  /\ current' = NoFiber
  /\ UNCHANGED <<now, manager, index, due, entered, resumed>>

(* The launchpad catches, resume rethrows, and the exception leaves update *)
(* past the reset of current_ and past every fiber behind this one.        *)
Throw(f) ==
  /\ MayThrow
  /\ Running(f)
  /\ state' = [state EXCEPT ![f] = "UnhandledException"]
  /\ frames' = frames \ {f}
  /\ pc' = "host"
  /\ UNCHANGED <<fibers, current, now, manager, index, due, entered, resumed>>

-----------------------------------------------------------------------------
(* ~FiberManager: clear() destroys the fibers in order, which terminates   *)
(* each; the size is read again at every element, so a fiber launched by   *)
(* an unwinding destructor is destroyed as well.                           *)

DestroyBegin ==
  /\ pc = "host"
  /\ pc' = "destroy"
  /\ manager' = "this"
  /\ index' = 1
  /\ UNCHANGED <<fibers, current, now, state, historyVars>>

Destroying(f) ==
  /\ pc = "destroy"
  /\ index <= Len(fibers)
  /\ f = fibers[index].fiber

(* terminate(): a sleeping fiber is resumed to unwind its stack ... *)
Unwind(f) ==
  /\ Destroying(f)
  /\ state[f] = "Sleeping"
  /\ state' = [state EXCEPT ![f] = "Terminating"]
  /\ UNCHANGED <<managerVars, historyVars>>

(* ... and freed when FiberTerminated has reached the launchpad. *)
UnwindDone(f) ==
  /\ Destroying(f)
  /\ state[f] = "Terminating"
  /\ state' = [state EXCEPT ![f] = "Freed"]
  /\ frames' = frames \ {f}
  /\ index' = index + 1
  /\ UNCHANGED <<fibers, current, now, manager, pc, due, entered, resumed>>

(* Another exception leaves the fiber, is rethrown in ~Fiber, which is     *)
(* noexcept, and ends the process.                                         *)
UnwindThrow(f) ==
  /\ MayThrow
  /\ Destroying(f)
  /\ state[f] = "Terminating"
  /\ state' = [state EXCEPT ![f] = "UnhandledException"]
  /\ frames' = frames \ {f}
  /\ pc' = "aborted"
  /\ UNCHANGED <<fibers, current, now, manager, index, due, entered, resumed>>

\* Mutant: terminate() ignores sleeping fibers as well.
DestroyIdle_Sleeping(f) ==
  /\ Destroying(f)
  /\ state[f] \in {"Unstarted", "Sleeping", "UnhandledException"}
  /\ state' = [state EXCEPT ![f] = "Freed"]
  /\ index' = index + 1
  /\ UNCHANGED <<fibers, current, now, manager, pc, historyVars>>

(* terminate() does nothing to a fiber that never ran or has failed. *)
DestroyIdle(f) ==
  /\ Destroying(f)
  /\ state[f] \in {"Unstarted", "UnhandledException"}
  /\ state' = [state EXCEPT ![f] = "Freed"]
  /\ index' = index + 1
  /\ UNCHANGED <<fibers, current, now, manager, pc, historyVars>>

DestroyEnd ==
  /\ pc = "destroy"
  /\ index > Len(fibers)
  /\ fibers' = << >>
  /\ manager' = "null"
  /\ pc' = "destroyed"
  /\ UNCHANGED <<current, now, index, state, historyVars>>

-----------------------------------------------------------------------------
HandBack(f) ==
  \/ yield(f)
  \/ \E delta \in 0 .. MaxDelay : sleep(f, delta)
  \/ Finish(f)
  \/ Throw(f)

LoopStep ==
  \/ UpdateEnd
  \/ \E f \in Fiber : SkipSleeping(f) \/ Resume(f) \/ ResumeFails(f)

Destroy ==
  \/ DestroyBegin
  \/ \E f \in Fiber : Unwind(f) \/ UnwindDone(f) \/ UnwindThrow(f) \/ DestroyIdle(f)
  \/ DestroyEnd

Serve ==
  \/ \E f \in Fiber : launch(f) \/ \E until \in Time : defer(f, until)
  \/ \E t \in Time : UpdateBegin(t)
  \/ LoopStep
  \/ \E f \in Fiber : HandBack(f)

Next == Serve \/ Destroy

Spec == Init /\ [][Next]_vars

(***************************************************************************)
(* The host's frame loop: it keeps the manager, calls update again and     *)
(* again, and its clock gets past every alarm; the loop advances; and a    *)
(* body that is entered hands control back, since fibers are cooperative.  *)
(***************************************************************************)
FairFrames ==
  /\ Init /\ [][Serve]_vars
  /\ SF_vars(UpdateBegin(MaxTime))
  /\ WF_vars(LoopStep)
  /\ \A f \in Fiber : WF_vars(HandBack(f))

-----------------------------------------------------------------------------
(* The statics Fiber::yield, sleep and terminate act on                    *)
(* IFiberManager::current()->current_fiber(): while fiber code runs, that  *)
(* is the fiber whose code it is, and the loop stands at its entry.        *)
CurrentFiberIsRunning ==
  \A f \in Fiber : state[f] = "Running" =>
    /\ manager = "this"
    /\ current = f
    /\ pc = "fiber"
    /\ index \in DOMAIN fibers
    /\ fibers[index].fiber = f

(* A Fiber is never freed while destructors of its frames are still to     *)
(* run (tests/fiber_test.cpp, "should call destructors when terminating    *)
(* a fiber"): neither by the erase in update nor by ~FiberManager.         *)
NoFramesLeaked == \A f \in frames : state[f] \in {"Running", "Sleeping", "Terminating"}

(* Unstarted means both "never started" and "finished", so nothing but the *)
(* erase in update keeps a finished function from being entered again.     *)
EnteredOnce == \A f \in Fiber : entered[f] <= 1

(* No fiber is resumed twice by one update, whatever the fibers launched   *)
(* and the fibers erased in between do to the list under the loop.         *)
OncePerUpdate ==
  [][\A f \in Fiber : Resume(f) => f \notin resumed]_vars

(* An update that returns has resumed every fiber of the list that was     *)
(* due, fibers launched meanwhile included: the erase skips nobody.        *)
UpdateIsComplete ==
  [][UpdateEnd => \A i \in DOMAIN fibers :
                    \/ fibers[i].fiber \in resumed
                    \/ ~IsDue(fibers[i])]_vars

(* FiberManager implements the promise of FiberLifecycle. *)
PhaseOf(s) ==
  CASE s = "None"                      -> "absent"
    [] s \in {"Unstarted", "Sleeping"} -> "waiting"
    [] s = "Running"                   -> "running"
    [] s = "Terminating"               -> "cancelled"
    [] s = "UnhandledException"        -> "failed"
    [] s = "Freed"                     -> "gone"

phase == [f \in Fiber |-> PhaseOf(state[f])]

Lifecycle == INSTANCE FiberLifecycle WITH clock <- now

LifecycleSpec == Lifecycle!Spec

(* Every fiber that is due is resumed some day, and every launched fiber   *)
(* gets to run, provided that no fiber lets an exception escape.           *)
EveryAlarmRings ==
  \A f \in Fiber : state[f] \in {"Unstarted", "Sleeping"} ~> state[f] \notin {"Unstarted", "Sleeping"}

=============================================================================
