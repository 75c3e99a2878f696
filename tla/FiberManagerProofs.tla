------------------------- MODULE FiberManagerProofs -------------------------
(***************************************************************************)
(* Theorems about FiberManager, for any set of fibers, any bound on the    *)
(* clock, and whether or not fiber bodies throw.                           *)
(***************************************************************************)
EXTENDS FiberManager, SequenceLemmas, TLAPS

Idle == {"Unstarted", "Sleeping", "UnhandledException"}

(* The inductive invariant.  The list holds every live fiber once, with    *)
(* the alarm it asked for ...                                              *)
ListInv ==
  /\ \A i, j \in DOMAIN fibers : fibers[i].fiber = fibers[j].fiber => i = j
  /\ \A i \in DOMAIN fibers : fibers[i].wakeUpAt = due[fibers[i].fiber]
  /\ pc \in {"loop", "fiber", "destroy"} => index >= 1

(* ... in a state that depends on who has the thread: only the fiber that  *)
(* the loop stands at runs, only the one ~FiberManager stands at unwinds.  *)
StateInv ==
  /\ \A i \in DOMAIN fibers : state[fibers[i].fiber] # "None"
  /\ \A i \in DOMAIN fibers :
       \/ state[fibers[i].fiber] \in Idle
       \/ pc = "fiber" /\ i = index
       \/ pc = "destroy" /\ i <= index
       \/ pc = "aborted"
  /\ pc = "destroy" => \A i \in DOMAIN fibers :
                         i < index => state[fibers[i].fiber] = "Freed"
  /\ \A f \in Fiber : state[f] = "Running" => pc = "fiber" /\ current = f
  /\ \A f \in Fiber : state[f] = "Terminating" =>
       /\ pc = "destroy"
       /\ index \in DOMAIN fibers
       /\ fibers[index].fiber = f
  /\ pc = "fiber" =>
       /\ current \in Fiber
       /\ state[current] = "Running"
       /\ index \in DOMAIN fibers
       /\ fibers[index].fiber = current
  /\ pc \in {"loop", "fiber"} => manager = "this"

(* The round: update has dealt with the entries before index and with none *)
(* behind it, which is what makes the index safe while fibers come and go. *)
RoundAt(i) ==
  /\ i < index => fibers[i].fiber \in resumed \/ ~IsDue(fibers[i])
  /\ i > index => fibers[i].fiber \notin resumed
  /\ i = index => (fibers[i].fiber \in resumed <=> pc = "fiber")

RoundInv ==
  /\ \A f \in resumed : state[f] # "None"
  /\ pc \in {"loop", "fiber"} => \A i \in DOMAIN fibers : RoundAt(i)

HistoryInv ==
  /\ NoFramesLeaked
  /\ EnteredOnce
  /\ \A f \in Fiber : state[f] \in {"None", "Unstarted"} => entered[f] = 0

IInv == TypeOK /\ ListInv /\ StateInv /\ RoundInv /\ HistoryInv

-----------------------------------------------------------------------------
LEMMA ListFacts ==
  ASSUME TypeOK
  PROVE  /\ Len(fibers) \in Nat
         /\ DOMAIN fibers = 1 .. Len(fibers)
         /\ \A i \in DOMAIN fibers : /\ fibers[i] \in FiberInfo
                                     /\ fibers[i].fiber \in Fiber
                                     /\ fibers[i].wakeUpAt \in Time
<1>1. fibers \in Seq(FiberInfo)
  BY DEF TypeOK
<1>2. Len(fibers) \in Nat /\ DOMAIN fibers = 1 .. Len(fibers)
  BY <1>1
<1>3. \A i \in DOMAIN fibers : fibers[i] \in FiberInfo
  BY <1>1, <1>2
<1> QED
  BY <1>2, <1>3 DEF FiberInfo

LEMMA InitIInv == Init => IInv
BY FiberAssumption, TimeAssumption
   DEF Init, IInv, TypeOK, ListInv, StateInv, RoundInv, HistoryInv,
       NoFramesLeaked, EnteredOnce, FiberState, Time, FiberInfo

(* A launched fiber goes behind every fiber of the list and was in no      *)
(* round: this is where the state "None" of an unborn fiber is needed.     *)
LEMMA DeferPreserves ==
  ASSUME IInv, NEW f \in Fiber, NEW until \in Time, defer(f, until)
  PROVE  IInv'
<1> USE DEF IInv, defer
<1> DEFINE info == [fiber |-> f, wakeUpAt |-> until]
<1>1. /\ fibers' \in Seq(FiberInfo)
      /\ Len(fibers') = Len(fibers) + 1
      /\ DOMAIN fibers' = 1 .. Len(fibers) + 1
      /\ \A i \in DOMAIN fibers : fibers'[i] = fibers[i]
      /\ fibers'[Len(fibers) + 1].fiber = f
      /\ fibers'[Len(fibers) + 1].wakeUpAt = until
  <2>1. info \in FiberInfo
    BY DEF FiberInfo
  <2> QED
    BY <2>1, ListFacts, AppendFacts DEF TypeOK
<1>2. f \notin resumed /\ \A i \in DOMAIN fibers : fibers[i].fiber # f
  BY DEF StateInv, RoundInv
<1>3. pc # "loop" /\ (pc = "fiber" => index \in DOMAIN fibers)
  BY DEF CanCall, Running, Unwinding, StateInv
<1>4. TypeOK'
  BY <1>1 DEF TypeOK, FiberState
<1>5. ListInv'
  BY <1>1, <1>2, ListFacts DEF ListInv, TypeOK
<1>6. StateInv'
  BY <1>1, <1>2, <1>3, ListFacts
     DEF StateInv, Idle, TypeOK, CanCall, Running, Unwinding
<1>7. RoundInv'
  <2>1. \A g \in resumed' : state'[g] # "None"
    BY DEF RoundInv, TypeOK
  <2>2. ASSUME pc' = "fiber", NEW i \in DOMAIN fibers'
        PROVE  RoundAt(i)'
    <3>1. CASE i \in DOMAIN fibers
      BY <1>1, <2>2, <3>1 DEF RoundInv, RoundAt, IsDue
    <3>2. CASE i = Len(fibers) + 1
      BY <1>1, <1>2, <1>3, <2>2, <3>2, ListFacts DEF RoundAt, TypeOK
    <3> QED
      BY <1>1, <3>1, <3>2, ListFacts
  <2> QED
    BY <1>3, <2>1, <2>2 DEF RoundInv
<1>8. HistoryInv'
  BY DEF HistoryInv, NoFramesLeaked, EnteredOnce, TypeOK
<1> QED
  BY <1>4, <1>5, <1>6, <1>7, <1>8

-----------------------------------------------------------------------------
(* update(): between two bodies only the index moves. *)

LEMMA LoopPreserves ==
  ASSUME IInv
  PROVE  /\ \A t \in Time : UpdateBegin(t) => IInv'
         /\ LoopStep => IInv'
<1> USE DEF IInv, Idle, FiberState, Time
<1>1. ASSUME NEW t \in Time, UpdateBegin(t)
      PROVE  IInv'
  BY <1>1, ListFacts
     DEF UpdateBegin, TypeOK, ListInv, StateInv, RoundInv, RoundAt,
         HistoryInv, NoFramesLeaked, EnteredOnce
<1>2. CASE UpdateEnd
  BY <1>2 DEF UpdateEnd, historyVars, TypeOK, ListInv, StateInv, RoundInv,
              HistoryInv, NoFramesLeaked, EnteredOnce
<1>3. ASSUME NEW f \in Fiber, SkipSleeping(f)
      PROVE  IInv'
  <2> USE <1>3 DEF SkipSleeping, historyVars
  <2>1. TypeOK' /\ ListInv'
    BY DEF TypeOK, ListInv
  <2>2. StateInv'
    BY DEF AtFiber, StateInv
  <2>3. RoundInv'
    BY ListFacts DEF AtFiber, RoundInv, RoundAt, IsDue, TypeOK
  <2>4. HistoryInv'
    BY DEF HistoryInv, NoFramesLeaked, EnteredOnce
  <2> QED
    BY <2>1, <2>2, <2>3, <2>4
<1>4. ASSUME NEW f \in Fiber, Resume(f)
      PROVE  IInv'
  <2> USE <1>4 DEF Resume
  <2>1. /\ pc = "loop"
        /\ index \in DOMAIN fibers
        /\ fibers[index].fiber = f
        /\ \A i \in DOMAIN fibers : i # index => fibers[i].fiber # f
    BY ListFacts DEF AtFiber, ListInv, TypeOK
  <2>2. TypeOK'
    <3>1. entered' \in [Fiber -> Nat]
      BY DEF TypeOK
    <3> QED
      BY <3>1 DEF TypeOK
  <2>3. ListInv' /\ StateInv'
    BY <2>1 DEF ListInv, StateInv, Resumable, TypeOK
  <2>4. RoundInv'
    <3>1. \A g \in resumed' : state'[g] # "None"
      BY DEF RoundInv, TypeOK
    <3>2. ASSUME NEW i \in DOMAIN fibers'
          PROVE  RoundAt(i)'
      BY <2>1, <3>2, ListFacts DEF RoundInv, RoundAt, IsDue, TypeOK
    <3> QED
      BY <3>1, <3>2 DEF RoundInv
  <2>5. HistoryInv'
    BY DEF HistoryInv, NoFramesLeaked, EnteredOnce, Resumable, TypeOK
  <2> QED
    BY <2>2, <2>3, <2>4, <2>5
<1>5. ASSUME NEW f \in Fiber, ResumeFails(f)
      PROVE  IInv'
  BY <1>5, ListFacts
     DEF ResumeFails, AtFiber, historyVars, TypeOK, ListInv, StateInv, RoundInv,
         HistoryInv, NoFramesLeaked, EnteredOnce
<1> QED
  BY <1>1, <1>2, <1>3, <1>4, <1>5 DEF LoopStep

-----------------------------------------------------------------------------
(* The four ways in which a body hands control back. *)

(* While a body runs, the loop stands at the entry of its fiber. *)
LEMMA RunningFacts ==
  ASSUME IInv, NEW f \in Fiber, Running(f)
  PROVE  /\ pc = "fiber"
         /\ current = f
         /\ index \in 1 .. Len(fibers)
         /\ fibers[index].fiber = f
         /\ \A i \in DOMAIN fibers : i # index => fibers[i].fiber # f
BY ListFacts DEF IInv, Running, StateInv, ListInv

LEMMA YieldPreserves ==
  ASSUME IInv, NEW f \in Fiber, yield(f)
  PROVE  IInv'
<1> USE DEF IInv, yield, historyVars
<1>1. TypeOK' /\ ListInv'
  BY DEF TypeOK, ListInv, FiberState
<1>2. StateInv'
  BY RunningFacts DEF StateInv, Idle, TypeOK
<1>3. RoundInv'
  BY RunningFacts, ListFacts DEF RoundInv, RoundAt, IsDue, TypeOK
<1>4. HistoryInv'
  BY DEF HistoryInv, NoFramesLeaked, EnteredOnce, TypeOK
<1> QED
  BY <1>1, <1>2, <1>3, <1>4

(* set_alarm_clock finds one entry, the one the loop stands at. *)
LEMMA SleepPreserves ==
  ASSUME IInv, NEW f \in Fiber, NEW delta \in 0 .. MaxDelay, sleep(f, delta)
  PROVE  IInv'
<1> USE DEF IInv, sleep
<1>1. /\ fibers' \in Seq(FiberInfo)
      /\ DOMAIN fibers' = DOMAIN fibers
      /\ \A i \in DOMAIN fibers :
           /\ fibers'[i].fiber = fibers[i].fiber
           /\ fibers'[i].wakeUpAt = IF fibers[i].fiber = f THEN now + delta
                                                           ELSE fibers[i].wakeUpAt
  <2> DEFINE info(i) == IF fibers[i].fiber = f
                          THEN [fiber |-> f, wakeUpAt |-> now + delta]
                          ELSE fibers[i]
  <2>1. fibers' = [i \in 1 .. Len(fibers) |-> info(i)]
    BY ListFacts DEF set_alarm_clock
  <2>2. \A i \in 1 .. Len(fibers) : info(i) \in FiberInfo
    BY ListFacts DEF FiberInfo
  <2>3. fibers' \in Seq(FiberInfo) /\ DOMAIN fibers' = DOMAIN fibers
    BY <2>1, <2>2, ListFacts
  <2> QED
    BY <2>1, <2>3, ListFacts
<1>2. /\ pc = "fiber"
      /\ current = f
      /\ index \in 1 .. Len(fibers)
      /\ fibers[index].fiber = f
      /\ \A i \in DOMAIN fibers : i # index => fibers[i].fiber # f
  BY RunningFacts
<1>3. TypeOK'
  BY <1>1 DEF TypeOK, FiberState
<1>4. ListInv'
  <2>1. \A i, j \in DOMAIN fibers' : fibers'[i].fiber = fibers'[j].fiber => i = j
    BY <1>1 DEF ListInv
  <2>2. \A i \in DOMAIN fibers' : fibers'[i].wakeUpAt = due'[fibers'[i].fiber]
    BY <1>1, ListFacts DEF ListInv, TypeOK
  <2> QED
    BY <1>2, <2>1, <2>2 DEF ListInv, TypeOK
<1>5. StateInv'
  <2>1. /\ state'[f] = "Sleeping" /\ pc' = "loop" /\ manager' = manager
        /\ \A g \in Fiber : g # f => state'[g] = state[g]
    BY <1>1 DEF TypeOK
  <2>2. \A i \in DOMAIN fibers' : state'[fibers'[i].fiber] # "None"
    BY <1>1, <2>1, ListFacts DEF StateInv
  <2>3. \A i \in DOMAIN fibers' : state'[fibers'[i].fiber] \in Idle
    BY <1>1, <1>2, <2>1, ListFacts DEF StateInv, Idle
  <2>4. \A g \in Fiber : state'[g] # "Running" /\ state'[g] # "Terminating"
    BY <1>2, <2>1 DEF StateInv
  <2>5. manager' = "this"
    BY <1>2, <2>1 DEF StateInv
  <2> QED
    BY <2>1, <2>2, <2>3, <2>4, <2>5 DEF StateInv
<1>6. RoundInv'
  <2>1. \A g \in resumed' : state'[g] # "None"
    BY DEF RoundInv, TypeOK
  <2>2. ASSUME NEW i \in DOMAIN fibers'
        PROVE  RoundAt(i)'
    <3>1. RoundAt(i)
      BY <1>1, <1>2, <2>2 DEF RoundInv
    <3>2. CASE i = index
      BY <1>1, <1>2, <3>1, <3>2 DEF RoundAt, TypeOK
    <3>3. CASE i # index
      <4>1. fibers'[i].fiber = fibers[i].fiber /\ fibers'[i].wakeUpAt = fibers[i].wakeUpAt
        BY <1>1, <1>2, <2>2, <3>3
      <4> QED
        BY <1>2, <2>2, <3>1, <3>3, <4>1, <1>1, ListFacts DEF RoundAt, IsDue, TypeOK
    <3> QED
      BY <3>2, <3>3
  <2> QED
    BY <2>1, <2>2 DEF RoundInv
<1>7. HistoryInv'
  BY DEF HistoryInv, NoFramesLeaked, EnteredOnce, TypeOK
<1> QED
  BY <1>3, <1>4, <1>5, <1>6, <1>7

(* erase(i): what was behind the fiber moves to where the index points, so *)
(* that leaving the index alone neither skips nor repeats an entry.        *)
LEMMA FinishPreserves ==
  ASSUME IInv, NEW f \in Fiber, Finish(f)
  PROVE  IInv'
<1> USE DEF IInv, Finish
<1>1. /\ pc = "fiber"
      /\ current = f
      /\ index \in 1 .. Len(fibers)
      /\ fibers[index].fiber = f
      /\ \A i \in DOMAIN fibers : i # index => fibers[i].fiber # f
  BY RunningFacts
<1> DEFINE from(i) == IF i < index THEN i ELSE i + 1
<1>2. /\ fibers' \in Seq(FiberInfo)
      /\ DOMAIN fibers' = 1 .. Len(fibers) - 1
      /\ \A i \in DOMAIN fibers' : /\ from(i) \in DOMAIN fibers
                                  /\ from(i) # index
                                  /\ fibers'[i] = fibers[from(i)]
  BY <1>1, ListFacts, RemoveAtFacts DEF TypeOK
<1>3. state' = [state EXCEPT ![f] = "Freed"]
  BY <1>1 DEF TypeOK
<1>4. TypeOK'
  BY <1>2, <1>3 DEF TypeOK
<1>5. ListInv'
  <2>1. ASSUME NEW i \in DOMAIN fibers', NEW j \in DOMAIN fibers',
               fibers'[i].fiber = fibers'[j].fiber
        PROVE  i = j
    <3>1. from(i) = from(j)
      BY <1>2, <2>1 DEF ListInv
    <3> QED
      BY <1>1, <1>2, <3>1, ListFacts
  <2>2. \A i \in DOMAIN fibers' : fibers'[i].wakeUpAt = due'[fibers'[i].fiber]
    BY <1>2 DEF ListInv
  <2> QED
    BY <1>1, <2>1, <2>2 DEF ListInv
<1>6. StateInv'
  <2>1. \A i \in DOMAIN fibers' : /\ fibers'[i].fiber # f
                                  /\ fibers'[i].fiber \in Fiber
                                  /\ state[fibers'[i].fiber] \in Idle
    BY <1>1, <1>2, ListFacts DEF StateInv
  <2> QED
    BY <1>1, <1>3, <2>1 DEF StateInv, Idle, TypeOK
<1>7. RoundInv'
  <2>1. \A g \in resumed' : state'[g] # "None"
    BY <1>3 DEF RoundInv, TypeOK
  <2>2. ASSUME NEW i \in DOMAIN fibers'
        PROVE  RoundAt(i)'
    <3>1. from(i) \in DOMAIN fibers /\ fibers'[i] = fibers[from(i)] /\ from(i) # index
      BY <1>2
    <3>2. RoundAt(from(i))
      BY <1>1, <3>1 DEF RoundInv
    <3>3. (i < index <=> from(i) < index) /\ (i >= index <=> from(i) > index)
      BY <1>1, <1>2, ListFacts
    <3> QED
      BY <1>1, <1>2, <3>1, <3>2, <3>3, ListFacts DEF RoundAt, IsDue
  <2> QED
    BY <2>1, <2>2 DEF RoundInv
<1>8. HistoryInv'
  BY <1>3 DEF HistoryInv, NoFramesLeaked, EnteredOnce, TypeOK
<1> QED
  BY <1>4, <1>5, <1>6, <1>7, <1>8

LEMMA ThrowPreserves ==
  ASSUME IInv, NEW f \in Fiber, Throw(f)
  PROVE  IInv'
<1> USE DEF IInv, Throw
<1>1. TypeOK' /\ ListInv'
  BY DEF TypeOK, ListInv, FiberState
<1>2. StateInv'
  BY RunningFacts DEF StateInv, Idle, TypeOK
<1>3. RoundInv' /\ HistoryInv'
  BY DEF RoundInv, HistoryInv, NoFramesLeaked, EnteredOnce, TypeOK
<1> QED
  BY <1>1, <1>2, <1>3

-----------------------------------------------------------------------------
(* ~FiberManager: everything before the index has been freed. *)

LEMMA DestroyPreserves == IInv /\ Destroy => IInv'
<1> SUFFICES ASSUME IInv, Destroy
             PROVE  IInv'
  OBVIOUS
<1> USE DEF IInv
<1>1. CASE DestroyBegin
  BY <1>1, ListFacts
     DEF DestroyBegin, historyVars, TypeOK, ListInv, StateInv, RoundInv, Idle,
         HistoryInv, NoFramesLeaked, EnteredOnce
<1>2. ASSUME NEW f \in Fiber, Destroying(f)
      PROVE  /\ pc = "destroy"
             /\ index \in DOMAIN fibers
             /\ fibers[index].fiber = f
             /\ \A i \in DOMAIN fibers : i # index => fibers[i].fiber # f
  BY <1>2, ListFacts DEF Destroying, ListInv, TypeOK
<1>3. ASSUME NEW f \in Fiber, Unwind(f)
      PROVE  IInv'
  <2> USE <1>3 DEF Unwind, managerVars, historyVars
  <2>1. TypeOK' /\ ListInv'
    BY DEF TypeOK, ListInv, FiberState
  <2>2. StateInv'
    BY <1>2, ListFacts DEF StateInv, Idle, TypeOK
  <2>3. RoundInv' /\ HistoryInv'
    BY <1>2 DEF RoundInv, HistoryInv, NoFramesLeaked, EnteredOnce, TypeOK
  <2> QED
    BY <2>1, <2>2, <2>3
<1>4. ASSUME NEW f \in Fiber, UnwindDone(f)
      PROVE  IInv'
  <2> USE <1>4 DEF UnwindDone
  <2>1. TypeOK' /\ ListInv'
    BY DEF TypeOK, ListInv
  <2>2. StateInv'
    BY <1>2, ListFacts DEF StateInv, Idle, TypeOK
  <2>3. RoundInv' /\ HistoryInv'
    BY <1>2 DEF RoundInv, HistoryInv, NoFramesLeaked, EnteredOnce, TypeOK
  <2> QED
    BY <2>1, <2>2, <2>3
<1>5. ASSUME NEW f \in Fiber, UnwindThrow(f)
      PROVE  IInv'
  <2> USE <1>5 DEF UnwindThrow
  <2>1. TypeOK' /\ ListInv'
    BY DEF TypeOK, ListInv, FiberState
  <2>2. StateInv'
    BY <1>2, ListFacts DEF StateInv, Idle, TypeOK
  <2>3. RoundInv' /\ HistoryInv'
    BY <1>2 DEF RoundInv, HistoryInv, NoFramesLeaked, EnteredOnce, TypeOK
  <2> QED
    BY <2>1, <2>2, <2>3
<1>6. ASSUME NEW f \in Fiber, DestroyIdle(f)
      PROVE  IInv'
  <2> USE <1>6 DEF DestroyIdle, historyVars
  <2>1. TypeOK' /\ ListInv'
    BY DEF TypeOK, ListInv
  <2>2. StateInv'
    BY <1>2, ListFacts DEF StateInv, Idle, TypeOK
  <2>3. RoundInv' /\ HistoryInv'
    BY <1>2 DEF RoundInv, HistoryInv, NoFramesLeaked, EnteredOnce, TypeOK
  <2> QED
    BY <2>1, <2>2, <2>3
<1>7. CASE DestroyEnd
  BY <1>7, ListFacts
     DEF DestroyEnd, historyVars, TypeOK, ListInv, StateInv, RoundInv,
         HistoryInv, NoFramesLeaked, EnteredOnce
<1> QED
  BY <1>1, <1>3, <1>4, <1>5, <1>6, <1>7 DEF Destroy

-----------------------------------------------------------------------------
LEMMA NextPreserves == IInv /\ [Next]_vars => IInv'
<1> SUFFICES ASSUME IInv, [Next]_vars
             PROVE  IInv'
  OBVIOUS
<1>1. CASE UNCHANGED vars
  BY <1>1 DEF vars, managerVars, historyVars, IInv, TypeOK, ListInv, StateInv,
              RoundInv, RoundAt, IsDue, HistoryInv, NoFramesLeaked, EnteredOnce
<1>2. ASSUME NEW f \in Fiber, launch(f) \/ \E until \in Time : defer(f, until)
      PROVE  IInv'
  BY <1>2, DeferPreserves DEF launch, IInv, TypeOK
<1>3. ASSUME NEW f \in Fiber, HandBack(f)
      PROVE  IInv'
  BY <1>3, YieldPreserves, SleepPreserves, FinishPreserves, ThrowPreserves
     DEF HandBack
<1> QED
  BY <1>1, <1>2, <1>3, LoopPreserves, DestroyPreserves DEF Next, Serve

(* The inductive invariant holds of every behaviour of FiberManager. *)
THEOREM Invariant == Spec => []IInv
<1>1. Init => IInv
  BY InitIInv
<1>2. IInv /\ [Next]_vars => IInv'
  BY NextPreserves
<1> QED
  BY <1>1, <1>2, PTL DEF Spec

(* Every variable keeps its type. *)
THEOREM TypeCorrect == Spec => []TypeOK
BY Invariant, PTL DEF IInv

(* While fiber code runs, Fiber::current() is the fiber whose code it is. *)
THEOREM CurrentIsRunning == Spec => []CurrentFiberIsRunning
<1>1. IInv => CurrentFiberIsRunning
  BY DEF IInv, StateInv, CurrentFiberIsRunning
<1> QED
  BY <1>1, Invariant, PTL

(* No Fiber is freed with live frames, by erase or by ~FiberManager. *)
THEOREM FramesUnwound == Spec => []NoFramesLeaked
BY Invariant, PTL DEF IInv, HistoryInv

(* No function of a fiber is entered twice. *)
THEOREM FunctionsEnteredOnce == Spec => []EnteredOnce
BY Invariant, PTL DEF IInv, HistoryInv

(* One update resumes no fiber twice. *)
THEOREM ResumedOncePerUpdate == Spec => OncePerUpdate
<1>1. IInv => \A f \in Fiber : Resume(f) => f \notin resumed
  BY ListFacts DEF IInv, RoundInv, RoundAt, Resume, AtFiber, TypeOK, ListInv
<1> QED
  BY <1>1, Invariant, PTL DEF Spec, OncePerUpdate

(* An update that returns has resumed every due fiber of the list. *)
THEOREM UpdateResumesEveryDueFiber == Spec => UpdateIsComplete
<1>1. IInv /\ [Next]_vars =>
        [UpdateEnd => \A i \in DOMAIN fibers :
                        \/ fibers[i].fiber \in resumed
                        \/ ~IsDue(fibers[i])]_vars
  BY ListFacts DEF IInv, RoundInv, RoundAt, UpdateEnd, TypeOK
<1> QED
  BY <1>1, Invariant, PTL DEF Spec, UpdateIsComplete

-----------------------------------------------------------------------------
(* Refinement: every step of FiberManager is a step of FiberLifecycle or   *)
(* leaves its variables alone.                                             *)

LEMMA PhaseFacts ==
  /\ PhaseOf("None") = "absent"
  /\ PhaseOf("Unstarted") = "waiting"
  /\ PhaseOf("Sleeping") = "waiting"
  /\ PhaseOf("Running") = "running"
  /\ PhaseOf("Terminating") = "cancelled"
  /\ PhaseOf("UnhandledException") = "failed"
  /\ PhaseOf("Freed") = "gone"
  /\ \A s \in FiberState \union {"None", "Freed"} :
       PhaseOf(s) = "running" => s = "Running"
BY DEF PhaseOf, FiberState

(* A step that changes the state of one fiber changes its phase. *)
LEMMA PhaseStep ==
  ASSUME TypeOK, NEW f \in Fiber, NEW s, state' = [state EXCEPT ![f] = s]
  PROVE  /\ Lifecycle!Become(f, PhaseOf(s))
         /\ phase[f] = PhaseOf(state[f])
BY DEF phase, Lifecycle!Become, TypeOK

LEMMA InitRefines == Init => Lifecycle!Init
BY PhaseFacts DEF Init, Lifecycle!Init, phase

(* Nobody runs unless the thread is with a fiber. *)
LEMMA NobodyRuns ==
  ASSUME IInv, pc # "fiber"
  PROVE  \A f \in Fiber : phase[f] # "running"
BY PhaseFacts DEF IInv, StateInv, TypeOK, phase

LEMMA StepRefines == IInv /\ [Next]_vars => [Lifecycle!Next]_(Lifecycle!vars)
<1> SUFFICES ASSUME IInv, [Next]_vars
             PROVE  Lifecycle!Next \/ UNCHANGED Lifecycle!vars
  OBVIOUS
<1> USE DEF IInv, managerVars, historyVars
<1>1. ASSUME UNCHANGED <<state, due, now>>
      PROVE  UNCHANGED Lifecycle!vars
  BY <1>1 DEF Lifecycle!vars, phase
<1>2. CASE UNCHANGED vars
  BY <1>1, <1>2 DEF vars
<1>3. ASSUME NEW f \in Fiber, NEW t \in Time, defer(f, t)
      PROVE  Lifecycle!Next
  <2>1. Lifecycle!Spawn(f, t)
    BY <1>3, PhaseStep, PhaseFacts DEF defer, Lifecycle!Spawn
  <2> QED
    BY <2>1 DEF Lifecycle!Next
<1>4. ASSUME NEW t \in Time, UpdateBegin(t)
      PROVE  Lifecycle!Next
  <2>1. Lifecycle!Advance(t)
    BY <1>4, NobodyRuns DEF UpdateBegin, Lifecycle!Advance, phase
  <2> QED
    BY <2>1 DEF Lifecycle!Next
<1>5. CASE UpdateEnd \/ \E f \in Fiber : SkipSleeping(f) \/ ResumeFails(f)
  BY <1>1, <1>5 DEF UpdateEnd, SkipSleeping, ResumeFails
<1>6. ASSUME NEW f \in Fiber, Resume(f)
      PROVE  Lifecycle!Next
  <2>1. due[f] <= now
    BY <1>6, ListFacts DEF Resume, AtFiber, IsDue, ListInv, TypeOK
  <2>2. Lifecycle!Run(f)
    BY <1>6, <2>1, PhaseStep, PhaseFacts, NobodyRuns
       DEF Resume, AtFiber, Resumable, Lifecycle!Run
  <2> QED
    BY <2>2 DEF Lifecycle!Next
<1>7. ASSUME NEW f \in Fiber, yield(f)
      PROVE  Lifecycle!Next
  <2>1. Lifecycle!Suspend(f, due[f])
    BY <1>7, PhaseStep, PhaseFacts
       DEF yield, Running, Lifecycle!Suspend, TypeOK
  <2> QED
    BY <2>1 DEF Lifecycle!Next, TypeOK
<1>8. ASSUME NEW f \in Fiber, NEW delta \in 0 .. MaxDelay, sleep(f, delta)
      PROVE  Lifecycle!Next
  <2>1. now + delta \in Time /\ now + delta >= now
    BY <1>8 DEF sleep, TypeOK, Time
  <2>2. Lifecycle!Suspend(f, now + delta)
    BY <1>8, <2>1, PhaseStep, PhaseFacts DEF sleep, Running, Lifecycle!Suspend
  <2> QED
    BY <2>1, <2>2 DEF Lifecycle!Next
<1>9. ASSUME NEW f \in Fiber, Finish(f)
      PROVE  Lifecycle!Next
  <2>1. state' = [state EXCEPT ![f] = "Freed"]
    BY <1>9, RunningFacts DEF Finish, TypeOK
  <2>2. state[f] = "Running" /\ UNCHANGED <<due, now>>
    BY <1>9 DEF Finish, Running
  <2>3. Lifecycle!Exit(f)
    BY <2>1, <2>2, PhaseStep, PhaseFacts DEF Lifecycle!Exit
  <2> QED
    BY <2>3 DEF Lifecycle!Next
<1>10. ASSUME NEW f \in Fiber, Throw(f) \/ UnwindThrow(f)
       PROVE  Lifecycle!Next
  <2>1. Lifecycle!Fail(f)
    BY <1>10, PhaseStep, PhaseFacts
       DEF Throw, Running, UnwindThrow, Lifecycle!Fail
  <2> QED
    BY <2>1 DEF Lifecycle!Next
<1>11. ASSUME NEW f \in Fiber, Unwind(f)
       PROVE  Lifecycle!Next
  <2>1. Lifecycle!Cancel(f)
    BY <1>11, PhaseStep, PhaseFacts DEF Unwind, Lifecycle!Cancel
  <2> QED
    BY <2>1 DEF Lifecycle!Next
<1>12. ASSUME NEW f \in Fiber, UnwindDone(f)
       PROVE  Lifecycle!Next
  <2>1. Lifecycle!Exit(f)
    BY <1>12, PhaseStep, PhaseFacts DEF UnwindDone, Lifecycle!Exit
  <2> QED
    BY <2>1 DEF Lifecycle!Next
<1>13. ASSUME NEW f \in Fiber, DestroyIdle(f)
       PROVE  Lifecycle!Next
  <2>1. Lifecycle!Discard(f)
    BY <1>13, PhaseStep, PhaseFacts DEF DestroyIdle, Lifecycle!Discard
  <2> QED
    BY <2>1 DEF Lifecycle!Next
<1>14. CASE DestroyBegin \/ DestroyEnd
  BY <1>1, <1>14 DEF DestroyBegin, DestroyEnd
<1>15. CASE Serve
  <2>1. ASSUME NEW f \in Fiber, launch(f)
        PROVE  Lifecycle!Next
    BY <1>3, <2>1 DEF launch, TypeOK
  <2> QED
    BY <1>3, <1>4, <1>5, <1>6, <1>7, <1>8, <1>9, <1>10, <1>15, <2>1
       DEF Serve, LoopStep, HandBack
<1>16. CASE Destroy
  BY <1>10, <1>11, <1>12, <1>13, <1>14, <1>16 DEF Destroy
<1> QED
  BY <1>2, <1>15, <1>16 DEF Next

(* FiberManager keeps the promise of FiberLifecycle. *)
THEOREM Refinement == Spec => LifecycleSpec
<1>1. Init => Lifecycle!Init
  BY InitRefines
<1>2. IInv /\ [Next]_vars => [Lifecycle!Next]_(Lifecycle!vars)
  BY StepRefines
<1> QED
  BY <1>1, <1>2, Invariant, PTL DEF Spec, LifecycleSpec, Lifecycle!Spec

=============================================================================
