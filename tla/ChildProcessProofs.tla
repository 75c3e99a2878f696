------------------------- MODULE ChildProcessProofs -------------------------
(***************************************************************************)
(* Theorems about ChildProcess: the four invariants of the process handle, *)
(* for any amount of output, any pipe and any number of activations.       *)
(***************************************************************************)
EXTENDS ChildProcess, SequenceTheorems, TLAPS

Items == [do : {"callback"}, kind : Kinds] \cup [do : {"check"}, stream : Streams]
            \cup [do : {"wait"}, signal : BOOLEAN] \cup [do : {"cancel", "drop", "garbage"}]

Children == [state : {"none", "running", "stopped", "ended", "reaped"},
             how : {"none", "exit", "signal"}, hangup : BOOLEAN, forgotten : BOOLEAN,
             left : [Streams -> Nat], runs : Nat]

Processes == [exists : BOOLEAN, pid : BOOLEAN, status : Statuses, open : SUBSET Streams]

TypeOK ==
    /\ child \in Children
    /\ pipe \in [Streams -> Nat]
    /\ process \in Processes
    /\ event \in [Streams -> BOOLEAN]
    /\ todo \in Seq(Items)

(* Which item may have which one right behind it on the stack.              *)
Leads(x, y) ==
    \/ x.do = "wait" /\ y.do \in {"callback", "drop"}
    \/ x.do = "callback" /\ y.do = "check" /\ x.kind # "Closed"
    \/ x.do = "callback" /\ y.do = "cancel" /\ x.kind = "Closed"
    \/ x.do \in {"check", "cancel"} /\ y.do = "garbage"
    \/ x.do = "drop" /\ y.do \in {"callback", "garbage"}

Chain(s) ==
    /\ \A i \in 1 .. Len(s) - 1 : Leads(s[i], s[i + 1])
    /\ s # <<>> => s[Len(s)].do \in {"callback", "drop", "garbage"}

Has(s, what) == \E i \in 1 .. Len(s) : s[i].do = what

OneDrained == Ended /\ \E s \in Streams \ process.open : pipe[s] = 0

(* Whoever waits has a process that is thought to run, and who is about to  *)
(* let go of one knows that it does not; what invoke cancels has ended.     *)
StackInv ==
    /\ Chain(todo)
    /\ Doing("wait") => process.exists /\ process.status = "Running"
    /\ Doing("drop") /\ process.exists => process.status # "Running"
    /\ Has(todo, "cancel") => OneDrained

ProcessInv ==
    /\ ~process.exists => process = NoProcess
    /\ process.exists => (process.pid <=> process.status = "Running")
    /\ \A s \in Streams : event[s] = process.exists

ChildInv ==
    /\ Ended <=> child.how # "none"
    /\ process.exists => \A s \in Streams \ process.open : Ended /\ pipe[s] = 0

IInv ==
    /\ TypeOK
    /\ fault = "none" => /\ StackInv /\ ProcessInv /\ ChildInv
                         /\ StatusIsTrue /\ NobodyLeftBehind

-----------------------------------------------------------------------------
(* An item that was dealt with leaves the stack.                            *)
LEMMA TailFacts ==
  ASSUME NEW s \in Seq(Items), s # <<>>, Chain(s)
  PROVE  /\ Head(s) = s[1] /\ s[1] \in Items
         /\ Tail(s) \in Seq(Items) /\ Len(Tail(s)) = Len(s) - 1
         /\ \A i \in 1 .. Len(s) - 1 : Tail(s)[i] = s[i + 1]
         /\ Chain(Tail(s))
         /\ \A what : Has(Tail(s), what) => Has(s, what)
<1>1. Head(s) = s[1] /\ s[1] \in Items /\ Len(s) \in Nat /\ Len(s) > 0
  OBVIOUS
<1>2. /\ Tail(s) \in Seq(Items) /\ Len(Tail(s)) = Len(s) - 1
      /\ \A i \in 1 .. Len(s) - 1 : Tail(s)[i] = s[i + 1]
  OBVIOUS
<1>3. Chain(Tail(s))
  BY <1>1, <1>2 DEF Chain
<1>4. \A what : Has(Tail(s), what) => Has(s, what)
  BY <1>1, <1>2 DEF Has
<1> QED
  BY <1>1, <1>2, <1>3, <1>4

(* An item that goes on top must be one that may have the first one behind  *)
(* it.                                                                      *)
LEMMA PushFacts ==
  ASSUME NEW x \in Items, NEW s \in Seq(Items), Chain(s),
         IF s = <<>> THEN x.do \in {"callback", "drop", "garbage"} ELSE Leads(x, s[1])
  PROVE  /\ <<x>> \o s \in Seq(Items) /\ Len(<<x>> \o s) = Len(s) + 1
         /\ Head(<<x>> \o s) = x /\ (<<x>> \o s)[1] = x
         /\ <<x>> \o s # <<>>
         /\ Chain(<<x>> \o s)
         /\ \A what : Has(<<x>> \o s, what) => x.do = what \/ Has(s, what)
<1>1. /\ <<x>> \o s \in Seq(Items) /\ Len(<<x>> \o s) = Len(s) + 1
      /\ (<<x>> \o s)[1] = x
      /\ \A i \in 1 .. Len(s) : (<<x>> \o s)[i + 1] = s[i]
  OBVIOUS
<1>2. Head(<<x>> \o s) = x /\ <<x>> \o s # <<>> /\ Len(s) \in Nat
  BY <1>1
<1>3. \A i \in 2 .. Len(s) + 1 : (<<x>> \o s)[i] = s[i - 1]
  <2> SUFFICES ASSUME NEW i \in 2 .. Len(s) + 1 PROVE (<<x>> \o s)[i] = s[i - 1]
    OBVIOUS
  <2>1. i - 1 \in 1 .. Len(s) /\ (i - 1) + 1 = i
    BY <1>2
  <2> QED
    BY <1>1, <2>1
<1>4. Chain(<<x>> \o s)
  <2>1. ASSUME NEW i \in 1 .. Len(s) PROVE Leads((<<x>> \o s)[i], (<<x>> \o s)[i + 1])
    BY <1>1, <1>2, <1>3, <2>1 DEF Chain
  <2>2. (<<x>> \o s)[Len(s) + 1].do \in {"callback", "drop", "garbage"}
    BY <1>1, <1>2, <1>3 DEF Chain
  <2> QED
    BY <1>1, <2>1, <2>2 DEF Chain
<1>5. \A what : Has(<<x>> \o s, what) => x.do = what \/ Has(s, what)
  BY <1>1, <1>2, <1>3 DEF Has
<1> QED
  BY <1>1, <1>2, <1>4, <1>5

(* What lies behind the first item.                                         *)
LEMMA StackFacts ==
  ASSUME NEW s \in Seq(Items), Chain(s), s # <<>>
  PROVE  /\ Has(s, s[1].do)
         /\ s[1].do = "garbage" => Tail(s) = <<>>
         /\ s[1].do = "callback" => /\ ~Has(s, "drop")
                                    /\ Has(s, "cancel") => s[1].kind = "Closed"
                                    /\ Len(s) > 2 /\ s[1].kind = "Closed" => Has(s, "cancel")
         /\ s[1].do \in {"check", "cancel"} =>
              /\ Len(s) = 2 /\ s[2].do = "garbage"
              /\ \A what \in {"check", "cancel", "drop", "wait"} : ~Has(Tail(s), what)
         /\ s[1].do = "drop" /\ Tail(s) # <<>> => s[2].do \in {"callback", "garbage"}
         /\ ~Has(Tail(s), "wait")
         /\ s[1].do = "wait" => Tail(s) # <<>> /\ s[2].do \in {"callback", "drop"}
<1> DEFINE n == Len(s)
<1>0. n \in Nat /\ n > 0 /\ (n = 1 \/ n = 2 \/ n > 2) /\ (n > 1 <=> n # 1)
  <2>1. n \in Nat /\ n > 0
    OBVIOUS
  <2> HIDE DEF n
  <2> QED
    BY <2>1
<1>1. n \in Nat /\ n > 0 /\ s[1] \in Items /\ \A i \in 1 .. n : s[i] \in Items
  BY <1>0
<1>2. ASSUME NEW i \in 2 .. n PROVE i - 1 \in 1 .. n - 1 /\ Leads(s[i - 1], s[i])
  BY <1>1 DEF Chain
<1>3. \A i \in 2 .. n : s[i].do # "wait"
  BY <1>2 DEF Leads
<1>4. /\ Len(Tail(s)) = n - 1 /\ Tail(s) \in Seq(Items)
      /\ \A i \in 1 .. n - 1 : Tail(s)[i] = s[i + 1]
  BY TailFacts
<1>5. /\ Has(s, s[1].do) /\ ~Has(Tail(s), "wait")
      /\ \A what : Has(Tail(s), what) => \E i \in 2 .. n : s[i].do = what
  <2>1. \A i \in 1 .. n - 1 : i + 1 \in 2 .. n
    BY <1>1
  <2> QED
    BY <1>1, <1>3, <1>4, <2>1 DEF Has
<1>6. n = 1 <=> Tail(s) = <<>>
  <2>1. n - 1 = 0 <=> n = 1
    <3> HIDE DEF n
    <3> QED
      BY <1>0
  <2>2. Tail(s) # <<>> => n - 1 \in Nat \ {0}
    BY <1>4, EmptySeq
  <2>3. Tail(s) = <<>> => n - 1 = 0
    BY <1>4, EmptySeq
  <2> QED
    BY <2>1, <2>2, <2>3
<1>7. n > 1 => Leads(s[1], s[2])
  <2>1. n > 1 => 2 \in 2 .. n /\ 2 - 1 = 1
    BY <1>1
  <2> QED
    BY <1>2, <2>1
<1>8. n > 2 => Leads(s[2], s[3])
  <2>1. n > 2 => 3 \in 2 .. n /\ 3 - 1 = 2
    BY <1>1
  <2> QED
    BY <1>2, <2>1
<1>9. n = 1 => s[1].do \in {"callback", "drop", "garbage"}
  BY DEF Chain
<1>10. s[1].do = "garbage" => n = 1
  BY <1>0, <1>7 DEF Leads
<1>11. ASSUME s[1].do = "callback"
       PROVE  /\ ~Has(s, "drop")
              /\ Has(s, "cancel") => s[1].kind = "Closed"
              /\ n > 2 /\ s[1].kind = "Closed" => Has(s, "cancel")
  <2>1. n > 1 => /\ s[2].do \in {"check", "cancel"}
                 /\ s[2].do = "cancel" <=> s[1].kind = "Closed"
    BY <1>7, <1>11 DEF Leads
  <2>2. n > 2 => s[3].do = "garbage"
    <3> HIDE DEF n
    <3> QED
      BY <1>0, <1>8, <2>1 DEF Leads
  <2>3. n > 3 => 4 \in 2 .. n /\ 4 - 1 = 3 /\ n > 2
    BY <1>1
  <2>4. ~(n > 3)
    BY <1>2, <2>2, <2>3 DEF Leads
  <2>5. \A i \in 1 .. n : i = 1 \/ (i = 2 /\ n > 1) \/ (i = 3 /\ n > 2)
    BY <1>1, <2>4
  <2>6. n > 2 => n > 1 /\ 2 \in 1 .. n
    BY <1>1
  <2> QED
    BY <1>11, <2>1, <2>2, <2>5, <2>6 DEF Has
<1>12. ASSUME s[1].do \in {"check", "cancel"}
       PROVE  /\ n = 2 /\ s[2].do = "garbage"
              /\ \A what \in {"check", "cancel", "drop", "wait"} : ~Has(Tail(s), what)
  <2>1. n > 1 => n = 2 /\ s[2].do = "garbage"
    <3> HIDE DEF n
    <3> QED
      BY <1>0, <1>7, <1>8, <1>12 DEF Leads
  <2>2. n = 2
    BY <1>0, <1>9, <1>12, <2>1
  <2> QED
    BY <1>5, <2>1, <2>2
<1>13. s[1].do = "wait" => n > 1 /\ s[2].do \in {"callback", "drop"}
  BY <1>0, <1>7, <1>9 DEF Leads
<1>14. s[1].do = "garbage" => Tail(s) = <<>>
  BY <1>6, <1>10
<1>15. s[1].do = "wait" => Tail(s) # <<>>
  BY <1>0, <1>6, <1>13
<1>16. s[1].do = "drop" /\ Tail(s) # <<>> => s[2].do \in {"callback", "garbage"}
  BY <1>0, <1>6, <1>7 DEF Leads
<1> QED
  BY <1>5, <1>11, <1>12, <1>13, <1>14, <1>15, <1>16

-----------------------------------------------------------------------------
LEMMA ChildPreserves ==
  ASSUME IInv, fault = "none", ChildNext
  PROVE  IInv'
<1>1. UNCHANGED <<process, event, todo, fault>>
  BY DEF ChildNext, Write, Exit, Die, Stop, Continue
<1>2. TypeOK'
  <2>1. ASSUME NEW s \in Streams, Write(s) PROVE child' \in Children /\ pipe' \in [Streams -> Nat]
    <3>1. child.left \in [Streams -> Nat] /\ child.left[s] - 1 \in Nat /\ pipe[s] + 1 \in Nat
      BY <2>1 DEF IInv, TypeOK, Children, Write
    <3> QED
      BY <2>1, <3>1 DEF IInv, TypeOK, Children, Write
  <2>2. CASE Exit \/ Die \/ Stop \/ Continue
    BY <1>1, <2>2 DEF IInv, TypeOK, Children, Exit, Die, Stop, Continue
  <2> QED
    BY <1>1, <2>1, <2>2 DEF IInv, TypeOK, ChildNext
<1>3. Alive /\ child'.forgotten = child.forgotten /\ child'.state \in {"running", "stopped", "ended"}
  BY DEF IInv, TypeOK, Children, Alive, ChildNext, Write, Exit, Die, Stop, Continue
<1>4. StackInv' /\ ProcessInv'
  <2>1. ~Has(todo, "cancel")
    BY <1>3 DEF IInv, StackInv, OneDrained, Alive, Ended
  <2> QED
    BY <1>1, <2>1 DEF IInv, StackInv, ProcessInv, Doing
<1>5. ChildInv'
  BY <1>1, <1>3 DEF IInv, TypeOK, Children, ChildInv, Alive, Ended, ChildNext, Write, Exit, Die, Stop, Continue
<1>6. StatusIsTrue' /\ NobodyLeftBehind'
  BY <1>1, <1>3 DEF IInv, StatusIsTrue, NobodyLeftBehind, Alive
<1> QED
  BY <1>1, <1>2, <1>4, <1>5, <1>6 DEF IInv

(* kill on the stack of a callback or of cancel: behind the Wait, if there  *)
(* is one, comes what was to be done anyway.                                *)
LEMMA KillPreserves ==
  ASSUME IInv, fault = "none", NEW rest \in Seq(Items), kill(rest),
         UNCHANGED <<pipe, process, event, fault>>,
         Chain(rest), rest # <<>>, rest[1].do \in {"callback", "drop"},
         Has(rest, "cancel") => OneDrained
  PROVE  IInv'
<1>1. CASE CallsKill
  <2>1. process.pid /\ todo' = <<Wait(TRUE)>> \o rest
    BY <1>1 DEF IInv, ProcessInv, CallsKill, kill
  <2>2. Wait(TRUE) \in Items /\ Wait(TRUE).do = "wait" /\ Leads(Wait(TRUE), rest[1])
    BY DEF Wait, Items, Leads
  <2>3. /\ todo' \in Seq(Items) /\ Chain(todo') /\ todo' # <<>> /\ Head(todo') = Wait(TRUE)
        /\ \A what : Has(todo', what) => Wait(TRUE).do = what \/ Has(rest, what)
    BY <2>1, <2>2, PushFacts
  <2>4. child' = [child EXCEPT !.hangup = @ \/ Alive]
    BY <1>1 DEF kill
  <2>5. OneDrained => OneDrained'
    BY <2>4 DEF IInv, TypeOK, Children, OneDrained, Ended
  <2>6. StackInv'
    BY <1>1, <2>2, <2>3, <2>5 DEF StackInv, Doing, CallsKill
  <2>7. TypeOK'
    BY <2>3, <2>4 DEF IInv, TypeOK, Children, Alive
  <2>8. ProcessInv' /\ ChildInv' /\ StatusIsTrue' /\ NobodyLeftBehind'
    BY <2>4 DEF IInv, TypeOK, Children, ProcessInv, ChildInv, StatusIsTrue, NobodyLeftBehind, Ended
  <2> QED
    BY <2>6, <2>7, <2>8 DEF IInv
<1>2. CASE ~CallsKill
  <2>1. child' = child /\ todo' = rest /\ (process.exists => process.status # "Running")
    BY <1>2 DEF kill, CallsKill
  <2>2. Head(rest) = rest[1]
    OBVIOUS
  <2>3. StackInv'
    BY <2>1, <2>2 DEF StackInv, Doing, OneDrained, Ended
  <2>4. TypeOK'
    BY <2>1 DEF IInv, TypeOK
  <2>5. ProcessInv' /\ ChildInv' /\ StatusIsTrue' /\ NobodyLeftBehind'
    BY <2>1 DEF IInv, ProcessInv, ChildInv, StatusIsTrue, NobodyLeftBehind, Ended
  <2> QED
    BY <2>3, <2>4, <2>5 DEF IInv
<1> QED
  BY <1>1, <1>2

(* The first item of the stack is replaced or goes; nothing else changes    *)
(* but that the process may be let go of.                                   *)
LEMMA activatePreserves ==
  ASSUME IInv, fault = "none", activate
  PROVE  IInv'
<1>1. todo' = <<Callback("Ready")>> /\ Callback("Ready") \in Items
  BY DEF activate, Callback, Items, Kinds
<1>2. todo' \in Seq(Items) /\ Len(todo') = 1 /\ todo'[1] = Callback("Ready")
  BY <1>1
<1>3. StackInv'
  BY <1>1, <1>2 DEF StackInv, Chain, Has, Doing, Callback
<1>4. TypeOK'
  <2>1. child.runs + 1 \in Nat /\ Chunks \in Nat
    BY BoundsAssumption DEF IInv, TypeOK, Children
  <2>2. child' = [state |-> "running", how |-> "none", hangup |-> FALSE, forgotten |-> FALSE,
                  left |-> [s \in Streams |-> Chunks], runs |-> child.runs + 1]
    BY DEF activate, popen, NoChild
  <2>3. child' \in Children
    BY <2>1, <2>2 DEF Children
  <2> QED
    BY <1>2, <2>3 DEF IInv, TypeOK, Processes, Statuses, activate, popen
<1>5. ProcessInv' /\ ChildInv' /\ StatusIsTrue' /\ NobodyLeftBehind'
  BY DEF activate, popen, NoChild, ProcessInv, ChildInv, StatusIsTrue, NobodyLeftBehind, Ended
<1> QED
  BY <1>3, <1>4, <1>5 DEF IInv

(* Steps that touch nothing but the stack, when what is on it is in order.  *)
LEMMA StackOnly ==
  ASSUME IInv, fault = "none", UNCHANGED <<child, pipe, process, event, fault>>,
         todo' \in Seq(Items), StackInv'
  PROVE  IInv'
<1>1. TypeOK'
  BY DEF IInv, TypeOK
<1>2. ProcessInv' /\ ChildInv' /\ StatusIsTrue' /\ NobodyLeftBehind'
  BY DEF IInv, ProcessInv, ChildInv, StatusIsTrue, NobodyLeftBehind, Ended
<1> QED
  BY <1>1, <1>2 DEF IInv

LEMMA cancelPreserves ==
  ASSUME IInv, fault = "none", cancel
  PROVE  IInv'
<1> DEFINE rest == <<Do("drop")>>
<1>1. /\ rest \in Seq(Items) /\ Len(rest) = 1 /\ rest[1] = Do("drop") /\ rest # <<>>
  BY DEF Do, Items
<1>2. Chain(rest) /\ ~Has(rest, "cancel") /\ rest[1].do = "drop"
  BY <1>1 DEF Chain, Has, Do
<1>3. kill(rest) /\ process.exists /\ UNCHANGED <<pipe, process, event, fault>>
  BY DEF cancel
<1> QED
  BY <1>1, <1>2, <1>3, KillPreserves

LEMMA CancelInsidePreserves ==
  ASSUME IInv, fault = "none", CancelInside
  PROVE  IInv'
<1> DEFINE rest == <<Do("drop")>> \o Tail(todo)
<1>1. todo \in Seq(Items) /\ Chain(todo) /\ todo # <<>> /\ todo[1].do = "cancel"
  <2>1. todo \in Seq(Items) /\ todo # <<>> /\ Head(todo).do = "cancel" /\ Chain(todo)
    BY DEF CancelInside, Doing, IInv, TypeOK, StackInv
  <2> QED
    BY <2>1, TailFacts
<1>2. Tail(todo) \in Seq(Items) /\ Chain(Tail(todo)) /\ ~Has(Tail(todo), "cancel")
  BY <1>1, TailFacts, StackFacts
<1>3. Tail(todo) # <<>> => Tail(todo)[1].do = "garbage"
  <2>1. Len(todo) = 2 /\ todo[2].do = "garbage"
    BY <1>1, StackFacts
  <2> QED
    BY <1>1, <2>1, TailFacts
<1>4. /\ Do("drop") \in Items /\ Do("drop").do = "drop"
      /\ Tail(todo) # <<>> => Leads(Do("drop"), Tail(todo)[1])
  BY <1>3 DEF Do, Items, Leads
<1>5. /\ rest \in Seq(Items) /\ rest # <<>> /\ Chain(rest) /\ rest[1].do = "drop"
      /\ ~Has(rest, "cancel")
  BY <1>2, <1>4, PushFacts
<1>6. kill(rest) /\ UNCHANGED <<pipe, process, event, fault>>
  BY DEF CancelInside
<1> QED
  BY <1>1, <1>5, <1>6, KillPreserves

LEMMA CallbackKillsPreserves ==
  ASSUME IInv, fault = "none", CallbackKills
  PROVE  IInv'
<1>1. /\ todo \in Seq(Items) /\ Chain(todo) /\ todo # <<>> /\ Head(todo).do = "callback"
      /\ kill(todo) /\ UNCHANGED <<pipe, process, event, fault>>
      /\ Has(todo, "cancel") => OneDrained
  BY DEF CallbackKills, Doing, IInv, TypeOK, StackInv
<1>2. todo[1].do = "callback"
  BY <1>1, TailFacts
<1> QED
  BY <1>1, <1>2, KillPreserves

LEMMA CallbackCancelsPreserves ==
  ASSUME IInv, fault = "none", CallbackCancels
  PROVE  IInv'
<1> DEFINE rest == <<Do("drop")>> \o todo
<1>1. /\ todo \in Seq(Items) /\ Chain(todo) /\ todo # <<>> /\ Head(todo).do = "callback"
      /\ kill(rest) /\ UNCHANGED <<pipe, process, event, fault>>
      /\ Has(todo, "cancel") => OneDrained
  BY DEF CallbackCancels, Doing, IInv, TypeOK, StackInv
<1>2. /\ Do("drop") \in Items /\ Do("drop").do = "drop"
      /\ Leads(Do("drop"), todo[1])
  BY <1>1, TailFacts DEF Do, Items, Leads
<1>3. /\ rest \in Seq(Items) /\ rest # <<>> /\ Chain(rest) /\ rest[1].do = "drop"
      /\ Has(rest, "cancel") => Has(todo, "cancel")
  BY <1>1, <1>2, PushFacts
<1> QED
  BY <1>1, <1>3, KillPreserves

LEMMA CallbackWaitsPreserves ==
  ASSUME IInv, fault = "none", CallbackWaits
  PROVE  IInv'
<1>1. /\ todo \in Seq(Items) /\ Chain(todo) /\ todo # <<>> /\ Head(todo).do = "callback"
      /\ todo' = <<Wait(FALSE)>> \o todo /\ UNCHANGED <<child, pipe, process, event, fault>>
      /\ process.exists /\ process.status = "Running"
  BY DEF CallbackWaits, Doing, IInv, TypeOK, StackInv, ProcessInv
<1>2. Wait(FALSE) \in Items /\ Wait(FALSE).do = "wait" /\ Leads(Wait(FALSE), todo[1])
  BY <1>1, TailFacts DEF Wait, Items, Leads
<1>3. /\ todo' \in Seq(Items) /\ todo' # <<>> /\ Chain(todo') /\ Head(todo').do = "wait"
      /\ Has(todo', "cancel") => Has(todo, "cancel")
  BY <1>1, <1>2, PushFacts
<1>4. StackInv'
  BY <1>1, <1>3 DEF IInv, StackInv, Doing, OneDrained, Ended
<1> QED
  BY <1>1, <1>3, <1>4, StackOnly

LEMMA DropPreserves ==
  ASSUME IInv, fault = "none", Drop
  PROVE  IInv'
<1>1. /\ todo \in Seq(Items) /\ Chain(todo) /\ todo # <<>> /\ Head(todo).do = "drop" /\ todo' = Tail(todo)
      /\ process' = NoProcess /\ UNCHANGED <<child, pipe, fault>>
  BY DEF Drop, Doing, IInv, TypeOK, StackInv
<1>2. /\ todo[1].do = "drop" /\ todo' \in Seq(Items) /\ Chain(todo')
      /\ Has(todo', "cancel") => Has(todo, "cancel")
  BY <1>1, TailFacts
<1>3. ASSUME todo' # <<>> PROVE Head(todo').do \notin {"wait", "drop"}
  <2>1. Head(todo') = todo[2]
    <3>1. /\ Len(todo') = Len(todo) - 1 /\ Len(todo') \in Nat
          /\ Head(todo') = todo'[1]
          /\ \A i \in 1 .. Len(todo) - 1 : todo'[i] = todo[i + 1]
      BY <1>1, <1>2, <1>3, TailFacts
    <3>2. Len(todo') # 0
      BY <1>2, <1>3, EmptySeq
    <3>3. 1 \in 1 .. Len(todo) - 1 /\ 1 + 1 = 2
      BY <3>1, <3>2
    <3> QED
      BY <3>1, <3>3
  <2> QED
    BY <1>1, <1>2, <1>3, <2>1, StackFacts
<1>4. OneDrained => OneDrained'
  BY <1>1 DEF OneDrained, Ended, NoProcess
<1>5. StackInv'
  BY <1>1, <1>2, <1>3, <1>4 DEF IInv, StackInv, Doing
<1>6. TypeOK'
  BY <1>2 DEF IInv, TypeOK, Drop, NoProcess, Processes, Statuses
<1>7. process.exists => process.status # "Running"
  BY <1>1 DEF IInv, StackInv, Doing
<1>8. NobodyLeftBehind'
  BY <1>7 DEF IInv, TypeOK, Processes, Statuses, StatusIsTrue, NobodyLeftBehind, Drop
<1>9. ProcessInv' /\ ChildInv' /\ StatusIsTrue'
  BY DEF Drop, NoProcess, IInv, ProcessInv, ChildInv, StatusIsTrue, Ended
<1> QED
  BY <1>5, <1>6, <1>8, <1>9 DEF IInv

LEMMA get_statusPreserves ==
  ASSUME IInv, fault = "none", get_status
  PROVE  IInv'
<1>1. todo \in Seq(Items) /\ Chain(todo) /\ todo # <<>> /\ Head(todo).do = "wait" /\ todo' = Tail(todo)
  BY DEF get_status, Doing, IInv, TypeOK, StackInv
<1>2. todo[1].do = "wait" /\ todo' \in Seq(Items) /\ Chain(todo')
      /\ \A what : Has(todo', what) => Has(todo, what)
  BY <1>1, TailFacts
<1>3. process.exists /\ process.status = "Running"
  BY <1>1 DEF IInv, StackInv, Doing
<1>4. /\ child.state \in {"ended", "stopped"}
      /\ child' = [child EXCEPT !.state = IF @ = "ended" THEN "reaped" ELSE @,
                                !.forgotten = child.state = "stopped"]
      /\ process' = [process EXCEPT
                       !.pid = FALSE,
                       !.status = CASE child.state = "stopped" -> "Stopped"
                                    [] child.how = "exit"      -> "Exited"
                                    [] OTHER                   -> "Terminated"]
      /\ UNCHANGED <<pipe, event, fault>>
  BY DEF get_status
<1>5. /\ child \in Children /\ process \in Processes
      /\ child.state = "ended" <=> child.how # "none"
  BY <1>4 DEF IInv, TypeOK, ChildInv, Ended
<1>6. /\ child' \in Children /\ process' \in Processes
      /\ process'.exists /\ process'.open = process.open /\ ~process'.pid
      /\ process'.status = CASE child.state = "stopped" -> "Stopped"
                             [] child.how = "exit"      -> "Exited"
                             [] OTHER                   -> "Terminated"
      /\ child'.how = child.how
      /\ child'.state = IF child.state = "ended" THEN "reaped" ELSE child.state
      /\ child'.forgotten = (child.state = "stopped")
  BY <1>3, <1>4, <1>5 DEF Children, Processes, Statuses
<1>7. process'.status # "Running"
  BY <1>6
<1>8. ~Has(todo', "wait")
  BY <1>1, StackFacts
<1>9. todo' # <<>> => Head(todo').do # "wait"
  BY <1>2, <1>8, TailFacts, StackFacts
<1>10. StackInv'
  <2>1. OneDrained => OneDrained'
    BY <1>4, <1>5, <1>6 DEF OneDrained, Ended
  <2> QED
    BY <1>2, <1>7, <1>9, <2>1 DEF IInv, StackInv, Doing
<1>11. TypeOK'
  BY <1>2, <1>4, <1>6 DEF IInv, TypeOK
<1>12. ProcessInv'
  BY <1>3, <1>4, <1>6, <1>7 DEF IInv, ProcessInv
<1>13. ChildInv'
  BY <1>3, <1>4, <1>5, <1>6 DEF IInv, ChildInv, Ended
<1>14. StatusIsTrue'
  <2>1. CASE child.state = "stopped"
    <3>1. process'.status = "Stopped"
      BY <1>5, <1>6, <2>1
    <3>2. child'.forgotten
      BY <1>6, <2>1, Zenon
    <3> QED
      BY <3>1, <3>2 DEF StatusIsTrue
  <2>2. CASE child.state = "ended" /\ child.how = "exit"
    <3>1. process'.status = "Exited" /\ child'.state = "reaped" /\ child'.how = "exit"
      BY <1>6, <2>2
    <3> QED
      BY <3>1 DEF StatusIsTrue
  <2>3. CASE child.state = "ended" /\ child.how = "signal"
    <3>1. process'.status = "Terminated" /\ child'.state = "reaped" /\ child'.how = "signal"
      BY <1>6, <2>3
    <3> QED
      BY <3>1 DEF StatusIsTrue
  <2> QED
    BY <1>4, <1>5, <2>1, <2>2, <2>3 DEF Children
<1>15. NobodyLeftBehind'
  BY <1>6 DEF NobodyLeftBehind
<1> QED
  BY <1>10, <1>11, <1>12, <1>13, <1>14, <1>15 DEF IInv

LEMMA CallbackReturnsPreserves ==
  ASSUME IInv, fault = "none", CallbackReturns
  PROVE  IInv'
<1>1. /\ todo \in Seq(Items) /\ Chain(todo) /\ todo # <<>> /\ Head(todo).do = "callback"
      /\ todo' = Tail(todo) /\ UNCHANGED <<child, pipe, process, event, fault>>
  BY DEF CallbackReturns, Doing, IInv, TypeOK, StackInv
<1>2. todo[1].do = "callback" /\ todo' \in Seq(Items) /\ Chain(todo')
      /\ \A what : Has(todo', what) => Has(todo, what)
  BY <1>1, TailFacts
<1>3. ~Has(todo', "wait") /\ ~Has(todo', "drop")
  BY <1>1, <1>2, StackFacts
<1>4. todo' # <<>> => Has(todo', Head(todo').do)
  BY <1>2, TailFacts, StackFacts
<1>5. StackInv'
  BY <1>1, <1>2, <1>3, <1>4 DEF IInv, StackInv, Doing, OneDrained, Ended
<1> QED
  BY <1>1, <1>2, <1>5, StackOnly

LEMMA TimeoutPreserves ==
  ASSUME IInv, fault = "none", NEW s \in Streams, Timeout(s)
  PROVE  IInv'
<1>1. todo' = <<Callback("Timeout")>> /\ Callback("Timeout") \in Items
      /\ UNCHANGED <<child, pipe, process, event, fault>>
  BY DEF Timeout, Callback, Items, Kinds
<1>2. todo' \in Seq(Items) /\ Len(todo') = 1 /\ todo'[1] = Callback("Timeout")
  BY <1>1
<1>3. StackInv'
  BY <1>1, <1>2 DEF StackInv, Chain, Has, Doing, Callback
<1> QED
  BY <1>1, <1>2, <1>3, StackOnly

LEMMA invokePreserves ==
  ASSUME IInv, fault = "none", NEW s \in Streams, invoke(s)
  PROVE  IInv'
<1>1. /\ todo' = <<Callback(EventOf(s)), Check(s), Do("garbage")>>
      /\ Callback(EventOf(s)) \in Items /\ Check(s) \in Items /\ Do("garbage") \in Items
      /\ UNCHANGED <<child, pipe, process, event, fault>>
  BY DEF invoke, EventOf, Callback, Check, Do, Items, Kinds, Streams
<1>2. /\ todo' \in Seq(Items) /\ Len(todo') = 3
      /\ todo'[1] = Callback(EventOf(s)) /\ todo'[2] = Check(s) /\ todo'[3] = Do("garbage")
  BY <1>1
<1>3. Leads(Callback(EventOf(s)), Check(s)) /\ Leads(Check(s), Do("garbage"))
  BY DEF Leads, EventOf, Callback, Check, Do, Streams
<1>4. Chain(todo')
  BY <1>2, <1>3 DEF Chain, Do
<1>6. Head(todo') = Callback(EventOf(s)) /\ ~Has(todo', "cancel")
  BY <1>1, <1>2 DEF Has, Callback, Check, Do
<1>7. StackInv'
  BY <1>1, <1>4, <1>6 DEF StackInv, Doing, Callback
<1> QED
  BY <1>1, <1>2, <1>7, StackOnly

LEMMA IsClosedPreserves ==
  ASSUME IInv, fault = "none", NEW s \in Streams, IsClosed(s)
  PROVE  IInv'
<1> DEFINE rest == Tail(todo)
<1>1. /\ todo \in Seq(Items) /\ Chain(todo) /\ todo # <<>> /\ Head(todo).do = "check"
      /\ todo' = (IF s \in process.open THEN <<>> ELSE <<Callback("Closed"), Do("cancel")>>) \o rest
      /\ process.exists /\ UNCHANGED <<child, pipe, process, event, fault>>
  BY DEF IsClosed, Doing, IInv, TypeOK, StackInv
<1>2. todo[1].do = "check" /\ rest \in Seq(Items) /\ Chain(rest)
      /\ Len(rest) = Len(todo) - 1
      /\ \A i \in 1 .. Len(todo) - 1 : rest[i] = todo[i + 1]
  BY <1>1, TailFacts
<1>3. /\ Len(todo) = 2 /\ todo[2].do = "garbage"
      /\ \A what \in {"check", "cancel", "drop", "wait"} : ~Has(rest, what)
  BY <1>1, <1>2, StackFacts
<1>4. Len(rest) = 1 /\ rest[1].do = "garbage" /\ rest # <<>>
  <2>1. Len(rest) = 1 /\ rest[1] = todo[2]
    <3>1. Len(todo) = 2 /\ 1 \in 1 .. Len(todo) - 1 /\ 1 + 1 = 2 /\ Len(todo) - 1 = 1
      BY <1>3
    <3> QED
      BY ONLY <1>2, <3>1
  <2>2. rest # <<>>
    <3>1. Len(rest) # 0 /\ Len(<<>>) = 0
      BY <2>1
    <3> QED
      BY <3>1, Zenon
  <2> QED
    BY <1>3, <2>1, <2>2
<1>5. CASE s \in process.open
  <2>1. todo' = rest
    BY <1>1, <1>2, <1>5
  <2>2. Head(todo') = rest[1]
    BY <1>2, <1>4, <2>1
  <2>3. StackInv'
    BY <1>1, <1>2, <1>3, <1>4, <2>1, <2>2 DEF StackInv, Doing
  <2> QED
    BY <1>1, <1>2, <2>1, <2>3, StackOnly
<1>6. CASE s \notin process.open
  <2> DEFINE one == <<Do("cancel")>> \o rest
  <2>1. Do("cancel") \in Items /\ Callback("Closed") \in Items /\ Do("cancel").do = "cancel"
        /\ Callback("Closed").do = "callback"
        /\ Leads(Do("cancel"), rest[1]) /\ Leads(Callback("Closed"), Do("cancel"))
    BY <1>4 DEF Do, Callback, Items, Kinds, Leads
  <2>2. /\ one \in Seq(Items) /\ Chain(one) /\ one[1] = Do("cancel") /\ one # <<>>
        /\ \A what : Has(one, what) => what = "cancel" \/ Has(rest, what)
    BY <1>2, <1>4, <2>1, PushFacts
  <2>3. todo' = <<Callback("Closed")>> \o one
    BY <1>1, <1>2, <1>6, <2>1
  <2> HIDE DEF one
  <2>4. /\ todo' \in Seq(Items) /\ Chain(todo') /\ Head(todo') = Callback("Closed")
        /\ \A what : Has(todo', what) => what \in {"callback", "cancel"} \/ Has(rest, what)
    BY <2>1, <2>2, <2>3, PushFacts
  <2>5. OneDrained'
    BY <1>1, <1>6 DEF IInv, ChildInv, OneDrained, Ended
  <2>6. StackInv'
    BY <1>1, <2>1, <2>4, <2>5 DEF StackInv, Doing
  <2> QED
    BY <1>1, <2>4, <2>6, StackOnly
<1> QED
  BY <1>5, <1>6

LEMMA GarbagePreserves ==
  ASSUME IInv, fault = "none", Garbage
  PROVE  IInv'
<1>1. PICK kind \in Kinds : todo' = <<Callback(kind)>> \o Tail(todo)
  BY DEF Garbage
<1>2. /\ todo \in Seq(Items) /\ Chain(todo) /\ todo # <<>> /\ Head(todo).do = "garbage"
      /\ UNCHANGED <<child, pipe, process, event, fault>>
  BY DEF Garbage, Doing, IInv, TypeOK, StackInv
<1>3. Tail(todo) = <<>>
  BY <1>2, TailFacts, StackFacts
<1>4. todo' = <<Callback(kind)>> /\ Callback(kind) \in Items /\ Callback(kind).do = "callback"
  <2>1. Callback(kind) \in Items /\ Callback(kind).do = "callback"
    BY DEF Callback, Items
  <2>2. <<Callback(kind)>> \in Seq(Items)
    BY <2>1
  <2>3. <<Callback(kind)>> \o <<>> = <<Callback(kind)>>
    BY <2>2, ConcatEmptySeq
  <2> QED
    BY <1>1, <1>3, <2>1, <2>3
<1>5. todo' \in Seq(Items) /\ Len(todo') = 1 /\ todo'[1] = Callback(kind) /\ Head(todo') = Callback(kind)
  BY <1>4
<1>6. StackInv'
  BY <1>2, <1>4, <1>5 DEF StackInv, Chain, Has, Doing
<1> QED
  BY <1>2, <1>5, <1>6, StackOnly

LEMMA readPreserves ==
  ASSUME IInv, fault = "none", NEW s \in Streams, read(s)
  PROVE  IInv'
<1>1. /\ process.exists /\ s \in process.open
      /\ pipe' = [pipe EXCEPT ![s] = IF @ > 0 THEN @ - 1 ELSE 0]
      /\ process' = [process EXCEPT !.open = IF EndOfFile(s) THEN @ \ {s} ELSE @]
      /\ UNCHANGED <<child, event, todo>>
  BY DEF read, Readable
<1>2. /\ process \in Processes /\ pipe \in [Streams -> Nat] /\ pipe' \in [Streams -> Nat]
      /\ \A x \in Streams : pipe[x] = 0 => pipe'[x] = 0
  BY <1>1 DEF IInv, TypeOK
<1>3. /\ process' \in Processes /\ process'.exists /\ process'.pid = process.pid
      /\ process'.status = process.status
      /\ process'.open = IF EndOfFile(s) THEN process.open \ {s} ELSE process.open
  BY <1>1, <1>2 DEF Processes
<1>4. TypeOK'
  BY <1>1, <1>2, <1>3 DEF IInv, TypeOK
<1>5. StackInv'
  <2>1. OneDrained => OneDrained'
    BY <1>1, <1>2, <1>3 DEF OneDrained, Ended
  <2> QED
    BY <1>1, <1>3, <2>1 DEF IInv, StackInv, Doing
<1>6. ProcessInv'
  BY <1>1, <1>3 DEF IInv, ProcessInv
<1>7. ChildInv'
  BY <1>1, <1>2, <1>3 DEF IInv, ChildInv, EndOfFile, Ended
<1>8. StatusIsTrue' /\ NobodyLeftBehind'
  BY <1>1, <1>3 DEF IInv, StatusIsTrue, NobodyLeftBehind
<1> QED
  BY <1>4, <1>5, <1>6, <1>7, <1>8 DEF IInv

(* After undefined behaviour nothing is said any more.                      *)
LEMMA FaultPreserves ==
  ASSUME IInv, fault = "none", Interrupted \/ NullIsUsed
  PROVE  IInv'
<1>1. fault' # "none"
  BY DEF Interrupted, NullIsUsed
<1>2. CASE Interrupted
  <2>1. todo \in Seq(Items) /\ todo # <<>> /\ Chain(todo) /\ todo' = Tail(todo)
    BY <1>2 DEF IInv, TypeOK, StackInv, Interrupted, Doing
  <2>2. todo' \in Seq(Items)
    BY <2>1, TailFacts
  <2> QED
    BY <1>1, <1>2, <2>2 DEF IInv, TypeOK, Interrupted, Processes
<1>3. CASE NullIsUsed
  BY <1>1, <1>3 DEF IInv, TypeOK, NullIsUsed
<1> QED
  BY <1>2, <1>3

LEMMA StepPreserves == IInv /\ [Next]_vars => IInv'
<1> SUFFICES ASSUME IInv, [Next]_vars PROVE IInv'
  OBVIOUS
<1>1. CASE UNCHANGED vars
  BY <1>1 DEF vars, IInv, TypeOK, StackInv, ProcessInv, ChildInv, StatusIsTrue, NobodyLeftBehind,
              Doing, OneDrained, Ended
<1>2. CASE fault = "none" /\ ChildNext
  BY <1>2, ChildPreserves
<1>3. CASE fault = "none" /\ HandleNext
  BY <1>3, activatePreserves, cancelPreserves, CancelInsidePreserves, DropPreserves,
     get_statusPreserves, FaultPreserves, GarbagePreserves, CallbackWaitsPreserves,
     CallbackKillsPreserves, CallbackCancelsPreserves, CallbackReturnsPreserves, readPreserves, invokePreserves, IsClosedPreserves, TimeoutPreserves
     DEF HandleNext
<1> QED
  BY <1>1, <1>2, <1>3 DEF Next

(* The stack of the thread, the process and the child belong together in    *)
(* every state that is reached without undefined behaviour.                 *)
THEOREM Invariant == Spec => []IInv
<1>1. Init => IInv
  <2> SUFFICES ASSUME Init PROVE IInv
    OBVIOUS
  <2>1. todo = <<>> /\ Len(todo) = 0 /\ todo \in Seq(Items)
    BY DEF Init
  <2>2. StackInv
    BY <2>1 DEF StackInv, Chain, Has, Doing
  <2>3. ProcessInv /\ ChildInv /\ StatusIsTrue /\ NobodyLeftBehind
    BY DEF Init, NoProcess, NoChild, ProcessInv, ChildInv, StatusIsTrue, NobodyLeftBehind, Ended
  <2>4. NoChild \in Children /\ NoProcess \in Processes
    BY DEF NoChild, Children, NoProcess, Processes, Statuses
  <2> QED
    BY <2>1, <2>2, <2>3, <2>4 DEF Init, IInv, TypeOK
<1> QED
  BY <1>1, StepPreserves, PTL DEF Spec

(* libevent never has an event of a handle whose process is gone, and has   *)
(* both as long as there is one (ProcessHandle::activate and cancel).       *)
THEOREM EventsFollow == Spec => []EventsFollowProcess
<1>1. IInv => EventsFollowProcess
  BY DEF IInv, ProcessInv, EventsFollowProcess
<1> QED
  BY <1>1, Invariant, PTL

(* What Process says of the end of the child is how the child ended, and    *)
(* nobody reaps a child that is thought to run.                             *)
THEOREM Status == Spec => []StatusIsTrue
<1>1. IInv => StatusIsTrue
  BY DEF IInv, StatusIsTrue
<1> QED
  BY <1>1, Invariant, PTL

(* Closed is reported of a child that has ended, after a stream of it was   *)
(* read to the end.                                                         *)
THEOREM Drained == Spec => []ClosedMeansDrained
<1>1. IInv => ClosedMeansDrained
  <2> SUFFICES ASSUME IInv, fault = "none", Doing("callback"), Head(todo) = Callback("Closed"), Len(todo) > 2
               PROVE  Ended /\ \E s \in Streams \ process.open : pipe[s] = 0
    BY DEF ClosedMeansDrained
  <2>1. /\ todo \in Seq(Items) /\ Chain(todo) /\ todo # <<>>
        /\ todo[1].do = "callback" /\ todo[1].kind = "Closed"
    <3>1. todo \in Seq(Items) /\ Chain(todo) /\ todo # <<>>
      BY DEF Doing, IInv, TypeOK, StackInv
    <3> QED
      BY <3>1, TailFacts DEF Callback
  <2>2. Has(todo, "cancel")
    BY <2>1, StackFacts
  <2> QED
    BY <2>2 DEF IInv, StackInv, OneDrained
<1> QED
  BY <1>1, Invariant, PTL

(* A handle lets go of its process only when the child was reaped, or was   *)
(* stopped when it was waited for.                                          *)
THEOREM NobodyLeft == Spec => []NobodyLeftBehind
<1>1. IInv => NobodyLeftBehind
  BY DEF IInv, NobodyLeftBehind
<1> QED
  BY <1>1, Invariant, PTL
=============================================================================
