---------------------------- MODULE ChildProcess ----------------------------
(***************************************************************************)
(* A child process under the event loop: the ProcessHandle of              *)
(* platform/event_loop_libevent.cpp, Process (base/process.cpp) and the    *)
(* pipes (io/pipe_stream.cpp). The child writes, is stopped and ends when  *)
(* it likes. The handle runs on the thread of the loop: todo lists what is *)
(* still to be done on its stack, the first item first, and is empty while *)
(* the thread is in event_base_loop. The callback may read, wait and kill,  *)
(* and cancel its own handle.                                              *)
(***************************************************************************)
EXTENDS Integers, Sequences

CONSTANTS
    Chunks,     \* what the child writes to each stream at most
    PipeRoom,   \* what a pipe holds
    MaxRuns     \* how many times the handle is activated

ASSUME BoundsAssumption == Chunks \in Nat /\ PipeRoom \in Nat /\ MaxRuns \in Nat

VARIABLES
    child,      \* the operating system's side: the process and what it has to write
    pipe,       \* what is in each pipe
    process,    \* the Process of the handle
    event,      \* the events of libevent, one for each stream
    todo,       \* the stack of the loop's thread
    fault       \* what undefined behaviour was met

vars == <<child, pipe, process, event, todo, fault>>

Streams == {"stdout", "stderr"}
Kinds == {"Ready", "StdOut", "StdErr", "Closed", "Timeout"}
Statuses == {"Running", "Exited", "Terminated", "Stopped"}
EventOf(s) == IF s = "stdout" THEN "StdOut" ELSE "StdErr"

(* Items of todo.                                                           *)
Callback(kind) == [do |-> "callback", kind |-> kind]
Check(s) == [do |-> "check", stream |-> s]
Do(what) == [do |-> what]
Wait(signal) == [do |-> "wait", signal |-> signal]
Doing(what) == todo # <<>> /\ Head(todo).do = what
Idle == todo = <<>>

NoProcess == [exists |-> FALSE, pid |-> FALSE, status |-> "Running", open |-> {}]
NoChild == [state |-> "none", how |-> "none", hangup |-> FALSE, forgotten |-> FALSE,
            left |-> [s \in Streams |-> 0], runs |-> 0]

Init ==
    /\ child = NoChild
    /\ pipe = [s \in Streams |-> 0]
    /\ process = NoProcess
    /\ event = [s \in Streams |-> FALSE]
    /\ todo = <<>>
    /\ fault = "none"

-----------------------------------------------------------------------------
(* The child.                                                               *)
Alive == child.state \in {"running", "stopped"}
Ended == child.state \in {"ended", "reaped"}

Write(s) ==
    /\ child.state = "running" /\ child.left[s] > 0 /\ pipe[s] < PipeRoom
    /\ child' = [child EXCEPT !.left[s] = @ - 1]
    /\ pipe' = [pipe EXCEPT ![s] = @ + 1]
    /\ UNCHANGED <<process, event, todo, fault>>

Exit ==
    /\ child.state = "running"
    /\ child' = [child EXCEPT !.state = "ended", !.how = "exit"]
    /\ UNCHANGED <<pipe, process, event, todo, fault>>

Die ==
    /\ child.state = "running" /\ child.hangup
    /\ child' = [child EXCEPT !.state = "ended", !.how = "signal"]
    /\ UNCHANGED <<pipe, process, event, todo, fault>>

Stop ==
    /\ child.state = "running" /\ ~child.hangup
    /\ child' = [child EXCEPT !.state = "stopped"]
    /\ UNCHANGED <<pipe, process, event, todo, fault>>

Continue ==
    /\ child.state = "stopped"
    /\ child' = [child EXCEPT !.state = "running"]
    /\ UNCHANGED <<pipe, process, event, todo, fault>>

-----------------------------------------------------------------------------
(* The pipes. The copies that the child keeps of the descriptors it was     *)
(* forked with keep its ends open until it ends.                            *)
\* Mutant: a pipe that is empty is taken for one that is at its end.
EndOfFile_Empty(s) == pipe[s] = 0
EndOfFile(s) == pipe[s] = 0 /\ Ended
Readable(s) == s \in process.open /\ (pipe[s] > 0 \/ EndOfFile(s))

(* InputPipeStream::read by the callback; at the end it closes the stream.  *)
(* The handle asks for that only after it reported output of the stream.    *)
(* When the last open one is closed in any other call, no event of either   *)
(* comes any more, and the handle never learns that the child has ended.    *)
WillLookAgain == \E i \in DOMAIN todo : todo[i].do \in {"check", "cancel"}

read(s) ==
    /\ Doing("callback") /\ process.exists /\ Readable(s)
    /\ pipe' = [pipe EXCEPT ![s] = IF @ > 0 THEN @ - 1 ELSE 0]
    /\ process' = [process EXCEPT !.open = IF EndOfFile(s) THEN @ \ {s} ELSE @]
    /\ fault' = IF EndOfFile(s) /\ process.open = {s} /\ ~WillLookAgain THEN "closed unseen" ELSE fault
    /\ UNCHANGED <<child, event, todo>>

-----------------------------------------------------------------------------
(* Process. When fork fails, popen raises before there is a Process, and    *)
(* everything is as it was.                                                 *)
popen ==
    /\ child' = [NoChild EXCEPT !.state = "running", !.left = [s \in Streams |-> Chunks], !.runs = child.runs + 1]
    /\ pipe' = [s \in Streams |-> 0]
    /\ process' = [exists |-> TRUE, pid |-> TRUE, status |-> "Running", open |-> Streams]

(* kill(SIGHUP), then wait, for a process that is thought to run.           *)
CallsKill == process.exists /\ process.status = "Running"

\* Mutant: the signal is not sent before the wait.
kill_NoSignal(rest) == child' = child /\ todo' = (IF CallsKill THEN <<Wait(TRUE)>> ELSE <<>>) \o rest

\* Mutant: nobody waits for the child that was sent the signal.
kill_NoWait(rest) ==
    child' = [child EXCEPT !.hangup = @ \/ (CallsKill /\ Alive)] /\ todo' = rest

kill(rest) ==
    IF CallsKill
    THEN /\ child' = [child EXCEPT !.hangup = @ \/ Alive]
         /\ todo' = (IF process.pid THEN <<Wait(TRUE)>> ELSE <<>>) \o rest
    ELSE child' = child /\ todo' = rest

(* wait4 returns for a child that ended, and once for one that is stopped,  *)
(* which is then taken for gone.                                            *)
\* Mutant: every status that wait4 returns is taken for an exit.
get_status_Exited ==
    /\ Doing("wait") /\ child.state \in {"ended", "stopped"}
    /\ child' = [child EXCEPT !.state = IF @ = "ended" THEN "reaped" ELSE @,
                              !.forgotten = child.state = "stopped"]
    /\ process' = [process EXCEPT !.pid = FALSE, !.status = "Exited"]
    /\ todo' = Tail(todo)
    /\ UNCHANGED <<pipe, event, fault>>

get_status ==
    /\ Doing("wait") /\ child.state \in {"ended", "stopped"}
    /\ child' = [child EXCEPT !.state = IF @ = "ended" THEN "reaped" ELSE @,
                              !.forgotten = child.state = "stopped"]
    /\ process' = [process EXCEPT
                     !.pid = FALSE,
                     !.status = CASE child.state = "stopped" -> "Stopped"
                                  [] child.how = "exit"      -> "Exited"
                                  [] OTHER                   -> "Terminated"]
    /\ todo' = Tail(todo)
    /\ UNCHANGED <<pipe, event, fault>>

(* When a signal interrupts wait4, the status is read uninitialized.        *)
Interrupted ==
    /\ Doing("wait")
    /\ \E status \in Statuses :
         process' = [process EXCEPT !.status = status, !.pid = status = "Running"]
    /\ todo' = Tail(todo) /\ fault' = "uninitialized status"
    /\ UNCHANGED <<child, pipe, event>>

-----------------------------------------------------------------------------
(* The handle.                                                              *)
activate ==
    /\ Idle /\ ~process.exists /\ child.runs < MaxRuns /\ child.state \in {"none", "reaped"}
    /\ popen
    /\ event' = [s \in Streams |-> TRUE]
    /\ todo' = <<Callback("Ready")>>
    /\ UNCHANGED fault

cancel ==
    /\ Idle /\ process.exists
    /\ kill(<<Do("drop")>>)
    /\ UNCHANGED <<pipe, process, event, fault>>

CancelInside ==
    /\ Doing("cancel")
    /\ kill(<<Do("drop")>> \o Tail(todo))
    /\ UNCHANGED <<pipe, process, event, fault>>

\* Mutant: the events of the streams that are closed stay.
Drop_KeepEvents ==
    /\ Doing("drop")
    /\ process' = NoProcess
    /\ todo' = Tail(todo)
    /\ UNCHANGED <<child, pipe, event, fault>>

(* process = nullptr, which closes the pipes, and the events freed.         *)
Drop ==
    /\ Doing("drop")
    /\ process' = NoProcess
    /\ event' = [s \in Streams |-> FALSE]
    /\ todo' = Tail(todo)
    /\ UNCHANGED <<child, pipe, fault>>

(* invoke: when the stream was found closed Closed is reported and the      *)
(* handle cancelled; and in any case the callback is called once more, with *)
(* an uninitialized event and a reference to the process, or to null.       *)
invoke(s) ==
    /\ Idle /\ event[s] /\ Readable(s)
    /\ todo' = <<Callback(EventOf(s)), Check(s), Do("garbage")>>
    /\ UNCHANGED <<child, pipe, process, event, fault>>

\* Mutant: Closed is reported and the process kept.
IsClosed_NoCancel(s) ==
    /\ Doing("check") /\ Head(todo).stream = s /\ process.exists
    /\ todo' = (IF s \in process.open THEN <<>> ELSE <<Callback("Closed")>>) \o Tail(todo)
    /\ UNCHANGED <<child, pipe, process, event, fault>>

IsClosed(s) ==
    /\ Doing("check") /\ Head(todo).stream = s /\ process.exists
    /\ todo' = (IF s \in process.open THEN <<>> ELSE <<Callback("Closed"), Do("cancel")>>) \o Tail(todo)
    /\ UNCHANGED <<child, pipe, process, event, fault>>

Garbage ==
    /\ Doing("garbage")
    /\ \E kind \in Kinds : todo' = <<Callback(kind)>> \o Tail(todo)
    /\ UNCHANGED <<child, pipe, process, event, fault>>

Timeout(s) ==
    /\ Idle /\ event[s]
    /\ todo' = <<Callback("Timeout")>>
    /\ UNCHANGED <<child, pipe, process, event, fault>>

(* What the callback does besides reading. Process::wait sends no signal:   *)
(* it may wait for a child that runs on, or that waits for its output to be *)
(* read. kill sends SIGHUP before it waits.                                 *)
CallbackWaits ==
    /\ Doing("callback") /\ process.exists /\ process.pid
    /\ todo' = <<Wait(FALSE)>> \o todo
    /\ UNCHANGED <<child, pipe, process, event, fault>>

CallbackKills ==
    /\ Doing("callback") /\ CallsKill
    /\ kill(todo)
    /\ UNCHANGED <<pipe, process, event, fault>>

(* IEventHandle::cancel of the handle whose callback this is; invoke then   *)
(* goes on with a process that is gone.                                     *)
CallbackCancels ==
    /\ Doing("callback") /\ process.exists
    /\ kill(<<Do("drop")>> \o todo)
    /\ UNCHANGED <<pipe, process, event, fault>>

NullIsUsed ==
    /\ Doing("callback") \/ Doing("check")
    /\ ~process.exists
    /\ fault' = "null process"
    /\ UNCHANGED <<child, pipe, process, event, todo>>

CallbackReturns ==
    /\ Doing("callback")
    /\ todo' = Tail(todo)
    /\ UNCHANGED <<child, pipe, process, event, fault>>

-----------------------------------------------------------------------------
ChildNext == (\E s \in Streams : Write(s)) \/ Exit \/ Die \/ Stop \/ Continue

HandleNext ==
    \/ activate \/ cancel \/ CancelInside \/ Drop \/ get_status \/ Interrupted \/ Garbage
    \/ CallbackWaits \/ CallbackKills \/ CallbackCancels \/ CallbackReturns \/ NullIsUsed
    \/ \E s \in Streams : read(s) \/ invoke(s) \/ IsClosed(s) \/ Timeout(s)

Next == fault = "none" /\ (ChildNext \/ HandleNext)

(* The loop goes on, libevent gets around to every event that is ready, a   *)
(* callback for output reads it and returns, and SIGHUP ends the child.     *)
ReadWhatIsThere(s) == read(s) /\ Head(todo) = Callback(EventOf(s))

Fairness ==
    /\ WF_vars(Next /\ (CancelInside \/ Drop \/ get_status \/ Garbage \/ CallbackReturns))
    /\ WF_vars(Next /\ Die)
    /\ \A s \in Streams : /\ WF_vars(Next /\ IsClosed(s))
                          /\ SF_vars(Next /\ invoke(s))
                          /\ SF_vars(Next /\ ReadWhatIsThere(s))

Spec == Init /\ [][Next]_vars /\ Fairness

-----------------------------------------------------------------------------
(* While the thread is in the loop, both events are there exactly as long   *)
(* as the process is: libevent never calls a handle whose process is gone   *)
(* (ProcessHandle::activate and cancel).                                    *)
EventsFollowProcess == fault = "none" /\ Idle => \A s \in Streams : event[s] <=> process.exists

(* Process says Exited or Terminated only of a child that ended that way,   *)
(* and as long as it takes it for running nobody else has reaped it.        *)
StatusIsTrue ==
    fault = "none" /\ process.exists =>
        CASE process.status = "Exited"     -> child.state = "reaped" /\ child.how = "exit"
          [] process.status = "Terminated" -> child.state = "reaped" /\ child.how = "signal"
          [] process.status = "Stopped"    -> child.forgotten
          [] OTHER                         -> child.state \in {"running", "stopped", "ended"}

(* Closed is reported when the child has ended and there is nothing left to *)
(* read in the stream that was closed; the other one may lose its rest.     *)
ClosedMeansDrained ==
    fault = "none" /\ Doing("callback") /\ Head(todo) = Callback("Closed") /\ Len(todo) > 2 =>
        Ended /\ \E s \in Streams \ process.open : pipe[s] = 0

(* A handle without a process leaves no child behind, no zombie either, but *)
(* for a child that was stopped when it was waited for.                     *)
NobodyLeftBehind == fault = "none" /\ ~process.exists => child.state \in {"none", "reaped"} \/ child.forgotten

(* The end of the child is noticed: the handle lets go of its process.      *)
EndIsNoticed == (Ended /\ process.exists) ~> (~process.exists \/ fault # "none")

(* kill and cancel come back: the child that was sent SIGHUP ends, whatever *)
(* it was blocked in. A wait that nobody sent a signal for comes back when  *)
(* the child has ended; before that nothing is promised.                    *)
KillReturns == Doing("wait") /\ (Head(todo).signal \/ Ended) ~> (~Doing("wait") \/ fault # "none")
=============================================================================
