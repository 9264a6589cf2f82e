---------------------------- MODULE ProcessRunner ----------------------------
(***************************************************************************)
(* One command run by the guest (ProcessRunner::run and monitor_child in   *)
(* include/axiom/process.hpp): the child is started with its output on a   *)
(* pipe, a private epoll set watches the pipe and, if there is one, the    *)
(* pidfd, and the child is killed when the request's timeout has passed.   *)
(*                                                                         *)
(* The child, the processes it leaves in the background and the clock run  *)
(* concurrently with the runner.  One tick of the clock is the 10 ms that  *)
(* epoll_wait is given at the least; a byte of the pipe is "c" when the    *)
(* child wrote it and "b" when a background process did.                   *)
(***************************************************************************)
EXTENDS Integers, Sequences, SequencesExt, FiniteSetsExt

CONSTANTS Timeouts,   \* values of ExecOptions::timeout_ms, in ticks
          Codes,      \* how a command may end: its exit codes, 128 + n for signals of others
          IntMax,     \* largest value of an int, in ticks
          KillWait,   \* the 500 ms the runner waits after a kill, in ticks
          MaxNow,     \* bound: the clock stops there, after every timeout
          PipeSize,   \* bytes the pipe holds
          ReadSize,   \* bytes drain_pipe reads at a time
          MaxForks,   \* bound: background processes at a time
          Writes,     \* bound: bytes written, unless Endless
          Endless,    \* whether the processes may go on writing for ever
          Faults      \* whether system calls of the runner may fail

ASSUME RunnerAssumption ==
  /\ Timeouts \subseteq Nat \ {0} /\ Codes \subseteq Nat
  /\ {IntMax, KillWait, PipeSize, ReadSize} \subseteq Nat \ {0}
  /\ {MaxNow, MaxForks, Writes} \subseteq Nat
  /\ MaxNow <= IntMax /\ \A t \in Timeouts : t <= MaxNow \/ t > IntMax
  /\ Endless \in BOOLEAN /\ Faults \in BOOLEAN

VARIABLES
  child,       \* "none", "running", "exiting", "zombie", "reaped"
  code,        \* how the child has ended, NoCode until it does
  holds,       \* whether the child has the write end of the pipe open
  behind,      \* background processes that have it open
  budget,      \* bytes the processes will still write
  pipe,        \* bytes in the pipe
  now,         \* ticks since start_time
  pc,          \* where the runner is
  pidfd,       \* whether there is a pidfd
  timeout,     \* ExecOptions::timeout_ms
  watched,     \* the epoll set
  remaining,   \* remaining_ms
  left,        \* ticks until the current epoll_wait times out
  batch,       \* events still to be handled
  hup,         \* EPOLLHUP was set in the pipe event being handled
  childDone, pipeClosed,
  killed,      \* the child has been sent SIGKILL
  stray,       \* history: a kill was sent after the child had been reaped
  result,      \* ExecResult: [code, timedOut], or NoResult on an error
  broke        \* history: a system call of the runner failed

processVars == <<child, code, holds, behind, budget, pipe>>
setup == <<pidfd, timeout, watched>>
loopVars == <<remaining, left, batch, hup, childDone, pipeClosed>>
vars == <<processVars, now, pc, setup, loopVars, killed, stray, result, broke>>

NoCode == -1
NoResult == [code |-> NoCode, timedOut |-> FALSE]
KillCode == 137   \* 128 + SIGKILL

Init ==
  /\ child = "none" /\ code = NoCode /\ holds = FALSE /\ behind = 0
  /\ budget = Writes /\ pipe = <<>>
  /\ now = 0 /\ pc = "start"
  /\ pidfd = TRUE /\ timeout \in Timeouts /\ watched = {}
  /\ remaining = 0 /\ left = 0 /\ batch = {} /\ hup = FALSE
  /\ childDone = FALSE /\ pipeClosed = FALSE
  /\ killed = FALSE /\ stray = FALSE /\ result = NoResult /\ broke = FALSE

-----------------------------------------------------------------------------
(* The command and what it leaves in the background. *)

Spend == budget' = IF Endless THEN budget ELSE budget - 1

ChildWrites ==
  /\ child = "running" /\ holds
  /\ Len(pipe) < PipeSize /\ budget > 0
  /\ pipe' = Append(pipe, "c") /\ Spend
  /\ UNCHANGED <<child, code, holds, behind, now, pc, setup, loopVars, killed, stray, result, broke>>

BackgroundWrites ==
  /\ behind > 0
  /\ Len(pipe) < PipeSize /\ budget > 0
  /\ pipe' = Append(pipe, "b") /\ Spend
  /\ UNCHANGED <<child, code, holds, behind, now, pc, setup, loopVars, killed, stray, result, broke>>

ChildForks ==
  /\ child = "running" /\ holds /\ behind < MaxForks
  /\ behind' = behind + 1
  /\ UNCHANGED <<child, code, holds, budget, pipe, now, pc, setup, loopVars, killed, stray, result, broke>>

BackgroundEnds ==
  /\ behind > 0
  /\ behind' = behind - 1
  /\ UNCHANGED <<child, code, holds, budget, pipe, now, pc, setup, loopVars, killed, stray, result, broke>>

ChildClosesOutput ==
  /\ child = "running" /\ holds
  /\ holds' = FALSE
  /\ UNCHANGED <<child, code, behind, budget, pipe, now, pc, setup, loopVars, killed, stray, result, broke>>

\* The kernel closes the descriptors of a process before it can be waited for.
Exits(c) ==
  /\ child = "running"
  /\ child' = "exiting" /\ code' = c /\ holds' = FALSE
  /\ UNCHANGED <<behind, budget, pipe, now, pc, setup, loopVars, killed, stray, result, broke>>

\* It exits, or dies of a signal: its own, the kernel's when memory is short, anybody's.
ChildExits == \E c \in Codes : Exits(c)
\* It dies of the runner's signal.
ChildKilled == killed /\ Exits(KillCode)

ChildTerminates ==
  /\ child = "exiting"
  /\ child' = "zombie"
  /\ UNCHANGED <<code, holds, behind, budget, pipe, now, pc, setup, loopVars, killed, stray, result, broke>>

Processes ==
  \/ ChildWrites \/ BackgroundWrites \/ ChildForks \/ BackgroundEnds
  \/ ChildClosesOutput \/ ChildExits \/ ChildKilled \/ ChildTerminates

Tick ==
  /\ pc \notin {"start", "watch", "returned"}
  /\ now' = Min({now + 1, MaxNow})
  /\ left' = Max({left - 1, 0})
  /\ UNCHANGED <<processVars, pc, setup, remaining, batch, hup, childDone, pipeClosed,
                 killed, stray, result, broke>>

-----------------------------------------------------------------------------
(* The runner. *)

\* pipe2, clone3, and the write end closed in the parent.  Without clone3 the
\* child is forked, and pidfd_open may fail.
Spawn ==
  /\ pc = "start"
  /\ child' = "running" /\ holds' = TRUE
  /\ pidfd' \in {TRUE, ~Faults}
  /\ pc' = "watch"
  /\ UNCHANGED <<code, behind, budget, pipe, now, timeout, watched, loopVars, killed, stray, result, broke>>

\* Reactor::create and add; start_time is taken afterwards.
Watch ==
  /\ pc = "watch"
  /\ watched' = {"pipe"} \cup {w \in {"pidfd"} : pidfd}
  /\ result' = [code |-> NoCode, timedOut |-> FALSE]
  /\ pc' = "check"
  /\ UNCHANGED <<processVars, now, pidfd, timeout, loopVars, killed, stray, broke>>

\* The child cannot be started, or it runs but cannot be watched: run returns
\* an error at once and leaves a child that was started alone.
Fails ==
  /\ Faults /\ pc \in {"start", "watch"}
  /\ pc' = "returned" /\ broke' = TRUE
  /\ UNCHANGED <<processVars, now, setup, loopVars, killed, stray, result>>

\* static_cast<int> of an unsigned number of milliseconds.
ToInt(n) == IF n > IntMax THEN n - 2 * (IntMax + 1) ELSE n

\* kill_child, with the flag the callers set before it.
Kill ==
  /\ killed' = (killed \/ child # "reaped")
  /\ stray' = (stray \/ child = "reaped")
  /\ result' = [result EXCEPT !.timedOut = TRUE]

OverWithPipe == pipeClosed   \* mutant: the loop does not wait for the child
Over == childDone /\ pipeClosed

Expired(r) == r <= 0

\* The head of the loop, up to the call of epoll_wait.
Check ==
  /\ pc = "check" /\ ~Over
  /\ LET r == ToInt(timeout) - now IN
       IF Expired(r)
       THEN Kill /\ remaining' = KillWait
       ELSE remaining' = r /\ UNCHANGED <<killed, stray, result>>
  /\ left' = Max({1, remaining'})
  /\ pc' = "wait"
  /\ UNCHANGED <<processVars, now, setup, batch, hup, childDone, pipeClosed, broke>>

NoWriters == ~holds /\ behind = 0

Ready ==
  {[fd |-> "pipe", hup |-> NoWriters] : w \in {v \in watched : v = "pipe" /\ (pipe # <<>> \/ NoWriters)}}
  \cup {[fd |-> "pidfd", hup |-> FALSE] : w \in {v \in watched : v = "pidfd" /\ child \in {"zombie", "reaped"}}}

WaitReturns ==
  /\ pc = "wait" /\ Ready # {}
  /\ batch' = Ready /\ pc' = "events"
  /\ UNCHANGED <<processVars, now, setup, remaining, left, hup, childDone, pipeClosed,
                 killed, stray, result, broke>>

WaitExpires ==
  /\ pc = "wait" /\ Ready = {} /\ left = 0
  /\ IF remaining <= 1 THEN Kill ELSE UNCHANGED <<killed, stray, result>>
  /\ pc' = "reap"
  /\ UNCHANGED <<processVars, now, setup, loopVars, broke>>

WaitFails ==
  /\ pc = "wait" /\ Faults
  /\ broke' = TRUE /\ pc' = "leave"
  /\ UNCHANGED <<processVars, now, setup, loopVars, killed, stray, result>>

PipeEvent ==
  /\ pc = "events"
  /\ \E e \in batch : e.fd = "pipe" /\ batch' = batch \ {e} /\ hup' = e.hup
  /\ pc' = "drain"
  /\ UNCHANGED <<processVars, now, setup, remaining, left, childDone, pipeClosed,
                 killed, stray, result, broke>>

\* drain_pipe: read until the pipe is empty.
Drain ==
  /\ pc \in {"drain", "lastDrain"} /\ pipe # <<>>
  /\ pipe' = SubSeq(pipe, Min({ReadSize, Len(pipe)}) + 1, Len(pipe))
  /\ UNCHANGED <<child, code, holds, behind, budget, now, pc, setup, loopVars, killed, stray, result, broke>>

OnceRead == TRUE           \* mutant: drain_pipe reads once
PipeEmpty == pipe = <<>>   \* read returns EAGAIN, or 0

ClosePipe == pipeClosed' = TRUE /\ watched' = watched \ {"pipe"}

Drained ==
  /\ pc \in {"drain", "lastDrain"} /\ PipeEmpty
  /\ IF hup \/ pc = "lastDrain" THEN ClosePipe ELSE UNCHANGED <<pipeClosed, watched>>
  /\ pc' = IF pc = "drain" THEN "events" ELSE "check"
  /\ UNCHANGED <<processVars, now, pidfd, timeout, remaining, left, batch, hup, childDone,
                 killed, stray, result, broke>>

CollectAsSignal ==   \* mutant: every status is taken for a signal's
  /\ child' = "reaped" /\ childDone' = TRUE
  /\ result' = [result EXCEPT !.code = 128 + code]

\* waitid or waitpid with WNOHANG, whose status is the result.
Collect ==
  /\ child' = "reaped" /\ childDone' = TRUE
  /\ result' = [result EXCEPT !.code = code]

PidfdEvent ==
  /\ pc = "events"
  /\ \E e \in batch : e.fd = "pidfd" /\ batch' = batch \ {e}
  /\ IF child = "zombie"
     THEN Collect /\ watched' = watched \ {"pidfd"}
     ELSE UNCHANGED <<child, childDone, result, watched>>
  /\ UNCHANGED <<code, holds, behind, budget, pipe, now, pc, pidfd, timeout, remaining, left, hup,
                 pipeClosed, killed, stray, broke>>

EventsDone ==
  /\ pc = "events" /\ batch = {}
  /\ pc' = "reap"
  /\ UNCHANGED <<processVars, now, setup, loopVars, killed, stray, result, broke>>

NoLastDrain == FALSE                   \* mutant: what is left in the pipe is lost
LastDrain == childDone' /\ ~pipeClosed

\* The end of the loop's body.
Reap ==
  /\ pc = "reap"
  /\ IF ~childDone /\ ~pidfd /\ child = "zombie"
     THEN Collect
     ELSE UNCHANGED <<child, childDone, result>>
  /\ pc' = IF LastDrain THEN "lastDrain" ELSE "check"
  /\ UNCHANGED <<code, holds, behind, budget, pipe, now, setup, remaining, left, batch, hup,
                 pipeClosed, killed, stray, broke>>

Finish ==
  /\ pc = "check" /\ Over
  /\ pc' = "leave"
  /\ UNCHANGED <<processVars, now, setup, loopVars, killed, stray, result, broke>>

\* After the loop: a child not waited for is, if it has terminated.
Leave ==
  /\ pc = "leave"
  /\ child' = IF ~childDone /\ child = "zombie" THEN "reaped" ELSE child
  /\ pc' = "returned"
  /\ UNCHANGED <<code, holds, behind, budget, pipe, now, setup, loopVars, killed, stray, result, broke>>

Runner ==
  \/ Spawn \/ Watch \/ Fails \/ Check \/ WaitReturns \/ WaitExpires \/ WaitFails
  \/ PipeEvent \/ Drain \/ Drained \/ PidfdEvent \/ EventsDone \/ Reap \/ Finish \/ Leave

Returned == pc = "returned" /\ UNCHANGED vars

Next == Runner \/ Processes \/ Tick \/ Returned

Spec == Init /\ [][Next]_vars

\* The runner and the clock go on and the kernel delivers SIGKILL and ends an
\* exiting process; the command itself owes nobody anything.
FairSpec ==
  /\ Spec
  /\ WF_vars(Runner) /\ WF_vars(Tick)
  /\ WF_vars(ChildKilled) /\ WF_vars(ChildTerminates)

-----------------------------------------------------------------------------
Statuses == Codes \cup {NoCode, KillCode}

TypeOK ==
  /\ child \in {"none", "running", "exiting", "zombie", "reaped"}
  /\ code \in Statuses
  /\ holds \in BOOLEAN /\ behind \in 0..MaxForks /\ budget \in 0..Writes
  /\ pipe \in Seq({"c", "b"}) /\ Len(pipe) <= PipeSize
  /\ now \in 0..MaxNow
  /\ pc \in {"start", "watch", "check", "wait", "events", "drain", "lastDrain", "reap", "leave", "returned"}
  /\ pidfd \in BOOLEAN /\ timeout \in Timeouts /\ watched \subseteq {"pipe", "pidfd"}
  /\ remaining \in Int /\ left \in Nat
  /\ batch \subseteq [fd : {"pipe", "pidfd"}, hup : BOOLEAN]
  /\ hup \in BOOLEAN /\ childDone \in BOOLEAN /\ pipeClosed \in BOOLEAN
  /\ killed \in BOOLEAN /\ stray \in BOOLEAN /\ broke \in BOOLEAN
  /\ result \in [code : Statuses, timedOut : BOOLEAN]

Answered == pc = "returned" /\ result.code # NoCode

\* The result of a command is the whole of it: when run answers with an exit
\* code, every byte the child wrote before it ended has been read, however its
\* end, the hang-up of the pipe and the expiry of the timeout followed each other.
OutputComplete ==
  Answered => \A i \in 1..Len(pipe) : pipe[i] # "c"

\* The outcome is the child's own: unless a system call fails it is waited for and how it
\* ended is reported; a command is not declared timed out before its time (if the timeout
\* fits an int), and one the runner has sent SIGKILL always is, whether or not that was
\* what ended it: 137 without the flag is the doing of somebody else.
OutcomeIsTheChilds ==
  /\ pc = "returned" => broke \/ (child = "reaped" /\ result.code = code)
  /\ result.timedOut /\ timeout <= IntMax => now >= timeout
  /\ pc = "returned" /\ killed => result.timedOut

\* Without a pidfd the kill goes to a process id, which the kernel may give away
\* once the child has been reaped: no kill is sent after that.
NoStrayKill == ~stray

\* "Expected non-zero exit code on timeout" (tests/integration/
\* test_process_integration.cpp:137).
TimedOutIsFailure == Answered /\ result.timedOut => result.code # 0

\* "Tests timeout detection and SIGKILL termination" (tests/integration/
\* test_process_integration.cpp:120): run returns, though the command never
\* ends, closes its output or leaves processes behind that hold it open.
AlwaysReturns == <>(pc = "returned")

=============================================================================
