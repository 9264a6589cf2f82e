------------------------- MODULE ProcessRunnerProofs -------------------------
(***************************************************************************)
(* TLAPS proofs about ProcessRunner: however the exit of the child, its    *)
(* last output, the hang-up of the pipe and the timeout follow each other, *)
(* and whatever runs on in the background, the answer is complete, it is   *)
(* the child's own, and no kill is sent to a number given away.            *)
(***************************************************************************)
EXTENDS ProcessRunner, TLAPS

\* Where a child that has been waited for leaves the runner: before the loop, never;
\* at its head and behind it, with the pipe closed; in epoll_wait, never.
Reaped ==
  /\ childDone => child = "reaped" /\ result.code = code
  /\ child = "reaped" => childDone \/ pc = "returned"
  /\ result.code # NoCode => childDone
  /\ pc \in {"start", "watch", "wait"} => ~childDone
  /\ pc \in {"check", "leave", "returned"} /\ childDone => pipeClosed
  /\ pc = "leave" => childDone \/ broke
  /\ pc = "returned" => broke \/ childDone
  /\ pc = "lastDrain" => childDone

\* Nothing of the child's is lost: a pipe is closed when it is empty and the child, or
\* everyone, has let go of it.
Flushed ==
  /\ holds => child = "running"
  /\ pc = "start" => child = "none" /\ batch = {} /\ behind = 0 /\ ~pipeClosed
  /\ \A e \in batch : e.hup => NoWriters
  /\ pc = "drain" /\ hup => NoWriters
  /\ pipeClosed => ~holds /\ \A i \in 1 .. Len(pipe) : pipe[i] # "c"

\* A timeout that fits an int is not declared early, and only a command that is
\* declared timed out is killed.
Timely ==
  /\ result.timedOut /\ timeout <= IntMax => now >= timeout
  /\ pc = "wait" /\ ~result.timedOut /\ timeout <= IntMax => now >= timeout \/ now + left >= timeout
  /\ killed => result.timedOut
  /\ pc \in {"start", "watch"} => ~killed

IInv == TypeOK /\ Reaped /\ Flushed /\ Timely /\ NoStrayKill

-----------------------------------------------------------------------------
(* Minimum and maximum of two. *)

LEMMA MinOfTwo ==
  ASSUME NEW a \in Int, NEW b \in Int
  PROVE  Min({a, b}) = IF a <= b THEN a ELSE b
<1>. DEFINE m == IF a <= b THEN a ELSE b
<1>1. m \in {a, b} /\ \A y \in {a, b} : m <= y
  OBVIOUS
<1>2. \A x \in {a, b} : (\A y \in {a, b} : x <= y) => x = m
  OBVIOUS
<1>. HIDE DEF m
<1>3. Min({a, b}) = m
  BY <1>1, <1>2 DEF Min
<1>. QED  BY <1>3 DEF m

LEMMA MaxOfTwo ==
  ASSUME NEW a \in Int, NEW b \in Int
  PROVE  Max({a, b}) = IF a >= b THEN a ELSE b
<1>. DEFINE m == IF a >= b THEN a ELSE b
<1>1. m \in {a, b} /\ \A y \in {a, b} : m >= y
  OBVIOUS
<1>2. \A x \in {a, b} : (\A y \in {a, b} : x >= y) => x = m
  OBVIOUS
<1>. HIDE DEF m
<1>3. Max({a, b}) = m
  BY <1>1, <1>2 DEF Max
<1>. QED  BY <1>3 DEF m

LEMMA Deadline ==
  ASSUME NEW a \in Int, NEW b \in Int, NEW c \in Int, a >= b - c
  PROVE  c + a >= b
OBVIOUS

LEMMA InitKeeps == Init => IInv
<1>. SUFFICES ASSUME Init PROVE IInv
  OBVIOUS
<1>1. TypeOK
  <2>1. /\ holds \in BOOLEAN /\ pidfd \in BOOLEAN /\ hup \in BOOLEAN /\ childDone \in BOOLEAN
        /\ pipeClosed \in BOOLEAN /\ killed \in BOOLEAN /\ stray \in BOOLEAN /\ broke \in BOOLEAN
    BY DEF Init
  <2>2. /\ child = "none" /\ code = NoCode /\ pc = "start" /\ timeout \in Timeouts /\ watched = {} /\ batch = {}
        /\ behind \in 0 .. MaxForks /\ budget \in 0 .. Writes /\ now \in 0 .. MaxNow
        /\ remaining \in Int /\ left \in Nat
    BY RunnerAssumption DEF Init
  <2>3. pipe \in Seq({"c", "b"}) /\ Len(pipe) <= PipeSize
    BY RunnerAssumption DEF Init
  <2>4. result \in [code : Statuses, timedOut : BOOLEAN]
    BY DEF Init, NoResult, Statuses
  <2>. QED  BY <2>1, <2>2, <2>3, <2>4 DEF TypeOK, Statuses
<1>2. Reaped
  BY DEF Init, Reaped, NoResult, NoCode
<1>3. Flushed
  BY DEF Init, Flushed
<1>4. Timely
  BY DEF Init, Timely, NoResult, NoCode, KillCode
<1>5. NoStrayKill
  BY DEF Init, NoStrayKill
<1>. QED  BY <1>1, <1>2, <1>3, <1>4, <1>5 DEF IInv

-----------------------------------------------------------------------------
(* The processes and the clock. *)

\* Bytes that are written while nobody of the child's can write are not the child's.
LEMMA WritesKeep == IInv /\ (ChildWrites \/ BackgroundWrites) => IInv'
<1>. SUFFICES ASSUME IInv, ChildWrites \/ BackgroundWrites PROVE IInv'
  OBVIOUS
<1>1. /\ child' = child /\ code' = code /\ holds' = holds /\ behind' = behind /\ now' = now /\ pc' = pc
      /\ UNCHANGED <<pidfd, timeout, watched, remaining, left, batch, hup, childDone, pipeClosed,
                     killed, stray, result, broke>>
  BY DEF ChildWrites, BackgroundWrites, setup, loopVars
<1>2. TypeOK /\ Reaped /\ Flushed /\ Timely /\ NoStrayKill
  BY DEF IInv
<1>3. PICK b \in {"c", "b"} : pipe' = Append(pipe, b) /\ (b = "c" => holds)
  BY DEF ChildWrites, BackgroundWrites
<1>4. TypeOK'
  <2>1. pipe' \in Seq({"c", "b"}) /\ Len(pipe') <= PipeSize
    BY <1>2, <1>3, RunnerAssumption DEF TypeOK, ChildWrites, BackgroundWrites
  <2>2. budget' \in 0 .. Writes
    <3>1. budget \in 0 .. Writes /\ Writes \in Nat
      BY <1>2, RunnerAssumption DEF TypeOK
    <3>2. budget > 0 /\ (budget' = budget \/ budget' = budget - 1)
      BY DEF ChildWrites, BackgroundWrites, Spend
    <3>. QED  BY <3>1, <3>2
  <2>. QED  BY <1>1, <1>2, <2>1, <2>2 DEF TypeOK
<1>5. Reaped'
  BY <1>1, <1>2 DEF Reaped
<1>6. Flushed'
  <2>1. ASSUME pipeClosed PROVE \A i \in 1 .. Len(pipe') : pipe'[i] # "c"
    <3>1. b # "c" /\ pipe \in Seq({"c", "b"}) /\ \A i \in 1 .. Len(pipe) : pipe[i] # "c"
      BY <1>2, <1>3, <2>1 DEF Flushed, TypeOK
    <3>. QED  BY <1>3, <3>1
  <2>. QED  BY <1>1, <1>2, <2>1 DEF Flushed, NoWriters
<1>7. Timely' /\ NoStrayKill'
  BY <1>1, <1>2 DEF Timely, NoStrayKill
<1>. QED  BY <1>4, <1>5, <1>6, <1>7 DEF IInv

LEMMA ProcessesKeep ==
  ASSUME IInv, ChildForks \/ BackgroundEnds \/ ChildClosesOutput \/ ChildExits \/ ChildKilled \/ ChildTerminates
  PROVE  IInv'
<1>1. /\ now' = now /\ pc' = pc /\ pipe' = pipe /\ budget' = budget
      /\ UNCHANGED <<pidfd, timeout, watched, remaining, left, batch, hup, childDone, pipeClosed,
                     killed, stray, result, broke>>
  BY DEF ChildForks, BackgroundEnds, ChildClosesOutput, ChildExits, ChildKilled, ChildTerminates, Exits, setup, loopVars
<1>2. TypeOK /\ Reaped /\ Flushed /\ Timely /\ NoStrayKill
  BY DEF IInv
<1>3. \/ child' = child
      \/ child = "running" /\ child' = "exiting"
      \/ child = "exiting" /\ child' = "zombie"
  BY DEF ChildForks, BackgroundEnds, ChildClosesOutput, ChildExits, ChildKilled, ChildTerminates, Exits
<1>9. \/ code' = code
      \/ child = "running" /\ code' \in Codes
      \/ child = "running" /\ code' = KillCode /\ killed
  BY DEF ChildForks, BackgroundEnds, ChildClosesOutput, ChildExits, ChildKilled, ChildTerminates, Exits
<1>10. holds' = FALSE \/ (holds' = holds /\ child' = child)
  <2>1. CASE ChildTerminates
    BY <1>2, <2>1 DEF ChildTerminates, TypeOK, Flushed
  <2>. QED  BY <2>1 DEF ChildForks, BackgroundEnds, ChildClosesOutput, ChildExits, ChildKilled, Exits
<1>11. \/ behind' = behind
       \/ behind' = behind + 1 /\ behind < MaxForks /\ child = "running" /\ holds
       \/ behind' = behind - 1 /\ behind > 0
  BY DEF ChildForks, BackgroundEnds, ChildClosesOutput, ChildExits, ChildKilled, ChildTerminates, Exits
<1>12. behind' \in 0 .. MaxForks
  <2>1. behind \in 0 .. MaxForks /\ MaxForks \in Nat
    BY <1>2, RunnerAssumption DEF TypeOK
  <2>. QED  BY <1>11, <2>1
<1>4. TypeOK'
  <2>1. child' \in {"none", "running", "exiting", "zombie", "reaped"} /\ code' \in Statuses
    BY <1>2, <1>3, <1>9 DEF TypeOK, Statuses
  <2>2. holds' \in BOOLEAN
    BY <1>2, <1>10 DEF TypeOK
  <2>. QED  BY <1>1, <1>2, <1>12, <2>1, <2>2 DEF TypeOK
<1>5. Reaped'
  <2>1. (childDone => child = "reaped" /\ result.code = code)' /\ (child = "reaped" => childDone \/ pc = "returned")'
    BY <1>1, <1>2, <1>3, <1>9 DEF Reaped
  <2>. QED  BY <1>1, <1>2, <2>1 DEF Reaped
<1>6. NoWriters => NoWriters'
  BY <1>10, <1>11 DEF NoWriters
<1>7. Flushed'
  <2>1. (holds => child = "running")'
    BY <1>2, <1>10 DEF Flushed
  <2>2. (pc = "start" => child = "none" /\ batch = {} /\ behind = 0 /\ ~pipeClosed)'
    BY <1>1, <1>2, <1>3, <1>11 DEF Flushed
  <2>3. (\A e \in batch : e.hup => NoWriters)' /\ (pc = "drain" /\ hup => NoWriters)'
    BY <1>1, <1>2, <1>6 DEF Flushed
  <2>4. (pipeClosed => ~holds /\ \A i \in 1 .. Len(pipe) : pipe[i] # "c")'
    BY <1>1, <1>2, <1>10 DEF Flushed
  <2>. QED  BY <2>1, <2>2, <2>3, <2>4 DEF Flushed
<1>8. Timely' /\ NoStrayKill'
  BY <1>1, <1>2, <1>9 DEF Timely, NoStrayKill, KillCode
<1>. QED  BY <1>4, <1>5, <1>7, <1>8 DEF IInv

\* The clock and the wait go on together; where the clock stops, every timeout is over.
LEMMA TickKeeps == IInv /\ Tick => IInv'
<1>. SUFFICES ASSUME IInv, Tick PROVE IInv'
  OBVIOUS
<1>1. /\ UNCHANGED <<child, code, holds, behind, budget, pipe, pc, pidfd, timeout, watched, remaining, batch,
                     hup, childDone, pipeClosed, killed, stray, result, broke>>
      /\ now' = Min({now + 1, MaxNow}) /\ left' = Max({left - 1, 0})
  BY DEF Tick, processVars, setup
<1>2. TypeOK /\ Reaped /\ Flushed /\ Timely /\ NoStrayKill
  BY DEF IInv
<1>3. /\ now \in 0 .. MaxNow /\ left \in Nat /\ MaxNow \in Nat /\ IntMax \in Nat /\ timeout \in Nat
      /\ timeout <= IntMax => timeout <= MaxNow
  BY <1>2, RunnerAssumption DEF TypeOK
<1>4. now' = (IF now + 1 <= MaxNow THEN now + 1 ELSE MaxNow)
  BY <1>1, <1>3, MinOfTwo
<1>5. left' = IF left - 1 >= 0 THEN left - 1 ELSE 0
  BY <1>1, <1>3, MaxOfTwo
<1>6. now' \in 0 .. MaxNow /\ left' \in Nat /\ now' >= now /\ (now' + left' >= now + left \/ now' = MaxNow)
  BY <1>3, <1>4, <1>5
<1>7. TypeOK'
  BY <1>1, <1>2, <1>6 DEF TypeOK
<1>8. Reaped' /\ Flushed' /\ NoStrayKill'
  BY <1>1, <1>2 DEF Reaped, Flushed, NoStrayKill, NoWriters
<1>9. Timely'
  <2>1. (result.timedOut /\ timeout <= IntMax => now >= timeout)'
    BY <1>1, <1>2, <1>3, <1>6 DEF Timely
  <2>2. (pc = "wait" /\ ~result.timedOut /\ timeout <= IntMax => now >= timeout \/ now + left >= timeout)'
    BY <1>1, <1>2, <1>3, <1>6 DEF Timely
  <2>. QED  BY <1>1, <1>2, <2>1, <2>2 DEF Timely
<1>. QED  BY <1>7, <1>8, <1>9 DEF IInv

-----------------------------------------------------------------------------
(* The runner. *)

LEMMA SpawnKeeps ==
  ASSUME IInv, Spawn
  PROVE  IInv'
<1>1. /\ pc = "start" /\ pc' = "watch" /\ child' = "running" /\ holds' = TRUE
      /\ UNCHANGED <<code, behind, budget, pipe, now, timeout, watched, remaining, left, batch, hup, childDone,
                     pipeClosed, killed, stray, result, broke>>
  BY DEF Spawn, loopVars
<1>2. TypeOK /\ Reaped /\ Flushed /\ Timely /\ NoStrayKill
  BY DEF IInv
<1>3. pidfd' \in BOOLEAN
  BY RunnerAssumption DEF Spawn
<1>4. TypeOK'
  BY <1>1, <1>2, <1>3 DEF TypeOK
<1>5. ~childDone /\ batch = {} /\ ~pipeClosed
  BY <1>1, <1>2 DEF Reaped, Flushed
<1>6. Reaped' /\ Timely' /\ NoStrayKill'
  BY <1>1, <1>2, <1>5 DEF Reaped, Timely, NoStrayKill
<1>7. Flushed'
  BY <1>1, <1>2, <1>5 DEF Flushed
<1>. QED  BY <1>4, <1>6, <1>7 DEF IInv

LEMMA WatchKeeps ==
  ASSUME IInv, Watch
  PROVE  IInv'
<1>1. /\ pc = "watch" /\ pc' = "check" /\ result' = [code |-> NoCode, timedOut |-> FALSE]
      /\ UNCHANGED <<child, code, holds, behind, budget, pipe, now, pidfd, timeout, remaining, left, batch, hup,
                     childDone, pipeClosed, killed, stray, broke>>
      /\ watched' \subseteq {"pipe", "pidfd"}
  BY DEF Watch, processVars, loopVars
<1>2. TypeOK /\ Reaped /\ Flushed /\ Timely /\ NoStrayKill
  BY DEF IInv
<1>3. ~childDone /\ ~killed
  BY <1>1, <1>2 DEF Reaped, Timely
<1>4. TypeOK'
  <2>1. result' \in [code : Statuses, timedOut : BOOLEAN]
    BY <1>1 DEF Statuses
  <2>. QED  BY <1>1, <1>2, <2>1 DEF TypeOK
<1>5. Reaped' /\ NoStrayKill'
  BY <1>1, <1>2, <1>3 DEF Reaped, NoStrayKill
<1>6. Flushed'
  BY <1>1, <1>2 DEF Flushed, NoWriters
<1>7. Timely'
  BY <1>1, <1>2, <1>3 DEF Timely
<1>. QED  BY <1>4, <1>5, <1>6, <1>7 DEF IInv

\* A kill while the child has not been waited for, at a time the callers know of.
LEMMA KillSound ==
  ASSUME IInv, Kill, child # "reaped", UNCHANGED <<code, now, timeout>>, timeout <= IntMax => now >= timeout
  PROVE  /\ killed' = TRUE /\ stray' = stray
         /\ result' \in [code : Statuses, timedOut : BOOLEAN]
         /\ result'.code = result.code /\ result'.timedOut = TRUE
<1>1. result \in [code : Statuses, timedOut : BOOLEAN] /\ stray \in BOOLEAN
  BY DEF IInv, TypeOK
<1>2. killed' = TRUE /\ stray' = stray
  BY <1>1 DEF Kill
<1>. QED  BY <1>1, <1>2 DEF Kill

\* The loop goes round only with a child that has not been waited for: with the pipe
\* closed as well, it would be over.
LEMMA CheckKeeps ==
  ASSUME IInv, Check
  PROVE  IInv'
<1>1. /\ pc = "check" /\ pc' = "wait" /\ ~Over
      /\ UNCHANGED <<child, code, holds, behind, budget, pipe, now, pidfd, timeout, watched, batch, hup,
                     childDone, pipeClosed, broke>>
      /\ left' = Max({1, remaining'})
  BY DEF Check, processVars, setup
<1>2. TypeOK /\ Reaped /\ Flushed /\ Timely /\ NoStrayKill
  BY DEF IInv
<1>3. ~childDone /\ child # "reaped"
  BY <1>1, <1>2 DEF Reaped, Over
<1>. DEFINE r == ToInt(timeout) - now
<1>4. /\ timeout \in Nat /\ now \in Nat /\ IntMax \in Nat /\ KillWait \in Nat /\ r \in Int
      /\ timeout <= IntMax => r = timeout - now
  BY <1>2, RunnerAssumption DEF TypeOK, ToInt
<1>5. \/ Expired(r) /\ Kill /\ remaining' = KillWait
      \/ ~Expired(r) /\ remaining' = r /\ UNCHANGED <<killed, stray, result>>
  BY DEF Check
<1>. HIDE DEF r
<1>6. remaining' \in Int /\ left' \in Nat /\ left' >= remaining'
  <2>1. remaining' \in Int
    BY <1>4, <1>5
  <2>. QED  BY <1>1, <2>1, MaxOfTwo
<1>7. CASE Expired(r) /\ Kill /\ remaining' = KillWait
  <2>1. timeout <= IntMax => now >= timeout
    BY <1>4, <1>7 DEF Expired
  <2>2. /\ killed' = TRUE /\ stray' = stray
        /\ result' \in [code : Statuses, timedOut : BOOLEAN]
        /\ result'.code = result.code /\ result'.timedOut = TRUE
    BY <1>1, <1>3, <1>7, <2>1, KillSound
  <2>3. TypeOK'
    BY <1>1, <1>2, <1>6, <2>2 DEF TypeOK
  <2>4. Reaped' /\ NoStrayKill'
    BY <1>1, <1>2, <1>3, <2>2 DEF Reaped, NoStrayKill
  <2>5. Flushed'
    BY <1>1, <1>2 DEF Flushed, NoWriters
  <2>6. Timely'
    BY <1>1, <2>1, <2>2 DEF Timely
  <2>. QED  BY <2>3, <2>4, <2>5, <2>6 DEF IInv
<1>8. CASE ~Expired(r) /\ remaining' = r /\ UNCHANGED <<killed, stray, result>>
  <2>1. TypeOK'
    BY <1>1, <1>2, <1>6, <1>8 DEF TypeOK
  <2>2. Reaped' /\ NoStrayKill'
    BY <1>1, <1>2, <1>3, <1>8 DEF Reaped, NoStrayKill
  <2>3. Flushed'
    BY <1>1, <1>2 DEF Flushed, NoWriters
  <2>4. ASSUME timeout <= IntMax PROVE now + left' >= timeout
    <3>1. remaining' = r /\ r = timeout - now
      BY <1>4, <1>8, <2>4
    <3>2. left' \in Int /\ timeout \in Int /\ now \in Int /\ left' >= timeout - now
      BY <1>4, <1>6, <3>1
    <3>. QED  BY <3>2, Deadline
  <2>5. Timely'
    BY <1>1, <1>2, <1>8, <2>4 DEF Timely
  <2>. QED  BY <2>1, <2>2, <2>3, <2>5 DEF IInv
<1>. QED  BY <1>5, <1>7, <1>8

LEMMA WaitExpiresKeeps ==
  ASSUME IInv, WaitExpires
  PROVE  IInv'
<1>1. /\ pc = "wait" /\ pc' = "reap" /\ left = 0
      /\ UNCHANGED <<child, code, holds, behind, budget, pipe, now, pidfd, timeout, watched, remaining, left,
                     batch, hup, childDone, pipeClosed, broke>>
  BY DEF WaitExpires, processVars, setup, loopVars
<1>2. TypeOK /\ Reaped /\ Flushed /\ Timely /\ NoStrayKill
  BY DEF IInv
<1>3. ~childDone /\ child # "reaped"
  BY <1>1, <1>2 DEF Reaped
<1>4. Reaped' /\ NoStrayKill' /\ Timely' /\ TypeOK'
  <2>1. CASE Kill /\ result.timedOut
    <3>1. timeout <= IntMax => now >= timeout
      BY <1>2, <2>1 DEF Timely
    <3>2. /\ killed' = TRUE /\ stray' = stray
          /\ result' \in [code : Statuses, timedOut : BOOLEAN]
          /\ result'.code = result.code /\ result'.timedOut = TRUE
      BY <1>1, <1>3, <2>1, <3>1, KillSound
    <3>. QED  BY <1>1, <1>2, <1>3, <3>1, <3>2 DEF TypeOK, Reaped, NoStrayKill, Timely
  <2>2. CASE Kill /\ ~result.timedOut
    <3>1. timeout <= IntMax => now >= timeout
      <4>1. now \in Nat /\ timeout \in Nat
        BY <1>2, RunnerAssumption DEF TypeOK
      <4>. QED  BY <1>1, <1>2, <2>2, <4>1 DEF Timely
    <3>2. /\ killed' = TRUE /\ stray' = stray
          /\ result' \in [code : Statuses, timedOut : BOOLEAN]
          /\ result'.code = result.code /\ result'.timedOut = TRUE
      BY <1>1, <1>3, <2>2, <3>1, KillSound
    <3>. QED  BY <1>1, <1>2, <1>3, <3>1, <3>2 DEF TypeOK, Reaped, NoStrayKill, Timely
  <2>3. CASE UNCHANGED <<killed, stray, result>>
    BY <1>1, <1>2, <1>3, <2>3 DEF TypeOK, Reaped, NoStrayKill, Timely
  <2>. QED  BY <2>1, <2>2, <2>3 DEF WaitExpires
<1>5. Flushed'
  BY <1>1, <1>2 DEF Flushed, NoWriters
<1>. QED  BY <1>4, <1>5 DEF IInv

\* Steps that only move the runner on.
LEMMA MovesKeep ==
  ASSUME IInv, Fails \/ WaitFails \/ EventsDone \/ Finish
  PROVE  IInv'
<1>1. /\ UNCHANGED <<child, code, holds, behind, budget, pipe, now, pidfd, timeout, watched, remaining, left,
                     batch, hup, childDone, pipeClosed, killed, stray, result>>
      /\ \/ pc \in {"start", "watch"} /\ pc' = "returned" /\ broke' = TRUE
         \/ pc = "wait" /\ pc' = "leave" /\ broke' = TRUE
         \/ pc = "events" /\ pc' = "reap" /\ broke' = broke
         \/ pc = "check" /\ pc' = "leave" /\ broke' = broke /\ childDone /\ pipeClosed
  BY DEF Fails, WaitFails, EventsDone, Finish, Over, processVars, setup, loopVars
<1>2. TypeOK /\ Reaped /\ Flushed /\ Timely /\ NoStrayKill
  BY DEF IInv
<1>3. TypeOK'
  <2>1. broke \in BOOLEAN
    BY <1>2 DEF TypeOK
  <2>2. broke' \in BOOLEAN
    BY <1>1, <2>1
  <2>3. pc' \in {"returned", "leave", "reap"}
    BY <1>1
  <2>. QED  BY <1>1, <1>2, <2>2, <2>3 DEF TypeOK
<1>4. Reaped'
  BY <1>1, <1>2 DEF Reaped
<1>5. Flushed'
  BY <1>1, <1>2 DEF Flushed, NoWriters
<1>6. Timely' /\ NoStrayKill'
  BY <1>1, <1>2 DEF Timely, NoStrayKill
<1>. QED  BY <1>3, <1>4, <1>5, <1>6 DEF IInv

\* The events carry a hang-up only when nobody can write any more.
LEMMA EventsKeep ==
  ASSUME IInv, WaitReturns \/ PipeEvent
  PROVE  IInv'
<1>1. /\ UNCHANGED <<child, code, holds, behind, budget, pipe, now, pidfd, timeout, watched, remaining, left,
                     childDone, pipeClosed, killed, stray, result, broke>>
      /\ \/ pc = "wait" /\ pc' = "events" /\ batch' = Ready /\ hup' = hup
         \/ pc = "events" /\ pc' = "drain" /\ \E e \in batch : batch' = batch \ {e} /\ hup' = e.hup
  BY DEF WaitReturns, PipeEvent, processVars, setup
<1>2. TypeOK /\ Reaped /\ Flushed /\ Timely /\ NoStrayKill
  BY DEF IInv
<1>3. NoWriters' = NoWriters /\ NoWriters \in BOOLEAN
  BY <1>1 DEF NoWriters
<1>4. /\ batch' \subseteq [fd : {"pipe", "pidfd"}, hup : BOOLEAN] /\ hup' \in BOOLEAN
      /\ \A e \in batch' : e.hup => NoWriters
      /\ pc' = "drain" /\ hup' => NoWriters
  <2>1. CASE pc' = "events" /\ batch' = Ready /\ hup' = hup
    <3>1. ASSUME NEW e \in Ready
          PROVE  e = [fd |-> "pipe", hup |-> NoWriters] \/ e = [fd |-> "pidfd", hup |-> FALSE]
      BY DEF Ready
    <3>2. [fd |-> "pipe", hup |-> NoWriters] \in [fd : {"pipe", "pidfd"}, hup : BOOLEAN]
      BY <1>3
    <3>3. [fd |-> "pidfd", hup |-> FALSE] \in [fd : {"pipe", "pidfd"}, hup : BOOLEAN]
      OBVIOUS
    <3>4. ASSUME NEW e \in Ready
          PROVE  e \in [fd : {"pipe", "pidfd"}, hup : BOOLEAN] /\ (e.hup => NoWriters)
      BY <3>1, <3>2, <3>3
    <3>. QED  BY <1>2, <2>1, <3>4 DEF TypeOK
  <2>2. CASE pc' = "drain" /\ \E e \in batch : batch' = batch \ {e} /\ hup' = e.hup
    BY <1>2, <2>2 DEF TypeOK, Flushed
  <2>. QED  BY <1>1, <2>1, <2>2
<1>5. TypeOK'
  BY <1>1, <1>2, <1>4 DEF TypeOK
<1>6. Reaped'
  BY <1>1, <1>2 DEF Reaped
<1>7. Flushed'
  BY <1>1, <1>2, <1>3, <1>4 DEF Flushed
<1>8. Timely' /\ NoStrayKill'
  BY <1>1, <1>2 DEF Timely, NoStrayKill
<1>. QED  BY <1>5, <1>6, <1>7, <1>8 DEF IInv

\* What is read is taken off the pipe's head; nothing appears in it.
LEMMA DrainKeeps ==
  ASSUME IInv, Drain
  PROVE  IInv'
<1>1. UNCHANGED <<child, code, holds, behind, budget, now, pc, pidfd, timeout, watched, remaining, left,
                  batch, hup, childDone, pipeClosed, killed, stray, result, broke>>
  BY DEF Drain, setup, loopVars
<1>9. pipe' = SubSeq(pipe, Min({ReadSize, Len(pipe)}) + 1, Len(pipe))
  BY DEF Drain
<1>2. TypeOK /\ Reaped /\ Flushed /\ Timely /\ NoStrayKill
  BY DEF IInv
<1>. DEFINE k == Min({ReadSize, Len(pipe)})
<1>3. pipe \in Seq({"c", "b"}) /\ Len(pipe) \in Nat /\ k \in 0 .. Len(pipe)
  <2>1. pipe \in Seq({"c", "b"}) /\ Len(pipe) \in Nat
    BY <1>2 DEF TypeOK
  <2>2. ReadSize \in Nat
    BY RunnerAssumption
  <2>. QED  BY <2>1, <2>2, MinOfTwo
<1>4. pipe' = SubSeq(pipe, k + 1, Len(pipe))
  BY <1>9
<1>. HIDE DEF k
<1>5. /\ pipe' \in Seq({"c", "b"}) /\ Len(pipe') = Len(pipe) - k
      /\ \A i \in 1 .. Len(pipe') : pipe'[i] = pipe[k + i]
  <2>1. k + 1 \in 1 .. Len(pipe) + 1 /\ Len(pipe) \in k .. Len(pipe)
    BY <1>3
  <2>. QED  BY <1>3, <1>4, <2>1
<1>6. TypeOK'
  <2>1. Len(pipe') <= PipeSize
    <3>1. Len(pipe) <= PipeSize /\ PipeSize \in Nat
      BY <1>2, RunnerAssumption DEF TypeOK
    <3>. QED  BY <1>3, <1>5, <3>1
  <2>2. pipe' \in Seq({"c", "b"})
    BY <1>5
  <2>. QED  BY <1>1, <1>2, <2>1, <2>2 DEF TypeOK
<1>7. Flushed'
  <2>1. ASSUME pipeClosed, NEW i \in 1 .. Len(pipe') PROVE pipe'[i] # "c"
    <3>1. k + i \in 1 .. Len(pipe) /\ pipe'[i] = pipe[k + i]
      BY <1>3, <1>5
    <3>2. \A j \in 1 .. Len(pipe) : pipe[j] # "c"
      BY <1>2, <2>1 DEF Flushed
    <3>. QED  BY <3>1, <3>2
  <2>. QED  BY <1>1, <1>2, <2>1 DEF Flushed, NoWriters
<1>8. Reaped' /\ Timely' /\ NoStrayKill'
  BY <1>1, <1>2 DEF Reaped, Timely, NoStrayKill
<1>. QED  BY <1>6, <1>7, <1>8 DEF IInv

\* The pipe is closed when it is empty and the child has let go of it.
LEMMA DrainedKeeps ==
  ASSUME IInv, Drained
  PROVE  IInv'
<1>1. /\ UNCHANGED <<child, code, holds, behind, budget, pipe, now, pidfd, timeout, remaining, left,
                     batch, hup, childDone, killed, stray, result, broke>>
      /\ pipe = <<>>
      /\ \/ pc = "drain" /\ pc' = "events"
         \/ pc = "lastDrain" /\ pc' = "check" /\ pipeClosed'
  BY DEF Drained, processVars, PipeEmpty, ClosePipe
<1>2. TypeOK /\ Reaped /\ Flushed /\ Timely /\ NoStrayKill
  BY DEF IInv
<1>3. \/ pipeClosed' = pipeClosed /\ watched' = watched
      \/ /\ pipeClosed' = TRUE /\ watched' = watched \ {"pipe"}
         /\ pc = "lastDrain" \/ (pc = "drain" /\ hup)
  <2>1. CASE hup \/ pc = "lastDrain"
    BY <1>1, <2>1 DEF Drained, ClosePipe
  <2>2. CASE ~(hup \/ pc = "lastDrain")
    BY <1>1, <2>2 DEF Drained, ClosePipe
  <2>. QED  BY <2>1, <2>2
<1>4. pipeClosed' \in BOOLEAN /\ watched' \subseteq {"pipe", "pidfd"}
  <2>1. pipeClosed \in BOOLEAN /\ watched \subseteq {"pipe", "pidfd"}
    BY <1>2 DEF TypeOK
  <2>. QED  BY <1>3, <2>1
<1>5. TypeOK'
  BY <1>1, <1>2, <1>4 DEF TypeOK
<1>6. Reaped'
  BY <1>1, <1>2 DEF Reaped
<1>7. pipeClosed' => ~holds
  <2>1. pc = "lastDrain" => ~holds
    BY <1>2 DEF Reaped, Flushed
  <2>2. pc = "drain" /\ hup => ~holds
    BY <1>2 DEF Flushed, NoWriters
  <2>. QED  BY <1>2, <1>3, <2>1, <2>2 DEF Flushed
<1>8. Flushed'
  BY <1>1, <1>2, <1>7 DEF Flushed, NoWriters
<1>9. Timely' /\ NoStrayKill'
  BY <1>1, <1>2 DEF Timely, NoStrayKill
<1>. QED  BY <1>5, <1>6, <1>8, <1>9 DEF IInv

\* The result of a child that is waited for is its exit code.
LEMMA CollectSound ==
  ASSUME IInv, Collect, child = "zombie", UNCHANGED <<code, holds>>
  PROVE  /\ child' = "reaped" /\ childDone' = TRUE /\ ~holds
         /\ result' \in [code : Statuses, timedOut : BOOLEAN]
         /\ result'.code = code /\ result'.timedOut = result.timedOut
<1>1. /\ result \in [code : Statuses, timedOut : BOOLEAN]
      /\ code \in Statuses /\ (holds => child = "running")
  BY DEF IInv, TypeOK, Flushed
<1>. QED  BY <1>1 DEF Collect

LEMMA PidfdEventKeeps ==
  ASSUME IInv, PidfdEvent
  PROVE  IInv'
<1>1. /\ UNCHANGED <<code, holds, behind, budget, pipe, now, pc, pidfd, timeout, remaining, left, hup,
                     pipeClosed, killed, stray, broke>>
      /\ pc = "events" /\ batch' \subseteq batch
      /\ \/ child = "zombie" /\ Collect /\ watched' = watched \ {"pidfd"}
         \/ UNCHANGED <<child, childDone, result, watched>>
  BY DEF PidfdEvent
<1>2. TypeOK /\ Reaped /\ Flushed /\ Timely /\ NoStrayKill
  BY DEF IInv
<1>3. NoWriters' = NoWriters
  BY <1>1 DEF NoWriters
<1>4. CASE child = "zombie" /\ Collect /\ watched' = watched \ {"pidfd"}
  <2>1. /\ child' = "reaped" /\ childDone' = TRUE /\ ~holds
        /\ result' \in [code : Statuses, timedOut : BOOLEAN]
        /\ result'.code = code /\ result'.timedOut = result.timedOut
    BY <1>1, <1>4, CollectSound
  <2>. QED  BY <1>1, <1>2, <1>3, <1>4, <2>1 DEF IInv, TypeOK, Reaped, Flushed, Timely, NoStrayKill
<1>5. CASE UNCHANGED <<child, childDone, result, watched>>
  BY <1>1, <1>2, <1>3, <1>5 DEF IInv, TypeOK, Reaped, Flushed, Timely, NoStrayKill
<1>. QED  BY <1>1, <1>4, <1>5

\* The body of the loop ends with the pipe drained once more if the child is done.
LEMMA ReapKeeps ==
  ASSUME IInv, Reap
  PROVE  IInv'
<1>1. /\ UNCHANGED <<code, holds, behind, budget, pipe, now, pidfd, timeout, watched, remaining, left,
                     batch, hup, pipeClosed, killed, stray, broke>>
      /\ pc = "reap"
      /\ \/ child = "zombie" /\ Collect
         \/ UNCHANGED <<child, childDone, result>>
      /\ \/ pc' = "lastDrain" /\ childDone'
         \/ pc' = "check" /\ (childDone' => pipeClosed)
  BY DEF Reap, LastDrain, setup
<1>2. TypeOK /\ Reaped /\ Flushed /\ Timely /\ NoStrayKill
  BY DEF IInv
<1>3. NoWriters' = NoWriters
  BY <1>1 DEF NoWriters
<1>4. CASE child = "zombie" /\ Collect
  <2>1. /\ child' = "reaped" /\ childDone' = TRUE /\ ~holds
        /\ result' \in [code : Statuses, timedOut : BOOLEAN]
        /\ result'.code = code /\ result'.timedOut = result.timedOut
    BY <1>1, <1>4, CollectSound
  <2>. QED  BY <1>1, <1>2, <1>3, <1>4, <2>1 DEF IInv, TypeOK, Reaped, Flushed, Timely, NoStrayKill
<1>5. CASE UNCHANGED <<child, childDone, result>>
  <2>1. TypeOK'
    BY <1>1, <1>2, <1>5 DEF TypeOK
  <2>2. Reaped'
    BY <1>1, <1>2, <1>5 DEF Reaped
  <2>3. Flushed' /\ Timely' /\ NoStrayKill'
    BY <1>1, <1>2, <1>3, <1>5 DEF Flushed, Timely, NoStrayKill
  <2>. QED  BY <2>1, <2>2, <2>3 DEF IInv
<1>. QED  BY <1>1, <1>4, <1>5

LEMMA LeaveKeeps ==
  ASSUME IInv, Leave
  PROVE  IInv'
<1>1. /\ UNCHANGED <<code, holds, behind, budget, pipe, now, pidfd, timeout, watched, remaining, left,
                     batch, hup, childDone, pipeClosed, killed, stray, result, broke>>
      /\ pc = "leave" /\ pc' = "returned"
      /\ child' = child \/ (child = "zombie" /\ child' = "reaped")
  BY DEF Leave, setup, loopVars
<1>2. TypeOK /\ Reaped /\ Flushed /\ Timely /\ NoStrayKill
  BY DEF IInv
<1>3. NoWriters' = NoWriters
  BY <1>1 DEF NoWriters
<1>4. TypeOK'
  BY <1>1, <1>2 DEF TypeOK
<1>5. Reaped' /\ Flushed'
  BY <1>1, <1>2, <1>3 DEF Reaped, Flushed
<1>6. Timely' /\ NoStrayKill'
  BY <1>1, <1>2 DEF Timely, NoStrayKill
<1>. QED  BY <1>4, <1>5, <1>6 DEF IInv

LEMMA StutterKeeps == IInv /\ UNCHANGED vars => IInv'
BY DEF IInv, TypeOK, Reaped, Flushed, Timely, NoStrayKill, NoWriters, vars, processVars, setup, loopVars

LEMMA NextKeeps == IInv /\ [Next]_vars => IInv'
BY WritesKeep, ProcessesKeep, TickKeeps, SpawnKeeps, WatchKeeps, CheckKeeps, WaitExpiresKeeps, MovesKeep,
   EventsKeep, DrainKeeps, DrainedKeeps, PidfdEventKeeps, ReapKeeps, LeaveKeeps, StutterKeeps
   DEF Next, Runner, Processes, Returned

-----------------------------------------------------------------------------
(* The theorems. *)

\* The invariant of the runner holds in every state.
THEOREM RunnerInvariant == Spec => []IInv
BY InitKeeps, NextKeeps, PTL DEF Spec

\* Every variable of a run of ProcessRunner keeps its type: the pipe its size, the
\* result one of the codes a child can have.
THEOREM RunnerTypeCorrect == Spec => []TypeOK
<1>1. IInv => TypeOK
  BY DEF IInv
<1>. QED  BY <1>1, RunnerInvariant, PTL

\* kill_child is never called once the child has been reaped, neither by the head of
\* the loop nor by a wait that expires: the number is still the child's.
THEOREM NoKillAfterReap == Spec => []NoStrayKill
<1>1. IInv => NoStrayKill
  BY DEF IInv
<1>. QED  BY <1>1, RunnerInvariant, PTL

\* When run answers with an exit code, drain_pipe has read every byte of the child.
THEOREM OutputIsWhole == Spec => []OutputComplete
<1>1. IInv => OutputComplete
  BY DEF IInv, Reaped, Flushed, OutputComplete, Answered
<1>. QED  BY <1>1, RunnerInvariant, PTL

\* The answer of run tells how the child ended, whatever ended it; a command is timed
\* out only when its time is over, and always when the runner has sent it SIGKILL.
THEOREM OutcomeIsOwn == Spec => []OutcomeIsTheChilds
<1>1. IInv => OutcomeIsTheChilds
  <2>. SUFFICES ASSUME IInv PROVE OutcomeIsTheChilds
    OBVIOUS
  <2>1. pc = "returned" => broke \/ (child = "reaped" /\ result.code = code)
    BY DEF IInv, Reaped
  <2>2. result.timedOut /\ timeout <= IntMax => now >= timeout
    BY DEF IInv, Timely
  <2>3. pc = "returned" /\ killed => result.timedOut
    BY DEF IInv, Timely
  <2>. QED  BY <2>1, <2>2, <2>3 DEF OutcomeIsTheChilds
<1>. QED  BY <1>1, RunnerInvariant, PTL
=============================================================================
