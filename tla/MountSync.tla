------------------------------ MODULE MountSync -----------------------------
(***************************************************************************)
(* Mounted directories: the host's driver (host/axiom/vm.py) copies every  *)
(* file of them into the guest before a command, the guest takes a bounded *)
(* snapshot of the working directory before and after it                   *)
(* (include/axiom/diff.hpp), and the host applies the difference, a text   *)
(* of lines, to its own directories.                                       *)
(*                                                                         *)
(* A file's content is its origin, <<path, number of the write>>, so that  *)
(* copies can be told from changes.  Answers arrive in the order of the    *)
(* requests, and one that came too late stays in the stream for the next   *)
(* call, as in HostClient.                                                 *)
(***************************************************************************)
EXTENDS Integers, Sequences, FiniteSets, SequencesExt

CONSTANTS Order,     \* the paths of all mounts, in the order of getdents64
          Watched,   \* paths below the working directory, within MAX_SCAN_DEPTH
          Word,      \* per path: the path that ends at its first blank
          LineLen,   \* per path: length of its line in the difference
          MaxFiles,  \* MAX_SNAPSHOT_FILES
          Room,      \* size of exec_diff_buf_
          MaxWrites, \* bound: changes made by users and commands
          MaxExecs,  \* bound: calls of exec
          MaxFaults  \* bound: timeouts, and files that cannot be read or written

Paths == ToSet(Order)
Distinct(paths) == \A i, j \in 1..Len(paths) : paths[i] = paths[j] => i = j
Absent == <<>>
Torn(p) == <<p, MaxWrites + 1>>   \* what a failed write has left
Content == {Absent} \cup (Paths \X (0..(MaxWrites + 1)))

ASSUME MountAssumption ==
  /\ Order \in Seq(Paths) /\ Distinct(Order)
  /\ Watched \subseteq Paths
  /\ Word \in [Paths -> Paths] /\ LineLen \in [Paths -> Nat]
  /\ {MaxFiles, Room, MaxWrites, MaxExecs, MaxFaults} \subseteq Nat

VARIABLES
  host, guest, \* per path: its content
  late,        \* answers to earlier calls that are still in the stream
  pc,          \* of exec: "idle", "push", "command", "pull"
  opts,        \* sync_mounts and capture_diff of the current exec
  todo,        \* files that os.walk has yet to copy
  pre,         \* pre_snapshot, as the sequence of its paths
  touched,     \* files whose size or mtime is not that of pre_snapshot
  lines,       \* lines of the difference that are left to apply
  used,        \* what is used up of the bounds
  before,      \* history: guest when the command was started
  after,       \* history: guest when the command had ended
  ran,         \* history: it ended in a run that did not fail
  others,      \* history: files changed by someone else, or skipped, since the call began
  tainted      \* history: a call has timed out on this connection

call == <<opts, todo, pre, touched, lines, before, after, ran, others>>
vars == <<host, guest, late, pc, call, used, tainted>>

Existing(files) == {p \in Paths : files[p] # Absent}
Nothing == [p \in Paths |-> Absent]

Init ==
  /\ host \in [Paths -> Content] /\ \A p \in Paths : host[p] \in {Absent, <<p, 0>>}
  /\ guest = Nothing /\ late = <<>>
  /\ pc = "idle" /\ opts = [sync |-> FALSE, capture |-> FALSE]
  /\ todo = {} /\ pre = <<>> /\ touched = {} /\ lines = <<>>
  /\ used = [writes |-> 0, execs |-> 0, faults |-> 0]
  /\ before = Nothing /\ after = Nothing /\ ran = FALSE /\ others = {} /\ tainted = FALSE

Use(what, max) == used[what] < max /\ used' = [used EXCEPT ![what] = @ + 1]

\* exec returns or raises: what is local to the call is gone.
Leave ==
  /\ pc' = "idle" /\ opts' = [sync |-> FALSE, capture |-> FALSE]
  /\ todo' = {} /\ pre' = <<>> /\ touched' = {} /\ lines' = <<>>
  /\ before' = Nothing /\ after' = Nothing /\ ran' = FALSE /\ others' = {}

-----------------------------------------------------------------------------
(* The guest: snapshots and their difference. *)

\* Those of the paths that are in a set, in their order.
Among(paths, set) ==
  LET upto[i \in 0..Len(paths)] ==
        IF i = 0 THEN <<>>
        ELSE IF paths[i] \in set THEN Append(upto[i - 1], paths[i]) ELSE upto[i - 1]
  IN upto[Len(paths)]

\* capture stops when the snapshot is full.
Capture(files) ==
  LET found == Among(Order, Existing(files) \cap Watched)
  IN SubSeq(found, 1, IF Len(found) < MaxFiles THEN Len(found) ELSE MaxFiles)

LinesOf(op, paths) == [i \in 1..Len(paths) |-> [op |-> op, path |-> paths[i]]]

\* A line that does not fit is dropped, a shorter one after it may fit.
Fitting(all) ==
  LET upto[i \in 0..Len(all)] ==
        IF i = 0 THEN [len |-> 0, kept |-> <<>>]
        ELSE LET len == upto[i - 1].len + LineLen[all[i].path]
             IN IF len < Room THEN [len |-> len, kept |-> Append(upto[i - 1].kept, all[i])]
                ELSE upto[i - 1]
  IN upto[Len(all)].kept

DiffBySize(old, new) ==   \* mutant: mtime is not compared
  Fitting(LinesOf("+", Among(new, Paths \ ToSet(old)))
          \o LinesOf("-", Among(old, Paths \ ToSet(new))))

DiffTwice(old, new) ==   \* mutant: a modified file is reported as removed and created
  Fitting(LinesOf("+", Among(new, touched \cup (Paths \ ToSet(old))))
          \o LinesOf("-", Among(old, touched \cup (Paths \ ToSet(new)))))

\* compute_diff: created and modified files in the order of the new snapshot,
\* then removed ones in the order of the old.
Diff(old, new) ==
  LET changed == Among(new, touched \cup (Paths \ ToSet(old)))
      gone == Among(old, Paths \ ToSet(new))
  IN Fitting([i \in 1..Len(changed) |->
                [op |-> IF changed[i] \in ToSet(old) THEN "M" ELSE "+", path |-> changed[i]]]
             \o LinesOf("-", gone))

-----------------------------------------------------------------------------
(* The connection: a request is served, and its call takes the first answer *)
(* in the stream, or times out and leaves its own there.                    *)

Taken(answer) == Head(Append(late, answer))
InTime(answer) == late' = Tail(Append(late, answer)) /\ UNCHANGED tainted
Late(answer) == late' = Append(late, answer) /\ tainted' = TRUE

\* resume and connect_vsock give a stream without old answers.
Reconnect ==
  /\ pc = "idle" /\ tainted
  /\ late' = <<>> /\ tainted' = FALSE
  /\ UNCHANGED <<host, guest, pc, call, used>>

-----------------------------------------------------------------------------
(* exec: sync_mounts_to_guest, the command, sync_mounts_from_guest. *)

HostEdit(p) ==
  /\ Use("writes", MaxWrites)
  /\ \E d \in {Absent, <<p, used'.writes>>} : host[p] # d /\ host' = [host EXCEPT ![p] = d]
  /\ others' = IF pc = "idle" THEN {} ELSE others \cup {p}
  /\ UNCHANGED <<guest, late, pc, opts, todo, pre, touched, lines, before, after, ran, tainted>>

Exec(s, c) ==
  /\ pc = "idle" /\ Use("execs", MaxExecs)
  /\ pc' = "push" /\ opts' = [sync |-> s, capture |-> c]
  /\ todo' = IF s THEN Existing(host) ELSE {}
  /\ UNCHANGED <<host, guest, late, pre, touched, lines, before, after, ran, others, tainted>>

Copying(p) == pc = "push" /\ p \in todo /\ UNCHANGED host

Copied(p) ==
  /\ todo' = todo \ {p}
  /\ UNCHANGED <<pc, opts, pre, touched, lines, before, after, ran>>

WriteAnswer(ok) == [op |-> "write", ok |-> ok]

\* The answer taken is one to a write, and says that it was done or is not looked
\* at, as that of an empty file is not; or exec raises.
Pushed(p, ok, empty) ==
  IF Taken(WriteAnswer(ok)).op = "write" /\ (Taken(WriteAnswer(ok)).ok \/ empty)
  THEN Copied(p) /\ others' = IF ok THEN others ELSE others \cup {p}
  ELSE Leave

Push(p) ==
  /\ Copying(p) /\ host[p] # Absent
  /\ guest' = [guest EXCEPT ![p] = host[p]]
  /\ InTime(WriteAnswer(TRUE))
  /\ \E empty \in BOOLEAN : Pushed(p, TRUE, empty)
  /\ UNCHANGED used

\* A write that fails in the guest, before O_TRUNC or, with content, after it.
PushRefused(p) ==
  /\ Copying(p) /\ host[p] # Absent /\ Use("faults", MaxFaults)
  /\ InTime(WriteAnswer(FALSE))
  /\ \E empty \in BOOLEAN :
       /\ guest' = guest \/ (~empty /\ guest' = [guest EXCEPT ![p] = Torn(p)])
       /\ Pushed(p, FALSE, empty)

\* "except OSError: pass" passes over the socket's timeout,
PushTimeout(p) ==
  /\ Copying(p) /\ host[p] # Absent /\ Use("faults", MaxFaults)
  /\ \/ guest' = [guest EXCEPT ![p] = host[p]] /\ Late(WriteAnswer(TRUE))
     \/ guest' \in {guest, [guest EXCEPT ![p] = Torn(p)]} /\ Late(WriteAnswer(FALSE))
  /\ Copied(p) /\ UNCHANGED others

\* as it does over a file that cannot be read or has gone.
PushSkipped(p) ==
  /\ Copying(p)
  /\ IF host[p] = Absent THEN UNCHANGED used ELSE Use("faults", MaxFaults)
  /\ Copied(p) /\ others' = others \cup {p}
  /\ UNCHANGED <<guest, late, tainted>>

\* ProcessRunner::run takes its first snapshot and starts the command.
Run ==
  /\ pc = "push" /\ todo = {}
  /\ pc' = "command"
  /\ pre' = IF opts.capture THEN Capture(guest) ELSE <<>>
  /\ before' = guest
  /\ UNCHANGED <<host, guest, late, opts, todo, touched, lines, after, ran, others, used, tainted>>

GuestChange(p) ==
  /\ Use("writes", MaxWrites)
  /\ \E d \in {Absent, <<p, used'.writes>>} : guest[p] # d /\ guest' = [guest EXCEPT ![p] = d]
  /\ UNCHANGED <<host, late, pc, opts, todo, pre, lines, before, after, ran, tainted>>

Command(p) == pc = "command" /\ GuestChange(p) /\ touched' = touched \cup {p} /\ UNCHANGED others

\* A process that an earlier command has left behind.
Background(p) ==
  /\ pc # "command" /\ used.execs > 0
  /\ GuestChange(p)
  /\ others' = IF pc = "idle" THEN {} ELSE others \cup {p}
  /\ UNCHANGED touched

ExecAnswer == [op |-> "exec", lines |-> IF opts.capture THEN Diff(pre, Capture(guest)) ELSE <<>>]

\* exec goes on to the lines of the answer it has taken, if that is one to exec.
Answered(answer, ok) ==
  IF Taken(answer).op = "exec"
  THEN /\ pc' = "pull" /\ after' = guest /\ ran' = ok
       /\ lines' = IF opts.sync /\ opts.capture THEN Taken(answer).lines ELSE <<>>
       /\ pre' = <<>> /\ touched' = {}
       /\ UNCHANGED <<opts, todo, before, others>>
  ELSE Leave

Finish ==
  /\ pc = "command"
  /\ InTime(ExecAnswer)
  /\ Answered(ExecAnswer, TRUE)
  /\ UNCHANGED <<host, guest, used>>

\* The run fails, with the command started or not: the answer is -1 without a
\* difference, and what has been started goes on as Background.
FailedAnswer == [op |-> "exec", lines |-> <<>>]

RunFails ==
  /\ pc = "command" /\ Use("faults", MaxFaults)
  /\ InTime(FailedAnswer)
  /\ Answered(FailedAnswer, FALSE)
  /\ UNCHANGED <<host, guest>>

\* The socket's timeout: the command ends, its answer comes too late.
ExecTimeout ==
  /\ pc = "command" /\ Use("faults", MaxFaults)
  /\ Late(ExecAnswer)
  /\ Leave
  /\ UNCHANGED <<host, guest>>

\* The line is split at blanks: its file is what stands before the first one.
Target == Word[Head(lines).path]
Applying(ops) ==
  /\ pc = "pull" /\ lines # <<>> /\ Head(lines).op \in ops
  /\ lines' = Tail(lines)
  /\ UNCHANGED <<guest, pc, opts, todo, pre, touched, before, after, ran>>

PullRemove ==
  /\ Applying({"-"})
  /\ host' = [host EXCEPT ![Target] = Absent]
  /\ UNCHANGED <<late, others, used, tainted>>

FileRead == [op |-> "read", data |-> guest[Target]]

\* Every exception is suppressed: a wrong answer, a file that is not there.
PullFile ==
  /\ Applying({"+", "M"})
  /\ InTime(FileRead)
  /\ host' = IF Taken(FileRead).op = "read" /\ Taken(FileRead).data # Absent
             THEN [host EXCEPT ![Target] = Taken(FileRead).data] ELSE host
  /\ UNCHANGED <<others, used>>

PullTimeout ==
  /\ Applying({"+", "M"}) /\ Use("faults", MaxFaults)
  /\ Late(FileRead)
  /\ UNCHANGED <<host, others>>

\* The host's directory or file cannot be written or removed.
PullSkipped ==
  /\ \/ Applying({"+", "M"}) /\ InTime(FileRead)
     \/ Applying({"-"}) /\ UNCHANGED <<late, tainted>>
  /\ Use("faults", MaxFaults)
  /\ others' = others \cup {Target}
  /\ UNCHANGED host

Return ==
  /\ pc = "pull" /\ lines = <<>>
  /\ Leave
  /\ UNCHANGED <<host, guest, late, used, tainted>>

\* No one calls.
Quiet == pc = "idle" /\ UNCHANGED vars

Next ==
  \/ \E s, c \in BOOLEAN : Exec(s, c)
  \/ \E p \in Paths : \/ HostEdit(p) \/ Push(p) \/ PushTimeout(p) \/ PushSkipped(p) \/ PushRefused(p)
                      \/ Command(p) \/ Background(p)
  \/ Run \/ Finish \/ RunFails \/ ExecTimeout \/ PullRemove \/ PullFile \/ PullTimeout \/ PullSkipped
  \/ Return \/ Reconnect \/ Quiet

Spec == Init /\ [][Next]_vars

-----------------------------------------------------------------------------
Answers == [op : {"write"}, ok : BOOLEAN] \cup [op : {"read"}, data : Content]
             \cup [op : {"exec"}, lines : Seq([op : {"+", "M", "-"}, path : Paths])]

TypeOK ==
  /\ host \in [Paths -> Content] /\ guest \in [Paths -> Content]
  /\ pc \in {"idle", "push", "command", "pull"}
  /\ pc # "push" => todo = {}
  /\ pc # "pull" => lines = <<>>
  /\ Len(pre) <= MaxFiles /\ ToSet(pre) \subseteq Watched
  /\ late \in Seq(Answers)
  /\ late # <<>> => tainted
  /\ others \subseteq Paths

\* What the guest's snapshots and the lines can carry: files that are watched,
\* whose names have no blank and are not the beginning of one that has, as long
\* as both snapshots and the difference fit.
Plain(p) == \A q \in Paths : (Word[q] = p) <=> (q = p)
Complete(files) == Cardinality(Existing(files) \cap Watched) <= MaxFiles
Changed == {p \in Paths : before[p] # after[p]}
\* The room that the lines of these files need.
RoomFor(files) ==
  LET upto[i \in 0..Len(Order)] ==
        IF i = 0 THEN 0
        ELSE upto[i - 1] + (IF Order[i] \in files THEN LineLen[Order[i]] ELSE 0)
  IN upto[Len(Order)]
Fits == RoomFor(Changed \cap Watched) < Room
Faithful(p) ==
  /\ p \in Watched /\ Plain(p)
  /\ Complete(before) /\ Complete(after)

Removes(p) == pc = "pull" /\ pc' = pc /\ lines' # lines /\ host[p] # Absent /\ host'[p] = Absent

\* On a connection without old answers, the host loses a file only if the
\* command has removed it in the guest.
RemovalsOfCommand ==
  [][\A p \in Paths : Removes(p) /\ ~tainted /\ Faithful(p)
       => before[p] # Absent /\ after[p] = Absent]_vars

Applied == pc = "pull" /\ lines = <<>> /\ opts.sync /\ opts.capture /\ ~tainted

\* When exec returns from a run that did not fail, what the command has created,
\* changed or removed is on the host as it is in the guest, unless someone else
\* changed it meanwhile or the difference had no room for it.
ChangesReachHost ==
  Applied /\ ran /\ Fits => \A p \in Changed \ others : Faithful(p) => host[p] = after[p]

\* The same of every run: not so, as exec returns normally from one that failed
\* after the command was started, and nothing of it is copied.
ChangesOfEveryRun ==
  Applied /\ Fits => \A p \in Changed \ others : Faithful(p) => host[p] = after[p]

\* "created, updated, or removed files are synchronized back to the host
\* filesystem automatically upon command completion" (ARCHITECTURE.md:140).
ChangesReachAllMounts ==
  Applied => \A p \in Changed \ others : host[p] = after[p]
OnlyRemovedDisappear ==
  [][\A p \in Paths : Removes(p) /\ ~tainted => before[p] # Absent /\ after[p] = Absent]_vars

\* "Synchronizes modified or created files from guest back to host directories."
\* (host/axiom/vm.py:485): a file on the host has the content of that file.
OwnContent == \A p \in Paths : host[p] # Absent => host[p][1] = p

=============================================================================
