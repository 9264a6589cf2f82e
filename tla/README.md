# AxiomVM: TLA+ models, checks and proofs

AxiomVM runs an agent's commands, file edits and browser actions in a Firecracker
microVM. A daemon in the guest (C++, PID 1) serves requests over virtio-vsock; a
Python driver and a TypeScript client on the host send them; the driver also
starts, snapshots and branches the machines. This directory holds TLA+ modules of
these parts, the TLC configurations that check them on small instances, and TLAPS
proofs for every value of the constants. Paths below are relative to `src/`.

## 1. Inventory

| Component | State it keeps | Operations | Talks to |
|---|---|---|---|
| **Appliance server** (`include/axiom/server.hpp`, `reactor.hpp`, `signalfd.hpp`, `vsock.hpp`, `fixed_vector.hpp`) | epoll set, client slots with a 64 KiB receive buffer each, `running_` | accept, read and reassemble, dispatch, blocking write with poll, signals and reaping, cleanup | clients (vsock), kernel, process runner, files, AST, browser |
| **Wire codec** (`wire.hpp`, `common.hpp`, `host/axiom/wire.py`, `sdk/.../wire.ts`) | none | encode and decode 12-byte headers and payloads | server, both clients |
| **Process runner** (`process.hpp`) | ring buffer, filter, two directory snapshots, pidfd, epoll set | run: spawn, drain, time out, kill, reap | kernel, child processes, ring buffer, filter, directory difference |
| **Ring buffer** (`ring_buffer.hpp`) and **ANSI filter** (`ansi.hpp`) | `head_`, `tail_`, `size_`, `total_written_`; parser state | push, clear, linearize; process, reset | process runner |
| **Directory difference** (`diff.hpp`) | up to 256 entries per snapshot | take a snapshot, compare two, print lines | process runner; its lines are read by the driver |
| **File operations** and **AST engine** (`server.hpp`, `ast.hpp`) | fixed buffers | read and write at an offset, patch a symbol, outline, slice | guest file system |
| **CDP bridge** (`cdp.hpp`) | browser process, session id, request ids, map of handles | start, stop, navigate, click, type, scroll, tree | Chromium through pipes |
| **Bootstrap and main** (`bootstrap.hpp`, `guest/axiom-initd`) | mounts, sockets | mount, listen, run the server, sync and power off | kernel |
| **Host driver** (`host/axiom/vm.py`, `snapshot.py`) | Firecracker process, one vsock connection, mounts, files in a work directory | start, calls, mount synchronisation, chunked files, pause, resume, snapshot, load, restore, branch, shutdown | Firecracker API, appliance, host file system |
| **MCP server** (`host/axiom/mcp_server.py`) | active machine, registries of snapshots and branches | tools, one driver call each | host driver |
| **TypeScript client** (`sdk/typescript/src`) | socket, receive buffer, next request id | connect, close, eight calls | appliance |
| Command line, assets, benchmarks, image and kernel tools, tests | - | - | host driver |

Frames travel client -> kernel buffers -> receive buffer of a slot -> handler ->
write. A command's output travels child -> pipe -> ring buffer -> filter -> answer.
A mounted file travels host -> WriteFile calls -> guest -> command -> lines of the
difference -> ReadFile calls -> host.

What is hard in this system, and what must be right:

* *Server.* Clients, kernel and signals act between any two steps of the loop:
  requests arrive cut anywhere, batches of events go stale when descriptors are
  closed and reused, slots and descriptors run out, a client stops reading. Right
  means: every frame is dispatched once, whole and in order; answers are whole or
  the connection is closed; no descriptor leaks or aliases; a slow or silent client
  holds up no one for ever; shutdown ends. Two handlers need not return, and then the
  only thread serves no one.
* *Process runner.* Exit, last output, hang-up, timeout and background processes
  race. Right means: complete output, the child's own exit code, no kill of a
  reaped pid, an answer in the end.
* *Ring buffer, filter.* Right means: the latest bytes, flagged exactly when bytes
  were lost; what was lost spoils nothing behind it.
* *Clients.* Answers are late, lost or cut, a call may give up inside one; request
  ids are not compared, and payload may look like a header. Right
  means: a call returns the answer to its own request, whole.
* *Mount synchronisation.* Users and background processes write files during the
  three phases; snapshots and lines are bounded; a run may fail after its start. Right means: changes arrive, and
  nothing else disappears.
* *File operations.* Many requests per file, fixed buffers, failing system calls.
* *Snapshots and branches.* The guest writes on while its memory and disk are
  copied at different times into directories chosen by name; a request to Firecracker
  may be carried out though its answer is lost. Right means: machines
  do not see each other, and a restored machine is the one that was saved.
* *Browser.* Events and late answers arrive between a command and its answer; the
  page is replaced under the handles a client holds; the browser dies and the server
  collects it without telling the bridge; a start fails after the fork; a tree that is
  too long ends anywhere. Right means: a reply belongs to its request, a handle to what
  was shown under it, every request is answered, and a stop leaves no browser behind.
* *Daemon.* Any step of the start may fail, signals come before they are masked. Right
  means: once it serves, nothing but its own power-off ends the machine.

## 2. Modules

| Module | Models | Kind |
|---|---|---|
| `ApplianceServer` | the reactor | state machine, safety, liveness |
| `FrameService` | what a connection is promised | abstract specification |
| `MCApplianceServer` | menus of frames for TLC | instance |
| `ApplianceServerProofs` | buffers, descriptors and events; where a connection is; refinement of `FrameService`; its answers; the daemon around it | proofs |
| `RingBuffer` | the circular buffer | state machine |
| `OutputTail` | the latest bytes of an output | abstract specification |
| `AnsiFilter` | the parser, as a left fold over byte classes | pure algorithm |
| `OutputPipeline`, `MCOutputPipeline` | runner + ring + filter (EXTENDS both) | composition, instance |
| `OutputPipelineProofs` | the ring, its refinement of `OutputTail` and the runner's use of it; the filter; what an answer holds | proofs |
| `ProcessRunner` | run and monitor_child | state machine, liveness |
| `HostClient` | the driver's calls | state machine |
| `HostClientProofs` | whose answer a call returns | proofs |
| `SdkClient` | the TypeScript client on its event loop | state machine, liveness |
| `SdkClientProofs` | whose answer a call of the TypeScript client returns, and that it is whole | proofs |
| `MountSync`, `MCMountSync` | driver + runner + difference for mounted files | composition, instance |
| `FileStore` | driver + server for one file, and patches | composition |
| `HostFilesProofs` | pieces make up the file; changes of a command reach the host | proofs |
| `Snapshots` | machines, snapshots, branches | state machine |
| `SnapshotsProofs` | who shares what; what a snapshot holds | proofs |
| `ProcessRunnerProofs` | inductive invariant and theorems of the runner | proofs |
| `CdpBridge` | the browser requests of the server, the bridge and the browser | state machine, liveness |
| `MCCdpBridge` | two documents for TLC | instance |
| `CdpBridgeProofs` | replies, handles, the end of the browser | proofs |
| `Daemon` (EXTENDS `ApplianceServer`) | main, from the first mount to power-off or panic | composition, liveness |
| `MCDaemon` | menus of frames for TLC | instance |

Properties, runs, mutants, hazards and the lines each definition stands for are in
`PROJECT.json`. Definitions marked `mutant` are plausible bugs: put in the place of
the definition after them, they make a property fail.

### 2.1 ApplianceServer

`pc` says where the loop is: in epoll_wait ("loop"), between events of a batch
("batch"), reading the signalfd, extracting frames ("frames"), in write_all
("write"), after a frame ("tail"). The steps are cut where another party can act.
`slotFd`, `rx` are the fields of ClientSlot; `interest` is the epoll set, `peer` the
kernel's descriptor table, `inq` and `unread` its socket buffers. A byte is a unit
that knows its frame and position, so that a wrong compaction of the buffer makes a
unit that is no header appear in front; a frame has a kind: answered with a fixed
number of parts, answered with an optional body, exec with output and difference,
unanswered (short or unknown), shutdown, bad magic. `HandleAccept` contains the
whole of accept_loop's body with its failure paths, `HandleClientEvent` the read,
`Dispatch*` one turn of process_client_frames. `done`, `resp`, `why` are history.
What a handler does to files or the browser is not part of this module, but that it may
not come back is: `InHandler` holds where the next step is a handler that drains a pipe
(process.hpp:261) or writes to one (cdp.hpp:861) without a time limit, and no fairness is
asked of that step. `Stuck` says that the thread stays there.

`FrameService` is the promise: per connection a queue of frames, served from its
head, never after a close. `ImplementsService` is the refinement, with the queue
mapped to the frames sent and not dispatched.

### 2.2 OutputPipeline, RingBuffer, AnsiFilter

`Push`, `Clear`, `Linear` are push_byte, clear and linearize.
The filter works on classes of bytes (escape, bracket, final, text, ...), which are
all that its switch tells apart. `Start`, `Drain`, `Deliver` are the head, the drain
and the tail of ProcessRunner::run; ring and filter survive from command to command
as in the code.

### 2.3 ProcessRunner

The child, background processes that inherited its pipe, the kernel and the clock
are separate actors. A tick is 10 ms, the shortest wait. `remaining`, `left` model
the computation of remaining_ms and the epoll timeout; `batch`, `hup` the events.
Both ways are modelled: with a pidfd and, when pidfd_open fails, without. A command ends
with any of `Codes`: its own, or 128 + n if somebody else sends it signal n, so that 137
need not be the runner's doing (process.hpp:343 and 358 do not tell the two apart).

### 2.4 HostClient and SdkClient

Both are one exchange per call, over a stream of units that know which request they
answer. The driver is sequential: recv, header, payload. The server writes an answer in
up to three parts and the socket delivers it in any pieces, so a read may time out with
any part of an answer read and the rest still on its way (`RecvFails`); `torn` is set from
then on until a new connection. The next call then reads at whatever position the stream
has, and decode_header looks at nothing but the bytes there: payload may read as any
header (`ReadsAs`). The TypeScript client is asynchronous: `turn` is the queue of microtasks,
`Poll` the timer that looks at the shared buffer, `Data`, `End`, `Error` the socket's
listeners. Overlapping calls, close during connect, reconnects and hang-ups occur.

### 2.5 MountSync and FileStore

`MountSync` has the phases of exec: `Push*` (sync_mounts_to_guest), `Run` and `Finish`
with the two directory snapshots and `Command` for the writes between them, `Pull*`
(sync_mounts_from_guest). `RunFails` is a run that fails after the command was started: it is
answered with -1 and no difference, exec returns normally and the command, which nobody
kills, goes on as `Background`; `ran` remembers which of the two exec returned from. The
status of an empty file's write is ignored (`Pushed`). The content of a file is its origin,
so a file overwritten with another's content is visible. `FileStore` has one file:
`WriteChunk`/`ReadChunk` are a request of write_file_all/read_file_all together with
the handler of the server, `Patch*` the three system-call phases of handle_ast_patch. The
size that a read is answered with is taken modulo `SizeMod` (the cast to uint32_t) and 0 if
fstat fails (`SizeFails`); a write of nothing returns whatever its status (`WriteFails`).

### 2.6 Snapshots

Guests (Firecracker processes), MicroVM objects, disk images, snapshot files and
mapped memory files are separate. A guest's memory is the version of its latest
write and the version it believes its disk to have; until its first write it is
still what the mapped file holds. One write makes all of the memory the guest's own,
which leaves out mixtures of old and new pages. `CreateSnapshot`, `Create`, `Resume`
are create_snapshot between its requests to Firecracker; `LoadMemory`, `LoadDisk`,
`LoadBoot` are load_snapshot. A request that fails may have been carried out or not, the one
to pause too, which stands outside the try; `failed` names the requests, and the guest they
were for. Copying a disk image is one step; in the code the guest
may write during the copy as well, which can only make its content worse.

### 2.7 CdpBridge

`started_`, `next_req_id_`, `handle_map_`, `session_id_` are the fields of CdpBridge;
`started_` stands for the descriptors and `child_pid_` too, which start sets and stop
clears with it. A browser request (`Receive`, handle_cdp) is a chain of exchanges
(`Follows`): start, attach_to_page, the enabling of three domains, navigate or
resolveNode and callFunctionOn, and, after a navigation or a click, the tree, which
handle_cdp does not fetch after text and scrolling. Every
exchange is `Send` (the id, the blocking write) and `Take`, `Discard`, `Timeout` or
`EndOfFile` (read_msg_matching). A browser may fall silent for good (`Silent`: it reads, or
ends, and says nothing more) or stop reading, which blocks `Send` (`Blocked`). `WriteIgnored` and `AnswerIgnored` name the exchanges
whose result the code does not look at; the rest fail through `GiveUp`. `Matches` is the
search for `"id":<n>`, which also finds longer numbers; that no such message is in the
pipe is `OwnReply`. `Trees` and `Maps` are filter_and_format: the list of at most
`MaxNodes`, the map, and the difference between them when the list is full. A node is
what the filter looks at: its class, its backend id, whether another has its name. An
answer longer than `rx_buf_` ends anywhere in a node (`Cut`): before its role or name, which
may make it a node of any class, before its id, which then is 0, or between the digits of
its id, which then is the beginning of it (`Beginnings`), perhaps the id of another element.
`Trees`, what the client can rely on, has the nodes that came whole. The scanning of JSON text, the 64 KiB buffer of printed text, commands that do not fit
their buffer, and `init_from_fds` and `set_handle_mapping` (used by tests only) are left
out. The browser (`Reads`, `Answers`, `Reports`, `Loads`, `Ends`) is external; so is the
kernel that gives its number to someone else (`NumberReused`).

### 2.8 Daemon

`stage` is the position of main; the reactor's steps are steps of main while it is
"run". Until then the variables of `ApplianceServer` stand for what `init` will give
them, and only `sigs` and the clients' side change: connections queue from create_listener
on, signals stay pending from SignalFd::create on and are ignored before. A failed mount
skips the others and is survived; every other failure returns from main, and the kernel
panics. After run, whatever it returned, the machine is powered off; a reboot() that is
refused returns, and so does main (`RebootFails`). What clients do
between the end of run and that of the machine is left out.

## 3. What the runs check

Every run finishes in less than three minutes. The bounds are the constants of the
configuration; each is the smallest that lets the cases named here occur.

| Run | Bounds | Why they are enough | Shows |
|---|---|---|---|
| ServerFraming | 1 connection, 3 frames, header 2, buffer 6, read 4, window 2, 2 children, SIGTERM, failing system calls | reads split headers and payloads; frames shorter and longer than a read, one as long as the buffer and one longer; three frames fill it; a part finds no room; two SIGCHLDs coalesce; a signal stops the loop at any point | order of dispatch and answers, buffer bound, half-close, no forgotten zombie, refinement of `FrameService` |
| ServerSlots | the daemon; 3 connections, 2 slots, 2 descriptor numbers, 1 file system to mount, failures of epoll_ctl, accept4, epoll_wait and of each step of main, reboot included | one connection too many; a number is closed and reused, also within a batch; connections wait before the reactor runs, and when its start fails | accounting of descriptors, fresh events, closed stays quiet, no panic while requests are served |
| ServerLive | the daemon; 2 connections, 1 slot, 1 descriptor number, SIGTERM, failing start, epoll_wait, epoll_ctl and reboot, requests whose handler need not return | one waits for the other's slot, for its write and for its handler; the signal arrives during the start, within a batch, during a handler and during a write | every frame is served, shutdown ends the machine with nothing open, unless the thread is stuck in a handler |
| OutputStrip | capacity 6, 2 commands of 2 pieces | a sequence that fits, two that overflow and wrap, a command killed in one, then a second command | text is what remains, loss is flagged and spoils the cut piece only, the ring implements `OutputTail` |
| Process | exit codes 0 and 137, timeouts 2, 3, 9 ticks with an int that ends at 7, kill wait 2, clock to 5, pipe of 2, 3 writes, 1 background process, failures | the timeout expires before, at and after the exit; a timeout beyond int; a full pipe; drain and hang-up in any order; no pidfd; a command that never ends, closes its output, or leaves a writer behind | complete output, the child's outcome, no stray kill; run returns |
| HostClient | header 2, payload 2, 3 calls of 8 kinds | one call late or giving up inside a header or payload, the next takes what is left, a third after a resume; payload that reads as any header | own answer on a fresh stream, no answer pieced together unless payload was taken for a header |
| SdkClient | header 2, 3 calls of 2 lengths, fair | two calls overlap while a third waits, reconnect with bytes left over | own answer when alone, whole answers, every call settles |
| MountSync | 4 paths, one with a blank, snapshots of 2, room for 4, 2 writes, 2 commands, 1 fault | a snapshot that is full, a line that does not fit, a concurrent change, a run that fails and goes on behind exec, a late answer in the next command | changes of runs that did not fail arrive, nothing else is removed |
| FileStore | buffer 2, chunk 2, files to 4, sizes modulo 4, 2 operations, 1 change by others | files that need two chunks, longer than the buffer, of a size that the field holds as 0, an empty content, an operation after a failed one | chunks make up the file, a patch changes the symbol only |
| Browser | 1 client, 3 requests, 2 documents, list of 2, handles 1 and 2, answers of 5 nodes, ids in base 2, 1 timeout before the browser falls silent, 1 event, fair | an answer that comes after its request has timed out; an id that is the beginning of another; a list, a map and an answer that are full, the answer cut anywhere in a node; a page replaced at any point; a browser that dies at any point, does not start, says nothing more or stops reading | own replies, handles mean what was shown and are acted on, no browser left, every request answered unless the pipe blocks |
| Snapshots | 1 snapshot name, 2 branch names, 3 guests, 2 writes, 4 calls, 1 fault | a name used again, a restore after a branch, a machine restored from another's snapshot, a write at any point of a call | machines apart, intact snapshots exact, none left paused but by its own failed request |

Each state machine states its types as `TypeOK` (`FileTypeOK` in `FileStore`), and it is
proved of every one. Only the runs ServerFraming and Process check it: the invariants of the
others go through the same variables.
`Mounts = 1` in the runs of the daemon is enough: it is mounted or skipped, and the loop is the
same for more. `RunnerAssumption` asks that the clock of `ProcessRunner` does not stop
before a timeout that fits an int (`MaxNow`), otherwise such a timeout would never
expire.

`CHECK_DEADLOCK` is on everywhere: where the system may rest (stopped, idle, every
call over) the module has an action of its own for it, and nothing else may stop.

### Fairness

* *Server*: `WF(~InHandler /\ Server)`. The loop is one thread that is scheduled; its reads
  do not block, a write waits for at most five seconds in poll, and the handlers return but
  for two, of which nothing is asked: Exec, which drains a pipe as long as something is in
  it, and the browser's, which writes to a pipe that may be full. `FramesServed` and
  `ShutdownPowersOff` have the exception `Stuck` for a thread that stays in one for ever;
  ServerLive with NobodyStarves shows that it is needed. Clients and children owe nothing: they may stall for ever. The number of children is bounded: the loop over
  the signalfd has no end of its own while signals keep arriving.
* *Process runner*: the runner is scheduled, the clock ticks, the kernel delivers
  SIGKILL and ends a process that exits. The command owes nothing. `Writes` bounds
  what it prints; with `Endless` it does not, and the runner need not return
  (ProcessEndless).
* *Daemon*: `WF(~InHandler /\ Main)`: PID 1 is scheduled and each system call of main returns.
* *Browser*: `WF(Serve)`, the server's thread: poll returns when its time is up. Nothing is
  asked of the browser: it need not read, answer or survive. Every read of the bridge has a
  time limit. Its write has none: `RequestsAnswered` has the exception `Blocked`, and
  BrowserHangs shows that it is needed.
* *TypeScript client*: the event loop serves microtasks and timers, and an attempt to
  connect ends in some way. Answers need not arrive.

### Disagreements between code and documents

One run expects a counterexample; `PROJECT.json` quotes the sentence it refutes.

| Run | What happens | Sentence |
|---|---|---|
| MountCrowded | a new file pushes another out of a full snapshot, which is then deleted on the host | ARCHITECTURE.md:140 |

The other configurations of this directory are not among the runs. Each drops the
precondition of a property that a run checks and ends with a counterexample
(`tlc -config <name>.cfg <module>`); they are kept because the precondition is what
a user of the code has to know. "X with P" is the configuration X with its properties
replaced by P, which the module defines.

| Configuration | Module | What happens | Line | Against |
|---|---|---|---|---|
| OutputCutSequence | MCOutputPipeline | the ring overflows inside an escape sequence, whose rest is passed on as text | process.hpp:194 | ARCHITECTURE.md:114 |
| OutputDeviceControl | MCOutputPipeline | the filter takes `ESC P` for a whole sequence and lets the control string through | ansi.hpp:69 | ARCHITECTURE.md:114 |
| ProcessEndless | ProcessRunner | a command that keeps the pipe full is never timed out | process.hpp:261 | tests/integration/test_process_integration.cpp:120 |
| Process with TimedOutIsFailure | ProcessRunner | an answer is flagged as timed out with exit code 0 | process.hpp:304 | tests/integration/test_process_integration.cpp:137 |
| HostLateAnswer | HostClient | a call returns the late answer to an earlier one | vm.py:296 | host/axiom/vm.py:263 |
| HostClient with NeverMixed | HostClient | a call has given up inside an answer, and the next returns payload of it as an answer | wire.py:57 | precondition of NoMixedAnswer |
| SdkOverlap | SdkClient | overlapping calls take each other's answers | client.ts:126 | sdk/typescript/src/client.ts:107 |
| MountBlank | MCMountSync | the removal of `a b` deletes `a` on the host | vm.py:494 | ARCHITECTURE.md:140 |
| MountSecond | MCMountSync | changes in a second mount do not come back | vm.py:273 | ARCHITECTURE.md:140 |
| MountLateRead | MCMountSync | a host file is overwritten with another file's content | vm.py:505 | host/axiom/vm.py:485 |
| MountSync with ChangesOfEveryRun | MCMountSync | a run fails after the command has changed a file; exec returns and nothing is copied | server.hpp:412 | precondition of ChangesReachHost |
| FilePatchCut | FileStore | a patch cuts off a file that is longer than the buffer, with status 0 | server.hpp:711 | README.md:86 |
| FilePatchTorn | FileStore | a patched file is empty for a moment, or for good | server.hpp:504 | include/axiom/server.hpp:494 |
| FilePatchCut with ReadAllComplete | FileStore | a file is returned in part, without an error | vm.py:430 | host/axiom/vm.py:423 |
| FileStore with ReadAllOfAnySize | FileStore | a file whose size the field cannot hold is returned in part, without an error | server.hpp:919 | precondition of ReadAllWhole |
| FileStore with WriteAllReported | FileStore | an empty content is not written, and the write returns normally | vm.py:446 | precondition of WriteAllWhole |
| FileStore with ReadsOneVersion | FileStore | two versions of a file are returned as one | vm.py:428 | host/axiom/vm.py:423 |
| SnapshotsDisk | Snapshots | a restore in place puts old memory on the present disk | vm.py:831 | tests/integration/test_snapshot_e2e.py:122 |
| SnapshotsDisk with RestoresWhatWasSaved | Snapshots | a snapshot is overwritten by a branch that was given its name | vm.py:925 | host/axiom/vm.py:901 |
| SnapshotsPaused | Snapshots | a pause is carried out, its answer is lost, and the guest stays paused | vm.py:786 | precondition of PausedOnlyInside |
| BranchDisk | Snapshots | a branch's disk has writes its memory does not know | vm.py:831 | host/axiom/vm.py:774 |
| BranchTwice | Snapshots | a second branch of a name overwrites the memory and disk of the first | vm.py:926 | host/axiom/vm.py:924 |
| BranchNamed | Snapshots | a branch from a named snapshot is one from the present | vm.py:925 | README.md:90 |
| BrowserHangs | MCCdpBridge | a browser that stops reading its pipe holds up the server's only thread for ever | cdp.hpp:861 | precondition of RequestsAnswered |
| Browser with Docs <- CutPage and ActsOnActionable | MCCdpBridge | a tree is cut inside the digits of an id, and a click on its last handle reaches another element | cdp.hpp:945 | precondition of ActsOnWhatWasShown |
| BrowserTwoClients | MCCdpBridge | the tree sent to one client changes the handles of another | server.hpp:816 | precondition of HandleMeansWhatWasShown |
| Browser with NavigatedInSession | MCCdpBridge | a browser whose start failed half way counts as started; navigate then answers 0 without a page | cdp.hpp:502 | README.md:87 |
| Browser with ActsOnShownPage | MCCdpBridge | a handle of the page before clicks an element of the present one | cdp.hpp:654 | precondition of ActsOnWhatWasShown |
| Browser with StopsNobodyElse | MCCdpBridge | the browser has died and been reaped, and stop kills whoever has its number | cdp.hpp:813 | precondition of NoBrowserLeft |
| Browser with NoPipeLeak | MCCdpBridge | a start without a second pipe leaves the first open | cdp.hpp:446 | - |
| ServerLive with NobodyStarves | MCDaemon | the handler of one client's request does not return, and the request of another is never served | process.hpp:261, cdp.hpp:861 | precondition of FramesServed |
| ServerSlots with NeverPanics | MCDaemon | a failed SignalFd, listener or init returns from main, and the kernel panics | main.cpp:34 | ARCHITECTURE.md:30 |

## 4. What is proved

`tlapm` checks these for every value of the constants that satisfies the named ASSUME
of the module (`ServerAssumption`: distinct descriptors, positive sizes, a buffer that
holds more than a header; `ReadAssumption`, which only `OnlyPipelinersOverflow` needs: a
read fits the buffer behind a header that is not complete, 4 KiB and 11 bytes in 64 KiB;
`RingAssumption`: a positive capacity; `MountAssumption`: a walk of the directory lists
each path once; `FileAssumption`: a missing file is told from every content). `MaxSent`, `MaxChildren`, `MaxCalls` and their like bound only the environment
and may be any number.

**Server** (`ApplianceServerProofs`). `TypeCorrect`, `BuffersBounded`, `NoDescriptorLeak`,
`NoStaleEvent` and `OrderlyStop` follow from one inductive invariant,
`IInv == TypeOK /\ Struct`. The properties are not inductive alone. That an event of the
batch is fresh must survive the closing of a descriptor while other events are still
in the batch: hence `OneEventPerFd` (a batch names a descriptor once) and `InHand`
(while an event is handled its descriptor is not in the rest of the batch, and the
current slot holds it or is free). That an accept cannot give a batch's event to a
new connection follows from the same two and `DescriptorsAccounted`: a number that
the kernel hands out is not open, and every event's number is. `QueuedForAccept` says
that the listener's event implies a waiting connection, `Writing` that the slot is
still taken while an answer is written, `BatchOver` that nothing is left when the loop
waits or has stopped. The proof has a lemma per action (`WaitKeeps`, `AcceptKeeps`, ...) and one for the
release of a slot, which six actions share.

*Connections.* `ClosedIsFinal` proves `ClosedStaysQuiet` with the
invariant `Places`: a connection is unknown, or once in the accept queue, or behind one
descriptor, and a closed one is in none of the three. `IInv` says that a descriptor
belongs to one slot; `Places` that a connection belongs to one descriptor, so that
closing it leaves no second way in. `ZombiesAreReaped` proves `NoForgottenZombie`,
which is inductive: a SIGCHLD is taken and the children waited for in one step.

*Service.* `ServesEachQueue` proves that every behaviour is one of
`FrameService`. The invariant is `Streams`: what a slot has buffered followed by what
its socket holds is the encoding of the frames sent and not yet dispatched. `Chain` says
so without recursion, by what must follow each first unit: the rest of its frame, then
the first unit of the next. `Whole` says that the stream ends with the client's last
frame; a reset loses units, so a connection whose client is gone has a `Chain` that may
end anywhere. The lemmas on the data are three: a frame appended (`ChainAppend`), the
frame in front dropped (`ChainDrop`), an end lost (`ChainPrefix`); a read moves the cut
between socket and buffer and changes nothing (`ReadMoves`). While an answer is being
written its request is still in the buffer though already served (`FrontOf`,
`RequestKept`).

*Answers.* `AnswersKeepOrder` proves `AnswersInOrder` with the invariant `Answers`. `Numbered`
takes from `Streams` that frames are dispatched in the order they were sent, so that the
n-th served is the n-th sent; `InHandAnswer` says that what is still to be written are the
last parts of the answer to the frame served last; `Parts`, that they continue what the
client has been written, or that this ends with a whole answer; `Complete` is inductive with
these: only `write_all` leaves an answer unfinished, and it does not return to the loop
before the end, or closes.

*Overflow.* `OnlyPipelinersOverflow` proves `OverflowOnlyWhenPipelining` with the invariant
`Settled`: a slot that is not being served holds less than a header, or the beginning of a
frame that fits the buffer. So a read that finds no room must bring the units of two
frames, neither of them dispatched (`OverflowMeansTwo`, from `Streams`).

*Hang-ups.* `HalfCloseServed` proves `HalfCloseServesOneRead`. An event that reports a hang-up
is about a client that sends nothing more (`HangUps`); the read that follows leaves its
socket empty, or has found more than one read takes (`HupInHand`), and then more than that
was sent, because a socket never holds more than was sent (`ReadSent`, an induction over
the frames sent: `TotalAppend`). With the socket empty the buffer ends with a whole frame
(`Streams`), so when no frame can be extracted it is empty and all is served
(`DroppedIsServed`).

**Daemon** (`ApplianceServerProofs`, last section). `PanicsNotInService`, `DaemonLeaksNothing` and `ClosedToTheEnd`
carry the reactor's invariants over to the daemon. A step of main is a step of the
reactor, a step that leaves it alone, or the closing of the listener between two batches
(`CloseListenerKeeps`). `NotServing` and `NotLooping` say that the reactor has done nothing
until it runs: a panic of the start comes before any request is served, and the other one,
of a refused reboot, when none is served any more.

**Process runner** (`ProcessRunnerProofs`). `RunnerTypeCorrect`, `OutputIsWhole`,
`OutcomeIsOwn` and `NoKillAfterReap` follow from `IInv`, for every set of exit codes, 137
among them or not. `Reaped` ties the child's state to
the place in the loop: a child that has been waited for is at the loop's head only with
the pipe closed, and then the loop is over, so neither `Check` nor `WaitExpires` can
send a kill. `Flushed` says that a pipe is closed only when it is empty and the child has
let go of it, and that an event with a hang-up, once seen, stays true. `Timely` follows the
wait: the clock and what is left of the wait move together, so that a wait that has run
out has outlasted the timeout. It needs the assumption on `MaxNow`.

**Browser** (`CdpBridgeProofs`). `OwnReplies` is about ids searched for as text: the id
awaited is the largest ever given out, so no message in the pipe has an id of which it
is a proper beginning (`InFlight`). `NoBrowserSurvives` needs `Places`: from the fork on
`started_` is set. `HandlesMeanWhatWasShown` and `ActionsReachWhatWasShown` assume one client
(`OneClient`): the bridge has one map for all, and with two the properties fail
(BrowserTwoClients). Their invariant `AimInv` says that the map is empty or the one made with
the tree sent last (`ShownInv`), but for the handle of a node that was cut, and that each command on its way names the element that
was meant by its request, a late one that of its own (`Aimed`); the lemmas under it are about
the filter: a handle of a node that came whole is the same in the map, for every size of
list and map (`HandledOnce`), whatever is read of the node behind it (`ReceivedIsDocument`).

**Ring buffer** (`OutputPipelineProofs`). `RingTypeCorrect` and
`RingImplementsTail` are for a buffer that is cleared and pushed to in any way. The
invariant is `Wrapped`: either the buffer has never been full since it was cleared, then
the head is 0 and tail, size and total are equal, or it is full, then head and tail
coincide and total is at least the capacity. In the first case a push is an append to
what `Linear` reads back (`PushAppends`), in the second it drops the first byte
(`PushDrops`); both need that stepping modulo the capacity wraps once (`WrapOnce`), which
is proved from the definition of `%`. `RunnerUsesRing` shows that the runner is one of
the users these theorems allow (its steps clear, push one byte or leave the buffer
alone), hence `OutputImplementsTail` and `OutputStaysInArray`.

**Output** (`OutputPipelineProofs`). `FlagsLoss`, `DamageOfOverflow` and `StripsText` follow from
`OutInv`. Its part `Arrived` says that what the command has printed is a beginning the
buffer has forgotten, then what `Linear` reads back, then what is still in the pipe, and
that the beginning has `total - size` bytes; `PhaseInv`, that the filter stands on the
ground while a command runs, and that a broken piece is the start of a piece. At the
answer the pipe is empty, so that the buffer holds all of it or its latest `Capacity`
bytes. Two recursive functions are reasoned about, the flattening of the pieces and
`Filter`. The library's induction theorems take operators, which the provers cannot
instantiate; `Induction` is proved instead for a *set* of numbers, from the
well-foundedness of `Nat`, and gives that each recursion has the function it describes
(`RecursionExists`, `FlattenAppend`, `FilterAppend`) and that a filter reads a
concatenation one part after the other (`FilterConcat`). `StripsText` then goes piece by
piece: text passes the ground unchanged (`TextPasses`), and within each kind of sequence
that `Known` lists no byte is let through, cut short or whole, and only the whole one ends
on the ground (`PieceShown`). It assumes `KnownPieces`, that commands print only text and
such sequences; TLC checks this of its menu (`MenuIsKnown`), and a device control string,
which is not among them, does break the property's claim (OutputDeviceControl).
`DamageOfOverflow`, under the same assumption, is about what is left of a sequence cut by the buffer:
the filter begins in its middle, on the ground, and is back on the ground at its end
(`BackInStep`, by the kind of sequence and the place of the cut), so the pieces behind it
are shown as they are (`CutConfined`). `FlagsLoss` assumes nothing of the output.

**Host client** (`HostClientProofs`). `FreshStreamOwnAnswer` and `AnswerNeverMixed` follow from
`HostInv`. Behind each unit on its way follows the next of its answer, and behind the last
one the first of another (`InOrder`, of what has been read of the present answer and the
stream together); the last answer has come whole unless the peer has hung up (`Complete`);
and a read starts with a header as long as no call has given up inside an answer
(`InStep`). So a call that has read a real header has the rest of the same answer before it,
whatever payload looks like (`AnswerNeverMixed`, for any number of failures). As long as no
call has failed, the stream between calls is empty and during one holds a part of its answer
(`Trusted`).

**TypeScript client** (`SdkClientProofs`). `AloneGetsOwn` and `AnswersStayWhole` follow from
`SdkInv`. `Framed` says that what the client has read and what is on its way to it is the
beginning of a row of whole answers, cut only if the peer has hung up; `Examined`, that the
buffer starts with the header of the answer whose payload a call waits for; `Trusted`, that
on a client in which no call has failed or overlapped since the last close there is
nothing but the answer of the call that waits. `Lone` is what makes these hold between
the turns of the event loop: without overlap at most one call runs, except after a close,
where the calls still running find nothing to read. `Queued` says that a call is in the
microtask queue once; waking all waiters needs that the order `SetToSeq` chooses lists each
once (`SetInSequence`). Overlapping calls are left out of the two properties because
they do tear each other's answers (SdkOverlap).

**File store** (`HostFilesProofs`). `ReadWhole`, `WriteWhole` and `PatchInPlace` follow from `FileInv`,
which has a conjunct for each operation: what has been read is a beginning of the file
(`Reading`), the file is a beginning of what is to be written (`Writing`), and between the
system calls of a patch the file is empty or the old one, and the buffer holds the new
one (`Patching`). They hold for every content, and every size of chunk, buffer and size
field; `ReadWhole` for files whose size that field can hold.

**Mounts** (`HostFilesProofs`, second half). `ChangesArrive` proves `ChangesReachHost` and
`RemovalsAreOfCommand` the action property `RemovalsOfCommand`, for every set of mounted
files, every bound on the snapshots and the difference, any number of commands, changes
and faults. Both follow from `MountInv`. The comparison of the snapshots is right only if a file that
was touched differs from what it was: so every content in the system, late answers
included, has been written before (`World`), and a write is younger (`Commanded`). From
there `DiffOfCommand` shows that between two snapshots that hold every file the lines name
just the files that changed: `AmongIs` and `CaptureIs` say that a snapshot lists each path
once and, unless it is full, all of them; `FittingAll` that no line is dropped if there is
room for those of all the changed files, by `RoomForOneMore`, one file at a time. A run that failed has no lines: `ChangesArrive` is about the others. While the
lines are applied (`Pulling`) each changed file is on the host or still has its line, and
lines of other files cannot touch it because its name is plain. `MountAssumption` asks that the
walk of the directory lists each path once.

**Snapshots** (`SnapshotsProofs`). `SnapshotTypes`, `MachinesStayApart`, `IntactSnapshotsExact` and
`ResumedAfterSnapshot` follow from `SnapInv`. `Apart` needs to know who shares what: two live
guests share a directory only if it is recorded as crowded, also with the guest that is
being loaded (`Loading`), and pages not yet written are mapped from the guest's own
directory. `Exact` says of every snapshot handed out that its files hold the memory
of the moment it was asked for unless a later call has touched them; between the two
requests of a snapshot it needs that the guest stands still (`Making`).
`ResumedAfterSnapshot` names the failed requests that may leave a guest paused: its own, to
pause or to resume; that of writing the files is not among them.

**Not provable here, only model-checked.** Liveness (`FramesServed`, `ShutdownPowersOff`,
`AlwaysReturns`, `CallsSettle`, `RequestsAnswered`).

Every other property of the passing runs is stated by a theorem.

## 5. What is not modelled

* *An active machine of the MCP server that has died*, and a failed start behind it.
* *Layout of payloads, CRC of snapshots, JSON, outlines by Tree-sitter*: data without
  interleavings; the properties do not look inside.
* *Command line, asset download, benchmarks, image and kernel tools*: straight lines of
  calls, or not part of the system.
* *What a full map of descriptors or an unreadable directory leaves out of a snapshot* of
  diff.hpp.
* *Time stamps of files*: a command that restores size and time stamp hides a change
  from the difference. *File modes and parent directories*.
* *A MicroVM.start that fails half way and Firecracker processes that die alone*.

External parts (kernel, Firecracker, guest processes, clients of the server) are
modelled from how the code uses them and marked external in `PROJECT.json`.

## 6. Plan

Done, in the order of importance: 1 `ApplianceServer`, `FrameService`, proofs;
2 `RingBuffer`, `OutputTail`, `AnsiFilter`, `OutputPipeline`, proofs; 3 `ProcessRunner`,
proofs; 4 `HostClient`, `SdkClient`; 5 `MountSync`; 6 `FileStore`; 7 `Snapshots`;
8 `CdpBridge`, proofs; 9 `Daemon`, proofs; 10 proofs of the server's answers, of
the output's, of `HostClient`, `SdkClient`, `FileStore`, `MountSync` and `Snapshots`.

Left:

11. The active machine of the MCP server, whose process may die or whose start may fail.
12. Abstract specifications worth stating: a call service (each call one answer, its
    own) that `HostClient` implements on a fresh stream; a file register that
    `FileStore` implements without other writers.
