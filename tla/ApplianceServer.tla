--------------------------- MODULE ApplianceServer ---------------------------
(***************************************************************************)
(* The guest's single-threaded reactor (include/axiom/server.hpp): one     *)
(* epoll loop that accepts host connections into a fixed array of client   *)
(* slots, reassembles TDS-Wire frames in each slot's receive buffer,       *)
(* dispatches them one at a time and writes the responses with blocking    *)
(* writes.  Clients, the kernel's socket buffers and signals run           *)
(* concurrently with it, so the loop is cut into steps where another party *)
(* can act: epoll_wait, one signalfd read, one accept, one read(2), one    *)
(* dispatched frame, one write_all.                                        *)
(*                                                                         *)
(* Bytes are abstracted to units: a unit says which frame it belongs to    *)
(* and its position in it, the first HeaderSize of them being the header.  *)
(* Parsing only ever looks at the front of the receive buffer, so a wrong  *)
(* compaction of the buffer shows as a unit that is no header.             *)
(***************************************************************************)
EXTENDS Integers, Sequences, FiniteSets, SequencesExt, FiniteSetsExt

CONSTANTS Conns,        \* the connections that clients may open
          Menu,         \* the frames, [kind, plen], a client may send
          MaxSent,      \* bound: frames sent on one connection
          MaxClients,   \* MAX_CLIENTS
          HeaderSize,   \* wire::HEADER_SIZE
          Capacity,     \* BUFFER_CAPACITY
          Chunk,        \* size of the read(2) buffer in handle_client_event
          TxWindow,     \* response parts the kernel buffers for a client
          Signals,      \* signals the environment raises, of "CHLD", "TERM"
          MaxChildren,  \* bound: child processes that may end, unwaited for
          Faults,       \* the system calls that may fail, of "wait", "ctl", "accept"
          Fds,          \* descriptor numbers for accepted connections
          ListenerFd, SignalFd, NoFd, NoConn

Answering == {"Ping", "Exec", "Body", "Status"}
Kinds == Answering \cup {"Short", "Unknown", "Shutdown", "BadMagic"}

ASSUME ServerAssumption ==
  /\ NoConn \notin Conns
  /\ Fds \cup {ListenerFd, SignalFd, NoFd} \subseteq Int
  /\ {ListenerFd, SignalFd, NoFd} \cap Fds = {}
  /\ ListenerFd # SignalFd /\ ListenerFd # NoFd /\ SignalFd # NoFd
  /\ Menu \subseteq [kind : Kinds, plen : Nat]
  /\ {MaxClients, HeaderSize, Chunk, TxWindow} \subseteq Nat \ {0}
  /\ Capacity \in Nat /\ Capacity > HeaderSize
  /\ MaxSent \in Nat /\ MaxChildren \in Nat
  /\ Faults \subseteq {"wait", "ctl", "accept"}
  /\ Signals \subseteq {"CHLD", "TERM"}

\* One read leaves room in the buffer for a header that is not complete yet.
ASSUME ReadAssumption == HeaderSize + Chunk <= Capacity + 1

Slots == 1..MaxClients
Frame == [kind : Kinds, plen : Nat, rid : Conns \X Nat]
Unit  == [f : Frame, i : Nat \ {0}]
Part  == [rid : Conns \X Nat, k : Nat, n : Nat]
Event == [fd : Fds \cup {ListenerFd, SignalFd}, hup : BOOLEAN, conn : Conns \cup {NoConn}]

\* Why the server closed a connection ("no": it has not).
Reasons == {"no", "full", "reactor", "overflow", "protocol", "eof", "hup", "write", "stop"}

VARIABLES
  cstate,   \* client end: "idle", "open", "shut" (writes shut down), "gone"
  sent,     \* frames the client has written
  backlog,  \* connections waiting in the listener's accept queue
  peer,     \* descriptor table: the connection behind each descriptor
  inq,      \* units the kernel holds for the server to read
  unread,   \* response parts the kernel holds for the client to read
  sigs,     \* signals pending on the signalfd
  living,   \* children still running that nobody waits for
  zombies,  \* terminated children not reaped yet
  slotFd,   \* ClientSlot::fd
  rx,       \* ClientSlot::rx_buffer
  interest, \* the epoll interest list
  running,  \* running_
  pc,       \* where the loop is
  batch,    \* events of the current epoll_wait still to be handled
  ev,       \* the client event being handled
  cur,      \* its slot
  tx,       \* response parts still to be written by the current handler
  done,     \* history: frames dispatched, per connection
  resp,     \* history: response parts written, per connection
  why       \* history: why the server closed the connection

clientVars == <<cstate, sent>>
kernelVars == <<backlog, peer, inq, unread, sigs, living, zombies>>
slotVars   == <<slotFd, rx, interest>>
loopVars   == <<running, pc, batch, ev, cur, tx>>
history    == <<done, resp, why>>
vars == <<clientVars, kernelVars, slotVars, loopVars, history>>

-----------------------------------------------------------------------------
Size(f) == HeaderSize + f.plen
Encode(f) == [i \in 1..Size(f) |-> [f |-> f, i |-> i]]

\* wire::decode_header: the buffer starts with a header and its magic is right.
HeaderOk(buf) == Head(buf).i = 1 /\ Head(buf).f.kind # "BadMagic"

\* The n writes that make up the answer to f, in order: header, body, diff.
Answer(f, n) == [k \in 1..n |-> [rid |-> f.rid, k |-> k, n |-> n]]

\* How many write_all calls a handler makes when each finds something to send.
PartCounts(kind) ==
  CASE kind \in {"Ping", "Status"} -> {1}
    [] kind = "Body" -> {1, 2}
    [] kind = "Exec" -> {1, 2, 3}
    [] OTHER -> {}

Closed(c) == why[c] # "no"
SlotsOf(fd) == {s \in Slots : slotFd[s] = fd}

AnySlot == Slots   \* mutant: find_free_slot without its test
FreeSlots == {s \in Slots : slotFd[s] = NoFd}

LiveSlotsButLast == {s \in 1..(MaxClients - 1) : slotFd[s] # NoFd}   \* mutant: off by one
LiveSlots == {s \in Slots : slotFd[s] # NoFd}

\* Events without a connection: the listener's and the signalfd's.
PlainEvent(fd) == [fd |-> fd, hup |-> FALSE, conn |-> NoConn]

Init ==
  /\ cstate = [c \in Conns |-> "idle"]
  /\ sent = [c \in Conns |-> <<>>]
  /\ backlog = <<>>
  /\ peer = [fd \in Fds |-> NoConn]
  /\ inq = [c \in Conns |-> <<>>]
  /\ unread = [c \in Conns |-> 0]
  /\ sigs = {} /\ living = MaxChildren /\ zombies = 0
  /\ slotFd = [s \in Slots |-> NoFd]
  /\ rx = [s \in Slots |-> <<>>]
  /\ interest = {ListenerFd, SignalFd}
  /\ running = TRUE /\ pc = "loop"
  /\ batch = {} /\ ev = PlainEvent(ListenerFd) /\ cur = 1 /\ tx = <<>>
  /\ done = [c \in Conns |-> <<>>]
  /\ resp = [c \in Conns |-> <<>>]
  /\ why = [c \in Conns |-> "no"]

-----------------------------------------------------------------------------
(* The clients, and the signals that reach PID 1. *)

Connect(c) ==
  /\ cstate[c] = "idle"
  /\ pc # "stopped" /\ pc # "failed"
  /\ cstate' = [cstate EXCEPT ![c] = "open"]
  /\ backlog' = Append(backlog, c)
  /\ UNCHANGED <<sent, peer, inq, unread, sigs, living, zombies, slotVars, loopVars, history>>

Send(c) ==
  /\ cstate[c] = "open" /\ ~Closed(c)
  /\ Len(sent[c]) < MaxSent
  /\ \E m \in Menu :
       LET f == [kind |-> m.kind, plen |-> m.plen, rid |-> <<c, Len(sent[c]) + 1>>] IN
         /\ sent' = [sent EXCEPT ![c] = Append(@, f)]
         /\ inq' = [inq EXCEPT ![c] = @ \o Encode(f)]
  /\ UNCHANGED <<cstate, backlog, peer, unread, sigs, living, zombies, slotVars, loopVars, history>>

ShutdownWrites(c) ==
  /\ cstate[c] = "open"
  /\ cstate' = [cstate EXCEPT ![c] = "shut"]
  /\ UNCHANGED <<sent, kernelVars, slotVars, loopVars, history>>

\* A close with unread data is a reset: the units in flight may be lost.
Close(c) ==
  /\ cstate[c] \in {"open", "shut"}
  /\ cstate' = [cstate EXCEPT ![c] = "gone"]
  /\ inq' \in {inq, [inq EXCEPT ![c] = <<>>]}
  /\ UNCHANGED <<sent, backlog, peer, unread, sigs, living, zombies, slotVars, loopVars, history>>

Receive(c) ==
  /\ cstate[c] \in {"open", "shut"} /\ unread[c] > 0
  /\ unread' = [unread EXCEPT ![c] = @ - 1]
  /\ UNCHANGED <<clientVars, backlog, peer, inq, sigs, living, zombies, slotVars, loopVars, history>>

ChildDies ==
  /\ "CHLD" \in Signals /\ living > 0
  /\ living' = living - 1
  /\ zombies' = zombies + 1
  /\ sigs' = sigs \cup {"CHLD"}
  /\ UNCHANGED <<clientVars, backlog, peer, inq, unread, slotVars, loopVars, history>>

\* Raised again while pending it is coalesced; once taken it needs no second one.
Terminate ==
  /\ "TERM" \in Signals /\ running
  /\ sigs' = sigs \cup {"TERM"}
  /\ UNCHANGED <<clientVars, backlog, peer, inq, unread, living, zombies, slotVars, loopVars, history>>

Environment ==
  \/ \E c \in Conns : Connect(c) \/ Send(c) \/ ShutdownWrites(c) \/ Close(c) \/ Receive(c)
  \/ ChildDies \/ Terminate

-----------------------------------------------------------------------------
(* The reactor. *)

ReleaseWithoutReset(s, r) ==   \* mutant: the slot keeps its descriptor
  /\ interest' = interest \ {slotFd[s]}
  /\ why' = [why EXCEPT ![peer[slotFd[s]]] = r]
  /\ UNCHANGED <<slotFd, rx, peer, inq>>

\* reactor_.remove and ClientSlot::reset on slot s, for reason r.
Release(s, r) ==
  LET fd == slotFd[s] c == peer[fd] IN
    /\ interest' = interest \ {fd}
    /\ slotFd' = [slotFd EXCEPT ![s] = NoFd]
    /\ rx' = [rx EXCEPT ![s] = <<>>]
    /\ peer' = [peer EXCEPT ![fd] = NoConn]
    /\ inq' = [inq EXCEPT ![c] = <<>>]
    /\ why' = [why EXCEPT ![c] = r]

KeepSlots == UNCHANGED <<slotVars, peer, inq, why>>

AcceptReady == backlog # <<>>

HungUp(c) == cstate[c] \in {"shut", "gone"}

\* What epoll_wait reports; a peer that hung up is always readable (EOF).
ReadyEvents ==
  {[fd |-> fd, hup |-> HungUp(peer[fd]), conn |-> peer[fd]] :
     fd \in {g \in Fds \cap interest : inq[peer[g]] # <<>> \/ HungUp(peer[g])}}
  \cup {e \in {PlainEvent(ListenerFd)} : AcceptReady}
  \cup {e \in {PlainEvent(SignalFd)} : sigs # {}}

\* run: the loop tests running_ only here, once per batch of events.
Wait ==
  /\ pc = "loop" /\ running
  /\ ReadyEvents # {}
  /\ batch' = ReadyEvents
  /\ pc' = "batch"
  /\ UNCHANGED <<clientVars, kernelVars, slotVars, running, ev, cur, tx, history>>

WaitTimesOut ==
  /\ pc = "loop" /\ running
  /\ ReadyEvents = {}
  /\ UNCHANGED vars

\* epoll_wait fails (EINTR): run returns without cleanup.
WaitFails ==
  /\ pc = "loop" /\ running /\ "wait" \in Faults
  /\ pc' = "failed"
  /\ UNCHANGED <<clientVars, kernelVars, slotVars, running, batch, ev, cur, tx, history>>

BatchDone ==
  /\ pc = "batch" /\ batch = {}
  /\ pc' = "loop"
  /\ UNCHANGED <<clientVars, kernelVars, slotVars, running, batch, ev, cur, tx, history>>

StartSignals ==
  /\ pc = "batch"
  /\ \E e \in batch : e.fd = SignalFd /\ batch' = batch \ {e}
  /\ pc' = "signals"
  /\ UNCHANGED <<clientVars, kernelVars, slotVars, running, ev, cur, tx, history>>

ReapedOne(n) == n - 1   \* mutant: one child per signal
ReapedAll(n) == 0       \* reap_children loops until no child is left

\* One turn of handle_signals: a read of everything pending, reap_children for
\* SIGCHLD, running_ cleared for SIGTERM; a read that finds nothing ends it.
HandleSignals ==
  /\ pc = "signals"
  /\ sigs' = {}
  /\ zombies' = IF "CHLD" \in sigs THEN ReapedAll(zombies) ELSE zombies
  /\ running' = (running /\ "TERM" \notin sigs)
  /\ pc' = IF sigs = {} THEN "batch" ELSE "signals"
  /\ UNCHANGED <<clientVars, backlog, peer, inq, unread, living, slotVars, batch, ev, cur, tx, history>>

HandleAccept ==
  /\ pc = "batch"
  /\ \E e \in batch : e.fd = ListenerFd /\ batch' = batch \ {e}
  /\ \/ /\ "accept" \in Faults   \* accept4 fails, the connection stays queued
        /\ UNCHANGED <<backlog, slotVars, peer, inq, why>>
     \/ /\ FreeSlots = {}
        /\ backlog' = Tail(backlog)
        /\ inq' = [inq EXCEPT ![Head(backlog)] = <<>>]
        /\ why' = [why EXCEPT ![Head(backlog)] = "full"]
        /\ UNCHANGED <<slotVars, peer>>
     \/ /\ FreeSlots # {}
        /\ backlog' = Tail(backlog)
        /\ \E fd \in {g \in Fds : peer[g] = NoConn} :
             /\ slotFd' = [slotFd EXCEPT ![Min(FreeSlots)] = fd]
             /\ rx' = [rx EXCEPT ![Min(FreeSlots)] = <<>>]
             /\ interest' = interest \cup {fd}
             /\ peer' = [peer EXCEPT ![fd] = Head(backlog)]
        /\ UNCHANGED <<inq, why>>
     \/ /\ FreeSlots # {} /\ "ctl" \in Faults    \* epoll_ctl fails, the slot is reset
        /\ backlog' = Tail(backlog)
        /\ inq' = [inq EXCEPT ![Head(backlog)] = <<>>]
        /\ why' = [why EXCEPT ![Head(backlog)] = "reactor"]
        /\ UNCHANGED <<slotVars, peer>>
  /\ UNCHANGED <<clientVars, unread, sigs, living, zombies, running, pc, ev, cur, tx, done, resp>>

OverflowsLate(s, k) == Len(rx[s]) + k > Capacity + 1  \* mutant
OverflowsEarly(s, k) == Len(rx[s]) + k >= Capacity    \* mutant
\* Pushing k units one by one fails on the one that finds the buffer full.
Overflows(s, k) == Len(rx[s]) + k > Capacity

\* The head of handle_client_event: one read of at most Chunk units.  Fewer
\* arrive when the stream is cut there, unless the FIN is already in.  An event
\* for a descriptor no slot holds only removes and closes the descriptor.
HandleClientEvent ==
  /\ pc = "batch"
  /\ \E e \in batch :
       /\ e.fd \in Fds
       /\ batch' = batch \ {e} /\ ev' = e
       /\ IF SlotsOf(e.fd) = {}
          THEN /\ interest' = interest \ {e.fd}
               /\ peer' = [peer EXCEPT ![e.fd] = NoConn]
               /\ pc' = "batch"
               /\ UNCHANGED <<slotFd, rx, inq, why, cur>>
          ELSE LET s == Min(SlotsOf(e.fd))
                   in == inq[peer[e.fd]]
                   most == Min({Len(in), Chunk})
               IN /\ cur' = s
                  /\ \/ /\ in = <<>>
                        /\ Release(s, "eof") /\ pc' = "batch"
                     \/ \E k \in (IF e.hup THEN {most} ELSE 1..most) \ {0} :
                          \/ /\ Overflows(s, k)
                             /\ Release(s, "overflow") /\ pc' = "batch"
                          \/ /\ ~Overflows(s, k)
                             /\ rx' = [rx EXCEPT ![s] = @ \o SubSeq(in, 1, k)]
                             /\ inq' = [inq EXCEPT ![peer[e.fd]] = SubSeq(@, k + 1, Len(@))]
                             /\ pc' = "frames"
                             /\ UNCHANGED <<slotFd, interest, peer, why>>
  /\ UNCHANGED <<clientVars, backlog, unread, sigs, living, zombies, running, tx, done, resp>>

\* The tests at the head of process_client_frames' loop.
HeaderIn == Len(rx[cur]) >= HeaderSize
Rejected ==
  HeaderIn /\ (~HeaderOk(rx[cur]) \/ Head(rx[cur]).f.plen > Capacity - HeaderSize)
FrameInLate == HeaderIn /\ ~Rejected /\ Len(rx[cur]) > Size(Head(rx[cur]).f)  \* mutant
FrameIn == HeaderIn /\ ~Rejected /\ Len(rx[cur]) >= Size(Head(rx[cur]).f)

CompactedWithoutMove(buf) == SubSeq(buf, 1, Len(buf) - Size(Head(buf).f))  \* mutant
\* The buffer after the frame at its front has been dispatched.
Compacted(buf) == SubSeq(buf, Size(Head(buf).f) + 1, Len(buf))
Compact == rx' = [rx EXCEPT ![cur] = Compacted(@)]

RejectFrame ==
  /\ pc = "frames" /\ Rejected
  /\ Release(cur, "protocol")
  /\ pc' = "tail"
  /\ UNCHANGED <<clientVars, backlog, unread, sigs, living, zombies, running, batch, ev, cur, tx,
                 done, resp>>

\* process_client_frames returns; the end of handle_client_event then drops a
\* peer that had hung up when epoll_wait reported it.
FramesDone ==
  /\ pc = "tail" \/ (pc = "frames" /\ ~Rejected /\ ~FrameIn)
  /\ IF slotFd[cur] # NoFd /\ ev.hup THEN Release(cur, "hup") ELSE KeepSlots
  /\ pc' = "batch"
  /\ UNCHANGED <<clientVars, backlog, unread, sigs, living, zombies, running, batch, ev, cur, tx,
                 done, resp>>

\* dispatch_frame for frames that get no answer: Shutdown, an unknown opcode, a
\* payload too short for its handler.
DispatchSilent ==
  /\ pc = "frames" /\ FrameIn
  /\ LET f == Head(rx[cur]).f c == peer[slotFd[cur]] IN
       /\ f.kind \notin Answering
       /\ running' = (running /\ f.kind # "Shutdown")
       /\ done' = [done EXCEPT ![c] = Append(@, f)]
  /\ Compact
  /\ UNCHANGED <<clientVars, kernelVars, slotFd, interest, pc, batch, ev, cur, tx, resp, why>>

\* dispatch_frame for the rest: the handler runs to completion, then writes its
\* answer from a buffer of its own while the request stays at the front of rx.
DispatchAnswered ==
  /\ pc = "frames" /\ FrameIn
  /\ LET f == Head(rx[cur]).f c == peer[slotFd[cur]] IN
       /\ \E n \in PartCounts(f.kind) : tx' = Answer(f, n)
       /\ done' = [done EXCEPT ![c] = Append(@, f)]
  /\ pc' = "write"
  /\ UNCHANGED <<clientVars, kernelVars, slotVars, running, batch, ev, cur, resp, why>>

RoomLate(c) == unread[c] <= TxWindow  \* mutant
Room(c) == unread[c] < TxWindow

LastPartEarly == Len(tx) <= 2  \* mutant: the handler returns one write short
LastPart == Len(tx) = 1

\* One write_all of a handler; after the last one the frame is compacted away.
WritePart ==
  /\ pc = "write"
  /\ LET c == peer[slotFd[cur]] IN
       /\ Room(c)
       /\ unread' = [unread EXCEPT ![c] = @ + 1]
       /\ resp' = [resp EXCEPT ![c] = Append(@, Head(tx))]
  /\ tx' = Tail(tx)
  /\ IF LastPart THEN Compact /\ pc' = "frames" ELSE UNCHANGED <<rx, pc>>
  /\ UNCHANGED <<clientVars, backlog, peer, inq, sigs, living, zombies, slotFd, interest,
                 running, batch, ev, cur, done, why>>

GivesUpNever(c) == cstate[c] = "gone"  \* mutant: a poll without timeout
GivesUp(c) == cstate[c] = "gone" \/ ~Room(c)

\* write_all fails: the peer is gone, or did not read for the five seconds of
\* the poll.  The slot is reset, which empties rx, so the loop finds no header
\* (remaining wraps around and neither memmove nor pop_back runs).
WriteFails ==
  /\ pc = "write"
  /\ GivesUp(peer[slotFd[cur]])
  /\ Release(cur, "write")
  /\ tx' = <<>> /\ pc' = "frames"
  /\ UNCHANGED <<clientVars, backlog, unread, sigs, living, zombies, running, batch, ev, cur, done, resp>>

\* cleanup(): every live slot is removed and reset.
Cleanup ==
  /\ pc = "loop" /\ ~running
  /\ LET fds == {slotFd[s] : s \in LiveSlots}
         cs == {peer[fd] : fd \in fds} IN
       /\ interest' = interest \ fds
       /\ peer' = [fd \in Fds |-> IF fd \in fds THEN NoConn ELSE peer[fd]]
       /\ slotFd' = [s \in Slots |-> IF s \in LiveSlots THEN NoFd ELSE slotFd[s]]
       /\ rx' = [s \in Slots |-> IF s \in LiveSlots THEN <<>> ELSE rx[s]]
       /\ inq' = [c \in Conns |-> IF c \in cs THEN <<>> ELSE inq[c]]
       /\ why' = [c \in Conns |-> IF c \in cs THEN "stop" ELSE why[c]]
  /\ pc' = "stopped"
  /\ UNCHANGED <<clientVars, backlog, unread, sigs, living, zombies, running, batch, ev, cur, tx, done, resp>>

Halted == pc \in {"stopped", "failed"} /\ UNCHANGED vars   \* main powers off

Server ==
  \/ Wait \/ WaitTimesOut \/ WaitFails \/ BatchDone
  \/ StartSignals \/ HandleSignals \/ HandleAccept \/ HandleClientEvent
  \/ RejectFrame \/ FramesDone \/ DispatchSilent \/ DispatchAnswered
  \/ WritePart \/ WriteFails \/ Cleanup

Next == Server \/ Environment \/ Halted

Spec == Init /\ [][Next]_vars

\* The requests whose handlers need not return: Exec drains a pipe for as long as there
\* is something in it, and BrowserCdp, one of those answered with a body, writes to a pipe
\* that the browser may have stopped reading.
Unbounded == {"Exec", "Body"}
InHandler == pc = "frames" /\ FrameIn /\ Head(rx[cur]).f.kind \in Unbounded

\* The loop is scheduled; a read of it never blocks, a write waits at most for its poll,
\* and the other handlers return.  Clients owe the server nothing.
FairSpec == Spec /\ WF_vars(~InHandler /\ Server)

-----------------------------------------------------------------------------
TypeOK ==
  /\ cstate \in [Conns -> {"idle", "open", "shut", "gone"}]
  /\ sent \in [Conns -> Seq(Frame)]
  /\ backlog \in Seq(Conns)
  /\ peer \in [Fds -> Conns \cup {NoConn}]
  /\ inq \in [Conns -> Seq(Unit)]
  /\ unread \in [Conns -> 0..TxWindow]
  /\ sigs \subseteq {"CHLD", "TERM"}
  /\ living \in Nat /\ zombies \in Nat
  /\ slotFd \in [Slots -> Fds \cup {NoFd}]
  /\ rx \in [Slots -> Seq(Unit)]
  /\ interest \subseteq Fds \cup {ListenerFd, SignalFd}
  /\ running \in BOOLEAN
  /\ pc \in {"loop", "batch", "signals", "frames", "write", "tail", "stopped", "failed"}
  /\ batch \subseteq Event
  /\ ev \in Event
  /\ cur \in Slots
  /\ tx \in Seq(Part)
  /\ done \in [Conns -> Seq(Frame)]
  /\ resp \in [Conns -> Seq(Part)]
  /\ why \in [Conns -> Reasons]

\* The receive buffer never holds more than BUFFER_CAPACITY bytes, and a slot
\* that is free holds none: a connection that takes the slot over starts clean.
RxBounded ==
  \A s \in Slots : Len(rx[s]) <= Capacity /\ (slotFd[s] = NoFd => rx[s] = <<>>)

\* Descriptors are accounted for: the open ones are exactly those the slots
\* hold, each held once, each in the epoll set with the listener and the
\* signalfd.  A leak, a double close or a forgotten epoll entry breaks it.
DescriptorsAccounted ==
  /\ \A s, t \in Slots : slotFd[s] = slotFd[t] /\ slotFd[s] # NoFd => s = t
  /\ {fd \in Fds : peer[fd] # NoConn} = {slotFd[s] : s \in Slots} \ {NoFd}
  /\ interest \cap Fds = {slotFd[s] : s \in Slots} \ {NoFd}

\* Descriptor numbers are reused as soon as they are closed, and a batch is a
\* snapshot; still every event in it names a live slot and the connection that
\* was ready, so the lookup of handle_client_event never misses or aliases.
EventsFresh ==
  \A e \in batch : e.fd \in Fds => SlotsOf(e.fd) # {} /\ peer[e.fd] = e.conn

\* Each connection gets the answers to its own requests, in request order, each
\* answer's parts in order; only a connection that is closed, or whose answer
\* is being written, ends on an incomplete one.
InOrder ==
  \A c \in Conns : \A i \in 1..Len(resp[c]) :
    LET p == resp[c][i] IN
      /\ p.rid[1] = c /\ p.rid[2] <= Len(done[c])
      /\ IF i = 1 \/ p.k > 1 THEN TRUE
         ELSE resp[c][i - 1].k = resp[c][i - 1].n /\ resp[c][i - 1].rid[2] < p.rid[2]
      /\ p.k > 1 => i > 1 /\ resp[c][i - 1] = [p EXCEPT !.k = @ - 1]
      /\ i = Len(resp[c]) /\ p.k < p.n =>
           Closed(c) \/ (pc = "write" /\ peer[slotFd[cur]] = c /\ Head(tx).rid = p.rid)

\* A dispatched request that has an answer has it in full before the connection
\* sees anything else happen to it: unless the connection was closed, every
\* answering frame but the one being written is completely answered.
Complete ==
  \A c \in Conns : \A i \in 1..Len(done[c]) :
    LET f == done[c][i] IN
      f.kind \in Answering =>
        \/ \E j \in 1..Len(resp[c]) : resp[c][j].rid = f.rid /\ resp[c][j].k = resp[c][j].n
        \/ Closed(c)
        \/ pc = "write" /\ Head(tx).rid = f.rid

\* However the stream of requests is cut by reads, the stream of answers is the
\* answers to the frames dispatched, in order and whole.
AnswersInOrder == InOrder /\ Complete

\* A client that keeps one well-formed request outstanding is never cut off for
\* overflowing the receive buffer: only pipelined requests can overflow it.
OverflowOnlyWhenPipelining ==
  \A c \in Conns : why[c] = "overflow" => Len(sent[c]) >= Len(done[c]) + 2

\* The length of the encodings of the frames fs.
Total(fs) ==
  LET upto[i \in 0..Len(fs)] == IF i = 0 THEN 0 ELSE upto[i - 1] + Size(fs[i]) IN upto[Len(fs)]

\* A client may send its requests and shut down its writes at once.  A slot
\* dropped for that hang-up has served them all, provided they fit one read of
\* Chunk bytes (what is beyond the first read is thrown away).
HalfCloseServesOneRead ==
  \A c \in Conns : why[c] = "hup" /\ cstate[c] = "shut" =>
    done[c] = sent[c] \/ Total(sent[c]) > Chunk

\* SIGCHLD is coalesced: one signal may stand for many children.  Yet no zombie
\* is forgotten, for as long as there is one a signal is pending that will have
\* the server wait for it.
NoForgottenZombie == zombies > 0 => "CHLD" \in sigs

\* A connection is turned away only when every slot is taken, and nothing is
\* ever dispatched, answered or re-opened on a connection the server closed.
ClosedStaysQuiet ==
  [][\A c \in Conns :
       /\ Closed(c) => done'[c] = done[c] /\ resp'[c] = resp[c] /\ why'[c] = why[c]
                       /\ \A fd \in Fds : peer'[fd] # c
       /\ ~Closed(c) /\ why'[c] = "full" => \A s \in Slots : slotFd[s] # NoFd]_vars

\* Shutdown is an orderly drain: once running_ is cleared no new events are
\* collected, no slot is filled but from the batch in hand, and when the loop
\* has stopped no connection is left open.
StoppedClean == pc = "stopped" => \A fd \in Fds : peer[fd] = NoConn /\ fd \notin interest

Stopped == pc = "stopped"

\* One request of one client holds the only thread for ever.
Stuck == <>[]InHandler

\* A frame the server can accept is dispatched, or its connection is closed, or the
\* server stops, or it is stuck in a handler: one client's stalled writes, half a frame
\* or hang-up do not starve another for ever, nothing else than such a handler does.
Served(c, i) == Len(sent[c]) >= i ~> (Len(done[c]) >= i \/ Closed(c) \/ pc \in {"stopped", "failed"})
FramesServed == Stuck \/ \A c \in Conns : \A i \in 1..MaxSent : Served(c, i)

\* Without that exception.
NobodyStarves == \A c \in Conns : \A i \in 1..MaxSent : Served(c, i)

-----------------------------------------------------------------------------
(* The server implements the frame service of FrameService.tla. *)

SentFrames ==
  {[kind |-> m.kind, plen |-> m.plen, rid |-> <<c, i>>] : m \in Menu, c \in Conns, i \in 1..MaxSent}

Service == INSTANCE FrameService WITH
  Frames <- SentFrames,
  queue  <- [c \in Conns |-> SubSeq(sent[c], Len(done[c]) + 1, Len(sent[c]))],
  served <- done,
  open   <- [c \in Conns |-> ~Closed(c)]

\* Every behaviour of the reactor, its slots, buffers and event batches hidden,
\* is one of a per-connection queue served from its head and never after a close.
ImplementsService == Service!Spec

=============================================================================
