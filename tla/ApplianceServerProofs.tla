------------------------ MODULE ApplianceServerProofs ------------------------
(***************************************************************************)
(* TLAPS proofs about ApplianceServer and about Daemon around it, for      *)
(* every value of their constants.  Six parts are about the server: its    *)
(* buffers, descriptors and events; the connections and where they can be; *)
(* that it implements FrameService; what its answers are; who overflows a  *)
(* receive buffer; and what is served before a hang-up.  The last is about *)
(* the daemon: these invariants hold from the first mount to the           *)
(* power-off, around the steps that main adds, and the kernel panics only  *)
(* over a start that failed.                                               *)
(***************************************************************************)
EXTENDS Daemon, SequenceTheorems, WellFoundedInduction, TLAPS

-----------------------------------------------------------------------------
(* Type correctness, the bound on the receive buffers, the accounting of   *)
(* descriptors and the freshness of the events of a batch.  The last three *)
(* are not inductive alone: the loop's position says which event is in     *)
(* hand, that no other event of the batch names its descriptor, and that a *)
(* listener event implies a queued connection.                             *)

OneEventPerFd == \A d, e \in batch : d.fd = e.fd => d = e

InHand ==
  pc \in {"frames", "write", "tail"} =>
    /\ ev.fd \in Fds
    /\ slotFd[cur] \in {NoFd, ev.fd}
    /\ \A e \in batch : e.fd # ev.fd

Writing == pc = "write" => slotFd[cur] # NoFd /\ tx # <<>> /\ rx[cur] # <<>>

BatchOver == pc \in {"loop", "stopped", "failed"} => batch = {}

QueuedForAccept == (\E e \in batch : e.fd = ListenerFd) => backlog # <<>>

Struct ==
  /\ RxBounded /\ DescriptorsAccounted /\ EventsFresh /\ OneEventPerFd
  /\ InHand /\ Writing /\ BatchOver /\ QueuedForAccept

IInv == TypeOK /\ Struct

-----------------------------------------------------------------------------
(* Facts about the helpers. *)

\* find_free_slot and find_slot_by_fd return a slot of the set they search.
LEMMA MinIsMember ==
  ASSUME NEW T \in SUBSET Slots, T # {}
  PROVE  Min(T) \in T
<1>. DEFINE Less == OpToRel(<, Nat)
<1>1. T \subseteq Nat
  BY DEF Slots
<1>2. \A a, b \in Nat : a < b => <<a, b>> \in Less
  BY DEF OpToRel
<1>3. IsWellFoundedOn(Less, Nat)
  BY NatLessThanWellFounded
<1>. HIDE DEF Less
<1>4. PICK x \in T : \A y \in T : ~ (<<y, x>> \in Less)
  BY <1>1, <1>3, WFMin
<1>5. ASSUME NEW y \in T  PROVE x =< y
  <2>1. x \in Nat /\ y \in Nat
    BY <1>1
  <2>2. ~ (y < x)
    BY <2>1, <1>2, <1>4
  <2>. QED  BY <2>1, <2>2
<1>. QED  BY <1>5 DEF Min

\* The fields a Release changes keep their types, and the accounting survives:
\* only the released descriptor and slot are touched.
LEMMA ReleaseSound ==
  ASSUME IInv, NEW s \in Slots, slotFd[s] # NoFd, NEW r \in Reasons, Release(s, r)
  PROVE  /\ interest' \subseteq Fds \cup {ListenerFd, SignalFd}
         /\ slotFd' \in [Slots -> Fds \cup {NoFd}]
         /\ rx' \in [Slots -> Seq(Unit)]
         /\ peer' \in [Fds -> Conns \cup {NoConn}]
         /\ inq' \in [Conns -> Seq(Unit)]
         /\ why' \in [Conns -> Reasons]
         /\ RxBounded' /\ DescriptorsAccounted'
         /\ slotFd'[s] = NoFd
         /\ \A fd \in Fds \ {slotFd[s]} : peer'[fd] = peer[fd] /\ SlotsOf(fd) \subseteq SlotsOf(fd)'
<1>. USE ServerAssumption DEF IInv, Struct
<1>1. slotFd[s] \in Fds /\ peer[slotFd[s]] \in Conns
  BY DEF TypeOK, DescriptorsAccounted
<1>2. /\ interest' = interest \ {slotFd[s]}
      /\ slotFd' = [slotFd EXCEPT ![s] = NoFd]
      /\ rx' = [rx EXCEPT ![s] = <<>>]
      /\ peer' = [peer EXCEPT ![slotFd[s]] = NoConn]
      /\ inq' = [inq EXCEPT ![peer[slotFd[s]]] = <<>>]
      /\ why' = [why EXCEPT ![peer[slotFd[s]]] = r]
  BY DEF Release
<1>3. /\ interest' \subseteq Fds \cup {ListenerFd, SignalFd}
      /\ slotFd' \in [Slots -> Fds \cup {NoFd}]
      /\ rx' \in [Slots -> Seq(Unit)]
      /\ peer' \in [Fds -> Conns \cup {NoConn}]
      /\ inq' \in [Conns -> Seq(Unit)]
      /\ why' \in [Conns -> Reasons]
  BY <1>1, <1>2 DEF TypeOK
<1>4. RxBounded'
  BY <1>2 DEF TypeOK, RxBounded
<1>5. DescriptorsAccounted'
  <2>1. \A t, u \in Slots : slotFd'[t] = slotFd'[u] /\ slotFd'[t] # NoFd => t = u
    BY <1>2 DEF TypeOK, DescriptorsAccounted
  <2>2. \A t \in Slots \ {s} : slotFd'[t] = slotFd[t] /\ slotFd[t] # slotFd[s]
    BY <1>1, <1>2 DEF TypeOK, DescriptorsAccounted
  <2>3. slotFd'[s] = NoFd
    BY <1>2 DEF TypeOK
  <2>4. {slotFd'[t] : t \in Slots} \ {NoFd} = ({slotFd[t] : t \in Slots} \ {NoFd}) \ {slotFd[s]}
    BY <2>2, <2>3
  <2>5. {fd \in Fds : peer'[fd] # NoConn} = {fd \in Fds : peer[fd] # NoConn} \ {slotFd[s]}
    BY <1>1, <1>2 DEF TypeOK
  <2>6. interest' \cap Fds = (interest \cap Fds) \ {slotFd[s]}
    BY <1>2
  <2>. QED  BY <2>1, <2>4, <2>5, <2>6 DEF DescriptorsAccounted
<1>6. slotFd'[s] = NoFd
  BY <1>2 DEF TypeOK
<1>7. \A fd \in Fds \ {slotFd[s]} : peer'[fd] = peer[fd] /\ SlotsOf(fd) \subseteq SlotsOf(fd)'
  BY <1>2 DEF TypeOK, SlotsOf
<1>. QED  BY <1>3, <1>4, <1>5, <1>6, <1>7

-----------------------------------------------------------------------------
(* The invariant holds initially and every action keeps it. *)

LEMMA InitIInv == Init => IInv
<1>. SUFFICES ASSUME Init PROVE IInv
  OBVIOUS
<1>. USE ServerAssumption DEF Init
<1>1. TypeOK
  BY DEF TypeOK, PlainEvent, Event, Slots, Reasons
<1>2. Struct
  BY DEF Struct, RxBounded, DescriptorsAccounted, EventsFresh, OneEventPerFd, InHand, Writing,
         BatchOver, QueuedForAccept
<1>. QED  BY <1>1, <1>2 DEF IInv

\* What Struct speaks of; a step that leaves it alone keeps Struct, and so does
\* one that only appends to the accept queue.
structVars == <<peer, slotVars, pc, batch, ev, cur, tx>>

LEMMA StructStable ==
  ASSUME Struct, UNCHANGED structVars, backlog' = backlog \/ backlog' # <<>>
  PROVE  Struct'
BY DEF Struct, structVars, slotVars, RxBounded, DescriptorsAccounted, EventsFresh, OneEventPerFd,
       InHand, Writing, BatchOver, QueuedForAccept, SlotsOf

LEMMA EncodeIsSeq ==
  ASSUME NEW f \in Frame
  PROVE  Encode(f) \in Seq(Unit)
<1>1. Size(f) \in Nat
  BY ServerAssumption DEF Size, Frame
<1>2. \A i \in 1..Size(f) : [f |-> f, i |-> i] \in Unit
  BY <1>1 DEF Unit
<1>. QED  BY <1>1, <1>2, IsASeq DEF Encode

LEMMA EnvironmentKeeps ==
  ASSUME IInv, Environment
  PROVE  IInv'
<1>. USE ServerAssumption DEF IInv, TypeOK
<1>1. ASSUME NEW c \in Conns, Connect(c)  PROVE IInv'
  <2>1. backlog' # <<>> /\ backlog' \in Seq(Conns)
    <3>1. backlog' = Append(backlog, c)
      BY <1>1 DEF Connect
    <3>2. backlog' \in Seq(Conns) /\ Len(backlog') = Len(backlog) + 1
      BY <3>1
    <3>. QED  BY <3>2, EmptySeq
  <2>2. Struct'
    BY <1>1, <2>1, StructStable DEF Connect, structVars, slotVars, loopVars
  <2>. QED  BY <1>1, <2>1, <2>2 DEF Connect, slotVars, loopVars, history
<1>2. ASSUME NEW c \in Conns, Send(c)  PROVE IInv'
  <2>1. PICK m \in Menu :
          LET f == [kind |-> m.kind, plen |-> m.plen, rid |-> <<c, Len(sent[c]) + 1>>] IN
            /\ sent' = [sent EXCEPT ![c] = Append(@, f)]
            /\ inq' = [inq EXCEPT ![c] = @ \o Encode(f)]
    BY <1>2 DEF Send
  <2>. DEFINE f == [kind |-> m.kind, plen |-> m.plen, rid |-> <<c, Len(sent[c]) + 1>>]
  <2>2. f \in Frame
    <3>1. Len(sent[c]) + 1 \in Nat
      BY LenProperties
    <3>2. m.kind \in Kinds /\ m.plen \in Nat
      OBVIOUS
    <3>. QED  BY <3>1, <3>2 DEF Frame
  <2>3. Encode(f) \in Seq(Unit)
    BY <2>2, EncodeIsSeq
  <2>. HIDE DEF f
  <2>4. sent' \in [Conns -> Seq(Frame)]
    BY <2>1, <2>2 DEF f
  <2>5. inq' \in [Conns -> Seq(Unit)]
    BY <2>1, <2>3, ConcatProperties DEF f
  <2>6. Struct'
    BY <1>2, StructStable DEF Send, structVars, slotVars, loopVars
  <2>. QED  BY <1>2, <2>4, <2>5, <2>6 DEF Send, slotVars, loopVars, history
<1>3. ASSUME NEW c \in Conns, ShutdownWrites(c)  PROVE IInv'
  <2>1. Struct'
    BY <1>3, StructStable DEF ShutdownWrites, structVars, kernelVars, slotVars, loopVars
  <2>. QED  BY <1>3, <2>1 DEF ShutdownWrites, kernelVars, slotVars, loopVars, history
<1>4. ASSUME NEW c \in Conns, Close(c)  PROVE IInv'
  <2>1. Struct'
    BY <1>4, StructStable DEF Close, structVars, slotVars, loopVars
  <2>2. inq' \in [Conns -> Seq(Unit)]
    <3>1. inq' = inq \/ inq' = [inq EXCEPT ![c] = <<>>]
      BY <1>4 DEF Close
    <3>2. CASE inq' = inq
      BY <3>2
    <3>3. CASE inq' = [inq EXCEPT ![c] = <<>>]
      BY <3>3, EmptySeq
    <3>. QED  BY <3>1, <3>2, <3>3
  <2>. QED  BY <1>4, <2>1, <2>2 DEF Close, slotVars, loopVars, history
<1>5. ASSUME NEW c \in Conns, Receive(c)  PROVE IInv'
  <2>1. Struct'
    BY <1>5, StructStable DEF Receive, structVars, slotVars, loopVars
  <2>. QED  BY <1>5, <2>1 DEF Receive, clientVars, slotVars, loopVars, history
<1>6. ASSUME ChildDies  PROVE IInv'
  <2>1. Struct'
    BY <1>6, StructStable DEF ChildDies, structVars, slotVars, loopVars
  <2>2. living' \in Nat /\ zombies' \in Nat /\ sigs' \subseteq {"CHLD", "TERM"}
    BY <1>6 DEF ChildDies
  <2>. QED  BY <1>6, <2>1, <2>2 DEF ChildDies, clientVars, slotVars, loopVars, history
<1>7. ASSUME Terminate  PROVE IInv'
  <2>1. Struct'
    BY <1>7, StructStable DEF Terminate, structVars, slotVars, loopVars
  <2>. QED  BY <1>7, <2>1 DEF Terminate, clientVars, slotVars, loopVars, history
<1>. QED  BY <1>1, <1>2, <1>3, <1>4, <1>5, <1>6, <1>7 DEF Environment

\* Struct survives a step that only drops events and leaves no frame in hand.
LEMMA StructFewerEvents ==
  ASSUME Struct, UNCHANGED <<peer, slotVars, backlog>>, batch' \subseteq batch,
         pc' \notin {"frames", "write", "tail"},
         pc' \in {"loop", "stopped", "failed"} => batch' = {}
  PROVE  Struct'
BY DEF Struct, slotVars, RxBounded, DescriptorsAccounted, EventsFresh, OneEventPerFd,
       InHand, Writing, BatchOver, QueuedForAccept, SlotsOf

LEMMA WaitKeeps ==
  ASSUME IInv, Wait
  PROVE  IInv'
<1>. USE ServerAssumption DEF IInv, TypeOK
<1>1. /\ batch' = ReadyEvents /\ pc' = "batch"
      /\ UNCHANGED <<cstate, sent, backlog, peer, inq, unread, sigs, living, zombies,
                     slotFd, rx, interest, running, ev, cur, tx, done, resp, why>>
  BY DEF Wait, clientVars, kernelVars, slotVars, history
<1>2. ASSUME NEW g \in Fds \cap interest
      PROVE  peer[g] \in Conns /\ SlotsOf(g) # {}
  BY DEF Struct, DescriptorsAccounted, SlotsOf
<1>3. ASSUME NEW e \in ReadyEvents
      PROVE  /\ e \in Event
             /\ e.fd \in Fds => /\ SlotsOf(e.fd) # {} /\ peer[e.fd] = e.conn
                                /\ e = [fd |-> e.fd, hup |-> HungUp(peer[e.fd]), conn |-> peer[e.fd]]
             /\ e.fd \notin Fds => e = PlainEvent(e.fd)
             /\ e.fd = ListenerFd => backlog # <<>>
  <2>1. CASE \E g \in Fds \cap interest :
               e = [fd |-> g, hup |-> HungUp(peer[g]), conn |-> peer[g]]
    <3>1. PICK g \in Fds \cap interest : e = [fd |-> g, hup |-> HungUp(peer[g]), conn |-> peer[g]]
      BY <2>1
    <3>2. HungUp(peer[g]) \in BOOLEAN
      BY DEF HungUp
    <3>. QED  BY <3>1, <3>2, <1>2 DEF Event
  <2>2. CASE e = PlainEvent(ListenerFd) /\ backlog # <<>>
    BY <2>2 DEF PlainEvent, Event
  <2>3. CASE e = PlainEvent(SignalFd)
    BY <2>3 DEF PlainEvent, Event
  <2>. QED  BY <1>3, <2>1, <2>2, <2>3 DEF ReadyEvents, AcceptReady
<1>4. batch' \subseteq Event
  BY <1>1, <1>3
<1>5. OneEventPerFd'
  BY <1>1, <1>3 DEF OneEventPerFd
<1>6. EventsFresh' /\ QueuedForAccept'
  BY <1>1, <1>3 DEF EventsFresh, QueuedForAccept, SlotsOf
<1>7. RxBounded' /\ DescriptorsAccounted' /\ InHand' /\ Writing' /\ BatchOver'
  BY <1>1 DEF Struct, RxBounded, DescriptorsAccounted, InHand, Writing, BatchOver
<1>. QED  BY <1>1, <1>4, <1>5, <1>6, <1>7 DEF Struct

LEMMA LoopStepsKeep ==
  ASSUME IInv, WaitTimesOut \/ WaitFails \/ BatchDone \/ StartSignals \/ HandleSignals
  PROVE  IInv'
<1>. USE ServerAssumption DEF IInv, TypeOK
<1>1. CASE WaitTimesOut
  BY <1>1, StructStable DEF WaitTimesOut, vars, structVars, clientVars, kernelVars, slotVars,
                            loopVars, history
<1>2. CASE WaitFails
  <2>1. Struct'
    BY <1>2, StructFewerEvents DEF WaitFails, Struct, BatchOver, kernelVars
  <2>. QED  BY <1>2, <2>1 DEF WaitFails, clientVars, kernelVars, slotVars, history
<1>3. CASE BatchDone
  <2>1. Struct'
    BY <1>3, StructFewerEvents DEF BatchDone, kernelVars
  <2>. QED  BY <1>3, <2>1 DEF BatchDone, clientVars, kernelVars, slotVars, history
<1>4. CASE StartSignals
  <2>1. PICK e \in batch : batch' = batch \ {e}
    BY <1>4 DEF StartSignals
  <2>2. batch' \subseteq batch
    BY <2>1
  <2>3. Struct'
    BY <1>4, <2>2, StructFewerEvents DEF StartSignals, kernelVars
  <2>. QED  BY <1>4, <2>2, <2>3 DEF StartSignals, clientVars, kernelVars, slotVars, history
<1>5. CASE HandleSignals
  <2>1. Struct'
    BY <1>5, StructFewerEvents DEF HandleSignals, slotVars
  <2>2. zombies' \in Nat /\ running' \in BOOLEAN
    BY <1>5 DEF HandleSignals, ReapedAll
  <2>. QED  BY <1>5, <2>1, <2>2 DEF HandleSignals, clientVars, slotVars, history
<1>. QED  BY <1>1, <1>2, <1>3, <1>4, <1>5

\* Cutting a sequence in two.
LEMMA CutSeq ==
  ASSUME NEW T, NEW q \in Seq(T), NEW k \in 0..Len(q)
  PROVE  /\ SubSeq(q, 1, k) \in Seq(T) /\ Len(SubSeq(q, 1, k)) = k
         /\ SubSeq(q, k + 1, Len(q)) \in Seq(T) /\ Len(SubSeq(q, k + 1, Len(q))) = Len(q) - k
<1>1. Len(q) \in Nat /\ \A i \in 1..Len(q) : q[i] \in T
  BY LenProperties, ElementOfSeq
<1>2. (\A i \in 1..k : q[i] \in T) /\ (\A i \in (k + 1)..Len(q) : q[i] \in T)
  BY <1>1
<1>3. SubSeq(q, 1, k) \in Seq(T) /\ Len(SubSeq(q, 1, k)) = IF 1 <= k THEN k - 1 + 1 ELSE 0
  BY <1>1, <1>2, SubSeqProperties
<1>4. /\ SubSeq(q, k + 1, Len(q)) \in Seq(T)
      /\ Len(SubSeq(q, k + 1, Len(q))) = IF k + 1 <= Len(q) THEN Len(q) - (k + 1) + 1 ELSE 0
  BY <1>1, <1>2, SubSeqProperties
<1>. QED  BY <1>1, <1>3, <1>4

LEMMA AcceptKeeps ==
  ASSUME IInv, HandleAccept
  PROVE  IInv'
<1>. USE ServerAssumption DEF IInv, TypeOK
<1>1. PICK e \in batch : e.fd = ListenerFd /\ batch' = batch \ {e}
  BY DEF HandleAccept
<1>2. /\ pc = "batch" /\ pc' = "batch"
      /\ UNCHANGED <<cstate, sent, unread, sigs, living, zombies, running, ev, cur, tx, done, resp>>
  BY DEF HandleAccept, clientVars
<1>3. backlog # <<>> /\ Head(backlog) \in Conns /\ Tail(backlog) \in Seq(Conns)
  <2>1. backlog # <<>>
    BY <1>1 DEF Struct, QueuedForAccept
  <2>. QED  BY <2>1, HeadTailProperties
<1>4. batch' \subseteq batch /\ \A d \in batch' : d.fd # ListenerFd
  BY <1>1 DEF Struct, OneEventPerFd
<1>5. OneEventPerFd' /\ QueuedForAccept' /\ InHand' /\ Writing' /\ BatchOver'
  BY <1>2, <1>4 DEF Struct, OneEventPerFd, QueuedForAccept, InHand, Writing, BatchOver
<1>6. CASE UNCHANGED <<slotFd, rx, interest, peer>> /\ backlog' \in Seq(Conns)
           /\ inq' \in [Conns -> Seq(Unit)] /\ why' \in [Conns -> Reasons]
  <2>1. RxBounded' /\ DescriptorsAccounted'
    BY <1>6 DEF Struct, RxBounded, DescriptorsAccounted
  <2>2. EventsFresh'
    BY <1>4, <1>6 DEF Struct, EventsFresh, SlotsOf
  <2>. QED  BY <1>2, <1>4, <1>5, <1>6, <2>1, <2>2 DEF Struct
<1>7. CASE /\ FreeSlots # {} /\ backlog' = Tail(backlog) /\ UNCHANGED <<inq, why>>
           /\ \E fd \in {g \in Fds : peer[g] = NoConn} :
                /\ slotFd' = [slotFd EXCEPT ![Min(FreeSlots)] = fd]
                /\ rx' = [rx EXCEPT ![Min(FreeSlots)] = <<>>]
                /\ interest' = interest \cup {fd}
                /\ peer' = [peer EXCEPT ![fd] = Head(backlog)]
  <2>1. PICK fd \in Fds :
          /\ peer[fd] = NoConn
          /\ slotFd' = [slotFd EXCEPT ![Min(FreeSlots)] = fd]
          /\ rx' = [rx EXCEPT ![Min(FreeSlots)] = <<>>]
          /\ interest' = interest \cup {fd}
          /\ peer' = [peer EXCEPT ![fd] = Head(backlog)]
    BY <1>7
  <2>2. PICK s \in Slots : s = Min(FreeSlots) /\ slotFd[s] = NoFd
    <3>1. FreeSlots \in SUBSET Slots
      BY DEF FreeSlots
    <3>2. Min(FreeSlots) \in FreeSlots
      BY <1>7, <3>1, MinIsMember
    <3>. QED  BY <3>2 DEF FreeSlots
  <2>3. \A t \in Slots : slotFd[t] # fd
    BY <2>1 DEF Struct, DescriptorsAccounted
  <2>4. slotFd'[s] = fd /\ \A t \in Slots \ {s} : slotFd'[t] = slotFd[t]
    BY <2>1, <2>2
  <2>5. RxBounded'
    BY <2>1, <2>2, <2>4 DEF Struct, RxBounded
  <2>6. DescriptorsAccounted'
    <3>1. \A t, u \in Slots : slotFd'[t] = slotFd'[u] /\ slotFd'[t] # NoFd => t = u
      BY <2>3, <2>4 DEF Struct, DescriptorsAccounted
    <3>2. {slotFd'[t] : t \in Slots} \ {NoFd} = ({slotFd[t] : t \in Slots} \ {NoFd}) \cup {fd}
      <4>1. fd # NoFd
        BY <2>1
      <4>2. ASSUME NEW x
            PROVE  x \in {slotFd'[t] : t \in Slots} \ {NoFd}
                     <=> x \in ({slotFd[t] : t \in Slots} \ {NoFd}) \cup {fd}
        <5>1. CASE x = fd
          BY <4>1, <5>1, <2>4
        <5>2. CASE x # fd
          <6>1. ASSUME NEW t \in Slots, x = slotFd'[t]  PROVE x = slotFd[t]
            BY <5>2, <6>1, <2>4
          <6>2. ASSUME NEW t \in Slots, x = slotFd[t], x # NoFd  PROVE x = slotFd'[t]
            BY <6>2, <2>2, <2>4
          <6>. QED  BY <5>2, <6>1, <6>2
        <5>. QED  BY <5>1, <5>2
      <4>. QED  BY <4>2
    <3>3. {g \in Fds : peer'[g] # NoConn} = {g \in Fds : peer[g] # NoConn} \cup {fd}
      BY <2>1, <1>3
    <3>4. interest' \cap Fds = (interest \cap Fds) \cup {fd}
      BY <2>1
    <3>. QED  BY <3>1, <3>2, <3>3, <3>4 DEF Struct, DescriptorsAccounted
  <2>7. EventsFresh'
    <3>1. ASSUME NEW d \in batch', d.fd \in Fds
          PROVE  SlotsOf(d.fd)' # {} /\ peer'[d.fd] = d.conn
      <4>1. PICK t \in Slots : slotFd[t] = d.fd
        BY <1>4, <3>1 DEF Struct, EventsFresh, SlotsOf
      <4>2. t # s /\ d.fd # fd
        BY <4>1, <2>2, <2>3, <3>1
      <4>. QED  BY <1>4, <3>1, <4>1, <4>2, <2>1, <2>4 DEF Struct, EventsFresh, SlotsOf
    <3>. QED  BY <3>1 DEF EventsFresh
  <2>8. /\ slotFd' \in [Slots -> Fds \cup {NoFd}] /\ rx' \in [Slots -> Seq(Unit)]
        /\ interest' \subseteq Fds \cup {ListenerFd, SignalFd}
        /\ peer' \in [Fds -> Conns \cup {NoConn}]
    <3>1. slotFd' = [slotFd EXCEPT ![s] = fd] /\ rx' = [rx EXCEPT ![s] = <<>>]
      BY <2>1, <2>2
    <3>2. slotFd' \in [Slots -> Fds \cup {NoFd}]
      BY <2>1, <3>1
    <3>3. rx' \in [Slots -> Seq(Unit)]
      BY <3>1, EmptySeq
    <3>4. peer' \in [Fds -> Conns \cup {NoConn}]
      BY <2>1, <1>3
    <3>. QED  BY <2>1, <3>2, <3>3, <3>4
  <2>. QED  BY <1>2, <1>3, <1>4, <1>5, <1>7, <2>5, <2>6, <2>7, <2>8 DEF Struct
<1>8. ASSUME NEW r \in Reasons, backlog' = Tail(backlog), UNCHANGED <<slotFd, rx, interest, peer>>,
             inq' = [inq EXCEPT ![Head(backlog)] = <<>>], why' = [why EXCEPT ![Head(backlog)] = r]
      PROVE  IInv'
  BY <1>3, <1>8, <1>6, EmptySeq
<1>. QED  BY <1>3, <1>6, <1>7, <1>8 DEF HandleAccept, slotVars, Reasons

LEMMA ClientEventKeeps ==
  ASSUME IInv, HandleClientEvent
  PROVE  IInv'
<1>. USE ServerAssumption DEF IInv, TypeOK
<1>1. PICK e \in batch :
        /\ e.fd \in Fds /\ batch' = batch \ {e} /\ ev' = e
        /\ SlotsOf(e.fd) # {} =>
             LET s == Min(SlotsOf(e.fd))
                 in == inq[peer[e.fd]]
                 most == Min({Len(in), Chunk})
             IN /\ cur' = s
                /\ \/ Release(s, "eof") /\ pc' = "batch"
                   \/ \E k \in (IF e.hup THEN {most} ELSE 1..most) \ {0} :
                        \/ Release(s, "overflow") /\ pc' = "batch"
                        \/ /\ ~Overflows(s, k)
                           /\ rx' = [rx EXCEPT ![s] = @ \o SubSeq(in, 1, k)]
                           /\ inq' = [inq EXCEPT ![peer[e.fd]] = SubSeq(@, k + 1, Len(@))]
                           /\ pc' = "frames"
                           /\ UNCHANGED <<slotFd, interest, peer, why>>
  BY DEF HandleClientEvent
<1>2. /\ pc = "batch"
      /\ UNCHANGED <<cstate, sent, backlog, unread, sigs, living, zombies, running, tx, done, resp>>
  BY DEF HandleClientEvent, clientVars
<1>3. SlotsOf(e.fd) # {} /\ peer[e.fd] \in Conns /\ e \in Event
  BY <1>1 DEF Struct, EventsFresh, DescriptorsAccounted, SlotsOf
<1>4. PICK s \in Slots : s = Min(SlotsOf(e.fd)) /\ slotFd[s] = e.fd
  <2>1. SlotsOf(e.fd) \in SUBSET Slots
    BY DEF SlotsOf
  <2>2. Min(SlotsOf(e.fd)) \in SlotsOf(e.fd)
    BY <1>3, <2>1, MinIsMember
  <2>. QED  BY <2>2 DEF SlotsOf
<1>5. slotFd[s] # NoFd
  BY <1>1, <1>4
<1>6. batch' \subseteq batch /\ \A d \in batch' : d.fd # e.fd
  BY <1>1 DEF Struct, OneEventPerFd
<1>7. OneEventPerFd' /\ QueuedForAccept'
  BY <1>2, <1>6 DEF Struct, OneEventPerFd, QueuedForAccept
<1>8. ASSUME NEW r \in Reasons, Release(s, r), pc' = "batch", cur' = s
      PROVE  IInv'
  <2>1. /\ interest' \subseteq Fds \cup {ListenerFd, SignalFd}
        /\ slotFd' \in [Slots -> Fds \cup {NoFd}] /\ rx' \in [Slots -> Seq(Unit)]
        /\ peer' \in [Fds -> Conns \cup {NoConn}] /\ inq' \in [Conns -> Seq(Unit)]
        /\ why' \in [Conns -> Reasons]
        /\ RxBounded' /\ DescriptorsAccounted'
        /\ \A fd \in Fds \ {e.fd} : peer'[fd] = peer[fd] /\ SlotsOf(fd) \subseteq SlotsOf(fd)'
    BY <1>4, <1>5, <1>8, ReleaseSound
  <2>2. EventsFresh'
    <3>. SUFFICES ASSUME NEW d \in batch', d.fd \in Fds
                  PROVE  SlotsOf(d.fd)' # {} /\ peer'[d.fd] = d.conn
      BY DEF EventsFresh
    <3>1. SlotsOf(d.fd) # {} /\ peer[d.fd] = d.conn /\ d.fd # e.fd
      BY <1>6 DEF Struct, EventsFresh
    <3>2. peer'[d.fd] = peer[d.fd] /\ SlotsOf(d.fd) \subseteq SlotsOf(d.fd)'
      BY <2>1, <3>1
    <3>. QED  BY <3>1, <3>2
  <2>3. InHand' /\ Writing' /\ BatchOver'
    BY <1>8 DEF InHand, Writing, BatchOver
  <2>. QED  BY <1>1, <1>2, <1>3, <1>6, <1>7, <1>8, <2>1, <2>2, <2>3 DEF Struct
<1>9. ASSUME NEW k \in Nat, k <= Len(inq[peer[e.fd]]), ~Overflows(s, k),
             rx' = [rx EXCEPT ![s] = @ \o SubSeq(inq[peer[e.fd]], 1, k)],
             inq' = [inq EXCEPT ![peer[e.fd]] = SubSeq(@, k + 1, Len(@))],
             pc' = "frames", cur' = s, UNCHANGED <<slotFd, interest, peer, why>>
      PROVE  IInv'
  <2>. DEFINE in == inq[peer[e.fd]]
              a == SubSeq(in, 1, k)
              b == SubSeq(in, k + 1, Len(in))
  <2>1. in \in Seq(Unit) /\ k \in 0..Len(in)
    BY <1>3, <1>9
  <2>2. a \in Seq(Unit) /\ Len(a) = k /\ b \in Seq(Unit)
    BY <2>1, CutSeq, SMTT(30)
  <2>3. rx' = [rx EXCEPT ![s] = @ \o a] /\ inq' = [inq EXCEPT ![peer[e.fd]] = b]
    BY <1>3, <1>9
  <2>. HIDE DEF a, b
  <2>4. rx[s] \o a \in Seq(Unit) /\ Len(rx[s] \o a) = Len(rx[s]) + k
    <3>1. rx[s] \in Seq(Unit)
      OBVIOUS
    <3>2. a \in Seq(Unit)
      BY <2>2
    <3>3. Len(rx[s] \o a) = Len(rx[s]) + Len(a) /\ rx[s] \o a \in Seq(Unit)
      BY ONLY <3>1, <3>2, ConcatProperties, Zenon
    <3>. QED  BY <2>2, <3>3
  <2>5. rx' \in [Slots -> Seq(Unit)] /\ inq' \in [Conns -> Seq(Unit)]
    BY <1>3, <2>2, <2>3, <2>4
  <2>6. RxBounded'
    <3>1. Len(rx[s] \o a) <= Capacity
      BY <1>9, <2>4 DEF Overflows
    <3>2. rx'[s] = rx[s] \o a /\ slotFd'[s] # NoFd /\ \A t \in Slots \ {s} : rx'[t] = rx[t] /\ slotFd'[t] = slotFd[t]
      BY <1>5, <1>9, <2>3
    <3>. QED  BY <3>1, <3>2 DEF Struct, RxBounded
  <2>7. DescriptorsAccounted'
    <3>1. DescriptorsAccounted
      BY DEF Struct
    <3>2. slotFd' = slotFd /\ interest' = interest /\ peer' = peer
      BY <1>9
    <3>. QED  BY ONLY <3>1, <3>2 DEF DescriptorsAccounted
  <2>9. EventsFresh'
    BY <1>6, <1>9 DEF Struct, EventsFresh, SlotsOf
  <2>8. InHand' /\ Writing' /\ BatchOver'
    BY <1>1, <1>4, <1>6, <1>9 DEF InHand, Writing, BatchOver
  <2>. QED  BY <1>1, <1>2, <1>3, <1>6, <1>7, <1>9, <2>5, <2>6, <2>7, <2>8, <2>9 DEF Struct
<1>10. Min({Len(inq[peer[e.fd]]), Chunk}) \in 0..Len(inq[peer[e.fd]])
  <2>. DEFINE T == {Len(inq[peer[e.fd]]), Chunk}
  <2>1. Len(inq[peer[e.fd]]) \in Nat /\ Chunk \in Nat
    BY <1>3, LenProperties
  <2>2. \E x \in T : \A y \in T : x =< y
    BY <2>1
  <2>3. Min(T) \in T /\ \A y \in T : Min(T) =< y
    BY <2>2 DEF Min
  <2>. QED  BY <2>1, <2>3
<1>11. cur' = s
  BY <1>1, <1>3, <1>4
<1>12. CASE Release(s, "eof") /\ pc' = "batch"
  BY <1>8, <1>11, <1>12 DEF Reasons
<1>13. CASE Release(s, "overflow") /\ pc' = "batch"
  BY <1>8, <1>11, <1>13 DEF Reasons
<1>. DEFINE Read(k) ==
       /\ ~Overflows(s, k)
       /\ rx' = [rx EXCEPT ![s] = @ \o SubSeq(inq[peer[e.fd]], 1, k)]
       /\ inq' = [inq EXCEPT ![peer[e.fd]] = SubSeq(@, k + 1, Len(@))]
       /\ pc' = "frames"
       /\ UNCHANGED <<slotFd, interest, peer, why>>
<1>14. CASE \E k \in 0..Len(inq[peer[e.fd]]) : Read(k)
  <2>1. PICK k \in 0..Len(inq[peer[e.fd]]) : Read(k)
    BY <1>14
  <2>2. k \in Nat /\ k <= Len(inq[peer[e.fd]])
    BY <1>3, LenProperties
  <2>. QED  BY <2>1, <2>2, <1>9, <1>11
<1>15. ASSUME NEW k \in (IF e.hup THEN {Min({Len(inq[peer[e.fd]]), Chunk})}
                         ELSE 1..Min({Len(inq[peer[e.fd]]), Chunk})) \ {0}
       PROVE  k \in 0..Len(inq[peer[e.fd]])
  <2>1. Len(inq[peer[e.fd]]) \in Nat
    BY <1>3, LenProperties
  <2>2. CASE e.hup
    BY <2>2, <1>10
  <2>3. CASE ~ e.hup
    BY <2>3, <2>1, <1>10, SMTT(30)
  <2>. QED  BY <2>2, <2>3
<1>16. \/ Release(s, "eof") /\ pc' = "batch"
       \/ Release(s, "overflow") /\ pc' = "batch"
       \/ \E k \in 0..Len(inq[peer[e.fd]]) : Read(k)
  BY <1>1, <1>3, <1>4, <1>15
<1>. QED  BY <1>12, <1>13, <1>14, <1>16

\* While a slot's event is in hand, releasing that slot keeps the invariant.
LEMMA ReleaseInHandKeeps ==
  ASSUME IInv, pc \in {"frames", "write", "tail"}, slotFd[cur] # NoFd,
         NEW r \in Reasons, Release(cur, r),
         pc' \in {"batch", "frames", "tail"}, tx' \in Seq(Part),
         UNCHANGED <<clientVars, backlog, unread, sigs, living, zombies, running, batch, ev, cur,
                     done, resp>>
  PROVE  IInv'
<1>. USE ServerAssumption DEF IInv, TypeOK
<1>1. slotFd[cur] = ev.fd /\ ev.fd \in Fds /\ \A e \in batch : e.fd # ev.fd
  BY DEF Struct, InHand
<1>2. /\ interest' \subseteq Fds \cup {ListenerFd, SignalFd}
      /\ slotFd' \in [Slots -> Fds \cup {NoFd}] /\ rx' \in [Slots -> Seq(Unit)]
      /\ peer' \in [Fds -> Conns \cup {NoConn}] /\ inq' \in [Conns -> Seq(Unit)]
      /\ why' \in [Conns -> Reasons]
      /\ RxBounded' /\ DescriptorsAccounted' /\ slotFd'[cur] = NoFd
      /\ \A fd \in Fds \ {ev.fd} : peer'[fd] = peer[fd] /\ SlotsOf(fd) \subseteq SlotsOf(fd)'
  BY <1>1, ReleaseSound
<1>3. EventsFresh'
  BY <1>1, <1>2 DEF Struct, EventsFresh
<1>4. OneEventPerFd' /\ QueuedForAccept'
  BY DEF Struct, OneEventPerFd, QueuedForAccept
<1>5. InHand' /\ Writing' /\ BatchOver'
  BY <1>1, <1>2 DEF InHand, Writing, BatchOver
<1>. QED  BY <1>2, <1>3, <1>4, <1>5 DEF Struct, clientVars

\* A frame at the front of the buffer means that the slot is live.
LEMMA FrontIsLive ==
  ASSUME IInv, HeaderIn
  PROVE  rx[cur] # <<>> /\ slotFd[cur] # NoFd /\ peer[slotFd[cur]] \in Conns /\ Head(rx[cur]) \in Unit
<1>. USE ServerAssumption DEF IInv, TypeOK
<1>1. rx[cur] # <<>>
  BY EmptySeq DEF HeaderIn
<1>2. slotFd[cur] # NoFd
  BY <1>1 DEF Struct, RxBounded
<1>3. peer[slotFd[cur]] \in Conns
  BY <1>2 DEF Struct, DescriptorsAccounted
<1>4. Head(rx[cur]) \in Unit
  BY <1>1, HeadTailProperties
<1>. QED  BY <1>1, <1>2, <1>3, <1>4

LEMMA CompactSound ==
  ASSUME IInv, slotFd[cur] # NoFd, rx[cur] # <<>>, Compact
  PROVE  /\ rx' \in [Slots -> Seq(Unit)]
         /\ slotFd' = slotFd => RxBounded'
<1>. USE ServerAssumption DEF IInv, TypeOK
<1>. DEFINE buf == rx[cur]
            n == Size(Head(buf).f)
<1>1. buf \in Seq(Unit) /\ Len(buf) \in Nat /\ Len(buf) <= Capacity
  BY LenProperties DEF Struct, RxBounded
<1>2. n \in Nat
  <2>1. Head(buf) \in Unit
    BY <1>1, HeadTailProperties
  <2>2. Head(buf).f \in Frame
    BY <2>1 DEF Unit
  <2>3. Head(buf).f.plen \in Nat
    BY <2>2 DEF Frame
  <2>. QED  BY <2>3 DEF Size
<1>3. rx' = [rx EXCEPT ![cur] = SubSeq(buf, n + 1, Len(buf))]
  BY DEF Compact, Compacted
<1>. HIDE DEF n
<1>4. SubSeq(buf, n + 1, Len(buf)) \in Seq(Unit) /\ Len(SubSeq(buf, n + 1, Len(buf))) <= Len(buf)
  <2>1. CASE n \in 0..Len(buf)
    <3>1. /\ SubSeq(buf, n + 1, Len(buf)) \in Seq(Unit)
          /\ Len(SubSeq(buf, n + 1, Len(buf))) = Len(buf) - n
      BY <1>1, <2>1, CutSeq
    <3>. QED  BY <1>1, <1>2, <3>1
  <2>2. CASE n > Len(buf)
    <3>1. SubSeq(buf, n + 1, Len(buf)) = <<>>
      BY <1>1, <1>2, <2>2, SubSeqEmpty
    <3>2. <<>> \in Seq(Unit) /\ Len(<<>>) = 0
      BY EmptySeq
    <3>3. SubSeq(buf, n + 1, Len(buf)) \in Seq(Unit) /\ Len(SubSeq(buf, n + 1, Len(buf))) = 0
      BY ONLY <3>1, <3>2, Zenon
    <3>. QED  BY <1>1, <3>3
  <2>. QED  BY <1>1, <1>2, <2>1, <2>2
<1>5. rx' \in [Slots -> Seq(Unit)]
  BY <1>3, <1>4
<1>6. ASSUME slotFd' = slotFd  PROVE RxBounded'
  <2>1. Len(rx'[cur]) <= Capacity
    <3>1. rx'[cur] = SubSeq(buf, n + 1, Len(buf))
      BY <1>3
    <3>2. Len(SubSeq(buf, n + 1, Len(buf))) \in Nat
      BY <1>4, LenProperties
    <3>. QED  BY <1>1, <1>4, <3>1, <3>2
  <2>2. \A s \in Slots \ {cur} : rx'[s] = rx[s]
    BY <1>3
  <2>. QED  BY <1>6, <2>1, <2>2 DEF Struct, RxBounded
<1>. QED  BY <1>5, <1>6

\* A step of the frame loop that keeps slots, events and position, and whose
\* buffer stays bounded, keeps Struct.
LEMMA StructInLoop ==
  ASSUME Struct, pc \in {"frames", "write"}, pc' \in {"frames", "write"}, RxBounded',
         UNCHANGED <<peer, slotFd, interest, batch, ev, cur, backlog>>,
         pc' = "write" => slotFd[cur] # NoFd /\ tx' # <<>> /\ rx'[cur] # <<>>
  PROVE  Struct'
<1>1. DescriptorsAccounted' /\ EventsFresh' /\ OneEventPerFd' /\ QueuedForAccept'
  BY DEF Struct, DescriptorsAccounted, EventsFresh, OneEventPerFd, QueuedForAccept, SlotsOf
<1>2. InHand' /\ Writing' /\ BatchOver'
  BY DEF Struct, InHand, Writing, BatchOver
<1>. QED  BY <1>1, <1>2 DEF Struct

\* Recording one more dispatched frame keeps the history well typed.
LEMMA RecordFrame ==
  ASSUME IInv, NEW c \in Conns, NEW f \in Frame, done' = [done EXCEPT ![c] = Append(@, f)]
  PROVE  done' \in [Conns -> Seq(Frame)]
<1>1. done[c] \in Seq(Frame)
  BY DEF IInv, TypeOK
<1>2. Append(done[c], f) \in Seq(Frame)
  BY <1>1, AppendProperties
<1>. QED  BY <1>2 DEF IInv, TypeOK

LEMMA FrameStepsKeep ==
  ASSUME IInv, RejectFrame \/ FramesDone \/ DispatchSilent \/ DispatchAnswered
  PROVE  IInv'
<1>. USE ServerAssumption DEF IInv
<1>1. CASE RejectFrame
  <2>1. pc = "frames" /\ HeaderIn /\ Release(cur, "protocol") /\ pc' = "tail" /\ tx' = tx
    BY <1>1 DEF RejectFrame, Rejected
  <2>. QED  BY <1>1, <2>1, FrontIsLive, ReleaseInHandKeeps DEF RejectFrame, Reasons, TypeOK
<1>2. CASE FramesDone
  <2>1. pc \in {"tail", "frames"} /\ pc' = "batch" /\ tx' = tx
    BY <1>2 DEF FramesDone
  <2>2. CASE slotFd[cur] # NoFd /\ ev.hup
    <3>1. Release(cur, "hup")
      BY <1>2, <2>2 DEF FramesDone
    <3>. QED  BY <1>2, <2>1, <2>2, <3>1, ReleaseInHandKeeps DEF FramesDone, Reasons, TypeOK
  <2>3. CASE ~ (slotFd[cur] # NoFd /\ ev.hup)
    <3>1. UNCHANGED <<slotVars, peer, inq, why>>
      BY <1>2, <2>3 DEF FramesDone, KeepSlots
    <3>2. Struct'
      BY <1>2, <2>1, <3>1, StructFewerEvents DEF FramesDone
    <3>. QED  BY <1>2, <2>1, <3>1, <3>2 DEF FramesDone, slotVars, clientVars, TypeOK
  <2>. QED  BY <2>2, <2>3
<1>3. CASE DispatchSilent
  <2>1. pc = "frames" /\ HeaderIn /\ Compact
    BY <1>3 DEF DispatchSilent, FrameIn
  <2>2. slotFd[cur] # NoFd /\ rx[cur] # <<>> /\ Head(rx[cur]) \in Unit
    BY <2>1, FrontIsLive
  <2>3. rx' \in [Slots -> Seq(Unit)] /\ RxBounded'
    BY <1>3, <2>1, <2>2, CompactSound DEF DispatchSilent
  <2>4. Struct'
    BY <1>3, <2>1, <2>3, StructInLoop DEF DispatchSilent, kernelVars
  <2>5. Head(rx[cur]).f \in Frame
    BY <2>2 DEF Unit
  <2>6. done' \in [Conns -> Seq(Frame)]
    <3>1. done' = [done EXCEPT ![peer[slotFd[cur]]] = Append(@, Head(rx[cur]).f)]
      BY <1>3 DEF DispatchSilent
    <3>2. peer[slotFd[cur]] \in Conns
      BY <2>1, FrontIsLive
    <3>. QED  BY <3>1, <3>2, <2>5, RecordFrame
  <2>7. running' \in BOOLEAN
    BY <1>3 DEF DispatchSilent
  <2>. QED  BY <1>3, <2>3, <2>4, <2>6, <2>7 DEF DispatchSilent, clientVars, kernelVars, TypeOK
<1>4. CASE DispatchAnswered
  <2>1. pc = "frames" /\ HeaderIn /\ pc' = "write" /\ UNCHANGED <<slotFd, rx, interest>>
    BY <1>4 DEF DispatchAnswered, FrameIn, slotVars
  <2>2. slotFd[cur] # NoFd /\ rx[cur] # <<>> /\ Head(rx[cur]) \in Unit
    BY <2>1, FrontIsLive
  <2>3. Head(rx[cur]).f \in Frame
    BY <2>2 DEF Unit
  <2>. DEFINE f == Head(rx[cur]).f
  <2>4. PICK n \in PartCounts(f.kind) : tx' = Answer(f, n)
    BY <1>4 DEF DispatchAnswered
  <2>5. n \in Nat \ {0} /\ f.rid \in Conns \X Nat
    BY <2>3 DEF PartCounts, Frame
  <2>. HIDE DEF f
  <2>6. tx' \in Seq(Part) /\ tx' # <<>>
    <3>1. \A k \in 1..n : [rid |-> f.rid, k |-> k, n |-> n] \in Part
      BY <2>5 DEF Part
    <3>2. tx' = [k \in 1..n |-> [rid |-> f.rid, k |-> k, n |-> n]]
      BY <2>4 DEF Answer
    <3>3. tx' \in Seq(Part)
      BY <2>5, <3>1, <3>2, IsASeq
    <3>4. DOMAIN tx' = 1..n /\ 1 \in 1..n
      BY <2>5, <3>2
    <3>5. DOMAIN tx' = 1..Len(tx')
      BY <3>3, LenProperties
    <3>6. Len(tx') # 0
      <4>1. 1 \in 1..Len(tx')
        BY ONLY <3>4, <3>5, Zenon
      <4>. QED  BY <4>1
    <3>. QED  BY <3>3, <3>6, EmptySeq
  <2>7. RxBounded'
    BY <2>1 DEF Struct, RxBounded
  <2>8. Struct'
    BY <1>4, <2>1, <2>2, <2>6, <2>7, StructInLoop DEF DispatchAnswered, kernelVars
  <2>9. done' \in [Conns -> Seq(Frame)]
    <3>1. done' = [done EXCEPT ![peer[slotFd[cur]]] = Append(@, Head(rx[cur]).f)]
      BY <1>4 DEF DispatchAnswered
    <3>2. peer[slotFd[cur]] \in Conns
      BY <2>1, FrontIsLive
    <3>. QED  BY <3>1, <3>2, <2>3, RecordFrame
  <2>. QED  BY <1>4, <2>1, <2>6, <2>8, <2>9 DEF DispatchAnswered, clientVars, kernelVars, slotVars, TypeOK
<1>. QED  BY <1>1, <1>2, <1>3, <1>4

LEMMA WriteStepsKeep ==
  ASSUME IInv, WritePart \/ WriteFails
  PROVE  IInv'
<1>. USE ServerAssumption DEF IInv
<1>1. CASE WritePart
  <2>1. pc = "write" /\ slotFd[cur] # NoFd /\ tx # <<>> /\ rx[cur] # <<>>
    BY <1>1 DEF WritePart, Struct, Writing
  <2>2. Head(tx) \in Part /\ Tail(tx) \in Seq(Part) /\ Len(Tail(tx)) = Len(tx) - 1 /\ Len(tx) \in Nat
    BY <2>1, HeadTailProperties, LenProperties DEF TypeOK
  <2>. DEFINE c == peer[slotFd[cur]]
  <2>3. c \in Conns
    BY <2>1 DEF Struct, DescriptorsAccounted, TypeOK
  <2>4. unread' \in [Conns -> 0..TxWindow]
    <3>1. unread' = [unread EXCEPT ![c] = @ + 1] /\ unread[c] < TxWindow
      BY <1>1 DEF WritePart, Room
    <3>. QED  BY <2>3, <3>1 DEF TypeOK
  <2>5. resp' \in [Conns -> Seq(Part)]
    <3>1. resp' = [resp EXCEPT ![c] = Append(@, Head(tx))]
      BY <1>1 DEF WritePart
    <3>. QED  BY <2>2, <2>3, <3>1 DEF TypeOK
  <2>6. /\ tx' = Tail(tx)
        /\ UNCHANGED <<clientVars, backlog, peer, inq, sigs, living, zombies, slotFd, interest,
                       running, batch, ev, cur, done, why>>
    BY <1>1 DEF WritePart
  <2>7. CASE LastPart
    <3>1. Compact /\ pc' = "frames"
      BY <1>1, <2>7 DEF WritePart
    <3>2. rx' \in [Slots -> Seq(Unit)] /\ RxBounded'
      BY <2>1, <2>6, <3>1, CompactSound
    <3>3. Struct'
      BY <2>1, <2>6, <3>1, <3>2, StructInLoop
    <3>. QED  BY <2>2, <2>4, <2>5, <2>6, <3>1, <3>2, <3>3 DEF clientVars, TypeOK
  <2>8. CASE ~ LastPart
    <3>1. UNCHANGED <<rx, pc>>
      BY <1>1, <2>8 DEF WritePart
    <3>2. tx' # <<>>
      <4>1. Len(tx) # 0
        BY <2>1, EmptySeq DEF TypeOK
      <4>2. Len(tx') # 0
        BY <2>2, <2>6, <2>8, <4>1 DEF LastPart
      <4>. QED  BY <4>2, EmptySeq
    <3>3. RxBounded'
      BY <2>6, <3>1 DEF Struct, RxBounded
    <3>4. Struct'
      BY <2>1, <2>6, <3>1, <3>2, <3>3, StructInLoop
    <3>. QED  BY <2>2, <2>4, <2>5, <2>6, <3>1, <3>4 DEF clientVars, TypeOK
  <2>. QED  BY <2>7, <2>8
<1>2. CASE WriteFails
  <2>1. pc = "write" /\ slotFd[cur] # NoFd
    BY <1>2 DEF WriteFails, Struct, Writing
  <2>2. Release(cur, "write") /\ pc' = "frames" /\ tx' \in Seq(Part)
    BY <1>2, EmptySeq DEF WriteFails
  <2>. QED  BY <1>2, <2>1, <2>2, ReleaseInHandKeeps DEF WriteFails, Reasons
<1>. QED  BY <1>1, <1>2

\* cleanup() closes every live slot at once.
LEMMA CleanupKeeps ==
  ASSUME IInv, Cleanup
  PROVE  IInv'
<1>. USE ServerAssumption DEF IInv
<1>. DEFINE fds == {slotFd[s] : s \in LiveSlots}
            cs == {peer[fd] : fd \in fds}
<1>1. /\ interest' = interest \ fds
      /\ peer' = [fd \in Fds |-> IF fd \in fds THEN NoConn ELSE peer[fd]]
      /\ slotFd' = [s \in Slots |-> IF s \in LiveSlots THEN NoFd ELSE slotFd[s]]
      /\ rx' = [s \in Slots |-> IF s \in LiveSlots THEN <<>> ELSE rx[s]]
      /\ inq' = [c \in Conns |-> IF c \in cs THEN <<>> ELSE inq[c]]
      /\ why' = [c \in Conns |-> IF c \in cs THEN "stop" ELSE why[c]]
      /\ pc = "loop" /\ pc' = "stopped"
      /\ UNCHANGED <<clientVars, backlog, unread, sigs, living, zombies, running, batch, ev, cur,
                     tx, done, resp>>
  BY DEF Cleanup
<1>2. \A s \in Slots : s \in LiveSlots <=> slotFd[s] # NoFd
  BY DEF LiveSlots
<1>3. fds = {slotFd[s] : s \in Slots} \ {NoFd}
  BY <1>2 DEF LiveSlots
<1>4. <<>> \in Seq(Unit) /\ Len(<<>>) = 0
  BY EmptySeq
<1>5. \A s \in Slots : slotFd'[s] = NoFd /\ rx'[s] = <<>>
  BY <1>1, <1>2 DEF Struct, RxBounded
<1>6. RxBounded'
  BY <1>4, <1>5 DEF RxBounded
<1>7. DescriptorsAccounted'
  <2>1. {fd \in Fds : peer'[fd] # NoConn} = {}
    BY <1>1, <1>3 DEF Struct, DescriptorsAccounted
  <2>2. interest' \cap Fds = {}
    BY <1>1, <1>3 DEF Struct, DescriptorsAccounted
  <2>3. {slotFd'[s] : s \in Slots} \ {NoFd} = {}
    BY <1>5
  <2>. QED  BY <1>5, <2>1, <2>2, <2>3 DEF DescriptorsAccounted
<1>8. batch' = {}
  BY <1>1 DEF Struct, BatchOver
<1>9. Struct'
  BY <1>1, <1>6, <1>7, <1>8
  DEF Struct, EventsFresh, OneEventPerFd, QueuedForAccept, InHand, Writing, BatchOver
<1>10. slotFd' \in [Slots -> Fds \cup {NoFd}] /\ rx' \in [Slots -> Seq(Unit)]
  BY <1>1, <1>4 DEF TypeOK
<1>11. peer' \in [Fds -> Conns \cup {NoConn}] /\ interest' \subseteq Fds \cup {ListenerFd, SignalFd}
  BY <1>1 DEF TypeOK
<1>12. inq' \in [Conns -> Seq(Unit)] /\ why' \in [Conns -> Reasons]
  BY <1>1, <1>4 DEF TypeOK, Reasons
<1>. QED  BY <1>1, <1>9, <1>10, <1>11, <1>12 DEF clientVars, TypeOK

-----------------------------------------------------------------------------
(* The invariant, and what follows from it. *)

LEMMA Inductive == IInv /\ [Next]_vars => IInv'
<1>. SUFFICES ASSUME IInv, [Next]_vars PROVE IInv'
  OBVIOUS
<1>1. CASE Environment
  BY <1>1, EnvironmentKeeps
<1>2. CASE Wait
  BY <1>2, WaitKeeps
<1>3. CASE WaitTimesOut \/ Halted \/ UNCHANGED vars
  <2>1. UNCHANGED vars
    BY <1>3 DEF WaitTimesOut, Halted
  <2>2. Struct'
    <3>1. UNCHANGED structVars /\ backlog' = backlog
      BY <2>1 DEF vars, structVars, kernelVars, slotVars, loopVars
    <3>. QED  BY <3>1, StructStable DEF IInv
  <2>3. TypeOK'
    BY <2>1 DEF IInv, TypeOK, vars, clientVars, kernelVars, slotVars, loopVars, history
  <2>. QED  BY <2>2, <2>3 DEF IInv
<1>4. CASE WaitFails \/ BatchDone \/ StartSignals \/ HandleSignals
  BY <1>4, LoopStepsKeep
<1>5. CASE HandleAccept
  BY <1>5, AcceptKeeps
<1>6. CASE HandleClientEvent
  BY <1>6, ClientEventKeeps
<1>7. CASE RejectFrame \/ FramesDone \/ DispatchSilent \/ DispatchAnswered
  BY <1>7, FrameStepsKeep
<1>8. CASE WritePart \/ WriteFails
  BY <1>8, WriteStepsKeep
<1>9. CASE Cleanup
  BY <1>9, CleanupKeeps
<1>. QED  BY <1>1, <1>2, <1>3, <1>4, <1>5, <1>6, <1>7, <1>8, <1>9 DEF Next, Server

\* The inductive invariant holds in every reachable state.
THEOREM Invariance == Spec => []IInv
<1>1. Init => IInv
  BY InitIInv
<1>. QED  BY <1>1, Inductive, PTL DEF Spec

\* Every variable of the reactor keeps its type: in particular the slot in hand
\* is a real slot and a released slot is never used as a live one.
THEOREM TypeCorrect == Spec => []TypeOK
<1>1. IInv => TypeOK
  BY DEF IInv
<1>. QED  BY <1>1, Invariance, PTL

\* handle_client_event never overruns a slot's receive buffer, and a free slot's
\* buffer is empty, for every BUFFER_CAPACITY and read size.
THEOREM BuffersBounded == Spec => []RxBounded
<1>1. IInv => RxBounded
  BY DEF IInv, Struct
<1>. QED  BY <1>1, Invariance, PTL

\* No sequence of accepts, hang-ups, write failures and reuse of numbers leaks a
\* descriptor, closes one twice or leaves one in the epoll set.
THEOREM NoDescriptorLeak == Spec => []DescriptorsAccounted
<1>1. IInv => DescriptorsAccounted
  BY DEF IInv, Struct
<1>. QED  BY <1>1, Invariance, PTL

\* No event of a batch is ever handled on behalf of another connection, though
\* the events before it may have closed and reopened descriptors.
THEOREM NoStaleEvent == Spec => []EventsFresh
<1>1. IInv => EventsFresh
  BY DEF IInv, Struct
<1>. QED  BY <1>1, Invariance, PTL

\* When the loop has stopped, cleanup() has closed every connection and removed
\* it from the epoll set, and no event reopens one afterwards.
THEOREM OrderlyStop == Spec => []StoppedClean
<1>1. Init => StoppedClean
  BY DEF Init, StoppedClean
<1>2. IInv /\ StoppedClean /\ [Next]_vars => StoppedClean'
  <2>. SUFFICES ASSUME IInv, StoppedClean, [Next]_vars PROVE StoppedClean'
    OBVIOUS
  <2>1. CASE Cleanup
    <3>1. DescriptorsAccounted' /\ slotFd' = [s \in Slots |-> IF s \in LiveSlots THEN NoFd ELSE slotFd[s]]
      BY <2>1, CleanupKeeps DEF IInv, Struct, Cleanup
    <3>2. \A s \in Slots : slotFd'[s] = NoFd
      BY <3>1 DEF LiveSlots
    <3>3. {fd \in Fds : peer'[fd] # NoConn} = {} /\ interest' \cap Fds = {}
      BY <3>1, <3>2 DEF DescriptorsAccounted
    <3>. QED  BY <3>3 DEF StoppedClean
  <2>2. CASE Environment
    <3>1. UNCHANGED <<pc, peer, interest>>
      BY <2>2 DEF Environment, Connect, Send, ShutdownWrites, Close, Receive, ChildDies,
                  Terminate, kernelVars, slotVars, loopVars
    <3>. QED  BY <3>1 DEF StoppedClean
  <2>3. CASE WaitTimesOut \/ Halted \/ UNCHANGED vars
    <3>1. UNCHANGED <<pc, peer, interest>>
      BY <2>3 DEF WaitTimesOut, Halted, vars, kernelVars, slotVars, loopVars
    <3>. QED  BY <3>1 DEF StoppedClean
  <2>4. CASE Wait \/ WaitFails \/ BatchDone \/ StartSignals \/ HandleSignals \/ HandleAccept
    <3>1. pc' # "stopped"
      BY <2>4 DEF Wait, WaitFails, BatchDone, StartSignals, HandleSignals, HandleAccept
    <3>. QED  BY <3>1 DEF StoppedClean
  <2>5. CASE HandleClientEvent
    <3>1. pc' # "stopped"
      BY <2>5 DEF HandleClientEvent
    <3>. QED  BY <3>1 DEF StoppedClean
  <2>6. CASE RejectFrame \/ FramesDone \/ DispatchSilent \/ DispatchAnswered \/ WritePart \/ WriteFails
    <3>1. pc' # "stopped"
      BY <2>6 DEF RejectFrame, FramesDone, DispatchSilent, DispatchAnswered, WritePart, WriteFails
    <3>. QED  BY <3>1 DEF StoppedClean
  <2>. QED  BY <2>1, <2>2, <2>3, <2>4, <2>5, <2>6 DEF Next, Server
<1>. QED  BY <1>1, <1>2, Invariance, PTL DEF Spec

-----------------------------------------------------------------------------
(* A connection that the server has closed stays quiet, and no terminated  *)
(* child is forgotten.  The first needs to know where a connection can be: *)
(* unknown, in the accept queue once, or behind one descriptor, and closed *)
(* in none of the three.                                                   *)

Held(c) == \E fd \in Fds : peer[fd] = c
Queued(c) == \E i \in 1..Len(backlog) : backlog[i] = c

IdleIsUnknown == \A c \in Conns : cstate[c] = "idle" => ~Closed(c) /\ ~Queued(c) /\ ~Held(c)
QueuedIsOpen == \A c \in Conns : Queued(c) => ~Closed(c) /\ ~Held(c)
QueuedOnce == \A i, j \in 1..Len(backlog) : backlog[i] = backlog[j] => i = j
HeldIsOpen == \A c \in Conns : Held(c) => ~Closed(c)
HeldOnce == \A fd, gd \in Fds : peer[fd] = peer[gd] /\ peer[fd] # NoConn => fd = gd

Places == IdleIsUnknown /\ QueuedIsOpen /\ QueuedOnce /\ HeldIsOpen /\ HeldOnce

\* What ClosedStaysQuiet says of one step.
QuietStep ==
  \A c \in Conns :
    /\ Closed(c) => done'[c] = done[c] /\ resp'[c] = resp[c] /\ why'[c] = why[c]
                    /\ \A fd \in Fds : peer'[fd] # c
    /\ ~Closed(c) /\ why'[c] = "full" => \A s \in Slots : slotFd[s] # NoFd

-----------------------------------------------------------------------------
(* Steps that move no connection, and steps that close one. *)

LEMMA StillQuiet ==
  ASSUME TypeOK, Places, UNCHANGED <<cstate, backlog, peer, why>>,
         \A c \in Conns : ~Held(c) => done'[c] = done[c] /\ resp'[c] = resp[c]
  PROVE  Places' /\ QuietStep
<1>. USE DEF Places, IdleIsUnknown, QueuedIsOpen, QueuedOnce, HeldIsOpen, HeldOnce, Held, Queued, Closed
<1>1. Places'
  OBVIOUS
<1>2. QuietStep
  BY DEF QuietStep, TypeOK
<1>. QED  BY <1>1, <1>2

LEMMA ReleaseQuiet ==
  ASSUME IInv, Places, NEW s \in Slots, slotFd[s] # NoFd,
         NEW r \in Reasons \ {"no", "full"}, Release(s, r),
         UNCHANGED <<cstate, backlog, done, resp>>
  PROVE  Places' /\ QuietStep
<1>. USE ServerAssumption
<1>1. slotFd[s] \in Fds /\ peer[slotFd[s]] \in Conns /\ Held(peer[slotFd[s]])
  BY DEF IInv, Struct, TypeOK, DescriptorsAccounted, Held
<1>2. /\ peer' = [peer EXCEPT ![slotFd[s]] = NoConn]
      /\ why' = [why EXCEPT ![peer[slotFd[s]]] = r]
      /\ peer \in [Fds -> Conns \cup {NoConn}] /\ why \in [Conns -> Reasons]
  BY DEF Release, IInv, TypeOK
<1>3. \A fd \in Fds : peer'[fd] = peer[fd] \/ peer'[fd] = NoConn
  BY <1>2
<1>4. \A fd \in Fds : peer'[fd] # peer[slotFd[s]]
  BY <1>1, <1>2, <1>3 DEF Places, HeldOnce
<1>5. \A c \in Conns \ {peer[slotFd[s]]} : why'[c] = why[c]
  BY <1>2
<1>6. why'[peer[slotFd[s]]] = r
  BY <1>1, <1>2
<1>7. \A c \in Conns : Held(c)' => Held(c) /\ c # peer[slotFd[s]]
  BY <1>3, <1>4 DEF Held
<1>8. Places'
  <2>1. IdleIsUnknown' /\ QueuedIsOpen'
    BY <1>1, <1>5, <1>7 DEF Places, IdleIsUnknown, QueuedIsOpen, Queued, Closed
  <2>2. QueuedOnce' /\ HeldIsOpen'
    BY <1>5, <1>7 DEF Places, QueuedOnce, HeldIsOpen, Closed
  <2>3. HeldOnce'
    BY <1>3 DEF Places, HeldOnce
  <2>. QED  BY <2>1, <2>2, <2>3 DEF Places
<1>9. QuietStep
  BY <1>1, <1>3, <1>5, <1>6 DEF QuietStep, Places, HeldIsOpen, Held, Closed
<1>. QED  BY <1>8, <1>9

-----------------------------------------------------------------------------
(* The actions. *)

LEMMA EnvironmentQuiet ==
  ASSUME IInv, Places, Environment
  PROVE  Places' /\ QuietStep
<1>. USE ServerAssumption DEF IInv
<1>1. UNCHANGED <<peer, why, done, resp>>
  BY DEF Environment, Connect, Send, ShutdownWrites, Close, Receive, ChildDies, Terminate,
         kernelVars, slotVars, loopVars, history
<1>2. QuietStep
  BY <1>1 DEF QuietStep, Places, HeldIsOpen, Held, Closed
<1>3. ASSUME NEW c \in Conns, Connect(c)  PROVE Places'
  <2>1. /\ cstate \in [Conns -> {"idle", "open", "shut", "gone"}] /\ backlog \in Seq(Conns)
        /\ cstate[c] = "idle" /\ cstate' = [cstate EXCEPT ![c] = "open"]
        /\ backlog' = Append(backlog, c)
    BY <1>3 DEF Connect, TypeOK
  <2>2. ~Closed(c) /\ ~Queued(c) /\ ~Held(c)
    BY <2>1 DEF Places, IdleIsUnknown
  <2>3. /\ Len(backlog') = Len(backlog) + 1 /\ backlog'[Len(backlog) + 1] = c
        /\ \A i \in 1..Len(backlog) : backlog'[i] = backlog[i]
    BY <2>1, AppendProperties
  <2>4. Len(backlog) \in Nat
    BY <2>1, LenProperties
  <2>5. \A d \in Conns : Queued(d)' <=> Queued(d) \/ d = c
    BY <2>3, <2>4 DEF Queued
  <2>6. \A i \in 1..Len(backlog) : backlog[i] # c
    BY <2>2 DEF Queued
  <2>7. QueuedOnce'
    BY <2>3, <2>4, <2>6 DEF Places, QueuedOnce
  <2>8. \A d \in Conns : (Held(d)' <=> Held(d)) /\ (Closed(d)' <=> Closed(d))
    BY <1>1 DEF Held, Closed
  <2>9. \A d \in Conns : cstate'[d] = "idle" => cstate[d] = "idle" /\ d # c
    BY <2>1
  <2>10. IdleIsUnknown' /\ QueuedIsOpen' /\ HeldIsOpen'
    BY <2>2, <2>5, <2>8, <2>9 DEF Places, IdleIsUnknown, QueuedIsOpen, HeldIsOpen
  <2>11. HeldOnce'
    BY <1>1 DEF Places, HeldOnce
  <2>. QED  BY <2>7, <2>10, <2>11 DEF Places
<1>4. CASE /\ backlog' = backlog
           /\ \A c \in Conns : cstate'[c] = "idle" => cstate[c] = "idle"
  <2>1. \A c \in Conns : (Held(c)' <=> Held(c)) /\ (Queued(c)' <=> Queued(c)) /\ (Closed(c)' <=> Closed(c))
    BY <1>1, <1>4 DEF Held, Queued, Closed
  <2>2. IdleIsUnknown' /\ QueuedIsOpen' /\ HeldIsOpen'
    BY <1>4, <2>1 DEF Places, IdleIsUnknown, QueuedIsOpen, HeldIsOpen
  <2>3. QueuedOnce' /\ HeldOnce'
    BY <1>1, <1>4 DEF Places, QueuedOnce, HeldOnce
  <2>. QED  BY <1>2, <2>2, <2>3 DEF Places
<1>5. ASSUME NEW c \in Conns, Send(c) \/ ShutdownWrites(c) \/ Close(c) \/ Receive(c)
      PROVE  Places'
  <2>1. backlog' = backlog /\ \A d \in Conns : cstate'[d] = "idle" => cstate[d] = "idle"
    BY <1>5 DEF Send, ShutdownWrites, Close, Receive, TypeOK, clientVars, kernelVars
  <2>. QED  BY <2>1, <1>4
<1>6. CASE ChildDies \/ Terminate
  <2>1. backlog' = backlog /\ cstate' = cstate
    BY <1>6 DEF ChildDies, Terminate, clientVars
  <2>. QED  BY <2>1, <1>4
<1>. QED  BY <1>2, <1>3, <1>5, <1>6 DEF Environment

LEMMA AcceptQuiet ==
  ASSUME IInv, Places, HandleAccept
  PROVE  Places' /\ QuietStep
<1>. USE ServerAssumption DEF IInv
<1>1. UNCHANGED <<cstate, done, resp>>
  BY DEF HandleAccept, clientVars
<1>2. CASE UNCHANGED <<backlog, peer, why>>
  BY <1>1, <1>2, StillQuiet
<1>. DEFINE c == Head(backlog)
<1>3. backlog # <<>> /\ backlog \in Seq(Conns)
  <2>1. \E e \in batch : e.fd = ListenerFd
    BY DEF HandleAccept
  <2>. QED  BY <2>1 DEF Struct, QueuedForAccept, TypeOK
<1>4. /\ c \in Conns /\ c = backlog[1] /\ Len(backlog) \in Nat \ {0}
      /\ Len(Tail(backlog)) = Len(backlog) - 1
      /\ \A i \in 1..Len(Tail(backlog)) : Tail(backlog)[i] = backlog[i + 1]
  BY <1>3, HeadTailProperties, LenProperties
<1>5. Queued(c) /\ ~Closed(c) /\ ~Held(c) /\ cstate[c] # "idle"
  BY <1>4 DEF Places, Queued, QueuedIsOpen, IdleIsUnknown
<1>6. ASSUME backlog' = Tail(backlog)
      PROVE  QueuedOnce' /\ \A d \in Conns : Queued(d)' => Queued(d) /\ d # c
  <2>1. \A i \in 1..Len(backlog') : i + 1 \in 1..Len(backlog) /\ backlog'[i] = backlog[i + 1]
    BY <1>4, <1>6
  <2>2. QueuedOnce'
    <3>1. SUFFICES ASSUME NEW i \in 1..Len(backlog'), NEW j \in 1..Len(backlog'), backlog'[i] = backlog'[j]
                   PROVE  i = j
      BY DEF QueuedOnce
    <3>2. i + 1 = j + 1
      BY <2>1, <3>1 DEF Places, QueuedOnce
    <3>. QED  BY <3>2
  <2>3. ASSUME NEW d \in Conns, Queued(d)'  PROVE Queued(d) /\ d # c
    <3>1. PICK i \in 1..Len(backlog') : backlog'[i] = d
      BY <2>3 DEF Queued
    <3>2. i + 1 \in 1..Len(backlog) /\ backlog[i + 1] = d /\ i + 1 # 1 /\ 1 \in 1..Len(backlog)
      BY <1>4, <2>1, <3>1
    <3>. QED  BY <1>4, <3>2 DEF Queued, Places, QueuedOnce
  <2>. QED  BY <2>2, <2>3
<1>7. ASSUME NEW r \in {"full", "reactor"}, r = "full" => FreeSlots = {},
             backlog' = Tail(backlog), why' = [why EXCEPT ![c] = r], peer' = peer
      PROVE  Places' /\ QuietStep
  <2>1. why'[c] = r /\ \A d \in Conns \ {c} : why'[d] = why[d]
    BY <1>4, <1>7 DEF TypeOK
  <2>2. \A d \in Conns : Held(d)' <=> Held(d)
    BY <1>7 DEF Held
  <2>3. IdleIsUnknown' /\ QueuedIsOpen' /\ HeldIsOpen'
    BY <1>1, <1>5, <1>6, <1>7, <2>1, <2>2 DEF Places, IdleIsUnknown, QueuedIsOpen, HeldIsOpen, Closed
  <2>4. HeldOnce'
    BY <1>7 DEF Places, HeldOnce
  <2>5. QuietStep
    BY <1>1, <1>5, <1>7, <2>1 DEF QuietStep, Places, HeldIsOpen, Held, Closed, FreeSlots
  <2>. QED  BY <1>6, <1>7, <2>3, <2>4, <2>5 DEF Places
<1>8. ASSUME NEW fd \in Fds, peer[fd] = NoConn,
             backlog' = Tail(backlog), why' = why, peer' = [peer EXCEPT ![fd] = c]
      PROVE  Places' /\ QuietStep
  <2>1. peer'[fd] = c /\ \A gd \in Fds \ {fd} : peer'[gd] = peer[gd]
    BY <1>8 DEF TypeOK
  <2>2. \A d \in Conns : Held(d)' => Held(d) \/ d = c
    BY <2>1 DEF Held
  <2>3. \A d \in Conns : Closed(d)' <=> Closed(d)
    BY <1>8 DEF Closed
  <2>4. IdleIsUnknown' /\ QueuedIsOpen' /\ HeldIsOpen'
    BY <1>1, <1>5, <1>6, <1>8, <2>2, <2>3 DEF Places, IdleIsUnknown, QueuedIsOpen, HeldIsOpen
  <2>5. HeldOnce'
    BY <1>5, <2>1 DEF Places, HeldOnce, Held
  <2>6. QuietStep
    BY <1>1, <1>5, <1>8, <2>1 DEF QuietStep, Places, HeldIsOpen, Held, Closed
  <2>. QED  BY <1>6, <1>8, <2>4, <2>5, <2>6 DEF Places
<1>9. CASE FreeSlots = {} /\ backlog' = Tail(backlog) /\ why' = [why EXCEPT ![c] = "full"] /\ peer' = peer
  BY <1>7, <1>9
<1>10. CASE backlog' = Tail(backlog) /\ why' = [why EXCEPT ![c] = "reactor"] /\ peer' = peer
  BY <1>7, <1>10
<1>11. CASE /\ backlog' = Tail(backlog) /\ why' = why
            /\ \E fd \in Fds : peer[fd] = NoConn /\ peer' = [peer EXCEPT ![fd] = c]
  BY <1>8, <1>11
<1>. QED  BY <1>2, <1>9, <1>10, <1>11 DEF HandleAccept, slotVars

LEMMA ClientEventQuiet ==
  ASSUME IInv, Places, HandleClientEvent
  PROVE  Places' /\ QuietStep
<1>. USE ServerAssumption DEF IInv
<1>1. UNCHANGED <<cstate, backlog, done, resp>>
  BY DEF HandleClientEvent, clientVars
<1>2. PICK e \in batch :
        /\ e.fd \in Fds
        /\ SlotsOf(e.fd) # {} =>
             \/ \E r \in {"eof", "overflow"} : Release(Min(SlotsOf(e.fd)), r)
             \/ UNCHANGED <<peer, why>>
  <2>1. PICK e \in batch :
          /\ e.fd \in Fds
          /\ SlotsOf(e.fd) # {} =>
               LET s == Min(SlotsOf(e.fd))
                   in == inq[peer[e.fd]]
                   most == Min({Len(in), Chunk})
               IN \/ Release(s, "eof")
                  \/ \E k \in (IF e.hup THEN {most} ELSE 1..most) \ {0} :
                       Release(s, "overflow") \/ UNCHANGED <<peer, why>>
    BY DEF HandleClientEvent
  <2>. QED  BY <2>1
<1>3. SlotsOf(e.fd) # {}
  BY <1>2 DEF Struct, EventsFresh
<1>4. Min(SlotsOf(e.fd)) \in Slots /\ slotFd[Min(SlotsOf(e.fd))] # NoFd
  <2>1. SlotsOf(e.fd) \in SUBSET Slots
    BY DEF SlotsOf
  <2>2. Min(SlotsOf(e.fd)) \in SlotsOf(e.fd)
    BY <1>3, <2>1, MinIsMember
  <2>. QED  BY <1>2, <2>2 DEF SlotsOf
<1>5. CASE UNCHANGED <<peer, why>>
  BY <1>1, <1>5, StillQuiet
<1>6. CASE \E r \in {"eof", "overflow"} : Release(Min(SlotsOf(e.fd)), r)
  BY <1>1, <1>4, <1>6, ReleaseQuiet DEF Reasons
<1>. QED  BY <1>2, <1>3, <1>5, <1>6

LEMMA FrameStepsQuiet ==
  ASSUME IInv, Places, RejectFrame \/ FramesDone \/ DispatchSilent \/ DispatchAnswered
  PROVE  Places' /\ QuietStep
<1>. USE ServerAssumption DEF IInv
<1>1. cur \in Slots
  BY DEF TypeOK
<1>2. CASE RejectFrame
  <2>1. slotFd[cur] # NoFd
    BY <1>2, FrontIsLive DEF RejectFrame, Rejected
  <2>. QED  BY <1>1, <1>2, <2>1, ReleaseQuiet DEF RejectFrame, Reasons, clientVars
<1>3. CASE FramesDone
  <2>1. CASE slotFd[cur] # NoFd /\ Release(cur, "hup")
    BY <1>1, <1>3, <2>1, ReleaseQuiet DEF FramesDone, Reasons, clientVars
  <2>2. CASE KeepSlots
    BY <1>3, <2>2, StillQuiet DEF FramesDone, KeepSlots, clientVars
  <2>. QED  BY <1>3, <2>1, <2>2 DEF FramesDone
<1>4. CASE DispatchSilent \/ DispatchAnswered
  <2>1. slotFd[cur] \in Fds /\ Held(peer[slotFd[cur]])
    <3>1. HeaderIn
      BY <1>4 DEF DispatchSilent, DispatchAnswered, FrameIn
    <3>2. slotFd[cur] # NoFd
      BY <3>1, FrontIsLive
    <3>. QED  BY <1>1, <3>2 DEF TypeOK, Held
  <2>2. /\ UNCHANGED <<cstate, backlog, peer, why, resp>>
        /\ \E f : done' = [done EXCEPT ![peer[slotFd[cur]]] = Append(done[peer[slotFd[cur]]], f)]
    BY <1>4 DEF DispatchSilent, DispatchAnswered, clientVars, kernelVars
  <2>3. \A c \in Conns : ~Held(c) => done'[c] = done[c]
    BY <2>1, <2>2 DEF TypeOK
  <2>. QED  BY <2>2, <2>3, StillQuiet
<1>. QED  BY <1>2, <1>3, <1>4

LEMMA WriteStepsQuiet ==
  ASSUME IInv, Places, WritePart \/ WriteFails
  PROVE  Places' /\ QuietStep
<1>. USE ServerAssumption DEF IInv
<1>1. cur \in Slots /\ slotFd[cur] # NoFd /\ slotFd[cur] \in Fds
  BY DEF TypeOK, Struct, Writing, WritePart, WriteFails
<1>2. CASE WritePart
  <2>1. Held(peer[slotFd[cur]])
    BY <1>1 DEF Held
  <2>2. /\ UNCHANGED <<cstate, backlog, peer, why, done>>
        /\ resp' = [resp EXCEPT ![peer[slotFd[cur]]] = Append(@, Head(tx))]
    BY <1>2 DEF WritePart, clientVars
  <2>3. \A c \in Conns : ~Held(c) => resp'[c] = resp[c]
    BY <2>1, <2>2 DEF TypeOK
  <2>. QED  BY <2>2, <2>3, StillQuiet
<1>3. CASE WriteFails
  BY <1>1, <1>3, ReleaseQuiet DEF WriteFails, Reasons, clientVars
<1>. QED  BY <1>2, <1>3

LEMMA CleanupQuiet ==
  ASSUME IInv, Places, Cleanup
  PROVE  Places' /\ QuietStep
<1>. USE ServerAssumption DEF IInv
<1>. DEFINE fds == {slotFd[s] : s \in LiveSlots}
            cs == {peer[fd] : fd \in fds}
<1>1. /\ UNCHANGED <<cstate, backlog, done, resp>>
      /\ peer' = [fd \in Fds |-> IF fd \in fds THEN NoConn ELSE peer[fd]]
      /\ why' = [c \in Conns |-> IF c \in cs THEN "stop" ELSE why[c]]
  BY DEF Cleanup, clientVars
<1>2. \A fd \in Fds : peer[fd] # NoConn => fd \in fds
  BY DEF Struct, DescriptorsAccounted, LiveSlots
<1>3. \A fd \in Fds : peer'[fd] = NoConn
  BY <1>1, <1>2
<1>4. \A c \in Conns : c \in cs => Held(c)
  BY DEF Held, LiveSlots, TypeOK
<1>5. \A c \in Conns : ~Held(c) => why'[c] = why[c]
  BY <1>1, <1>4
<1>6. \A c \in Conns : ~Held(c)'
  BY <1>3 DEF Held
<1>7. IdleIsUnknown' /\ QueuedIsOpen' /\ QueuedOnce' /\ HeldIsOpen' /\ HeldOnce'
  BY <1>1, <1>3, <1>5, <1>6 DEF Places, IdleIsUnknown, QueuedIsOpen, QueuedOnce, HeldIsOpen, HeldOnce,
                                Queued, Closed
<1>8. \A c \in Conns : why'[c] = "full" => why[c] = "full"
  BY <1>1 DEF TypeOK
<1>9. QuietStep
  BY <1>1, <1>3, <1>5, <1>8 DEF QuietStep, Places, HeldIsOpen, Closed
<1>. QED  BY <1>7, <1>9 DEF Places

-----------------------------------------------------------------------------

LEMMA StepQuiet == IInv /\ Places /\ [Next]_vars => Places' /\ QuietStep
<1>. SUFFICES ASSUME IInv, Places, [Next]_vars PROVE Places' /\ QuietStep
  OBVIOUS
<1>1. CASE Environment
  BY <1>1, EnvironmentQuiet
<1>2. CASE Wait \/ WaitTimesOut \/ WaitFails \/ BatchDone \/ StartSignals \/ HandleSignals \/ Halted
           \/ UNCHANGED vars
  <2>1. UNCHANGED <<cstate, backlog, peer, why, done, resp>>
    BY <1>2 DEF Wait, WaitTimesOut, WaitFails, BatchDone, StartSignals, HandleSignals, Halted,
                vars, clientVars, kernelVars, history
  <2>. QED  BY <2>1, StillQuiet DEF IInv
<1>3. CASE HandleAccept
  BY <1>3, AcceptQuiet
<1>4. CASE HandleClientEvent
  BY <1>4, ClientEventQuiet
<1>5. CASE RejectFrame \/ FramesDone \/ DispatchSilent \/ DispatchAnswered
  BY <1>5, FrameStepsQuiet
<1>6. CASE WritePart \/ WriteFails
  BY <1>6, WriteStepsQuiet
<1>7. CASE Cleanup
  BY <1>7, CleanupQuiet
<1>. QED  BY <1>1, <1>2, <1>3, <1>4, <1>5, <1>6, <1>7 DEF Next, Server

\* Once the server has closed a connection nothing is dispatched or answered on
\* it and no descriptor stands for it again, whatever batches, slots and numbers
\* it was known by; and it is turned away for want of a slot only if none is free.
THEOREM ClosedIsFinal == Spec => ClosedStaysQuiet
<1>1. Init => Places
  BY ServerAssumption, EmptySeq DEF Init, Places, IdleIsUnknown, QueuedIsOpen, QueuedOnce, HeldIsOpen, HeldOnce,
                  Held, Queued, Closed
<1>2. QuietStep => [\A c \in Conns :
       /\ Closed(c) => done'[c] = done[c] /\ resp'[c] = resp[c] /\ why'[c] = why[c]
                       /\ \A fd \in Fds : peer'[fd] # c
       /\ ~Closed(c) /\ why'[c] = "full" => \A s \in Slots : slotFd[s] # NoFd]_vars
  BY DEF QuietStep
<1>. QED  BY <1>1, <1>2, StepQuiet, Invariance, PTL DEF Spec, ClosedStaysQuiet

\* However SIGCHLDs coalesce and whenever the signalfd is read, a terminated child
\* has a signal pending or has been waited for.
THEOREM ZombiesAreReaped == Spec => []NoForgottenZombie
<1>1. Init => NoForgottenZombie
  BY DEF Init, NoForgottenZombie
<1>2. NoForgottenZombie /\ [Next]_vars => NoForgottenZombie'
  <2>. SUFFICES ASSUME NoForgottenZombie, [Next]_vars PROVE NoForgottenZombie'
    OBVIOUS
  <2>. USE DEF NoForgottenZombie
  <2>1. CASE HandleSignals
    BY <2>1 DEF HandleSignals, ReapedAll
  <2>2. CASE Environment
    <3>1. CASE ChildDies \/ Terminate
      BY <3>1 DEF ChildDies, Terminate
    <3>2. CASE UNCHANGED <<sigs, zombies>>
      BY <3>2
    <3>. QED  BY <2>2, <3>1, <3>2 DEF Environment, Connect, Send, ShutdownWrites, Close, Receive, kernelVars
  <2>3. CASE Halted \/ WaitTimesOut \/ UNCHANGED vars
    BY <2>3 DEF Halted, WaitTimesOut, vars, kernelVars
  <2>4. CASE Wait \/ WaitFails \/ BatchDone \/ StartSignals \/ HandleAccept \/ HandleClientEvent
    BY <2>4 DEF Wait, WaitFails, BatchDone, StartSignals, HandleAccept, HandleClientEvent, kernelVars
  <2>5. CASE RejectFrame \/ FramesDone \/ DispatchSilent \/ DispatchAnswered \/ WritePart \/ WriteFails \/ Cleanup
    BY <2>5 DEF RejectFrame, FramesDone, DispatchSilent, DispatchAnswered, WritePart, WriteFails, Cleanup, kernelVars
  <2>. QED  BY <2>1, <2>2, <2>3, <2>4, <2>5 DEF Next, Server
<1>. QED  BY <1>1, <1>2, PTL DEF Spec

-----------------------------------------------------------------------------
(* ApplianceServer implements FrameService.  What a connection's slot has  *)
(* buffered, followed by what its socket holds, is the encoding of the     *)
(* frames sent and not yet served: the invariant says so unit by unit      *)
(* (Chain), and that it ends with the last frame as long as the client has *)
(* not closed (Whole), so that it needs no induction.                      *)

\* u holds frames of q from number p + 1 on, one whole frame after the other,
\* the last one possibly cut.
Chain(u, p, q) ==
  /\ \A j \in 1..Len(u) : u[j].f.rid[2] \in 1..Len(q) /\ q[u[j].f.rid[2]] = u[j].f
  /\ u # <<>> => u[1].i = 1 /\ u[1].f.rid[2] = p + 1
  /\ \A j \in 1..Len(u) : u[j].i = 1 =>
       \A m \in 1..(Size(u[j].f) - 1) : j + m <= Len(u) => u[j + m].f = u[j].f /\ u[j + m].i = m + 1
  /\ \A j \in 1..Len(u) : u[j].i = 1 /\ j + Size(u[j].f) <= Len(u) =>
       u[j + Size(u[j].f)].i = 1 /\ u[j + Size(u[j].f)].f.rid[2] = u[j].f.rid[2] + 1

\* The last frame in u is not cut and is the last of q.
Whole(u, p, q) ==
  /\ u = <<>> => p = Len(q)
  /\ \A j \in 1..Len(u) : u[j].i = 1 =>
       /\ j + Size(u[j].f) <= Len(u) + 1
       /\ j + Size(u[j].f) = Len(u) + 1 => u[j].f.rid[2] = Len(q)

\* How many frames of c are gone from its buffer: those dispatched but for the
\* one whose answer is being written.
FrontOf(c) == IF pc = "write" /\ peer[slotFd[cur]] = c THEN Len(done[c]) - 1 ELSE Len(done[c])

Good(c, u) ==
  /\ Chain(u, FrontOf(c), sent[c])
  /\ cstate[c] # "gone" => Whole(u, FrontOf(c), sent[c])

BufferedGood ==
  \A s \in Slots, c \in Conns :
    slotFd[s] # NoFd /\ peer[slotFd[s]] = c => Good(c, rx[s] \o inq[c])
WaitingGood == \A c \in Conns : ~Closed(c) /\ ~Held(c) => Good(c, inq[c])
ServedWereSent == \A c \in Conns : Len(done[c]) <= Len(sent[c]) /\ FrontOf(c) \in Nat

\* While its answer is written the request stays, whole, at the front of the buffer.
RequestKept == pc = "write" => Size(Head(rx[cur]).f) <= Len(rx[cur])

Streams == BufferedGood /\ WaitingGood /\ ServedWereSent /\ RequestKept

-----------------------------------------------------------------------------
(* Chains of units. *)

LEMMA UnitFacts ==
  ASSUME NEW u \in Seq(Unit), NEW j \in 1..Len(u)
  PROVE  /\ u[j] \in Unit /\ u[j].f \in Frame /\ u[j].i \in Nat \ {0}
         /\ u[j].f.rid[2] \in Nat /\ Size(u[j].f) \in Nat \ {0}
<1>1. u[j] \in Unit
  BY ElementOfSeq
<1>2. u[j].f \in Frame /\ u[j].i \in Nat \ {0}
  BY <1>1 DEF Unit
<1>3. u[j].f.rid[2] \in Nat /\ u[j].f.plen \in Nat
  BY <1>2 DEF Frame
<1>. QED  BY <1>1, <1>2, <1>3, ServerAssumption, SMTT(30) DEF Size

LEMMA SizePositive ==
  ASSUME NEW x \in Unit
  PROVE  Size(x.f) \in Nat \ {0}
<1>1. x.f \in Frame
  BY DEF Unit
<1>2. x.f.plen \in Nat
  BY <1>1 DEF Frame
<1>. QED  BY <1>2, ServerAssumption DEF Size

LEMMA UnitsAssociate ==
  ASSUME NEW a \in Seq(Unit), NEW b \in Seq(Unit), NEW d \in Seq(Unit)
  PROVE  (a \o b) \o d = a \o (b \o d)
BY ConcatAssociative

\* Units that arrive are a whole frame, the next one of the client.
LEMMA ChainAppend ==
  ASSUME NEW u \in Seq(Unit), NEW q \in Seq(Frame), NEW p \in Nat, NEW f \in Frame,
         f.rid[2] = Len(q) + 1, Chain(u, p, q), Whole(u, p, q)
  PROVE  Chain(u \o Encode(f), p, Append(q, f)) /\ Whole(u \o Encode(f), p, Append(q, f))
<1>. DEFINE e == Encode(f)
            v == u \o e
            r == Append(q, f)
            n == Size(f)
<1>1. n \in Nat \ {0}
  BY ServerAssumption DEF Size, Frame
<1>2. e \in Seq(Unit) /\ Len(e) = n /\ \A i \in 1..n : e[i] = [f |-> f, i |-> i]
  BY <1>1, EncodeIsSeq DEF Encode
<1>3. Len(u) \in Nat /\ Len(q) \in Nat
  BY LenProperties
<1>4. /\ v \in Seq(Unit) /\ Len(v) = Len(u) + n
      /\ \A j \in 1..Len(u) : v[j] = u[j]
      /\ \A j \in (Len(u) + 1)..Len(v) : v[j].f = f /\ v[j].i = j - Len(u)
  <2>1. /\ v \in Seq(Unit) /\ Len(v) = Len(u) + Len(e)
        /\ \A i \in 1..(Len(u) + Len(e)) : v[i] = IF i <= Len(u) THEN u[i] ELSE e[i - Len(u)]
    BY <1>2, ConcatProperties
  <2>. HIDE DEF v, e, n
  <2>2. \A j \in 1..Len(u) : v[j] = u[j]
    BY <1>1, <1>2, <1>3, <2>1
  <2>3. ASSUME NEW j \in (Len(u) + 1)..Len(v)  PROVE v[j].f = f /\ v[j].i = j - Len(u)
    <3>1. j \in 1..(Len(u) + Len(e)) /\ ~ (j <= Len(u)) /\ j - Len(u) \in 1..n
      BY <1>1, <1>2, <1>3, <2>1
    <3>2. v[j] = e[j - Len(u)]
      BY <2>1, <3>1
    <3>3. v[j] = [f |-> f, i |-> j - Len(u)]
      BY <1>2, <3>1, <3>2
    <3>. QED  BY <3>3
  <2>. QED  BY <1>2, <2>1, <2>2, <2>3
<1>5. Len(r) = Len(q) + 1 /\ r[Len(q) + 1] = f /\ \A i \in 1..Len(q) : r[i] = q[i]
  BY <1>3, AppendProperties
<1>. HIDE DEF e, v, r, n
<1>6. \A j \in 1..Len(v) : v[j].i = 1 => j \in 1..Len(u) \/ j = Len(u) + 1
  BY <1>1, <1>3, <1>4
<1>7. Len(u) + 1 \in 1..Len(v) /\ v[Len(u) + 1].f = f /\ v[Len(u) + 1].i = 1
  BY <1>1, <1>3, <1>4
<1>8. ASSUME NEW j \in 1..Len(v)
      PROVE  v[j].f.rid[2] \in 1..Len(r) /\ r[v[j].f.rid[2]] = v[j].f
  <2>1. CASE j \in 1..Len(u)
    <3>1. v[j] = u[j]
      BY <1>4, <2>1
    <3>2. u[j].f.rid[2] \in 1..Len(q) /\ q[u[j].f.rid[2]] = u[j].f
      BY <2>1 DEF Chain
    <3>3. \A k \in 1..Len(q) : k \in 1..Len(r)
      BY <1>3, <1>5
    <3>. QED  BY <1>5, <3>1, <3>2, <3>3
  <2>2. CASE j \notin 1..Len(u)
    <3>1. j \in (Len(u) + 1)..Len(v)
      BY <1>3, <1>4, <2>2
    <3>2. v[j].f = f
      BY <1>4, <3>1
    <3>. QED  BY <1>3, <1>5, <3>2
  <2>. QED  BY <2>1, <2>2
<1>9. v # <<>> /\ v[1].i = 1 /\ v[1].f.rid[2] = p + 1
  <2>1. v # <<>>
    BY <1>1, <1>3, <1>4, EmptySeq
  <2>2. CASE u = <<>>
    <3>1. p = Len(q) /\ Len(u) + 1 = 1
      BY <2>2, EmptySeq DEF Whole
    <3>. QED  BY <1>7, <2>1, <3>1
  <2>3. CASE u # <<>>
    <3>1. 1 \in 1..Len(u)
      BY <2>3, EmptySeq
    <3>2. u[1].i = 1 /\ u[1].f.rid[2] = p + 1 /\ v[1] = u[1]
      BY <1>4, <2>3, <3>1 DEF Chain
    <3>. QED  BY <2>1, <3>2
  <2>. QED  BY <2>1, <2>2, <2>3
<1>10. ASSUME NEW j \in 1..Len(v), v[j].i = 1
       PROVE  /\ \A m \in 1..(Size(v[j].f) - 1) : j + m <= Len(v) => v[j + m].f = v[j].f /\ v[j + m].i = m + 1
              /\ j + Size(v[j].f) <= Len(v) =>
                   v[j + Size(v[j].f)].i = 1 /\ v[j + Size(v[j].f)].f.rid[2] = v[j].f.rid[2] + 1
              /\ j + Size(v[j].f) <= Len(v) + 1
              /\ j + Size(v[j].f) = Len(v) + 1 => v[j].f.rid[2] = Len(r)
  <2>1. CASE j \in 1..Len(u)
    <3>. DEFINE k == Size(u[j].f)
    <3>1. v[j] = u[j] /\ u[j].i = 1 /\ k \in Nat \ {0}
      BY <1>4, <1>10, <2>1, UnitFacts
    <3>2. /\ \A m \in 1..(k - 1) : j + m <= Len(u) => u[j + m].f = u[j].f /\ u[j + m].i = m + 1
          /\ j + k <= Len(u) => u[j + k].i = 1 /\ u[j + k].f.rid[2] = u[j].f.rid[2] + 1
          /\ j + k <= Len(u) + 1
          /\ j + k = Len(u) + 1 => u[j].f.rid[2] = Len(q)
      BY <2>1, <3>1 DEF Chain, Whole
    <3>. HIDE DEF k
    <3>3. \A m \in 1..(k - 1) : j + m \in 1..Len(u)
      BY <1>3, <2>1, <3>1, <3>2
    <3>4. ASSUME NEW m \in 1..(k - 1)  PROVE v[j + m].f = v[j].f /\ v[j + m].i = m + 1
      <4>1. j + m \in 1..Len(u) /\ j + m <= Len(u)
        BY <1>3, <2>1, <3>1, <3>3
      <4>2. v[j + m] = u[j + m] /\ u[j + m].f = u[j].f /\ u[j + m].i = m + 1
        BY <1>4, <3>2, <4>1
      <4>. QED  BY <3>1, <4>2
    <3>5. v[j + k].i = 1 /\ v[j + k].f.rid[2] = v[j].f.rid[2] + 1
      <4>1. CASE j + k <= Len(u)
        <5>1. j + k \in 1..Len(u)
          BY <1>3, <2>1, <3>1, <4>1
        <5>. QED  BY <1>4, <3>1, <3>2, <4>1, <5>1
      <4>2. CASE j + k = Len(u) + 1
        <5>1. u[j].f.rid[2] = Len(q) /\ v[j + k].i = 1 /\ v[j + k].f = f
          BY <1>7, <3>2, <4>2
        <5>. QED  BY <3>1, <5>1
      <4>3. j + k \in Nat /\ j + k <= Len(u) + 1
        BY <3>1, <3>2
      <4>4. j + k <= Len(u) \/ j + k = Len(u) + 1
        BY ONLY <1>3, <4>3
      <4>. QED  BY <4>1, <4>2, <4>4
    <3>6. j + k <= Len(v) /\ j + k # Len(v) + 1
      BY <1>1, <1>3, <1>4, <2>1, <3>1, <3>2
    <3>. QED  BY <3>1, <3>4, <3>5, <3>6 DEF k
  <2>2. CASE j = Len(u) + 1
    <3>1. v[j].f = f /\ Size(v[j].f) = n
      BY <1>7, <2>2 DEF n
    <3>2. ASSUME NEW m \in 1..(n - 1)  PROVE v[j + m].f = f /\ v[j + m].i = m + 1
      <4>1. j + m \in (Len(u) + 1)..Len(v) /\ (j + m) - Len(u) = m + 1
        BY <1>1, <1>3, <1>4, <2>2
      <4>. QED  BY <1>4, <4>1
    <3>3. j + n = Len(v) + 1 /\ ~ (j + n <= Len(v)) /\ Len(r) = f.rid[2]
      BY <1>1, <1>3, <1>4, <1>5, <2>2
    <3>. QED  BY <3>1, <3>2, <3>3
  <2>. QED  BY <1>6, <1>10, <2>1, <2>2
<1>11. Chain(v, p, r)
  BY <1>8, <1>9, <1>10 DEF Chain
<1>12. Whole(v, p, r)
  BY <1>9, <1>10 DEF Whole
<1>. QED  BY <1>11, <1>12 DEF v, e, r

\* The frame at the front is dropped.
LEMMA ChainDrop ==
  ASSUME NEW u \in Seq(Unit), NEW q \in Seq(Frame), NEW p \in Nat, u # <<>>,
         Chain(u, p, q), Size(u[1].f) <= Len(u)
  PROVE  LET v == SubSeq(u, Size(u[1].f) + 1, Len(u)) IN
           Chain(v, p + 1, q) /\ (Whole(u, p, q) => Whole(v, p + 1, q))
<1>. DEFINE n == Size(u[1].f)
            v == SubSeq(u, n + 1, Len(u))
<1>1. Len(u) \in Nat /\ 1 \in 1..Len(u)
  BY EmptySeq, LenProperties
<1>2. n \in Nat \ {0} /\ n <= Len(u)
  BY <1>1, UnitFacts
<1>3. u[1].i = 1 /\ u[1].f.rid[2] = p + 1
  BY DEF Chain
<1>4. n + 1 <= Len(u) => u[n + 1].i = 1 /\ u[n + 1].f.rid[2] = p + 2
  <2>1. 1 + n = n + 1 /\ (p + 1) + 1 = p + 2
    BY <1>2
  <2>2. 1 + n <= Len(u) => u[1 + n].i = 1 /\ u[1 + n].f.rid[2] = (p + 1) + 1
    BY <1>1, <1>3 DEF Chain
  <2>. QED  BY <2>1, <2>2
<1>. HIDE DEF n
<1>5. /\ v \in Seq(Unit) /\ Len(v) = Len(u) - n
      /\ \A j \in 1..Len(v) : v[j] = u[j + n] /\ j + n \in 1..Len(u)
  <2>1. n \in 0..Len(u)
    BY <1>1, <1>2
  <2>2. v \in Seq(Unit) /\ Len(v) = Len(u) - n
    BY <2>1, CutSeq
  <2>3. \A i \in (n + 1)..Len(u) : u[i] \in Unit
    BY <1>1, <1>2, ElementOfSeq
  <2>4. \A i \in 1..(Len(u) - (n + 1) + 1) : v[i] = u[(n + 1) + i - 1]
    BY <1>1, <1>2, <2>3, SubSeqProperties
  <2>. HIDE DEF v
  <2>5. ASSUME NEW j \in 1..Len(v)  PROVE v[j] = u[j + n] /\ j + n \in 1..Len(u)
    <3>1. j \in 1..(Len(u) - (n + 1) + 1) /\ (n + 1) + j - 1 = j + n /\ j + n \in 1..Len(u)
      BY <1>1, <1>2, <2>2
    <3>. QED  BY <2>4, <3>1
  <2>. QED  BY <2>2, <2>5
<1>. HIDE DEF v
<1>6. \A j \in 1..Len(v) : v[j].f.rid[2] \in 1..Len(q) /\ q[v[j].f.rid[2]] = v[j].f
  BY <1>5 DEF Chain
<1>7. v # <<>> => v[1].i = 1 /\ v[1].f.rid[2] = (p + 1) + 1
  <2>1. SUFFICES ASSUME v # <<>>  PROVE v[1].i = 1 /\ v[1].f.rid[2] = (p + 1) + 1
    OBVIOUS
  <2>2. 1 \in 1..Len(v)
    BY <1>5, <2>1, EmptySeq
  <2>3. v[1] = u[n + 1] /\ n + 1 <= Len(u)
    BY <1>1, <1>2, <1>5, <2>2
  <2>. QED  BY <1>4, <2>3
<1>8. ASSUME NEW j \in 1..Len(v), v[j].i = 1
      PROVE  /\ \A m \in 1..(Size(v[j].f) - 1) : j + m <= Len(v) => v[j + m].f = v[j].f /\ v[j + m].i = m + 1
             /\ j + Size(v[j].f) <= Len(v) =>
                  v[j + Size(v[j].f)].i = 1 /\ v[j + Size(v[j].f)].f.rid[2] = v[j].f.rid[2] + 1
             /\ Whole(u, p, q) =>
                  /\ j + Size(v[j].f) <= Len(v) + 1
                  /\ j + Size(v[j].f) = Len(v) + 1 => v[j].f.rid[2] = Len(q)
  <2>. DEFINE g == j + n
              k == Size(u[g].f)
  <2>1. g \in 1..Len(u) /\ v[j] = u[g] /\ u[g].i = 1 /\ k \in Nat \ {0}
    BY <1>5, <1>8, UnitFacts
  <2>2. /\ \A m \in 1..(k - 1) : g + m <= Len(u) => u[g + m].f = u[g].f /\ u[g + m].i = m + 1
        /\ g + k <= Len(u) => u[g + k].i = 1 /\ u[g + k].f.rid[2] = u[g].f.rid[2] + 1
        /\ Whole(u, p, q) => g + k <= Len(u) + 1 /\ (g + k = Len(u) + 1 => u[g].f.rid[2] = Len(q))
    BY <2>1 DEF Chain, Whole
  <2>. HIDE DEF k
  <2>3. ASSUME NEW m \in Nat, j + m <= Len(v)
        PROVE  g + m <= Len(u) /\ v[j + m] = u[g + m]
    <3>1. j + m \in 1..Len(v) /\ (j + m) + n = g + m
      BY <1>1, <1>2, <1>5, <2>3
    <3>2. (j + m) + n \in 1..Len(u) /\ v[j + m] = u[(j + m) + n]
      BY <1>5, <3>1
    <3>. QED  BY <1>1, <3>1, <3>2
  <2>4. ASSUME NEW m \in 1..(k - 1), j + m <= Len(v)
        PROVE  v[j + m].f = v[j].f /\ v[j + m].i = m + 1
    <3>1. g + m <= Len(u) /\ v[j + m] = u[g + m]
      BY <2>1, <2>3, <2>4
    <3>2. u[g + m].f = u[g].f /\ u[g + m].i = m + 1
      BY <2>2, <3>1
    <3>. QED  BY <2>1, <3>1, <3>2
  <2>5. ASSUME j + k <= Len(v)
        PROVE  v[j + k].i = 1 /\ v[j + k].f.rid[2] = v[j].f.rid[2] + 1
    BY <2>1, <2>2, <2>3, <2>5
  <2>6. /\ g + k <= Len(u) + 1 => j + k <= Len(v) + 1
        /\ j + k = Len(v) + 1 => g + k = Len(u) + 1
    BY <1>1, <1>2, <1>5, <2>1
  <2>7. Size(v[j].f) = k
    BY <2>1 DEF k
  <2>. QED  BY <2>1, <2>2, <2>4, <2>5, <2>6, <2>7
<1>9. Chain(v, p + 1, q)
  BY <1>6, <1>7, <1>8 DEF Chain
<1>10. ASSUME Whole(u, p, q)  PROVE Whole(v, p + 1, q)
  <2>1. ASSUME v = <<>>  PROVE p + 1 = Len(q)
    <3>1. 1 + n = Len(u) + 1
      BY <1>1, <1>2, <1>5, <2>1, EmptySeq
    <3>. QED  BY <1>1, <1>3, <1>10, <3>1 DEF Whole, n
  <2>. QED  BY <1>8, <1>10, <2>1 DEF Whole
<1>. QED  BY <1>9, <1>10 DEF v, n

\* Units at the back are lost.
LEMMA ChainPrefix ==
  ASSUME NEW u \in Seq(Unit), NEW w \in Seq(Unit), NEW q \in Seq(Frame), NEW p \in Nat,
         Chain(u \o w, p, q)
  PROVE  Chain(u, p, q)
<1>. DEFINE v == u \o w
<1>1. /\ Len(u) \in Nat /\ Len(w) \in Nat /\ v \in Seq(Unit) /\ Len(v) = Len(u) + Len(w)
      /\ \A j \in 1..(Len(u) + Len(w)) : v[j] = IF j <= Len(u) THEN u[j] ELSE w[j - Len(u)]
  BY LenProperties, ConcatProperties
<1>. HIDE DEF v
<1>2. \A j \in 1..Len(u) : j \in 1..Len(v) /\ v[j] = u[j]
  BY <1>1
<1>3. Chain(v, p, q)
  BY DEF v
<1>4. \A j \in 1..Len(u) : u[j].f.rid[2] \in 1..Len(q) /\ q[u[j].f.rid[2]] = u[j].f
  BY <1>2, <1>3 DEF Chain
<1>5. u # <<>> => u[1].i = 1 /\ u[1].f.rid[2] = p + 1
  <2>1. SUFFICES ASSUME u # <<>>  PROVE u[1].i = 1 /\ u[1].f.rid[2] = p + 1
    OBVIOUS
  <2>2. 1 \in 1..Len(u)
    BY <2>1, EmptySeq
  <2>3. v # <<>> /\ v[1] = u[1]
    BY <1>1, <1>2, <2>2, EmptySeq
  <2>. QED  BY <1>3, <2>3 DEF Chain
<1>6. ASSUME NEW j \in 1..Len(u), u[j].i = 1
      PROVE  /\ \A m \in 1..(Size(u[j].f) - 1) : j + m <= Len(u) => u[j + m].f = u[j].f /\ u[j + m].i = m + 1
             /\ j + Size(u[j].f) <= Len(u) =>
                  u[j + Size(u[j].f)].i = 1 /\ u[j + Size(u[j].f)].f.rid[2] = u[j].f.rid[2] + 1
  <2>. DEFINE k == Size(u[j].f)
  <2>1. j \in 1..Len(v) /\ v[j] = u[j] /\ k \in Nat \ {0}
    BY <1>2, UnitFacts
  <2>2. /\ \A m \in 1..(k - 1) : j + m <= Len(v) => v[j + m].f = u[j].f /\ v[j + m].i = m + 1
        /\ j + k <= Len(v) => v[j + k].i = 1 /\ v[j + k].f.rid[2] = u[j].f.rid[2] + 1
    BY <1>3, <1>6, <2>1 DEF Chain
  <2>. HIDE DEF k
  <2>3. ASSUME NEW m \in Nat, j + m <= Len(u)
        PROVE  j + m <= Len(v) /\ v[j + m] = u[j + m]
    <3>1. j + m \in 1..Len(u)
      BY <1>1, <2>3
    <3>. QED  BY <1>1, <1>2, <3>1
  <2>4. ASSUME NEW m \in 1..(k - 1), j + m <= Len(u)
        PROVE  u[j + m].f = u[j].f /\ u[j + m].i = m + 1
    <3>1. m \in Nat
      BY <2>1
    <3>2. j + m <= Len(v) /\ v[j + m] = u[j + m]
      BY <2>3, <2>4, <3>1
    <3>3. v[j + m].f = u[j].f /\ v[j + m].i = m + 1
      BY <2>2, <3>2
    <3>. QED  BY <3>2, <3>3
  <2>5. ASSUME j + k <= Len(u)
        PROVE  u[j + k].i = 1 /\ u[j + k].f.rid[2] = u[j].f.rid[2] + 1
    BY <2>1, <2>2, <2>3, <2>5
  <2>. QED  BY <2>4, <2>5 DEF k
<1>. QED  BY <1>4, <1>5, <1>6 DEF Chain

-----------------------------------------------------------------------------
(* Steps that leave every stream alone, and steps that close a connection. *)

LEMMA StreamTypes ==
  ASSUME IInv
  PROVE  /\ \A s \in Slots : slotFd[s] # NoFd =>
              /\ slotFd[s] \in Fds /\ peer[slotFd[s]] \in Conns /\ Held(peer[slotFd[s]])
              /\ rx[s] \in Seq(Unit) /\ inq[peer[slotFd[s]]] \in Seq(Unit)
         /\ \A c \in Conns : inq[c] \in Seq(Unit) /\ sent[c] \in Seq(Frame) /\ done[c] \in Seq(Frame)
BY ServerAssumption, SMTT(30) DEF IInv, Struct, TypeOK, DescriptorsAccounted, Held

\* Different slots stand for different connections.
LEMMA SlotsApart ==
  ASSUME IInv, Places, NEW s \in Slots, NEW t \in Slots, s # t, slotFd[s] # NoFd, slotFd[t] # NoFd
  PROVE  peer[slotFd[s]] # peer[slotFd[t]] /\ slotFd[s] # slotFd[t]
<1>1. slotFd[s] # slotFd[t]
  BY DEF IInv, Struct, DescriptorsAccounted
<1>2. peer[slotFd[s]] # NoConn
  BY StreamTypes, ServerAssumption
<1>. QED  BY <1>1, <1>2, StreamTypes DEF Places, HeldOnce

LEMMA StillStreams ==
  ASSUME Streams, UNCHANGED <<sent, peer, inq, slotFd, rx, cur, done>>,
         \A c \in Conns : cstate'[c] # "gone" => cstate[c] # "gone",
         \A c \in Conns : ~Closed(c)' => ~Closed(c),
         pc' = pc \/ "write" \notin {pc, pc'}
  PROVE  Streams'
<1>1. \A c \in Conns : FrontOf(c)' = FrontOf(c)
  BY DEF FrontOf
<1>2. ASSUME NEW c \in Conns, NEW u, Good(c, u)
      PROVE  Chain(u, FrontOf(c)', sent'[c]) /\ (cstate'[c] # "gone" => Whole(u, FrontOf(c)', sent'[c]))
  BY <1>1, <1>2 DEF Good
<1>3. BufferedGood'
  <2>1. SUFFICES ASSUME NEW s \in Slots, NEW c \in Conns, slotFd'[s] # NoFd, peer'[slotFd'[s]] = c
                 PROVE  Good(c, rx[s] \o inq[c])'
    BY DEF BufferedGood
  <2>2. Good(c, rx[s] \o inq[c])
    BY <2>1 DEF Streams, BufferedGood
  <2>. QED  BY <1>2, <2>2 DEF Good
<1>4. WaitingGood'
  <2>1. SUFFICES ASSUME NEW c \in Conns, ~Closed(c)', ~Held(c)'
                 PROVE  Good(c, inq[c])'
    BY DEF WaitingGood
  <2>2. Good(c, inq[c])
    BY <2>1 DEF Streams, WaitingGood, Held
  <2>. QED  BY <1>2, <2>2 DEF Good
<1>5. ServedWereSent' /\ RequestKept'
  BY <1>1 DEF Streams, ServedWereSent, RequestKept
<1>. QED  BY <1>3, <1>4, <1>5 DEF Streams

\* A step after which the streams of all but closed connections are as before.
LEMMA ReleaseStreams ==
  ASSUME IInv, Places, Streams, NEW s \in Slots, slotFd[s] # NoFd,
         NEW r \in Reasons \ {"no"}, Release(s, r),
         UNCHANGED <<cstate, sent, done>>, pc' # "write", pc = "write" => s = cur
  PROVE  Streams'
<1>. DEFINE c == peer[slotFd[s]]
<1>1. c \in Conns /\ slotFd[s] \in Fds
  BY StreamTypes
<1>2. /\ slotFd' = [slotFd EXCEPT ![s] = NoFd]
      /\ rx' = [rx EXCEPT ![s] = <<>>]
      /\ peer' = [peer EXCEPT ![slotFd[s]] = NoConn]
      /\ inq' = [inq EXCEPT ![c] = <<>>]
      /\ why' = [why EXCEPT ![c] = r]
  BY DEF Release
<1>3. \A d \in Conns \ {c} : FrontOf(d)' = FrontOf(d)
  BY DEF FrontOf
<1>4. \A d \in Conns : FrontOf(d)' = Len(done[d]) /\ Len(done[d]) \in Nat
  BY StreamTypes, LenProperties DEF FrontOf
<1>5. BufferedGood'
  <2>1. SUFFICES ASSUME NEW t \in Slots, NEW d \in Conns, slotFd'[t] # NoFd, peer'[slotFd'[t]] = d
                 PROVE  Good(d, rx[t] \o inq[d])'
    BY DEF BufferedGood
  <2>2. t # s /\ slotFd'[t] = slotFd[t] /\ rx'[t] = rx[t]
    BY <1>2, <2>1 DEF IInv, TypeOK
  <2>3. slotFd[t] \in Fds /\ peer[slotFd[t]] # c /\ slotFd[t] # slotFd[s]
    BY <2>1, <2>2, StreamTypes, SlotsApart
  <2>4. peer[slotFd[t]] = d /\ inq'[d] = inq[d] /\ d # c
    BY <1>2, <2>1, <2>2, <2>3 DEF IInv, TypeOK
  <2>5. Good(d, rx[t] \o inq[d]) /\ FrontOf(d)' = FrontOf(d)
    BY <1>3, <2>1, <2>2, <2>4 DEF Streams, BufferedGood
  <2>. QED  BY <2>2, <2>4, <2>5 DEF Good
<1>6. WaitingGood'
  <2>1. SUFFICES ASSUME NEW d \in Conns, ~Closed(d)', ~Held(d)'
                 PROVE  Good(d, inq[d])'
    BY DEF WaitingGood
  <2>2. d # c
    BY <1>1, <1>2, <2>1 DEF Closed, IInv, TypeOK
  <2>3. inq'[d] = inq[d] /\ ~Closed(d)
    BY <1>2, <2>1, <2>2 DEF Closed, IInv, TypeOK
  <2>4. ~Held(d)
    <3>1. \A fd \in Fds : peer[fd] = d => fd # slotFd[s] /\ peer'[fd] = d
      BY <1>2, <2>2 DEF IInv, TypeOK
    <3>. QED  BY <2>1, <3>1 DEF Held
  <2>5. Good(d, inq[d]) /\ FrontOf(d)' = FrontOf(d)
    BY <1>3, <2>2, <2>3, <2>4 DEF Streams, WaitingGood
  <2>. QED  BY <2>3, <2>5 DEF Good
<1>7. ServedWereSent' /\ RequestKept'
  BY <1>4 DEF Streams, ServedWereSent, RequestKept
<1>. QED  BY <1>5, <1>6, <1>7 DEF Streams

-----------------------------------------------------------------------------
(* The actions. *)

LEMMA SendStreams ==
  ASSUME IInv, Places, Streams, NEW c \in Conns, Send(c)
  PROVE  Streams'
<1>1. PICK m \in Menu :
        LET f == [kind |-> m.kind, plen |-> m.plen, rid |-> <<c, Len(sent[c]) + 1>>] IN
          /\ sent' = [sent EXCEPT ![c] = Append(@, f)]
          /\ inq' = [inq EXCEPT ![c] = @ \o Encode(f)]
  BY DEF Send
<1>. DEFINE f == [kind |-> m.kind, plen |-> m.plen, rid |-> <<c, Len(sent[c]) + 1>>]
<1>2. f \in Frame /\ f.rid[2] = Len(sent[c]) + 1
  <2>1. Len(sent[c]) + 1 \in Nat
    BY StreamTypes, LenProperties
  <2>2. m.kind \in Kinds /\ m.plen \in Nat
    BY ServerAssumption
  <2>. QED  BY <2>1, <2>2 DEF Frame
<1>3. /\ sent' = [sent EXCEPT ![c] = Append(@, f)]
      /\ inq' = [inq EXCEPT ![c] = @ \o Encode(f)]
  BY <1>1
<1>. HIDE DEF f
<1>4. /\ UNCHANGED <<cstate, peer, slotFd, rx, done, why, pc, cur>>
      /\ cstate[c] = "open"
  BY DEF Send, slotVars, loopVars, history
<1>5. \A d \in Conns : FrontOf(d)' = FrontOf(d)
  BY <1>4 DEF FrontOf
<1>6. /\ inq'[c] = inq[c] \o Encode(f) /\ sent'[c] = Append(sent[c], f)
      /\ \A d \in Conns \ {c} : inq'[d] = inq[d] /\ sent'[d] = sent[d]
  BY <1>3 DEF IInv, TypeOK
<1>7. /\ inq[c] \in Seq(Unit) /\ sent[c] \in Seq(Frame) /\ Encode(f) \in Seq(Unit)
      /\ FrontOf(c) \in Nat
  BY <1>2, StreamTypes, EncodeIsSeq DEF Streams, ServedWereSent
<1>8. ASSUME NEW u \in Seq(Unit), Good(c, u)
      PROVE  Chain(u \o Encode(f), FrontOf(c), sent'[c]) /\ Whole(u \o Encode(f), FrontOf(c), sent'[c])
  BY <1>2, <1>4, <1>6, <1>7, <1>8, ChainAppend DEF Good
<1>9. BufferedGood'
  <2>1. SUFFICES ASSUME NEW s \in Slots, NEW d \in Conns, slotFd'[s] # NoFd, peer'[slotFd'[s]] = d
                 PROVE  Good(d, rx[s] \o inq[d])'
    BY DEF BufferedGood
  <2>2. Good(d, rx[s] \o inq[d]) /\ FrontOf(d)' = FrontOf(d)
    BY <1>4, <1>5, <2>1 DEF Streams, BufferedGood
  <2>3. CASE d # c
    BY <1>4, <1>6, <2>2, <2>3 DEF Good
  <2>4. CASE d = c
    <3>1. rx[s] \in Seq(Unit)
      BY <1>4, <2>1, StreamTypes
    <3>2. rx[s] \o inq[c] \in Seq(Unit)
      BY <1>7, <3>1, ConcatProperties
    <3>3. (rx[s] \o inq[c]) \o Encode(f) = rx[s] \o (inq[c] \o Encode(f))
      BY <1>7, <3>1, UnitsAssociate, Zenon
    <3>4. rx'[s] \o inq'[c] = (rx[s] \o inq[c]) \o Encode(f)
      <4>1. rx'[s] = rx[s] /\ inq'[c] = inq[c] \o Encode(f)
        BY <1>4, <1>6
      <4>. QED  BY ONLY <3>3, <4>1, Zenon
    <3>5. Good(c, rx[s] \o inq[c])
      BY <2>2, <2>4
    <3>6. /\ Chain((rx[s] \o inq[c]) \o Encode(f), FrontOf(c), sent'[c])
          /\ Whole((rx[s] \o inq[c]) \o Encode(f), FrontOf(c), sent'[c])
      BY <1>8, <3>2, <3>5
    <3>. QED  BY <2>2, <2>4, <3>4, <3>6 DEF Good
  <2>. QED  BY <2>3, <2>4
<1>10. WaitingGood'
  <2>1. SUFFICES ASSUME NEW d \in Conns, ~Closed(d)', ~Held(d)'
                 PROVE  Good(d, inq[d])'
    BY DEF WaitingGood
  <2>2. Good(d, inq[d]) /\ FrontOf(d)' = FrontOf(d)
    BY <1>4, <1>5, <2>1 DEF Streams, WaitingGood, Closed, Held
  <2>3. CASE d # c
    BY <1>4, <1>6, <2>2, <2>3 DEF Good
  <2>4. CASE d = c
    BY <1>6, <1>7, <1>8, <2>2, <2>4 DEF Good
  <2>. QED  BY <2>3, <2>4
<1>11. ServedWereSent' /\ RequestKept'
  <2>1. Len(sent[c]) \in Nat /\ Len(done[c]) \in Nat /\ Len(sent'[c]) = Len(sent[c]) + 1
    BY <1>2, <1>6, <1>7, StreamTypes, LenProperties, AppendProperties
  <2>. QED  BY <1>4, <1>5, <1>6, <2>1 DEF Streams, ServedWereSent, RequestKept
<1>. QED  BY <1>9, <1>10, <1>11 DEF Streams

LEMMA CloseStreams ==
  ASSUME IInv, Places, Streams, NEW c \in Conns, Close(c)
  PROVE  Streams'
<1>1. /\ UNCHANGED <<sent, peer, slotFd, rx, done, why, pc, cur>>
      /\ cstate' = [cstate EXCEPT ![c] = "gone"]
      /\ inq' = inq \/ inq' = [inq EXCEPT ![c] = <<>>]
  BY DEF Close, slotVars, loopVars, history
<1>2. \A d \in Conns : FrontOf(d)' = FrontOf(d)
  BY <1>1 DEF FrontOf
<1>3. /\ cstate'[c] = "gone" /\ inq'[c] \in {inq[c], <<>>}
      /\ \A d \in Conns \ {c} : cstate'[d] = cstate[d] /\ inq'[d] = inq[d]
  BY <1>1 DEF IInv, TypeOK
<1>4. inq[c] \in Seq(Unit) /\ sent[c] \in Seq(Frame) /\ FrontOf(c) \in Nat
  BY StreamTypes DEF Streams, ServedWereSent
<1>5. ASSUME NEW u \in Seq(Unit), Good(c, u \o inq[c])
      PROVE  Chain(u \o inq'[c], FrontOf(c), sent[c])
  <2>1. Chain(u \o inq[c], FrontOf(c), sent[c])
    BY <1>5 DEF Good
  <2>2. Chain(u, FrontOf(c), sent[c])
    BY <1>4, <2>1, ChainPrefix
  <2>3. u \o <<>> = u
    BY ConcatEmptySeq
  <2>4. CASE inq'[c] = inq[c]
    BY <2>1, <2>4
  <2>5. CASE inq'[c] = <<>>
    BY <2>2, <2>3, <2>5
  <2>. QED  BY <1>3, <2>4, <2>5
<1>6. BufferedGood'
  <2>1. SUFFICES ASSUME NEW s \in Slots, NEW d \in Conns, slotFd'[s] # NoFd, peer'[slotFd'[s]] = d
                 PROVE  Good(d, rx[s] \o inq[d])'
    BY DEF BufferedGood
  <2>2. Good(d, rx[s] \o inq[d]) /\ FrontOf(d)' = FrontOf(d) /\ rx[s] \in Seq(Unit)
    BY <1>1, <1>2, <2>1, StreamTypes DEF Streams, BufferedGood
  <2>3. CASE d # c
    BY <1>1, <1>3, <2>2, <2>3 DEF Good
  <2>4. CASE d = c
    BY <1>1, <1>3, <1>5, <2>2, <2>4 DEF Good
  <2>. QED  BY <2>3, <2>4
<1>7. WaitingGood'
  <2>1. SUFFICES ASSUME NEW d \in Conns, ~Closed(d)', ~Held(d)'
                 PROVE  Good(d, inq[d])'
    BY DEF WaitingGood
  <2>2. Good(d, inq[d]) /\ FrontOf(d)' = FrontOf(d)
    BY <1>1, <1>2, <2>1 DEF Streams, WaitingGood, Closed, Held
  <2>3. CASE d # c
    BY <1>1, <1>3, <2>2, <2>3 DEF Good
  <2>4. CASE d = c
    <3>1. <<>> \in Seq(Unit) /\ <<>> \o inq[c] = inq[c] /\ <<>> \o inq'[c] = inq'[c]
      BY <1>3, <1>4, EmptySeq, ConcatEmptySeq
    <3>2. Chain(<<>> \o inq'[c], FrontOf(c), sent[c])
      BY <1>5, <2>2, <2>4, <3>1
    <3>. QED  BY <1>1, <1>3, <2>2, <2>4, <3>1, <3>2 DEF Good
  <2>. QED  BY <2>3, <2>4
<1>8. ServedWereSent' /\ RequestKept'
  BY <1>1, <1>2 DEF Streams, ServedWereSent, RequestKept
<1>. QED  BY <1>6, <1>7, <1>8 DEF Streams

LEMMA EnvironmentStreams ==
  ASSUME IInv, Places, Streams, Environment
  PROVE  Streams'
<1>1. CASE \E c \in Conns : Connect(c) \/ ShutdownWrites(c) \/ Receive(c)
  <2>1. PICK c \in Conns : Connect(c) \/ ShutdownWrites(c) \/ Receive(c)
    BY <1>1
  <2>2. UNCHANGED <<sent, peer, inq, slotFd, rx, cur, done, why, pc>>
    BY <2>1 DEF Connect, ShutdownWrites, Receive, clientVars, kernelVars, slotVars, loopVars, history
  <2>3. \A d \in Conns : cstate'[d] # "gone" => cstate[d] # "gone"
    BY <2>1 DEF Connect, ShutdownWrites, Receive, clientVars, IInv, TypeOK
  <2>. QED  BY <2>2, <2>3, StillStreams DEF Closed
<1>2. CASE ChildDies \/ Terminate
  <2>1. UNCHANGED <<cstate, sent, peer, inq, slotFd, rx, cur, done, why, pc>>
    BY <1>2 DEF ChildDies, Terminate, clientVars, slotVars, loopVars, history
  <2>. QED  BY <2>1, StillStreams DEF Closed
<1>3. CASE \E c \in Conns : Send(c)
  BY <1>3, SendStreams
<1>4. CASE \E c \in Conns : Close(c)
  BY <1>4, CloseStreams
<1>. QED  BY <1>1, <1>2, <1>3, <1>4 DEF Environment

LEMMA AcceptStreams ==
  ASSUME IInv, Places, Streams, HandleAccept
  PROVE  Streams'
<1>. USE DEF IInv
<1>. DEFINE c == Head(backlog)
<1>1. UNCHANGED <<cstate, sent, done, pc, cur>> /\ pc = "batch"
  BY DEF HandleAccept, clientVars
<1>2. backlog # <<>> /\ c \in Conns /\ Queued(c) /\ ~Closed(c) /\ ~Held(c)
  <2>1. backlog # <<>> /\ backlog \in Seq(Conns)
    BY DEF HandleAccept, Struct, QueuedForAccept, TypeOK
  <2>2. c \in Conns /\ 1 \in 1..Len(backlog) /\ backlog[1] = c
    BY <2>1, HeadTailProperties, EmptySeq
  <2>. QED  BY <2>1, <2>2 DEF Places, Queued, QueuedIsOpen
<1>3. \A d \in Conns : FrontOf(d)' = FrontOf(d)
  BY <1>1 DEF FrontOf
<1>4. ServedWereSent' /\ RequestKept'
  BY <1>1, <1>3 DEF Streams, ServedWereSent, RequestKept
<1>5. CASE UNCHANGED <<slotFd, rx, peer, inq, why>>
  BY <1>1, <1>5, StillStreams DEF Closed
<1>6. CASE /\ UNCHANGED <<slotFd, rx, peer>>
           /\ inq' = [inq EXCEPT ![c] = <<>>]
           /\ \E r \in {"full", "reactor"} : why' = [why EXCEPT ![c] = r]
  <2>1. /\ \A d \in Conns \ {c} : inq'[d] = inq[d] /\ why'[d] = why[d]
        /\ why'[c] # "no"
    BY <1>2, <1>6 DEF TypeOK
  <2>2. BufferedGood'
    <3>1. SUFFICES ASSUME NEW s \in Slots, NEW d \in Conns, slotFd'[s] # NoFd, peer'[slotFd'[s]] = d
                   PROVE  Good(d, rx[s] \o inq[d])'
      BY DEF BufferedGood
    <3>2. Good(d, rx[s] \o inq[d]) /\ FrontOf(d)' = FrontOf(d) /\ Held(d)
      BY <1>3, <1>6, <3>1, StreamTypes DEF Streams, BufferedGood
    <3>. QED  BY <1>1, <1>2, <1>6, <2>1, <3>2 DEF Good
  <2>3. WaitingGood'
    <3>1. SUFFICES ASSUME NEW d \in Conns, ~Closed(d)', ~Held(d)'
                   PROVE  Good(d, inq[d])'
      BY DEF WaitingGood
    <3>2. d # c /\ ~Closed(d) /\ ~Held(d)
      BY <1>6, <2>1, <3>1 DEF Closed, Held
    <3>. QED  BY <1>1, <1>3, <2>1, <3>2 DEF Streams, WaitingGood, Good
  <2>. QED  BY <1>4, <2>2, <2>3 DEF Streams
<1>7. CASE /\ FreeSlots # {} /\ UNCHANGED <<inq, why>>
           /\ \E fd \in {g \in Fds : peer[g] = NoConn} :
                /\ slotFd' = [slotFd EXCEPT ![Min(FreeSlots)] = fd]
                /\ rx' = [rx EXCEPT ![Min(FreeSlots)] = <<>>]
                /\ peer' = [peer EXCEPT ![fd] = c]
  <2>1. PICK fd \in Fds : /\ peer[fd] = NoConn
                         /\ slotFd' = [slotFd EXCEPT ![Min(FreeSlots)] = fd]
                         /\ rx' = [rx EXCEPT ![Min(FreeSlots)] = <<>>]
                         /\ peer' = [peer EXCEPT ![fd] = c]
    BY <1>7
  <2>2. Min(FreeSlots) \in Slots
    <3>1. FreeSlots \in SUBSET Slots
      BY DEF FreeSlots
    <3>2. Min(FreeSlots) \in FreeSlots
      BY <1>7, <3>1, MinIsMember
    <3>. QED  BY <3>1, <3>2
  <2>3. /\ slotFd'[Min(FreeSlots)] = fd /\ rx'[Min(FreeSlots)] = <<>> /\ peer'[fd] = c
        /\ \A t \in Slots \ {Min(FreeSlots)} : slotFd'[t] = slotFd[t] /\ rx'[t] = rx[t]
        /\ \A gd \in Fds \ {fd} : peer'[gd] = peer[gd]
    BY <2>1, <2>2 DEF TypeOK
  <2>4. Good(c, inq[c]) /\ inq[c] \in Seq(Unit)
    BY <1>2, StreamTypes DEF Streams, WaitingGood
  <2>5. BufferedGood'
    <3>1. SUFFICES ASSUME NEW s \in Slots, NEW d \in Conns, slotFd'[s] # NoFd, peer'[slotFd'[s]] = d
                   PROVE  Good(d, rx[s] \o inq[d])'
      BY DEF BufferedGood
    <3>2. CASE s = Min(FreeSlots)
      <4>1. d = c /\ rx'[s] = <<>> /\ inq' = inq
        BY <1>7, <2>3, <3>1, <3>2
      <4>2. rx'[s] \o inq'[d] = inq[d]
        BY <2>4, <4>1, ConcatEmptySeq
      <4>. QED  BY <1>1, <1>3, <2>4, <4>1, <4>2 DEF Good
    <3>3. CASE s # Min(FreeSlots)
      <4>1. slotFd'[s] = slotFd[s] /\ rx'[s] = rx[s] /\ slotFd[s] \in Fds /\ peer[slotFd[s]] \in Conns
        BY <2>3, <3>1, <3>3, StreamTypes
      <4>2. slotFd[s] # fd
        BY <2>1, <4>1, ServerAssumption
      <4>3. peer[slotFd[s]] = d
        BY <2>3, <3>1, <4>1, <4>2
      <4>4. Good(d, rx[s] \o inq[d]) /\ FrontOf(d)' = FrontOf(d)
        BY <1>3, <3>1, <4>1, <4>3 DEF Streams, BufferedGood
      <4>. QED  BY <1>1, <1>7, <4>1, <4>4 DEF Good
    <3>. QED  BY <3>2, <3>3
  <2>6. WaitingGood'
    <3>1. SUFFICES ASSUME NEW d \in Conns, ~Closed(d)', ~Held(d)'
                   PROVE  Good(d, inq[d])'
      BY DEF WaitingGood
    <3>2. \A gd \in Fds : peer[gd] = d => gd # fd /\ peer'[gd] = d
      BY <2>1, <2>3, <3>1, ServerAssumption
    <3>3. ~Closed(d) /\ ~Held(d)
      BY <1>7, <3>1, <3>2 DEF Closed, Held
    <3>. QED  BY <1>1, <1>3, <1>7, <3>3 DEF Streams, WaitingGood, Good
  <2>. QED  BY <1>4, <2>5, <2>6 DEF Streams
<1>8. \/ UNCHANGED <<slotFd, rx, peer, inq, why>>
      \/ /\ UNCHANGED <<slotFd, rx, peer>>
         /\ inq' = [inq EXCEPT ![c] = <<>>]
         /\ \E r \in {"full", "reactor"} : why' = [why EXCEPT ![c] = r]
      \/ /\ FreeSlots # {} /\ UNCHANGED <<inq, why>>
         /\ \E fd \in {g \in Fds : peer[g] = NoConn} :
              /\ slotFd' = [slotFd EXCEPT ![Min(FreeSlots)] = fd]
              /\ rx' = [rx EXCEPT ![Min(FreeSlots)] = <<>>]
              /\ peer' = [peer EXCEPT ![fd] = c]
  BY DEF HandleAccept, slotVars
<1>. QED  BY <1>5, <1>6, <1>7, <1>8

\* A read takes some of what is there.
LEMMA ReadFits ==
  ASSUME NEW n \in Nat, NEW hup \in BOOLEAN,
         NEW k \in (IF hup THEN {Min({n, Chunk})} ELSE 1..Min({n, Chunk})) \ {0}
  PROVE  k \in 1..n /\ k <= Chunk
<1>. DEFINE T == {n, Chunk}
<1>1. Chunk \in Nat \ {0}
  BY ServerAssumption
<1>2. \E x \in T : \A y \in T : x =< y
  BY <1>1
<1>3. Min(T) \in T /\ \A y \in T : Min(T) =< y
  BY <1>2 DEF Min
<1>4. CASE hup
  BY <1>1, <1>3, <1>4
<1>5. CASE ~ hup
  BY <1>1, <1>3, <1>5
<1>. QED  BY <1>4, <1>5

\* Where a stream is cut between socket and buffer does not change it.
LEMMA ReadMoves ==
  ASSUME NEW a \in Seq(Unit), NEW b \in Seq(Unit), NEW k \in 1..Len(b)
  PROVE  (a \o SubSeq(b, 1, k)) \o SubSeq(b, k + 1, Len(b)) = a \o b
<1>. DEFINE x == SubSeq(b, 1, k)
            y == SubSeq(b, k + 1, Len(b))
<1>1. /\ Len(b) \in Nat /\ 1 \in 1..(Len(b) + 1) /\ k \in 0..Len(b)
      /\ k \in (1 - 1)..Len(b) /\ Len(b) \in k..Len(b)
  BY LenProperties
<1>2. x \in Seq(Unit) /\ y \in Seq(Unit)
  BY <1>1, CutSeq
<1>3. x \o y = SubSeq(b, 1, Len(b))
  BY <1>1, ConcatAdjacentSubSeq
<1>4. SubSeq(b, 1, Len(b)) = b
  BY SubSeqFull
<1>. HIDE DEF x, y
<1>5. (a \o x) \o y = a \o (x \o y)
  BY <1>2, UnitsAssociate, Zenon
<1>. QED  BY <1>3, <1>4, <1>5 DEF x, y

LEMMA ClientEventStreams ==
  ASSUME IInv, Places, Streams, HandleClientEvent
  PROVE  Streams'
<1>. USE DEF IInv
<1>1. UNCHANGED <<cstate, sent, done>> /\ pc = "batch" /\ pc' # "write"
  BY DEF HandleClientEvent, clientVars
<1>2. PICK e \in batch :
        /\ e.fd \in Fds
        /\ SlotsOf(e.fd) # {} =>
             LET s == Min(SlotsOf(e.fd))
                 in == inq[peer[e.fd]]
                 most == Min({Len(in), Chunk})
             IN \/ Release(s, "eof")
                \/ \E k \in (IF e.hup THEN {most} ELSE 1..most) \ {0} :
                     \/ Release(s, "overflow")
                     \/ /\ rx' = [rx EXCEPT ![s] = @ \o SubSeq(in, 1, k)]
                        /\ inq' = [inq EXCEPT ![peer[e.fd]] = SubSeq(@, k + 1, Len(@))]
                        /\ UNCHANGED <<slotFd, peer, why>>
  BY DEF HandleClientEvent
<1>. DEFINE s == Min(SlotsOf(e.fd))
            c == peer[e.fd]
            most == Min({Len(inq[c]), Chunk})
<1>3. SlotsOf(e.fd) # {}
  BY <1>2 DEF Struct, EventsFresh
<1>4. s \in Slots /\ slotFd[s] = e.fd /\ slotFd[s] # NoFd
  <2>1. SlotsOf(e.fd) \in SUBSET Slots
    BY DEF SlotsOf
  <2>2. Min(SlotsOf(e.fd)) \in SlotsOf(e.fd)
    BY <1>3, <2>1, MinIsMember
  <2>. QED  BY <1>2, <2>2, ServerAssumption DEF SlotsOf
<1>. HIDE DEF s
<1>5. c \in Conns /\ rx[s] \in Seq(Unit) /\ inq[c] \in Seq(Unit)
  BY <1>4, StreamTypes
<1>6. CASE \E r \in {"eof", "overflow"} : Release(s, r)
  BY <1>1, <1>4, <1>6, ReleaseStreams DEF Reasons
<1>7. ASSUME NEW k \in (IF e.hup THEN {most} ELSE 1..most) \ {0},
             rx' = [rx EXCEPT ![s] = @ \o SubSeq(inq[c], 1, k)],
             inq' = [inq EXCEPT ![c] = SubSeq(@, k + 1, Len(@))],
             UNCHANGED <<slotFd, peer, why>>
      PROVE  Streams'
  <2>1. k \in 1..Len(inq[c])
    <3>1. Len(inq[c]) \in Nat /\ e.hup \in BOOLEAN
      BY <1>5, LenProperties DEF TypeOK, Event
    <3>. QED  BY <1>7, <3>1, ReadFits
  <2>2. /\ rx'[s] = rx[s] \o SubSeq(inq[c], 1, k)
        /\ inq'[c] = SubSeq(inq[c], k + 1, Len(inq[c]))
        /\ \A t \in Slots \ {s} : rx'[t] = rx[t]
        /\ \A d \in Conns \ {c} : inq'[d] = inq[d]
    BY <1>4, <1>5, <1>7 DEF TypeOK
  <2>3. rx'[s] \o inq'[c] = rx[s] \o inq[c]
    <3>1. (rx[s] \o SubSeq(inq[c], 1, k)) \o SubSeq(inq[c], k + 1, Len(inq[c])) = rx[s] \o inq[c]
      BY <1>5, <2>1, ReadMoves, Zenon
    <3>2. rx'[s] = rx[s] \o SubSeq(inq[c], 1, k) /\ inq'[c] = SubSeq(inq[c], k + 1, Len(inq[c]))
      BY <2>2
    <3>. QED  BY ONLY <3>1, <3>2, Zenon
  <2>4. \A d \in Conns : FrontOf(d)' = FrontOf(d)
    BY <1>1 DEF FrontOf
  <2>5. BufferedGood'
    <3>1. SUFFICES ASSUME NEW t \in Slots, NEW d \in Conns, slotFd'[t] # NoFd, peer'[slotFd'[t]] = d
                   PROVE  Good(d, rx[t] \o inq[d])'
      BY DEF BufferedGood
    <3>2. slotFd[t] # NoFd /\ peer[slotFd[t]] = d
      BY <1>7, <3>1
    <3>3. rx'[t] \o inq'[d] = rx[t] \o inq[d]
      <4>1. CASE t = s
        BY <1>4, <2>3, <3>2, <4>1
      <4>2. CASE t # s
        <5>1. d # c
          BY <1>4, <3>2, <4>2, SlotsApart
        <5>. QED  BY <2>2, <4>2, <5>1
      <4>. QED  BY <4>1, <4>2
    <3>4. Good(d, rx[t] \o inq[d]) /\ FrontOf(d)' = FrontOf(d)
      BY <2>4, <3>2 DEF Streams, BufferedGood
    <3>. QED  BY <1>1, <3>3, <3>4 DEF Good
  <2>6. WaitingGood'
    <3>1. SUFFICES ASSUME NEW d \in Conns, ~Closed(d)', ~Held(d)'
                   PROVE  Good(d, inq[d])'
      BY DEF WaitingGood
    <3>2. ~Closed(d) /\ ~Held(d)
      BY <1>7, <3>1 DEF Closed, Held
    <3>3. Held(c)
      BY <1>2 DEF Held
    <3>4. inq'[d] = inq[d] /\ Good(d, inq[d]) /\ FrontOf(d)' = FrontOf(d)
      BY <2>2, <2>4, <3>2, <3>3 DEF Streams, WaitingGood
    <3>. QED  BY <1>1, <3>4 DEF Good
  <2>7. ServedWereSent' /\ RequestKept'
    BY <1>1, <2>4 DEF Streams, ServedWereSent, RequestKept
  <2>. QED  BY <2>5, <2>6, <2>7 DEF Streams
<1>. QED  BY <1>2, <1>3, <1>6, <1>7 DEF s

LEMMA ConcatFront ==
  ASSUME NEW a \in Seq(Unit), NEW b \in Seq(Unit), a # <<>>
  PROVE  /\ a \o b \in Seq(Unit) /\ a \o b # <<>> /\ 1 \in 1..Len(a \o b)
         /\ (a \o b)[1] = Head(a) /\ Head(a) \in Unit
         /\ Len(a) \in Nat /\ Len(a \o b) \in Nat /\ Len(a) <= Len(a \o b)
<1>. DEFINE u == a \o b
<1>1. 1 \in 1..Len(a) /\ a[1] = Head(a) /\ Head(a) \in Unit /\ Len(a) \in Nat /\ Len(b) \in Nat
  BY HeadTailProperties, EmptySeq, LenProperties
<1>2. /\ u \in Seq(Unit) /\ Len(u) = Len(a) + Len(b)
      /\ \A i \in 1..(Len(a) + Len(b)) : u[i] = IF i <= Len(a) THEN a[i] ELSE b[i - Len(a)]
  BY ConcatProperties
<1>. HIDE DEF u
<1>3. 1 \in 1..Len(u) /\ u[1] = a[1] /\ Len(u) \in Nat /\ Len(a) <= Len(u)
  BY <1>1, <1>2
<1>4. u # <<>>
  BY <1>3, EmptySeq
<1>. QED  BY <1>1, <1>2, <1>3, <1>4 DEF u

\* What is at the front of the current buffer is the next frame of its client.
LEMMA FrontIsNext ==
  ASSUME IInv, Streams, slotFd[cur] # NoFd, rx[cur] # <<>>
  PROVE  LET c == peer[slotFd[cur]]
             u == rx[cur] \o inq[c]
             p == FrontOf(c) IN
         /\ c \in Conns /\ p \in Nat
         /\ rx[cur] \in Seq(Unit) /\ inq[c] \in Seq(Unit) /\ sent[c] \in Seq(Frame)
         /\ u \in Seq(Unit) /\ u # <<>> /\ u[1] = Head(rx[cur])
         /\ Good(c, u)
         /\ Head(rx[cur]) \in Unit
         /\ p + 1 \in 1..Len(sent[c]) /\ sent[c][p + 1] = Head(rx[cur]).f
<1>. DEFINE c == peer[slotFd[cur]]
            u == rx[cur] \o inq[c]
            p == FrontOf(c)
<1>1. cur \in Slots
  BY DEF IInv, TypeOK
<1>2. c \in Conns /\ rx[cur] \in Seq(Unit) /\ inq[c] \in Seq(Unit) /\ sent[c] \in Seq(Frame)
  BY <1>1, StreamTypes
<1>3. p \in Nat /\ Good(c, u)
  BY <1>1, <1>2 DEF Streams, BufferedGood, ServedWereSent
<1>4. u \in Seq(Unit) /\ u # <<>> /\ 1 \in 1..Len(u) /\ u[1] = Head(rx[cur]) /\ Head(rx[cur]) \in Unit
  BY <1>2, ConcatFront
<1>. HIDE DEF u, c, p
<1>5. p + 1 \in 1..Len(sent[c]) /\ sent[c][p + 1] = Head(rx[cur]).f
  <2>1. Chain(u, p, sent[c])
    BY <1>3 DEF Good, p
  <2>2. u[1].f.rid[2] = p + 1 /\ u[1].f.rid[2] \in 1..Len(sent[c]) /\ sent[c][u[1].f.rid[2]] = u[1].f
    BY <1>4, <2>1 DEF Chain
  <2>. QED  BY <1>4, <2>2
<1>. QED  BY <1>2, <1>3, <1>4, <1>5 DEF u, c, p

\* Dropping the front of a buffer drops the front of the stream.
LEMMA DropMoves ==
  ASSUME NEW a \in Seq(Unit), NEW b \in Seq(Unit), NEW n \in 1..Len(a)
  PROVE  SubSeq(a, n + 1, Len(a)) \o b = SubSeq(a \o b, n + 1, Len(a \o b))
<1>. DEFINE x == SubSeq(a, n + 1, Len(a))
            u == a \o b
            v == SubSeq(u, n + 1, Len(u))
<1>1. Len(a) \in Nat /\ Len(b) \in Nat /\ n \in Nat /\ n <= Len(a)
  BY LenProperties
<1>2. /\ u \in Seq(Unit) /\ Len(u) = Len(a) + Len(b)
      /\ \A i \in 1..(Len(a) + Len(b)) : u[i] = IF i <= Len(a) THEN a[i] ELSE b[i - Len(a)]
  BY ConcatProperties
<1>. HIDE DEF u
<1>3. n \in 0..Len(a) /\ n \in 0..Len(u)
  BY <1>1, <1>2
<1>4. /\ x \in Seq(Unit) /\ Len(x) = Len(a) - n
      /\ v \in Seq(Unit) /\ Len(v) = Len(u) - n
  BY <1>2, <1>3, CutSeq
<1>5. \A i \in 1..Len(x) : x[i] = a[n + i]
  <2>1. \A i \in (n + 1)..Len(a) : a[i] \in Unit
    BY <1>1, ElementOfSeq
  <2>2. \A i \in 1..(Len(a) - (n + 1) + 1) : x[i] = a[(n + 1) + i - 1]
    BY <1>1, <2>1, SubSeqProperties
  <2>. HIDE DEF x
  <2>3. \A i \in 1..Len(x) : i \in 1..(Len(a) - (n + 1) + 1) /\ (n + 1) + i - 1 = n + i
    BY <1>1, <1>4
  <2>. QED  BY <2>2, <2>3
<1>6. \A i \in 1..Len(v) : v[i] = u[n + i]
  <2>1. \A i \in (n + 1)..Len(u) : u[i] \in Unit
    BY <1>1, <1>2, ElementOfSeq
  <2>2. Len(u) \in Int /\ n + 1 \in Int
    BY <1>1, <1>2
  <2>3. \A i \in 1..(Len(u) - (n + 1) + 1) : v[i] = u[(n + 1) + i - 1]
    BY <2>1, <2>2, SubSeqProperties
  <2>. HIDE DEF v
  <2>4. \A i \in 1..Len(v) : i \in 1..(Len(u) - (n + 1) + 1) /\ (n + 1) + i - 1 = n + i
    BY <1>1, <1>2, <1>4
  <2>. QED  BY <2>3, <2>4
<1>. HIDE DEF x, v
<1>7. /\ x \o b \in Seq(Unit) /\ Len(x \o b) = Len(x) + Len(b)
      /\ \A i \in 1..(Len(x) + Len(b)) : (x \o b)[i] = IF i <= Len(x) THEN x[i] ELSE b[i - Len(x)]
  BY <1>4, ConcatProperties
<1>. DEFINE w == x \o b
<1>. HIDE DEF w
<1>8. w \in Seq(Unit) /\ Len(w) = Len(v)
  BY <1>1, <1>2, <1>4, <1>7 DEF w
<1>9. ASSUME NEW i \in 1..Len(w)  PROVE w[i] = v[i]
  <2>1. i \in 1..Len(v) /\ n + i \in 1..(Len(a) + Len(b)) /\ i \in 1..(Len(x) + Len(b))
    BY <1>1, <1>2, <1>4, <1>8
  <2>2. v[i] = IF n + i <= Len(a) THEN a[n + i] ELSE b[(n + i) - Len(a)]
    BY <1>2, <1>6, <2>1
  <2>3. w[i] = IF i <= Len(x) THEN x[i] ELSE b[i - Len(x)]
    BY <1>7, <2>1 DEF w
  <2>4. CASE i <= Len(x)
    <3>1. i \in 1..Len(x) /\ n + i <= Len(a)
      BY <1>1, <1>4, <2>1, <2>4
    <3>. QED  BY <1>5, <2>2, <2>3, <3>1
  <2>5. CASE ~ (i <= Len(x))
    <3>1. ~ (n + i <= Len(a)) /\ (n + i) - Len(a) = i - Len(x)
      BY <1>1, <1>4, <2>1, <2>5
    <3>. QED  BY <2>2, <2>3, <2>5, <3>1
  <2>. QED  BY <2>4, <2>5
<1>10. w = v
  BY <1>4, <1>8, <1>9, SeqEqual
<1>. QED  BY <1>10 DEF w, v, x, u

\* A served frame leaves the buffer: whatever is behind it comes to the front.
LEMMA CompactStreams ==
  ASSUME IInv, Places, Streams, slotFd[cur] # NoFd, rx[cur] # <<>>,
         Size(Head(rx[cur]).f) <= Len(rx[cur]), Compact, pc' # "write",
         UNCHANGED <<cstate, sent, peer, inq, slotFd, why, cur>>,
         \A d \in Conns : FrontOf(d)' = IF d = peer[slotFd[cur]] THEN FrontOf(d) + 1 ELSE FrontOf(d)
  PROVE  BufferedGood' /\ WaitingGood'
<1>1. PICK c \in Conns : c = peer[slotFd[cur]]
  BY FrontIsNext
<1>. DEFINE u == rx[cur] \o inq[c]
            n == Size(Head(rx[cur]).f)
            p == FrontOf(c)
<1>2. /\ p \in Nat
      /\ rx[cur] \in Seq(Unit) /\ inq[c] \in Seq(Unit) /\ sent[c] \in Seq(Frame)
      /\ u \in Seq(Unit) /\ u # <<>> /\ u[1] = Head(rx[cur])
      /\ Good(c, u)
      /\ Head(rx[cur]) \in Unit
  BY <1>1, FrontIsNext
<1>3. cur \in Slots /\ rx'[cur] = SubSeq(rx[cur], n + 1, Len(rx[cur]))
      /\ \A t \in Slots \ {cur} : rx'[t] = rx[t]
  BY DEF IInv, TypeOK, Compact, Compacted
<1>4. n \in 1..Len(rx[cur]) /\ n <= Len(u)
  <2>3. n \in Nat \ {0}
    BY <1>2, SizePositive
  <2>4. Len(rx[cur]) \in Nat /\ Len(u) \in Nat /\ Len(rx[cur]) <= Len(u)
    BY <1>2, ConcatFront
  <2>. HIDE DEF n, u
  <2>5. n <= Len(rx[cur])
    BY DEF n
  <2>. QED  BY <2>3, <2>4, <2>5
<1>5. SubSeq(rx[cur], n + 1, Len(rx[cur])) \o inq[c] = SubSeq(u, n + 1, Len(u))
  BY <1>2, <1>4, DropMoves
<1>6. /\ Chain(SubSeq(u, n + 1, Len(u)), p + 1, sent[c])
      /\ cstate[c] # "gone" => Whole(SubSeq(u, n + 1, Len(u)), p + 1, sent[c])
  <2>1. Chain(u, p, sent[c]) /\ (cstate[c] # "gone" => Whole(u, p, sent[c]))
    BY <1>2 DEF Good
  <2>. HIDE DEF u, p
  <2>. QED  BY <1>2, <1>4, <2>1, ChainDrop
<1>7. BufferedGood'
  <2>1. SUFFICES ASSUME NEW t \in Slots, NEW d \in Conns, slotFd'[t] # NoFd, peer'[slotFd'[t]] = d
                 PROVE  Good(d, rx[t] \o inq[d])'
    BY DEF BufferedGood
  <2>2. CASE t = cur
    <3>1. d = c
      BY <1>1, <2>1, <2>2
    <3>2. /\ Chain(SubSeq(rx[cur], n + 1, Len(rx[cur])) \o inq[c], p + 1, sent[c])
          /\ cstate[c] # "gone" => Whole(SubSeq(rx[cur], n + 1, Len(rx[cur])) \o inq[c], p + 1, sent[c])
      BY ONLY <1>5, <1>6, Zenon
    <3>3. FrontOf(c)' = p + 1
      BY <1>1
    <3>. HIDE DEF p, n, u
    <3>. QED  BY <1>3, <2>2, <3>1, <3>2, <3>3 DEF Good
  <2>3. CASE t # cur
    <3>1. d # c
      BY <1>1, <1>3, <2>1, <2>3, SlotsApart
    <3>2. Good(d, rx[t] \o inq[d]) /\ FrontOf(d)' = FrontOf(d) /\ rx'[t] = rx[t]
      BY <1>1, <1>3, <2>1, <2>3, <3>1 DEF Streams, BufferedGood
    <3>. QED  BY <3>2 DEF Good
  <2>. QED  BY <2>2, <2>3
<1>8. WaitingGood'
  <2>1. SUFFICES ASSUME NEW d \in Conns, ~Closed(d)', ~Held(d)'
                 PROVE  Good(d, inq[d])'
    BY DEF WaitingGood
  <2>2. ~Closed(d) /\ ~Held(d)
    BY <2>1 DEF Closed, Held
  <2>3. Held(c)
    BY <1>1, <1>3, StreamTypes
  <2>4. Good(d, inq[d]) /\ FrontOf(d)' = FrontOf(d)
    BY <1>1, <2>2, <2>3 DEF Streams, WaitingGood
  <2>. QED  BY <2>4 DEF Good
<1>. QED  BY <1>7, <1>8

LEMMA FrameStepsStreams ==
  ASSUME IInv, Places, Streams, RejectFrame \/ FramesDone \/ DispatchSilent \/ DispatchAnswered
  PROVE  Streams'
<1>1. cur \in Slots
  BY DEF IInv, TypeOK
<1>2. CASE RejectFrame
  <2>1. slotFd[cur] # NoFd
    BY <1>2, FrontIsLive DEF RejectFrame, Rejected
  <2>2. UNCHANGED <<cstate, sent, done>> /\ Release(cur, "protocol") /\ pc' # "write"
    BY <1>2 DEF RejectFrame, clientVars
  <2>. QED  BY <1>1, <2>1, <2>2, ReleaseStreams DEF Reasons
<1>3. CASE FramesDone
  <2>1. UNCHANGED <<cstate, sent, done, cur>> /\ pc # "write" /\ pc' # "write"
    BY <1>3 DEF FramesDone, clientVars
  <2>2. CASE slotFd[cur] # NoFd /\ Release(cur, "hup")
    BY <1>1, <2>1, <2>2, ReleaseStreams DEF Reasons
  <2>3. CASE KeepSlots
    BY <2>1, <2>3, StillStreams DEF KeepSlots, slotVars, Closed
  <2>. QED  BY <1>3, <2>2, <2>3 DEF FramesDone
<1>4. CASE DispatchSilent \/ DispatchAnswered
  <2>. DEFINE f == Head(rx[cur]).f
  <2>1. FrameIn /\ HeaderIn /\ Size(f) <= Len(rx[cur])
    <3>1. FrameIn
      BY <1>4 DEF DispatchSilent, DispatchAnswered
    <3>2. HeaderIn /\ Len(rx[cur]) >= Size(f)
      BY <3>1 DEF FrameIn
    <3>3. slotFd[cur] # NoFd /\ rx[cur] # <<>> /\ Head(rx[cur]) \in Unit
      BY <3>2, FrontIsLive
    <3>4. Len(rx[cur]) \in Nat
      BY <1>1, <3>3, StreamTypes, LenProperties
    <3>. QED  BY <3>1, <3>2, <3>3, <3>4, SizePositive
  <2>2. slotFd[cur] # NoFd /\ rx[cur] # <<>>
    BY <2>1, FrontIsLive
  <2>3. PICK c \in Conns : c = peer[slotFd[cur]]
    BY <2>2, FrontIsNext
  <2>4. FrontOf(c) + 1 \in 1..Len(sent[c]) /\ f \in Frame
    BY <2>2, <2>3, FrontIsNext DEF Unit
  <2>5. /\ pc = "frames"
        /\ UNCHANGED <<cstate, sent, peer, inq, slotFd, why, cur>>
        /\ done' = [done EXCEPT ![c] = Append(@, f)]
    BY <1>4, <2>3 DEF DispatchSilent, DispatchAnswered, clientVars, kernelVars, slotVars
  <2>6. /\ \A d \in Conns : FrontOf(d) = Len(done[d]) /\ Len(done[d]) \in Nat
        /\ Len(done'[c]) = Len(done[c]) + 1
        /\ \A d \in Conns \ {c} : done'[d] = done[d]
    <3>1. \A d \in Conns : FrontOf(d) = Len(done[d])
      BY <2>5 DEF FrontOf
    <3>2. \A d \in Conns : done[d] \in Seq(Frame) /\ Len(done[d]) \in Nat
      BY StreamTypes, LenProperties
    <3>3. done'[c] = Append(done[c], f) /\ \A d \in Conns \ {c} : done'[d] = done[d]
      BY <2>5 DEF IInv, TypeOK
    <3>. HIDE DEF f
    <3>4. Len(Append(done[c], f)) = Len(done[c]) + 1
      BY <2>4, <3>2, AppendProperties
    <3>. QED  BY <3>1, <3>2, <3>3, <3>4
  <2>7. \A d \in Conns : Len(done'[d]) <= Len(sent'[d])
    BY <2>4, <2>5, <2>6 DEF Streams, ServedWereSent
  <2>. HIDE DEF f
  <2>8. CASE DispatchSilent
    <3>1. Compact /\ pc' = "frames"
      BY <2>5, <2>8 DEF DispatchSilent
    <3>2. \A d \in Conns : FrontOf(d)' = Len(done'[d])
      BY <3>1 DEF FrontOf
    <3>3. \A d \in Conns : FrontOf(d)' = IF d = peer[slotFd[cur]] THEN FrontOf(d) + 1 ELSE FrontOf(d)
      BY <2>3, <2>6, <3>2
    <3>4. BufferedGood' /\ WaitingGood'
      BY <2>1, <2>2, <2>5, <3>1, <3>3, CompactStreams DEF f
    <3>5. ServedWereSent' /\ RequestKept'
      BY <2>6, <2>7, <3>1, <3>3 DEF ServedWereSent, RequestKept
    <3>. QED  BY <3>4, <3>5 DEF Streams
  <2>9. CASE DispatchAnswered
    <3>1. pc' = "write" /\ rx' = rx
      BY <2>9 DEF DispatchAnswered, slotVars
    <3>2. \A d \in Conns : FrontOf(d)' = FrontOf(d)
      <4>1. FrontOf(c)' = Len(done'[c]) - 1
        BY <2>3, <2>5, <3>1 DEF FrontOf
      <4>2. \A d \in Conns \ {c} : FrontOf(d)' = Len(done'[d])
        BY <2>3, <2>5, <3>1 DEF FrontOf
      <4>. QED  BY <2>6, <4>1, <4>2
    <3>3. BufferedGood'
      <4>1. SUFFICES ASSUME NEW s \in Slots, NEW d \in Conns, slotFd'[s] # NoFd, peer'[slotFd'[s]] = d
                     PROVE  Good(d, rx[s] \o inq[d])'
        BY DEF BufferedGood
      <4>2. Good(d, rx[s] \o inq[d]) /\ FrontOf(d)' = FrontOf(d)
        BY <2>5, <3>2, <4>1 DEF Streams, BufferedGood
      <4>. QED  BY <2>5, <3>1, <4>2 DEF Good
    <3>4. WaitingGood'
      <4>1. SUFFICES ASSUME NEW d \in Conns, ~Closed(d)', ~Held(d)'
                     PROVE  Good(d, inq[d])'
        BY DEF WaitingGood
      <4>2. Good(d, inq[d]) /\ FrontOf(d)' = FrontOf(d)
        BY <2>5, <3>2, <4>1 DEF Streams, WaitingGood, Closed, Held
      <4>. QED  BY <2>5, <4>2 DEF Good
    <3>5. ServedWereSent' /\ RequestKept'
      BY <2>1, <2>5, <2>6, <2>7, <3>1, <3>2 DEF ServedWereSent, RequestKept, f
    <3>. QED  BY <3>3, <3>4, <3>5 DEF Streams
  <2>. QED  BY <1>4, <2>8, <2>9
<1>. QED  BY <1>2, <1>3, <1>4

LEMMA WriteStepsStreams ==
  ASSUME IInv, Places, Streams, WritePart \/ WriteFails
  PROVE  Streams'
<1>1. /\ cur \in Slots /\ slotFd[cur] # NoFd /\ rx[cur] # <<>> /\ pc = "write"
      /\ Size(Head(rx[cur]).f) <= Len(rx[cur])
  BY DEF IInv, TypeOK, Struct, Writing, WritePart, WriteFails, Streams, RequestKept
<1>2. CASE WriteFails
  <2>1. UNCHANGED <<cstate, sent, done>> /\ Release(cur, "write") /\ pc' # "write"
    BY <1>2 DEF WriteFails, clientVars
  <2>. QED  BY <1>1, <2>1, ReleaseStreams DEF Reasons
<1>3. CASE WritePart /\ ~LastPart
  <2>1. UNCHANGED <<cstate, sent, peer, inq, slotFd, rx, cur, done, why, pc>>
    BY <1>3 DEF WritePart, clientVars
  <2>. QED  BY <2>1, StillStreams DEF Closed
<1>4. CASE WritePart /\ LastPart
  <2>1. /\ UNCHANGED <<cstate, sent, peer, inq, slotFd, why, cur, done>>
        /\ Compact /\ pc' = "frames"
    BY <1>4 DEF WritePart, clientVars
  <2>2. \A d \in Conns : FrontOf(d)' = Len(done[d]) /\ Len(done[d]) \in Nat
    BY <2>1, StreamTypes, LenProperties DEF FrontOf
  <2>3. \A d \in Conns : FrontOf(d) = IF d = peer[slotFd[cur]] THEN Len(done[d]) - 1 ELSE Len(done[d])
    BY <1>1 DEF FrontOf
  <2>4. \A d \in Conns : FrontOf(d)' = IF d = peer[slotFd[cur]] THEN FrontOf(d) + 1 ELSE FrontOf(d)
    BY <2>2, <2>3
  <2>5. BufferedGood' /\ WaitingGood'
    BY <1>1, <2>1, <2>4, CompactStreams
  <2>6. ServedWereSent' /\ RequestKept'
    BY <2>1, <2>2 DEF Streams, ServedWereSent, RequestKept
  <2>. QED  BY <2>5, <2>6 DEF Streams
<1>. QED  BY <1>2, <1>3, <1>4

LEMMA CleanupStreams ==
  ASSUME IInv, Places, Streams, Cleanup
  PROVE  Streams'
<1>. DEFINE fds == {slotFd[s] : s \in LiveSlots}
            cs == {peer[fd] : fd \in fds}
<1>1. /\ UNCHANGED <<cstate, sent, done, cur>> /\ pc = "loop" /\ pc' = "stopped"
      /\ slotFd' = [s \in Slots |-> IF s \in LiveSlots THEN NoFd ELSE slotFd[s]]
      /\ inq' = [c \in Conns |-> IF c \in cs THEN <<>> ELSE inq[c]]
      /\ why' = [c \in Conns |-> IF c \in cs THEN "stop" ELSE why[c]]
  BY DEF Cleanup, clientVars
<1>2. \A s \in Slots : slotFd'[s] = NoFd
  BY <1>1 DEF LiveSlots
<1>3. \A fd \in Fds : peer[fd] # NoConn => fd \in fds
  BY DEF IInv, Struct, DescriptorsAccounted, LiveSlots
<1>4. \A c \in Conns : Held(c) => c \in cs
  BY <1>3, ServerAssumption DEF Held
<1>5. \A c \in Conns : FrontOf(c)' = FrontOf(c)
  BY <1>1 DEF FrontOf
<1>6. WaitingGood'
  <2>1. SUFFICES ASSUME NEW d \in Conns, ~Closed(d)', ~Held(d)'
                 PROVE  Good(d, inq[d])'
    BY DEF WaitingGood
  <2>2. d \notin cs
    BY <1>1, <2>1 DEF Closed
  <2>3. ~Closed(d) /\ ~Held(d) /\ inq'[d] = inq[d]
    BY <1>1, <1>4, <2>1, <2>2 DEF Closed
  <2>4. Good(d, inq[d]) /\ FrontOf(d)' = FrontOf(d)
    BY <1>5, <2>3 DEF Streams, WaitingGood
  <2>. QED  BY <1>1, <2>3, <2>4 DEF Good
<1>7. BufferedGood'
  BY <1>2 DEF BufferedGood
<1>8. ServedWereSent' /\ RequestKept'
  BY <1>1, <1>5 DEF Streams, ServedWereSent, RequestKept
<1>. QED  BY <1>6, <1>7, <1>8 DEF Streams

-----------------------------------------------------------------------------

LEMMA InitStreams == Init => Streams
<1>. SUFFICES ASSUME Init PROVE Streams
  OBVIOUS
<1>1. \A c \in Conns : FrontOf(c) = 0 /\ Len(done[c]) = 0 /\ Len(sent[c]) = 0
  BY EmptySeq DEF Init, FrontOf
<1>2. ASSUME NEW c \in Conns  PROVE Good(c, <<>>)
  <2>1. Len(<<>>) = 0 /\ \A j \in 1..Len(<<>>) : FALSE
    BY EmptySeq
  <2>2. Chain(<<>>, 0, sent[c]) /\ Whole(<<>>, 0, sent[c])
    BY <1>1, <2>1 DEF Chain, Whole
  <2>. QED  BY <1>1, <2>2 DEF Good
<1>3. BufferedGood /\ WaitingGood
  BY <1>2 DEF Init, BufferedGood, WaitingGood
<1>4. ServedWereSent /\ RequestKept
  BY <1>1 DEF Init, ServedWereSent, RequestKept
<1>. QED  BY <1>3, <1>4 DEF Streams

LEMMA InitialPlaces == Init => Places /\ Streams
BY InitStreams, ServerAssumption, EmptySeq
   DEF Init, Places, IdleIsUnknown, QueuedIsOpen, QueuedOnce, HeldIsOpen, HeldOnce, Held, Queued, Closed

LEMMA StepStreams == IInv /\ Places /\ Streams /\ [Next]_vars => Streams'
<1>. SUFFICES ASSUME IInv, Places, Streams, [Next]_vars PROVE Streams'
  OBVIOUS
<1>1. CASE Environment
  BY <1>1, EnvironmentStreams
<1>2. CASE Wait \/ WaitTimesOut \/ WaitFails \/ BatchDone \/ StartSignals \/ HandleSignals \/ Halted
           \/ UNCHANGED vars
  <2>1. /\ UNCHANGED <<cstate, sent, peer, inq, slotFd, rx, cur, done, why>>
        /\ pc' = pc \/ "write" \notin {pc, pc'}
    BY <1>2 DEF Wait, WaitTimesOut, WaitFails, BatchDone, StartSignals, HandleSignals, Halted,
                vars, clientVars, kernelVars, slotVars, loopVars, history
  <2>. QED  BY <2>1, StillStreams DEF Closed
<1>3. CASE HandleAccept
  BY <1>3, AcceptStreams
<1>4. CASE HandleClientEvent
  BY <1>4, ClientEventStreams
<1>5. CASE RejectFrame \/ FramesDone \/ DispatchSilent \/ DispatchAnswered
  BY <1>5, FrameStepsStreams
<1>6. CASE WritePart \/ WriteFails
  BY <1>6, WriteStepsStreams
<1>7. CASE Cleanup
  BY <1>7, CleanupStreams
<1>. QED  BY <1>1, <1>2, <1>3, <1>4, <1>5, <1>6, <1>7 DEF Next, Server

-----------------------------------------------------------------------------
(* The refinement. *)

\* The queue of FrameService: what is sent and not served.
QueueOf(c) == SubSeq(sent[c], Len(done[c]) + 1, Len(sent[c]))

LEMMA QueueAppend ==
  ASSUME NEW q \in Seq(Frame), NEW k \in 0..Len(q), NEW f \in Frame
  PROVE  SubSeq(Append(q, f), k + 1, Len(Append(q, f))) = Append(SubSeq(q, k + 1, Len(q)), f)
<1>. DEFINE r == Append(q, f)
            a == SubSeq(q, k + 1, Len(q))
            x == SubSeq(r, k + 1, Len(r))
            y == Append(a, f)
<1>1. Len(q) \in Nat
  BY LenProperties
<1>2. r \in Seq(Frame) /\ Len(r) = Len(q) + 1 /\ r[Len(q) + 1] = f /\ \A i \in 1..Len(q) : r[i] = q[i]
  BY <1>1, AppendProperties
<1>3. a \in Seq(Frame) /\ Len(a) = Len(q) - k
  BY <1>1, CutSeq
<1>4. \A i \in 1..Len(a) : a[i] = q[k + i]
  <2>1. \A i \in (k + 1)..Len(q) : q[i] \in Frame
    BY <1>1, ElementOfSeq
  <2>2. \A i \in 1..(Len(q) - (k + 1) + 1) : a[i] = q[(k + 1) + i - 1]
    BY <1>1, <2>1, SubSeqProperties
  <2>. HIDE DEF a
  <2>3. \A i \in 1..Len(a) : i \in 1..(Len(q) - (k + 1) + 1) /\ (k + 1) + i - 1 = k + i
    BY <1>1, <1>3
  <2>. QED  BY <2>2, <2>3
<1>. HIDE DEF r
<1>5. x \in Seq(Frame) /\ Len(x) = Len(r) - k
  <2>1. k \in 0..Len(r)
    BY <1>1, <1>2
  <2>. QED  BY <1>2, <2>1, CutSeq
<1>6. \A i \in 1..Len(x) : x[i] = r[k + i]
  <2>1. \A i \in (k + 1)..Len(r) : r[i] \in Frame
    BY <1>1, <1>2, ElementOfSeq
  <2>2. Len(r) \in Int /\ k + 1 \in Int
    BY <1>1, <1>2
  <2>3. \A i \in 1..(Len(r) - (k + 1) + 1) : x[i] = r[(k + 1) + i - 1]
    BY <2>1, <2>2, SubSeqProperties
  <2>. HIDE DEF x
  <2>4. \A i \in 1..Len(x) : i \in 1..(Len(r) - (k + 1) + 1) /\ (k + 1) + i - 1 = k + i
    BY <1>1, <1>2, <1>5
  <2>. QED  BY <2>3, <2>4
<1>. HIDE DEF a, x
<1>7. y \in Seq(Frame) /\ Len(y) = Len(a) + 1 /\ y[Len(a) + 1] = f /\ \A i \in 1..Len(a) : y[i] = a[i]
  BY <1>3, AppendProperties
<1>. HIDE DEF y
<1>8. Len(x) = Len(y)
  BY <1>1, <1>2, <1>3, <1>5, <1>7
<1>9. ASSUME NEW i \in 1..Len(x)  PROVE x[i] = y[i]
  <2>1. x[i] = r[k + i]
    BY <1>6
  <2>2. CASE i \in 1..Len(a)
    <3>1. k + i \in 1..Len(q)
      BY <1>1, <1>3, <2>2
    <3>. QED  BY <1>2, <1>4, <1>7, <2>1, <2>2, <3>1
  <2>3. CASE i = Len(a) + 1
    <3>1. k + i = Len(q) + 1
      BY <1>1, <1>3, <2>3
    <3>. QED  BY <1>2, <1>7, <2>1, <2>3, <3>1
  <2>4. i \in 1..Len(a) \/ i = Len(a) + 1
    BY <1>1, <1>3, <1>7, <1>8
  <2>. QED  BY <2>2, <2>3, <2>4
<1>10. x = y
  BY <1>5, <1>7, <1>8, <1>9, SeqEqual
<1>. QED  BY <1>10 DEF x, y, r, a

LEMMA QueueServed ==
  ASSUME NEW q \in Seq(Frame), NEW k \in Nat, k + 1 \in 1..Len(q)
  PROVE  LET a == SubSeq(q, k + 1, Len(q)) IN
           a # <<>> /\ Head(a) = q[k + 1] /\ Tail(a) = SubSeq(q, (k + 1) + 1, Len(q))
<1>1. Len(q) \in Nat /\ Len(q) \in (k + 1)..Len(q)
  BY LenProperties
<1>2. k \in 0..Len(q)
  BY <1>1
<1>3. Len(SubSeq(q, k + 1, Len(q))) = Len(q) - k
  BY <1>2, CutSeq
<1>4. Len(q) - k # 0
  BY <1>1
<1>5. SubSeq(q, k + 1, Len(q)) # <<>>
  <2>. DEFINE a == SubSeq(q, k + 1, Len(q))
  <2>. HIDE DEF a
  <2>1. Len(a) # 0
    BY <1>3, <1>4 DEF a
  <2>2. Len(<<>>) = 0
    BY EmptySeq
  <2>3. a # <<>>
    BY ONLY <2>1, <2>2
  <2>. QED  BY <2>3 DEF a
<1>. QED  BY <1>1, <1>5, HeadTailOfSubSeq

\* A step that moves no frame closes some connections, or nothing shows.
LEMMA QuietRefines ==
  ASSUME QuietStep, UNCHANGED <<sent, done>>
  PROVE  [Service!Next]_(Service!vars)
<1>. DEFINE open == [c \in Conns |-> ~Closed(c)]
            queue == [c \in Conns |-> QueueOf(c)]
<1>1. queue' = queue /\ done' = done
  BY DEF QueueOf
<1>2. \A c \in Conns : open'[c] => open[c]
  BY DEF QuietStep, Closed
<1>3. DOMAIN open' = Conns
  OBVIOUS
<1>4. CASE open' = open
  BY <1>1, <1>4 DEF Service!vars, QueueOf
<1>5. CASE open' # open
  <2>1. Service!Refuse
    BY <1>1, <1>2, <1>3, <1>5 DEF Service!Refuse, QueueOf
  <2>. QED  BY <2>1 DEF Service!Next
<1>. QED  BY <1>4, <1>5

LEMMA SendRefines ==
  ASSUME IInv, Streams, NEW c \in Conns, Send(c)
  PROVE  Service!Send(c)
<1>1. PICK m \in Menu :
        LET f == [kind |-> m.kind, plen |-> m.plen, rid |-> <<c, Len(sent[c]) + 1>>] IN
          sent' = [sent EXCEPT ![c] = Append(@, f)]
  BY DEF Send
<1>. DEFINE f == [kind |-> m.kind, plen |-> m.plen, rid |-> <<c, Len(sent[c]) + 1>>]
            queue == [d \in Conns |-> QueueOf(d)]
<1>2. Len(sent[c]) \in Nat /\ Len(done[c]) \in Nat /\ sent[c] \in Seq(Frame) /\ Len(sent[c]) < MaxSent
  BY StreamTypes, LenProperties DEF Send
<1>3. f \in Frame /\ f \in SentFrames
  <2>1. Len(sent[c]) + 1 \in Nat /\ Len(sent[c]) + 1 \in 1..MaxSent
    BY <1>2, ServerAssumption
  <2>2. m.kind \in Kinds /\ m.plen \in Nat
    BY ServerAssumption
  <2>3. f \in Frame
    BY <2>1, <2>2 DEF Frame
  <2>4. f \in SentFrames
    BY <2>1 DEF SentFrames
  <2>. QED  BY <2>3, <2>4
<1>4. sent' = [sent EXCEPT ![c] = Append(@, f)]
  BY <1>1
<1>. HIDE DEF f
<1>5. done' = done /\ why' = why /\ ~Closed(c)
  BY DEF Send, history
<1>6. sent'[c] = Append(sent[c], f) /\ \A d \in Conns \ {c} : sent'[d] = sent[d]
  BY <1>4 DEF IInv, TypeOK
<1>7. QueueOf(c)' = Append(QueueOf(c), f)
  <2>1. Len(done[c]) \in 0..Len(sent[c])
    BY <1>2 DEF Streams, ServedWereSent
  <2>2. SubSeq(Append(sent[c], f), Len(done[c]) + 1, Len(Append(sent[c], f)))
          = Append(SubSeq(sent[c], Len(done[c]) + 1, Len(sent[c])), f)
    BY <1>2, <1>3, <2>1, QueueAppend, Zenon
  <2>. QED  BY <1>5, <1>6, <2>2 DEF QueueOf
<1>8. \A d \in Conns \ {c} : QueueOf(d)' = QueueOf(d)
  BY <1>5, <1>6 DEF QueueOf
<1>9. queue' = [queue EXCEPT ![c] = Append(@, f)]
  BY <1>7, <1>8
<1>10. [d \in Conns |-> ~Closed(d)]' = [d \in Conns |-> ~Closed(d)]
  BY <1>5 DEF Closed
<1>. QED  BY <1>3, <1>5, <1>9, <1>10 DEF Service!Send, QueueOf

LEMMA DispatchRefines ==
  ASSUME IInv, Places, Streams, DispatchSilent \/ DispatchAnswered
  PROVE  \E c \in Conns : Service!Serve(c)
<1>. DEFINE f == Head(rx[cur]).f
            queue == [d \in Conns |-> QueueOf(d)]
<1>1. slotFd[cur] # NoFd /\ rx[cur] # <<>> /\ pc = "frames"
  <2>1. HeaderIn
    BY DEF DispatchSilent, DispatchAnswered, FrameIn
  <2>. QED  BY <2>1, FrontIsLive DEF DispatchSilent, DispatchAnswered
<1>2. PICK c \in Conns : c = peer[slotFd[cur]]
  BY <1>1, FrontIsNext
<1>3. /\ FrontOf(c) + 1 \in 1..Len(sent[c]) /\ sent[c][FrontOf(c) + 1] = f
      /\ f \in Frame
  BY <1>1, <1>2, FrontIsNext DEF Unit
<1>4. done' = [done EXCEPT ![c] = Append(@, f)] /\ UNCHANGED <<sent, why>>
  BY <1>2 DEF DispatchSilent, DispatchAnswered, clientVars
<1>. HIDE DEF f
<1>5. FrontOf(c) = Len(done[c]) /\ Len(done[c]) \in Nat /\ sent[c] \in Seq(Frame) /\ done[c] \in Seq(Frame)
  BY <1>1, StreamTypes, LenProperties DEF FrontOf
<1>6. done'[c] = Append(done[c], f) /\ \A d \in Conns \ {c} : done'[d] = done[d]
  BY <1>4 DEF IInv, TypeOK
<1>7. Len(done'[c]) = Len(done[c]) + 1
  BY <1>3, <1>5, <1>6, AppendProperties
<1>8. QueueOf(c) # <<>> /\ Head(QueueOf(c)) = f /\ QueueOf(c)' = Tail(QueueOf(c))
  <2>1. Len(done[c]) + 1 \in 1..Len(sent[c]) /\ sent[c][Len(done[c]) + 1] = f
    BY <1>3, <1>5
  <2>2. LET a == SubSeq(sent[c], Len(done[c]) + 1, Len(sent[c])) IN
          a # <<>> /\ Head(a) = f /\ Tail(a) = SubSeq(sent[c], (Len(done[c]) + 1) + 1, Len(sent[c]))
    BY <1>5, <2>1, QueueServed
  <2>. QED  BY <1>4, <1>7, <2>2 DEF QueueOf
<1>9. \A d \in Conns \ {c} : QueueOf(d)' = QueueOf(d)
  BY <1>4, <1>6 DEF QueueOf
<1>10. queue' = [queue EXCEPT ![c] = Tail(@)]
  BY <1>8, <1>9
<1>11. [d \in Conns |-> ~Closed(d)]' = [d \in Conns |-> ~Closed(d)] /\ ~Closed(c)
  <2>1. cur \in Slots
    BY DEF IInv, TypeOK
  <2>2. Held(c)
    BY <1>1, <1>2, <2>1, StreamTypes
  <2>. QED  BY <1>4, <2>2 DEF Places, HeldIsOpen, Closed
<1>12. Service!Serve(c)
  <2>1. done' = [done EXCEPT ![c] = Append(@, Head(queue[c]))]
    BY <1>4, <1>8
  <2>2. [d \in Conns |-> ~Closed(d)][c] /\ queue[c] # <<>>
    BY <1>8, <1>11
  <2>. QED  BY <1>10, <1>11, <2>1, <2>2 DEF Service!Serve, QueueOf
<1>. QED  BY <1>12

LEMMA StepRefines == IInv /\ Places /\ Streams /\ [Next]_vars => [Service!Next]_(Service!vars)
<1>. SUFFICES ASSUME IInv, Places, Streams, [Next]_vars PROVE [Service!Next]_(Service!vars)
  OBVIOUS
<1>1. CASE \E c \in Conns : Send(c)
  <2>1. \E c \in Conns : Service!Send(c)
    BY <1>1, SendRefines
  <2>. QED  BY <2>1 DEF Service!Next
<1>2. CASE DispatchSilent \/ DispatchAnswered
  <2>1. \E c \in Conns : Service!Serve(c)
    BY <1>2, DispatchRefines
  <2>. QED  BY <2>1 DEF Service!Next
<1>3. CASE UNCHANGED <<sent, done>>
  BY <1>3, StepQuiet, QuietRefines
<1>4. CASE Environment
  <2>1. \A c \in Conns : Connect(c) \/ ShutdownWrites(c) \/ Close(c) \/ Receive(c) => UNCHANGED <<sent, done>>
    BY DEF Connect, ShutdownWrites, Close, Receive, clientVars, history
  <2>2. ChildDies \/ Terminate => UNCHANGED <<sent, done>>
    BY DEF ChildDies, Terminate, clientVars, history
  <2>. QED  BY <1>1, <1>3, <1>4, <2>1, <2>2 DEF Environment
<1>5. CASE Wait \/ WaitTimesOut \/ WaitFails \/ BatchDone \/ StartSignals \/ HandleSignals \/ HandleAccept
           \/ HandleClientEvent \/ Halted \/ UNCHANGED vars
  <2>1. UNCHANGED <<sent, done>>
    BY <1>5 DEF Wait, WaitTimesOut, WaitFails, BatchDone, StartSignals, HandleSignals, HandleAccept,
                HandleClientEvent, Halted, vars, clientVars, history
  <2>. QED  BY <1>3, <2>1
<1>6. CASE RejectFrame \/ FramesDone \/ WritePart \/ WriteFails \/ Cleanup
  <2>1. UNCHANGED <<sent, done>>
    BY <1>6 DEF RejectFrame, FramesDone, WritePart, WriteFails, Cleanup, clientVars
  <2>. QED  BY <1>3, <2>1
<1>. QED  BY <1>2, <1>4, <1>5, <1>6 DEF Next, Server

\* The reactor serves each connection as a queue: whatever the cuts of its
\* stream, the batches, slots and buffers, a frame is dispatched exactly when it
\* is the oldest one not yet served, and never once the connection is closed.
THEOREM ServesEachQueue == Spec => ImplementsService
<1>1. Init => Service!Init
  <2>1. SUFFICES ASSUME Init PROVE Service!Init
    OBVIOUS
  <2>2. \A c \in Conns : sent[c] = <<>> /\ done[c] = <<>> /\ Len(done[c]) = 0 /\ Len(sent[c]) = 0
    BY <2>1, EmptySeq DEF Init
  <2>3. \A c \in Conns : SubSeq(sent[c], Len(done[c]) + 1, Len(sent[c])) = <<>>
    <3>1. SUFFICES ASSUME NEW c \in Conns  PROVE SubSeq(sent[c], Len(done[c]) + 1, Len(sent[c])) = <<>>
      OBVIOUS
    <3>2. Len(done[c]) + 1 \in Int /\ Len(sent[c]) \in Int /\ Len(sent[c]) < Len(done[c]) + 1
      BY <2>2
    <3>. QED  BY <3>2, SubSeqEmpty, Zenon
  <2>. QED  BY <2>1, <2>3 DEF Init, Service!Init, Closed
<1>. QED  BY <1>1, InitialPlaces, StepQuiet, StepStreams, StepRefines, Invariance, PTL
          DEF Spec, ImplementsService, Service!Spec

-----------------------------------------------------------------------------
(* The answers of a connection are those to its own frames, in order and   *)
(* whole.  Frames are numbered as they were sent, and dispatched in that   *)
(* order (Streams); the answer in hand continues what was written of it    *)
(* (Follows), and outside of a handler the last answer is complete.        *)

\* The part number k of n of the answer to the request rid.
Piece(rid, k, n) == [rid |-> rid, k |-> k, n |-> n]

\* t are the last parts of one answer to rid.
RestOf(t, rid) ==
  /\ t[1].n \in Nat /\ Len(t) <= t[1].n
  /\ \A j \in 1..Len(t) : t[j] = Piece(rid, t[1].n - Len(t) + j, t[1].n)

\* r are parts of answers to the first m requests of c, in order.
Ordered(r, c, m) ==
  \A i \in 1..Len(r) :
    /\ r[i].rid[1] = c /\ r[i].rid[2] <= m
    /\ IF i = 1 \/ r[i].k > 1 THEN TRUE ELSE r[i - 1].k = r[i - 1].n /\ r[i - 1].rid[2] < r[i].rid[2]
    /\ r[i].k > 1 => i > 1 /\ r[i - 1] = [r[i] EXCEPT !.k = @ - 1]

EndsWhole(r) == r # <<>> => r[Len(r)].k = r[Len(r)].n

\* The part t continues r.
Follows(t, r) ==
  IF t.k = 1 THEN r # <<>> => r[Len(r)].k = r[Len(r)].n /\ r[Len(r)].rid[2] < t.rid[2]
  ELSE r # <<>> /\ r[Len(r)] = [t EXCEPT !.k = @ - 1]

WritingTo(c) == pc = "write" /\ peer[slotFd[cur]] = c

Numbered ==
  \A c \in Conns : /\ \A j \in 1..Len(sent[c]) : sent[c][j].rid = <<c, j>>
                   /\ \A j \in 1..Len(done[c]) : done[c][j].rid = <<c, j>>

InHandAnswer == \A c \in Conns : WritingTo(c) => RestOf(tx, <<c, Len(done[c])>>)

Parts ==
  \A c \in Conns :
    /\ Ordered(resp[c], c, Len(done[c]))
    /\ ~Closed(c) => IF WritingTo(c) THEN Follows(Head(tx), resp[c]) ELSE EndsWhole(resp[c])

Answers == Numbered /\ InHandAnswer /\ Parts /\ Complete

-----------------------------------------------------------------------------
(* Sequences of parts. *)

LEMMA PartFacts ==
  ASSUME NEW t \in Part
  PROVE  /\ t.rid \in Conns \X Nat /\ t.rid[1] \in Conns /\ t.rid[2] \in Nat /\ t.k \in Nat /\ t.n \in Nat
         /\ \A x \in Nat : [t EXCEPT !.k = x].rid = t.rid /\ [t EXCEPT !.k = x].k = x /\ [t EXCEPT !.k = x].n = t.n
BY DEF Part

\* A part that continues those written keeps them in order.
LEMMA OrderedAppend ==
  ASSUME NEW r \in Seq(Part), NEW t \in Part, NEW c, NEW m \in Nat, Ordered(r, c, m), Follows(t, r),
         t.rid[1] = c, t.rid[2] <= m, t.k >= 1
  PROVE  /\ Ordered(Append(r, t), c, m) /\ Append(r, t) # <<>> /\ Append(r, t) \in Seq(Part)
         /\ Len(Append(r, t)) = Len(r) + 1 /\ Append(r, t)[Len(r) + 1] = t
         /\ \A i \in 1..Len(r) : Append(r, t)[i] = r[i]
<1>. DEFINE v == Append(r, t)
<1>1. /\ Len(r) \in Nat /\ v \in Seq(Part) /\ Len(v) = Len(r) + 1 /\ v[Len(r) + 1] = t
      /\ \A i \in 1..Len(r) : v[i] = r[i]
  BY LenProperties, AppendProperties
<1>2. v # <<>>
  BY <1>1, EmptySeq
<1>. HIDE DEF v
<1>3. ASSUME NEW i \in 1..Len(r)
      PROVE  /\ v[i].rid[1] = c /\ v[i].rid[2] <= m
             /\ IF i = 1 \/ v[i].k > 1 THEN TRUE ELSE v[i - 1].k = v[i - 1].n /\ v[i - 1].rid[2] < v[i].rid[2]
             /\ v[i].k > 1 => i > 1 /\ v[i - 1] = [v[i] EXCEPT !.k = @ - 1]
  <2>1. v[i] = r[i] /\ (i > 1 => v[i - 1] = r[i - 1])
    BY <1>1
  <2>2. /\ r[i].rid[1] = c /\ r[i].rid[2] <= m
        /\ IF i = 1 \/ r[i].k > 1 THEN TRUE ELSE r[i - 1].k = r[i - 1].n /\ r[i - 1].rid[2] < r[i].rid[2]
        /\ r[i].k > 1 => i > 1 /\ r[i - 1] = [r[i] EXCEPT !.k = @ - 1]
    BY DEF Ordered
  <2>3. i = 1 \/ i > 1
    BY <1>1
  <2>. QED  BY <2>1, <2>2, <2>3
<1>4. LET i == Len(r) + 1 IN
        /\ v[i].rid[1] = c /\ v[i].rid[2] <= m
        /\ IF i = 1 \/ v[i].k > 1 THEN TRUE ELSE v[i - 1].k = v[i - 1].n /\ v[i - 1].rid[2] < v[i].rid[2]
        /\ v[i].k > 1 => i > 1 /\ v[i - 1] = [v[i] EXCEPT !.k = @ - 1]
  <2>. PICK i \in Nat : i = Len(r) + 1
    BY <1>1
  <2>1. v[i] = t /\ i >= 1
    BY <1>1
  <2>2. r # <<>> => i > 1 /\ v[i - 1] = r[Len(r)]
    <3>1. r # <<>> => Len(r) \in 1..Len(r) /\ i - 1 = Len(r)
      BY <1>1, EmptySeq
    <3>. QED  BY <1>1, <3>1
  <2>3. r = <<>> => i = 1
    BY EmptySeq
  <2>4. t.k \in Nat
    BY PartFacts
  <2>5. CASE t.k = 1
    BY <2>1, <2>2, <2>3, <2>5 DEF Follows
  <2>6. CASE t.k > 1
    BY <2>1, <2>2, <2>6 DEF Follows
  <2>. QED  BY <2>4, <2>5, <2>6
<1>5. Ordered(v, c, m)
  <2>1. \A i \in 1..Len(v) : i \in 1..Len(r) \/ i = Len(r) + 1
    BY <1>1
  <2>. QED  BY <1>3, <1>4, <2>1 DEF Ordered
<1>. QED  BY <1>1, <1>2, <1>5 DEF v

LEMMA OrderedMore ==
  ASSUME NEW r \in Seq(Part), NEW c, NEW m \in Nat, Ordered(r, c, m)
  PROVE  Ordered(r, c, m + 1) /\ (r # <<>> => r[Len(r)].rid[2] < m + 1)
<1>1. \A i \in 1..Len(r) : r[i].rid[2] \in Nat
  BY ElementOfSeq, PartFacts
<1>2. \A i \in 1..Len(r) : r[i].rid[2] <= m
  BY DEF Ordered
<1>3. \A i \in 1..Len(r) : r[i].rid[2] < m + 1 /\ r[i].rid[2] <= m + 1
  BY <1>1, <1>2
<1>4. r # <<>> => Len(r) \in 1..Len(r)
  BY EmptySeq, LenProperties
<1>. QED  BY <1>3, <1>4 DEF Ordered

\* An answer is the rest of itself, and begins with its first part.
LEMMA WholeAnswer ==
  ASSUME NEW f \in Frame, NEW n \in Nat \ {0}
  PROVE  /\ Answer(f, n) \in Seq(Part) /\ Answer(f, n) # <<>> /\ RestOf(Answer(f, n), f.rid)
         /\ Head(Answer(f, n)) \in Part /\ Head(Answer(f, n)).rid = f.rid /\ Head(Answer(f, n)).k = 1
<1>. DEFINE a == Answer(f, n)
<1>1. f.rid \in Conns \X Nat
  BY DEF Frame
<1>2. a = [k \in 1..n |-> [rid |-> f.rid, k |-> k, n |-> n]]
  BY DEF Answer
<1>3. \A k \in 1..n : [rid |-> f.rid, k |-> k, n |-> n] \in Part
  BY <1>1 DEF Part
<1>. HIDE DEF a
<1>4. a \in Seq(Part)
  BY <1>2, <1>3, IsASeq
<1>5. DOMAIN a = 1..n /\ \A k \in 1..n : a[k] = Piece(f.rid, k, n)
  BY <1>2 DEF Piece
<1>6. Len(a) = n
  BY <1>4, <1>5, LenProperties
<1>7. a # <<>> /\ 1 \in 1..n
  BY <1>4, <1>6, EmptySeq
<1>8. Head(a) = Piece(f.rid, 1, n) /\ a[1] = Piece(f.rid, 1, n)
  BY <1>4, <1>5, <1>7, HeadTailProperties
<1>9. RestOf(a, f.rid)
  BY <1>5, <1>6, <1>8 DEF RestOf, Piece
<1>10. Head(a) \in Part /\ Head(a).rid = f.rid /\ Head(a).k = 1
  BY <1>3, <1>7, <1>8 DEF Piece
<1>. QED  BY <1>4, <1>7, <1>9, <1>10 DEF a

\* What remains after the first of the parts in hand.
LEMMA RestGoesOn ==
  ASSUME NEW t \in Seq(Part), t # <<>>, NEW rid, RestOf(t, rid)
  PROVE  /\ Head(t) \in Part /\ Head(t).rid = rid /\ Head(t).k >= 1
         /\ Len(t) = 1 => Head(t).k = Head(t).n
         /\ Len(t) # 1 => /\ RestOf(Tail(t), rid) /\ Tail(t) # <<>> /\ Head(Tail(t)).rid = rid
                          /\ Head(Tail(t)).k # 1 /\ Head(t) = [Head(Tail(t)) EXCEPT !.k = @ - 1]
<1>. PICK n : n = t[1].n
  OBVIOUS
<1>1. /\ Len(t) \in Nat \ {0} /\ Head(t) = t[1] /\ 1 \in 1..Len(t) /\ Tail(t) \in Seq(Part) /\ Len(Tail(t)) = Len(t) - 1
      /\ \A i \in 1..Len(Tail(t)) : Tail(t)[i] = t[i + 1]
  BY HeadTailProperties, EmptySeq, LenProperties
<1>2. n \in Nat /\ Len(t) <= n /\ \A j \in 1..Len(t) : t[j] = Piece(rid, n - Len(t) + j, n)
  BY DEF RestOf
<1>3. Head(t) = Piece(rid, n - Len(t) + 1, n) /\ Head(t) \in Part
  BY <1>1, <1>2, ElementOfSeq
<1>4. Head(t).rid = rid /\ Head(t).k >= 1 /\ (Len(t) = 1 => Head(t).k = Head(t).n)
  BY <1>1, <1>2, <1>3 DEF Piece
<1>5. ASSUME Len(t) # 1
      PROVE  /\ RestOf(Tail(t), rid) /\ Tail(t) # <<>> /\ Head(Tail(t)).rid = rid
             /\ Head(Tail(t)).k # 1 /\ Head(t) = [Head(Tail(t)) EXCEPT !.k = @ - 1]
  <2>. DEFINE u == Tail(t)
  <2>1. u \in Seq(Part) /\ Len(u) = Len(t) - 1 /\ Len(u) \in Nat \ {0} /\ \A i \in 1..Len(u) : u[i] = t[i + 1]
    BY <1>1, <1>5
  <2>. HIDE DEF u
  <2>2. \A j \in 1..Len(u) : u[j] = Piece(rid, n - Len(u) + j, n)
    <3>. SUFFICES ASSUME NEW j \in 1..Len(u)  PROVE u[j] = Piece(rid, n - Len(u) + j, n)
      OBVIOUS
    <3>0. n \in Nat /\ Len(t) \in Nat /\ Len(u) = Len(t) - 1
      BY <1>1, <1>2, <2>1
    <3>1. j + 1 \in 1..Len(t) /\ n - Len(t) + (j + 1) = n - Len(u) + j
      BY <3>0
    <3>. QED  BY <1>2, <2>1, <3>1
  <2>3. u # <<>> /\ 1 \in 1..Len(u) /\ Head(u) = u[1]
    BY <2>1, EmptySeq, HeadTailProperties
  <2>4. u[1] = Piece(rid, n - Len(t) + 2, n)
    <3>0. n \in Nat /\ Len(t) \in Nat /\ Len(u) = Len(t) - 1
      BY <1>1, <1>2, <2>1
    <3>1. n - Len(u) + 1 = n - Len(t) + 2
      BY <3>0
    <3>. QED  BY <2>2, <2>3, <3>1
  <2>5. RestOf(u, rid)
    <3>1. u[1].n = n
      BY <2>4 DEF Piece
    <3>2. Len(u) <= n
      <4>1. n \in Nat /\ Len(t) \in Nat /\ Len(u) = Len(t) - 1 /\ Len(t) <= n
        BY <1>1, <1>2, <2>1
      <4>. QED  BY <4>1
    <3>. QED  BY <1>2, <2>2, <3>1, <3>2 DEF RestOf
  <2>6. Head(u).k # 1 /\ Head(u).rid = rid /\ Head(t) = [Head(u) EXCEPT !.k = @ - 1]
    <3>. PICK k \in Nat \ {0} : k = n - Len(t) + 1
      BY <1>1, <1>2
    <3>4. n \in Nat /\ Len(t) \in Nat
      BY <1>1, <1>2
    <3>1. n - Len(t) + 2 = k + 1 /\ k + 1 # 1 /\ (k + 1) - 1 = k
      BY <3>4, SMTT(30)
    <3>2. Head(u) = Piece(rid, k + 1, n) /\ Head(t) = Piece(rid, k, n)
      BY <1>3, <2>3, <2>4, <3>1
    <3>3. [Head(u) EXCEPT !.k = @ - 1] = Piece(rid, (k + 1) - 1, n)
      BY <3>2 DEF Piece
    <3>. QED  BY <3>1, <3>2, <3>3 DEF Piece
  <2>. QED  BY <2>3, <2>5, <2>6 DEF u
<1>. QED  BY <1>3, <1>4, <1>5

-----------------------------------------------------------------------------
(* Steps that answer nothing. *)

LEMMA AnswerTypes ==
  ASSUME IInv
  PROVE  \A c \in Conns : /\ sent[c] \in Seq(Frame) /\ done[c] \in Seq(Frame) /\ resp[c] \in Seq(Part)
                          /\ Len(sent[c]) \in Nat /\ Len(done[c]) \in Nat
BY LenProperties DEF IInv, TypeOK

LEMMA StillAnswers ==
  ASSUME Answers, UNCHANGED <<done, resp>>, Numbered', \A c \in Conns : Closed(c) => Closed(c)',
         \/ UNCHANGED <<pc, peer, slotFd, cur, tx>>
         \/ pc # "write" /\ pc' # "write"
  PROVE  Answers'
<1>1. \A c \in Conns : /\ WritingTo(c)' <=> WritingTo(c)
                       /\ WritingTo(c) => tx' = tx
  BY DEF WritingTo
<1>2. InHandAnswer'
  BY <1>1 DEF Answers, InHandAnswer
<1>3. Parts'
  BY <1>1 DEF Answers, Parts
<1>4. Complete'
  BY DEF Answers, Complete
<1>. QED  BY <1>2, <1>3, <1>4 DEF Answers

LEMMA SendNumbers ==
  ASSUME IInv, Answers, NEW c \in Conns, Send(c)
  PROVE  Numbered'
<1>1. PICK m \in Menu :
        sent' = [sent EXCEPT ![c] = Append(@, [kind |-> m.kind, plen |-> m.plen, rid |-> <<c, Len(sent[c]) + 1>>])]
  BY DEF Send
<1>. PICK f : f = [kind |-> m.kind, plen |-> m.plen, rid |-> <<c, Len(sent[c]) + 1>>]
  OBVIOUS
<1>2. /\ sent[c] \in Seq(Frame) /\ Len(sent[c]) \in Nat /\ done' = done
      /\ sent'[c] = Append(sent[c], f) /\ \A d \in Conns \ {c} : sent'[d] = sent[d]
  BY <1>1, AnswerTypes DEF IInv, TypeOK, Send, history
<1>3. f \in Frame
  <2>1. m.kind \in Kinds /\ m.plen \in Nat
    BY ServerAssumption
  <2>. QED  BY <1>2, <2>1 DEF Frame
<1>4. Len(sent'[c]) = Len(sent[c]) + 1 /\ sent'[c][Len(sent[c]) + 1] = f /\ \A j \in 1..Len(sent[c]) : sent'[c][j] = sent[c][j]
  BY <1>2, <1>3, AppendProperties
<1>5. \A j \in 1..Len(sent'[c]) : j \in 1..Len(sent[c]) \/ j = Len(sent[c]) + 1
  BY <1>2, <1>4
<1>6. \A d \in Conns : \A j \in 1..Len(sent'[d]) : sent'[d][j].rid = <<d, j>>
  <2>1. \A d \in Conns : \A j \in 1..Len(sent[d]) : sent[d][j].rid = <<d, j>>
    BY DEF Answers, Numbered
  <2>2. \A j \in 1..Len(sent'[c]) : sent'[c][j].rid = <<c, j>>
    BY <1>4, <1>5, <2>1
  <2>. QED  BY <1>2, <2>1, <2>2
<1>. QED  BY <1>2, <1>6 DEF Answers, Numbered

-----------------------------------------------------------------------------
(* A frame is dispatched, and its answer written. *)

LEMMA DispatchAnswers ==
  ASSUME IInv, Places, Streams, Answers, DispatchSilent \/ DispatchAnswered
  PROVE  Answers'
<1>1. slotFd[cur] # NoFd /\ rx[cur] # <<>> /\ pc = "frames"
  <2>1. HeaderIn
    BY DEF DispatchSilent, DispatchAnswered, FrameIn
  <2>. QED  BY <2>1, FrontIsLive DEF DispatchSilent, DispatchAnswered
<1>2. PICK c \in Conns : c = peer[slotFd[cur]]
  BY <1>1, FrontIsNext
<1>3. PICK f : f = Head(rx[cur]).f
  OBVIOUS
<1>4. PICK m \in Nat : m = Len(done[c])
  BY AnswerTypes
<1>5. f \in Frame /\ f.rid = <<c, m + 1>>
  <2>1. FrontOf(c) + 1 \in 1..Len(sent[c]) /\ sent[c][FrontOf(c) + 1] = f /\ f \in Frame
    BY <1>1, <1>2, <1>3, FrontIsNext DEF Unit
  <2>2. FrontOf(c) = m
    BY <1>1, <1>4 DEF FrontOf
  <2>. QED  BY <2>1, <2>2 DEF Answers, Numbered
<1>6. done' = [done EXCEPT ![c] = Append(@, f)] /\ UNCHANGED <<sent, why, resp, slotFd, peer, cur>>
  BY <1>2, <1>3 DEF DispatchSilent, DispatchAnswered, clientVars, kernelVars, slotVars
<1>7. /\ Len(done'[c]) = m + 1 /\ done'[c][m + 1] = f /\ \A j \in 1..m : done'[c][j] = done[c][j]
      /\ \A d \in Conns \ {c} : done'[d] = done[d]
      /\ \A j \in 1..Len(done'[c]) : j \in 1..m \/ j = m + 1
  <2>1. done[c] \in Seq(Frame)
    BY AnswerTypes
  <2>2. done'[c] = Append(done[c], f) /\ \A d \in Conns \ {c} : done'[d] = done[d]
    BY <1>6 DEF IInv, TypeOK
  <2>3. Len(done'[c]) = m + 1
    BY <1>4, <1>5, <2>1, <2>2, AppendProperties
  <2>. QED  BY <1>4, <1>5, <2>1, <2>2, <2>3, AppendProperties
<1>8. Numbered'
  BY <1>4, <1>5, <1>6, <1>7 DEF Answers, Numbered
<1>9. \A d \in Conns : Ordered(resp[d], d, Len(done'[d])) /\ ~WritingTo(d)
  <2>1. \A d \in Conns : Ordered(resp[d], d, Len(done[d])) /\ ~WritingTo(d)
    BY <1>1 DEF Answers, Parts, WritingTo
  <2>2. Ordered(resp[c], c, m + 1)
    BY <1>4, <2>1, OrderedMore, AnswerTypes
  <2>. QED  BY <1>7, <2>1, <2>2
<1>10. \A d \in Conns : ~Closed(d) => EndsWhole(resp[d])
  BY <1>9 DEF Answers, Parts
<1>11. ASSUME NEW d \in Conns, NEW i \in 1..Len(done'[d]), done'[d][i].kind \in Answering
       PROVE  \/ \E j \in 1..Len(resp[d]) : resp[d][j].rid = done'[d][i].rid /\ resp[d][j].k = resp[d][j].n
              \/ Closed(d)
              \/ d = c /\ done'[d][i] = f
  <2>1. \A e \in Conns : \A j \in 1..Len(done[e]) : done[e][j].kind \in Answering =>
          \/ \E h \in 1..Len(resp[e]) : resp[e][h].rid = done[e][j].rid /\ resp[e][h].k = resp[e][h].n
          \/ Closed(e)
    BY <1>1 DEF Answers, Complete
  <2>2. CASE d = c /\ i = m + 1
    BY <1>7, <2>2
  <2>3. ASSUME i \in 1..Len(done[d]), done'[d][i] = done[d][i]
        PROVE  \/ \E j \in 1..Len(resp[d]) : resp[d][j].rid = done'[d][i].rid /\ resp[d][j].k = resp[d][j].n
               \/ Closed(d)
    <3>1. done[d][i].kind \in Answering
      BY <1>11, <2>3
    <3>2. \/ \E h \in 1..Len(resp[d]) : resp[d][h].rid = done[d][i].rid /\ resp[d][h].k = resp[d][h].n
          \/ Closed(d)
      BY <2>1, <2>3, <3>1
    <3>. QED  BY <2>3, <3>2
  <2>4. CASE d = c /\ i \in 1..m
    <3>1. i \in 1..Len(done[d]) /\ done'[d][i] = done[d][i]
      BY <1>4, <1>7, <2>4
    <3>. QED  BY <2>3, <3>1
  <2>5. CASE d # c
    <3>1. done'[d] = done[d]
      BY <1>7, <2>5
    <3>. QED  BY <1>11, <2>3, <3>1
  <2>. QED  BY <1>7, <2>2, <2>4, <2>5
<1>12. CASE DispatchSilent
  <2>1. pc' = "frames" /\ f.kind \notin Answering
    BY <1>1, <1>3, <1>12 DEF DispatchSilent
  <2>2. InHandAnswer' /\ Parts'
    BY <1>6, <1>9, <1>10, <2>1 DEF InHandAnswer, Parts, WritingTo, Closed
  <2>3. Complete'
    BY <1>6, <1>11, <2>1 DEF Complete, Closed
  <2>. QED  BY <1>8, <2>2, <2>3 DEF Answers
<1>13. CASE DispatchAnswered
  <2>1. PICK n \in PartCounts(f.kind) : tx' = Answer(f, n)
    BY <1>3, <1>13 DEF DispatchAnswered
  <2>2. n \in Nat \ {0}
    BY DEF PartCounts
  <2>3. RestOf(tx', f.rid) /\ Head(tx').rid = f.rid /\ Head(tx').k = 1
    BY <1>5, <2>1, <2>2, WholeAnswer
  <2>4. pc' = "write" /\ \A d \in Conns : WritingTo(d)' <=> d = c
    BY <1>2, <1>6, <1>13 DEF DispatchAnswered, WritingTo
  <2>5. InHandAnswer'
    BY <1>5, <1>7, <2>3, <2>4 DEF InHandAnswer
  <2>6. Follows(Head(tx'), resp[c])
    <3>1. ~Closed(c)
      <4>1. cur \in Slots
        BY DEF IInv, TypeOK
      <4>2. Held(c)
        BY <1>1, <1>2, <4>1, StreamTypes
      <4>. QED  BY <4>2 DEF Places, HeldIsOpen
    <3>2. resp[c] # <<>> => resp[c][Len(resp[c])].rid[2] < m + 1
      BY <1>4, AnswerTypes, OrderedMore DEF Answers, Parts
    <3>. QED  BY <1>5, <1>10, <2>3, <3>1, <3>2 DEF Follows, EndsWhole
  <2>7. Parts'
    BY <1>6, <1>9, <1>10, <2>4, <2>6 DEF Parts, Closed
  <2>8. Complete'
    BY <1>6, <1>11, <2>3, <2>4 DEF Complete, Closed
  <2>. QED  BY <1>8, <2>5, <2>7, <2>8 DEF Answers
<1>. QED  BY <1>12, <1>13

LEMMA WritePartAnswers ==
  ASSUME IInv, Places, Answers, WritePart
  PROVE  Answers'
<1>1. pc = "write" /\ slotFd[cur] # NoFd /\ tx # <<>> /\ cur \in Slots /\ tx \in Seq(Part)
  BY DEF WritePart, IInv, TypeOK, Struct, Writing
<1>2. PICK c \in Conns : c = peer[slotFd[cur]]
  BY <1>1, StreamTypes
<1>3. PICK t \in Part : t = Head(tx)
  BY <1>1, HeadTailProperties
<1>4. PICK m \in Nat : m = Len(done[c])
  BY AnswerTypes
<1>5. /\ resp' = [resp EXCEPT ![c] = Append(@, t)] /\ tx' = Tail(tx)
      /\ UNCHANGED <<sent, done, why, peer, slotFd, cur>>
      /\ pc' = IF Len(tx) = 1 THEN "frames" ELSE "write"
  BY <1>1, <1>2, <1>3 DEF WritePart, LastPart, clientVars
<1>6. ~Closed(c)
  <2>1. Held(c)
    BY <1>1, <1>2, StreamTypes
  <2>. QED  BY <2>1 DEF Places, HeldIsOpen
<1>7. /\ WritingTo(c) /\ \A d \in Conns \ {c} : ~WritingTo(d)
      /\ Ordered(resp[c], c, m) /\ Follows(t, resp[c]) /\ RestOf(tx, <<c, m>>)
      /\ resp[c] \in Seq(Part) /\ Len(resp[c]) \in Nat
  <2>1. WritingTo(c) /\ \A d \in Conns \ {c} : ~WritingTo(d)
    BY <1>1, <1>2 DEF WritingTo
  <2>. QED  BY <1>3, <1>4, <1>6, <2>1, AnswerTypes, LenProperties DEF Answers, Parts, InHandAnswer
<1>8. /\ t.rid = <<c, m>> /\ t.k >= 1 /\ (Len(tx) = 1 => t.k = t.n)
      /\ Len(tx) # 1 => /\ RestOf(tx', <<c, m>>) /\ Head(tx').rid = <<c, m>>
                        /\ Head(tx').k # 1 /\ t = [Head(tx') EXCEPT !.k = @ - 1]
  BY <1>1, <1>3, <1>5, <1>7, RestGoesOn
<1>9. /\ resp'[c] = Append(resp[c], t) /\ \A d \in Conns \ {c} : resp'[d] = resp[d]
  BY <1>5 DEF IInv, TypeOK
<1>10. /\ Ordered(resp'[c], c, m) /\ resp'[c] # <<>> /\ Len(resp'[c]) = Len(resp[c]) + 1
       /\ resp'[c][Len(resp'[c])] = t /\ \A i \in 1..Len(resp[c]) : resp'[c][i] = resp[c][i]
  <2>1. t.rid[1] = c /\ t.rid[2] <= m
    BY <1>8
  <2>2. /\ Ordered(Append(resp[c], t), c, m) /\ Append(resp[c], t) # <<>>
        /\ Len(Append(resp[c], t)) = Len(resp[c]) + 1 /\ Append(resp[c], t)[Len(resp[c]) + 1] = t
        /\ \A i \in 1..Len(resp[c]) : Append(resp[c], t)[i] = resp[c][i]
    BY <1>7, <1>8, <2>1, OrderedAppend
  <2>. QED  BY <1>9, <2>2
<1>11. Numbered'
  BY <1>5 DEF Answers, Numbered
<1>12. /\ \A d \in Conns : WritingTo(d)' <=> d = c /\ Len(tx) # 1
  BY <1>2, <1>5 DEF WritingTo
<1>13. InHandAnswer'
  BY <1>4, <1>5, <1>8, <1>12 DEF InHandAnswer
<1>14. Parts'
  <2>1. ASSUME NEW d \in Conns, d # c
        PROVE  Ordered(resp'[d], d, Len(done'[d])) /\ (~Closed(d)' => EndsWhole(resp'[d]))
    BY <1>5, <1>7, <1>9, <2>1 DEF Answers, Parts, Closed
  <2>2. Ordered(resp'[c], c, Len(done'[c]))
    BY <1>4, <1>5, <1>10
  <2>3. Len(tx) = 1 => EndsWhole(resp'[c])
    BY <1>8, <1>10 DEF EndsWhole
  <2>4. Len(tx) # 1 => Follows(Head(tx'), resp'[c])
    BY <1>8, <1>10 DEF Follows
  <2>. QED  BY <1>12, <2>1, <2>2, <2>3, <2>4 DEF Parts
<1>15. Complete'
  <2>5. done' = done /\ why' = why
    BY <1>5
  <2>. SUFFICES ASSUME NEW d \in Conns, NEW i \in 1..Len(done[d]), done[d][i].kind \in Answering
                PROVE  \/ \E j \in 1..Len(resp'[d]) : resp'[d][j].rid = done[d][i].rid /\ resp'[d][j].k = resp'[d][j].n
                       \/ Closed(d)
                       \/ pc' = "write" /\ Head(tx').rid = done[d][i].rid
    BY <2>5, ZenonT(30) DEF Complete, Closed
  <2>1. CASE \E j \in 1..Len(resp[d]) : resp[d][j].rid = done[d][i].rid /\ resp[d][j].k = resp[d][j].n
    <3>1. CASE d = c
      <4>1. PICK j \in 1..Len(resp[c]) : resp[c][j].rid = done[d][i].rid /\ resp[c][j].k = resp[c][j].n
        BY <2>1, <3>1
      <4>2. j \in 1..Len(resp'[c]) /\ resp'[c][j] = resp[c][j]
        BY <1>7, <1>10
      <4>. QED  BY <3>1, <4>1, <4>2
    <3>2. CASE d # c
      BY <1>9, <2>1, <3>2
    <3>. QED  BY <3>1, <3>2
  <2>2. CASE t.rid = done[d][i].rid /\ Len(tx) = 1
    <3>1. done[d][i].rid = <<d, i>>
      BY DEF Answers, Numbered
    <3>2. d = c
      BY <1>8, <2>2, <3>1
    <3>3. Len(resp'[c]) \in 1..Len(resp'[c])
      BY <1>7, <1>10
    <3>. QED  BY <1>8, <1>10, <2>2, <3>2, <3>3
  <2>3. CASE t.rid = done[d][i].rid /\ Len(tx) # 1
    BY <1>5, <1>8, <2>3
  <2>4. CASE Closed(d)
    BY <2>4
  <2>. QED  BY <1>3, <2>1, <2>2, <2>3, <2>4 DEF Answers, Complete
<1>. QED  BY <1>11, <1>13, <1>14, <1>15 DEF Answers

LEMMA WriteFailsAnswers ==
  ASSUME IInv, Places, Answers, WriteFails
  PROVE  Answers'
<1>1. pc = "write" /\ slotFd[cur] # NoFd /\ cur \in Slots /\ tx # <<>> /\ tx \in Seq(Part)
  BY DEF WriteFails, IInv, TypeOK, Struct, Writing
<1>2. PICK c \in Conns : c = peer[slotFd[cur]]
  BY <1>1, StreamTypes
<1>3. pc' = "frames" /\ UNCHANGED <<sent, done, resp>> /\ why' = [why EXCEPT ![c] = "write"]
  BY <1>2 DEF WriteFails, Release, clientVars
<1>4. Closed(c)' /\ \A d \in Conns \ {c} : Closed(d)' = Closed(d)
  BY <1>3 DEF Closed, IInv, TypeOK
<1>5. \A d \in Conns : ~WritingTo(d)' /\ (WritingTo(d) <=> d = c)
  BY <1>1, <1>2, <1>3 DEF WritingTo
<1>6. Numbered' /\ InHandAnswer'
  BY <1>3, <1>5 DEF Answers, Numbered, InHandAnswer
<1>7. Parts'
  BY <1>3, <1>4, <1>5 DEF Answers, Parts
<1>8. Complete'
  <2>. SUFFICES ASSUME NEW d \in Conns, NEW i \in 1..Len(done[d]), done[d][i].kind \in Answering, d # c
                PROVE  \/ \E j \in 1..Len(resp[d]) : resp[d][j].rid = done[d][i].rid /\ resp[d][j].k = resp[d][j].n
                       \/ Closed(d)
    BY <1>3, <1>4 DEF Complete
  <2>1. Head(tx).rid = <<c, Len(done[c])>>
    BY <1>1, <1>5, RestGoesOn DEF Answers, InHandAnswer
  <2>2. done[d][i].rid = <<d, i>>
    BY DEF Answers, Numbered
  <2>3. Head(tx).rid # done[d][i].rid
    BY <2>1, <2>2
  <2>. QED  BY <2>3 DEF Answers, Complete
<1>. QED  BY <1>6, <1>7, <1>8 DEF Answers

-----------------------------------------------------------------------------

LEMMA StepAnswers == IInv /\ Places /\ Streams /\ Answers /\ [Next]_vars => Answers'
<1>. SUFFICES ASSUME IInv, Places, Streams, Answers, [Next]_vars  PROVE Answers'
  OBVIOUS
<1>1. \A c \in Conns : Closed(c) => Closed(c)'
  BY StepQuiet DEF QuietStep, Closed
<1>2. UNCHANGED <<sent, done>> => Numbered'
  BY DEF Answers, Numbered
<1>3. CASE UNCHANGED <<done, resp, pc, peer, slotFd, cur, tx>> /\ (sent' = sent \/ \E c \in Conns : Send(c))
  <2>1. Numbered'
    BY <1>2, <1>3, SendNumbers
  <2>. QED  BY <1>1, <1>3, <2>1, StillAnswers
<1>4. CASE UNCHANGED <<sent, done, resp>> /\ pc # "write" /\ pc' # "write"
  BY <1>1, <1>2, <1>4, StillAnswers
<1>5. CASE Environment
  <2>1. \A c \in Conns : Connect(c) \/ ShutdownWrites(c) \/ Close(c) \/ Receive(c) =>
          UNCHANGED <<sent, done, resp, pc, peer, slotFd, cur, tx>>
    BY DEF Connect, ShutdownWrites, Close, Receive, clientVars, kernelVars, slotVars, loopVars, history
  <2>2. \A c \in Conns : Send(c) => UNCHANGED <<done, resp, pc, peer, slotFd, cur, tx>>
    BY DEF Send, slotVars, loopVars, history
  <2>3. ChildDies \/ Terminate => UNCHANGED <<sent, done, resp, pc, peer, slotFd, cur, tx>>
    BY DEF ChildDies, Terminate, clientVars, slotVars, loopVars, history
  <2>. QED  BY <1>3, <1>5, <2>1, <2>2, <2>3 DEF Environment
<1>6. CASE Halted \/ WaitTimesOut \/ UNCHANGED vars
  <2>1. UNCHANGED <<sent, done, resp, pc, peer, slotFd, cur, tx>>
    BY <1>6 DEF Halted, WaitTimesOut, vars, clientVars, kernelVars, slotVars, loopVars, history
  <2>. QED  BY <1>3, <2>1
<1>7. CASE Wait \/ WaitFails \/ BatchDone \/ StartSignals \/ HandleSignals
  <2>1. UNCHANGED <<sent, done, resp>> /\ pc # "write" /\ pc' # "write"
    BY <1>7 DEF Wait, WaitFails, BatchDone, StartSignals, HandleSignals, clientVars, history
  <2>. QED  BY <1>4, <2>1
<1>8. CASE HandleAccept \/ HandleClientEvent
  <2>1. UNCHANGED <<sent, done, resp>> /\ pc # "write" /\ pc' # "write"
    BY <1>8 DEF HandleAccept, HandleClientEvent, clientVars
  <2>. QED  BY <1>4, <2>1
<1>9. CASE RejectFrame \/ FramesDone \/ Cleanup
  <2>1. UNCHANGED <<sent, done, resp>> /\ pc # "write" /\ pc' # "write"
    BY <1>9 DEF RejectFrame, FramesDone, Cleanup, clientVars
  <2>. QED  BY <1>4, <2>1
<1>10. CASE DispatchSilent \/ DispatchAnswered
  BY <1>10, DispatchAnswers
<1>11. CASE WritePart \/ WriteFails
  BY <1>11, WritePartAnswers, WriteFailsAnswers
<1>. QED  BY <1>5, <1>6, <1>7, <1>8, <1>9, <1>10, <1>11 DEF Next, Server

\* However the requests are cut by reads, pipelined, and their answers written in parts
\* that fail, a connection gets the answers to its own frames, in their order and whole.
THEOREM AnswersKeepOrder == Spec => []AnswersInOrder
<1>1. Init => Answers
  <2>. SUFFICES ASSUME Init  PROVE Answers
    OBVIOUS
  <2>1. \A c \in Conns : /\ Len(sent[c]) = 0 /\ Len(done[c]) = 0 /\ Len(resp[c]) = 0 /\ resp[c] = <<>>
                         /\ ~WritingTo(c)
    BY EmptySeq DEF Init, WritingTo
  <2>2. Numbered /\ InHandAnswer /\ Complete
    BY <2>1 DEF Numbered, InHandAnswer, Complete
  <2>3. Parts
    BY <2>1 DEF Parts, Ordered, EndsWhole
  <2>. QED  BY <2>2, <2>3 DEF Answers
<1>2. IInv /\ Answers => AnswersInOrder
  <2>. SUFFICES ASSUME IInv, Answers  PROVE InOrder
    BY DEF Answers, AnswersInOrder
  <2>. SUFFICES ASSUME NEW c \in Conns, NEW i \in 1..Len(resp[c]), i = Len(resp[c]), resp[c][i].k < resp[c][i].n, ~Closed(c)
                PROVE  WritingTo(c) /\ Head(tx).rid = resp[c][i].rid
    BY DEF Answers, Parts, Ordered, InOrder, WritingTo
  <2>1. resp[c] # <<>> /\ resp[c][i] \in Part /\ resp[c][i].k # resp[c][i].n
    <3>1. resp[c] \in Seq(Part)
      BY AnswerTypes
    <3>2. resp[c][i] \in Part
      BY <3>1, ElementOfSeq
    <3>3. resp[c][i].k \in Nat /\ resp[c][i].n \in Nat
      BY <3>2, PartFacts
    <3>4. Len(resp[c]) # 0
      OBVIOUS
    <3>. QED  BY <3>1, <3>2, <3>3, <3>4, EmptySeq
  <2>2. WritingTo(c) /\ Follows(Head(tx), resp[c])
    BY <2>1 DEF Answers, Parts, EndsWhole
  <2>3. resp[c][i] = [Head(tx) EXCEPT !.k = @ - 1]
    BY <2>1, <2>2 DEF Follows
  <2>4. Head(tx) \in Part
    <3>1. tx \in Seq(Part) /\ tx # <<>>
      BY <2>2 DEF IInv, TypeOK, Struct, Writing, WritingTo
    <3>. QED  BY <3>1, HeadTailProperties
  <2>. QED  BY <2>2, <2>3, <2>4 DEF Part
<1>. QED  BY <1>1, <1>2, InitialPlaces, StepQuiet, StepStreams, StepAnswers, Invariance, PTL DEF Spec

-----------------------------------------------------------------------------
(* Only a client that pipelines overflows a receive buffer.  A slot whose  *)
(* event is not in hand holds less than a header, or the beginning of a    *)
(* frame that fits the buffer (Settled); if the client has sent nothing    *)
(* after it, what can be read completes it at most.                        *)

Waits(s) == ~(pc \in {"frames", "write", "tail"} /\ s = cur)

Settled ==
  /\ \A s \in Slots : Waits(s) /\ Len(rx[s]) >= HeaderSize => Size(Head(rx[s]).f) <= Capacity
  /\ pc = "tail" => slotFd[cur] = NoFd

LEMMA EmptyIsShort == Len(<<>>) < HeaderSize
BY ServerAssumption, EmptySeq

\* What a client has sent that keeps one request outstanding is of one frame.
LEMMA OneFrame ==
  ASSUME NEW u \in Seq(Unit), u # <<>>, NEW q \in Seq(Frame), NEW p \in Nat, Chain(u, p, q), Len(q) < p + 2
  PROVE  Len(u) <= Size(u[1].f)
<1>. PICK n : n = Size(u[1].f)
  OBVIOUS
<1>1. Len(u) \in Nat /\ 1 \in 1..Len(u) /\ Len(q) \in Nat
  BY EmptySeq, LenProperties
<1>2. n \in Nat \ {0}
  BY <1>1, UnitFacts
<1>3. u[1].i = 1 /\ u[1].f.rid[2] = p + 1
  BY DEF Chain
<1>4. SUFFICES ASSUME 1 + n <= Len(u)  PROVE FALSE
  BY <1>1, <1>2
<1>5. u[1 + n].f.rid[2] = p + 2 /\ 1 + n \in 1..Len(u)
  BY <1>1, <1>2, <1>3, <1>4 DEF Chain
<1>6. u[1 + n].f.rid[2] \in 1..Len(q)
  BY <1>5 DEF Chain
<1>. QED  BY <1>1, <1>5, <1>6

LEMMA OverflowMeansTwo ==
  ASSUME IInv, Streams, Settled, pc = "batch", NEW s \in Slots, slotFd[s] # NoFd, NEW c \in Conns, c = peer[slotFd[s]],
         NEW k \in 1..Len(inq[c]), k <= Chunk, Overflows(s, k)
  PROVE  Len(sent[c]) >= Len(done[c]) + 2
<1>. DEFINE u == rx[s] \o inq[c]
<1>1. /\ rx[s] \in Seq(Unit) /\ inq[c] \in Seq(Unit) /\ sent[c] \in Seq(Frame)
      /\ Len(rx[s]) \in Nat /\ Len(inq[c]) \in Nat /\ Len(sent[c]) \in Nat /\ Len(done[c]) \in Nat
  BY StreamTypes, LenProperties
<1>2. u \in Seq(Unit) /\ Len(u) = Len(rx[s]) + Len(inq[c])
  BY <1>1, ConcatProperties
<1>3. Len(rx[s]) + k > Capacity /\ Capacity \in Nat /\ HeaderSize \in Nat /\ Chunk \in Nat
  BY ServerAssumption DEF Overflows
<1>4. Len(rx[s]) >= HeaderSize
  BY <1>1, <1>3, ReadAssumption
<1>5. Size(Head(rx[s]).f) <= Capacity
  BY <1>4 DEF Settled, Waits
<1>6. rx[s] # <<>>
  BY <1>4, EmptyIsShort, <1>3, EmptySeq
<1>7. u # <<>> /\ u[1] = Head(rx[s]) /\ Head(rx[s]) \in Unit
  BY <1>1, <1>6, ConcatFront
<1>8. Chain(u, Len(done[c]), sent[c])
  BY DEF Streams, BufferedGood, Good, FrontOf
<1>9. Size(u[1].f) \in Nat /\ Size(u[1].f) <= Capacity
  BY <1>5, <1>7, SizePositive
<1>10. u # <<>>
  BY <1>7
<1>. HIDE DEF u
<1>11. ~(Len(u) <= Size(u[1].f))
  <2>1. PICK a, b, l, n \in Nat : a = Len(rx[s]) /\ b = Len(inq[c]) /\ l = Len(u) /\ n = Size(u[1].f)
    <3>1. Len(u) \in Nat
      BY <1>2, LenProperties
    <3>. QED  BY <1>1, <1>9, <3>1
  <2>2. k \in 1..b /\ a + k > Capacity /\ l = a + b /\ n <= Capacity
    BY <1>2, <1>3, <1>9, <2>1
  <2>3. ~(l <= n)
    BY <1>3, <2>2
  <2>. QED  BY <2>1, <2>3
<1>12. ~(Len(sent[c]) < Len(done[c]) + 2)
  BY <1>1, <1>2, <1>8, <1>10, <1>11, OneFrame
<1>. QED  BY <1>1, <1>12

\* Releasing a slot settles it.
LEMMA ReleaseSettles ==
  ASSUME IInv, Settled, NEW s \in Slots, NEW r, Release(s, r), cur' = cur \/ (pc = "batch" /\ pc' = "batch"),
         pc \in {"frames", "write", "tail"} => s = cur, pc' = "tail" => s = cur /\ cur' = cur
  PROVE  Settled'
<1>1. rx'[s] = <<>> /\ slotFd'[s] = NoFd /\ \A t \in Slots \ {s} : rx'[t] = rx[t]
  BY DEF Release, IInv, TypeOK
<1>2. \A t \in Slots \ {s} : Waits(t)
  BY DEF Waits
<1>3. Len(rx'[s]) < HeaderSize /\ Len(rx'[s]) \in Nat /\ HeaderSize \in Nat
  BY <1>1, EmptyIsShort, EmptySeq, ServerAssumption
<1>4. \A t \in Slots : Len(rx'[t]) >= HeaderSize => t # s
  BY <1>3
<1>. QED  BY <1>1, <1>2, <1>4 DEF Settled

LEMMA StillSettled ==
  ASSUME Settled, UNCHANGED <<rx, slotFd, cur>>, pc' # "tail" \/ pc' = pc,
         pc \in {"frames", "write", "tail"} => pc' \in {"frames", "write", "tail"}
  PROVE  Settled'
BY DEF Settled, Waits

LEMMA CompactSettled ==
  ASSUME Settled, Compact, UNCHANGED <<slotFd, cur>>, pc' \in {"frames", "write"}, rx \in [Slots -> Seq(Unit)]
  PROVE  Settled'
<1>1. \A s \in Slots \ {cur} : rx'[s] = rx[s] /\ Waits(s)
  BY DEF Compact, Waits
<1>2. \A s \in Slots : Waits(s)' => s # cur
  BY DEF Waits
<1>. QED  BY <1>1, <1>2 DEF Settled

\* Of a step that makes no overflow.
NoOverflow == \A c \in Conns : why'[c] = "overflow" => why[c] = "overflow"

LEMMA ReleaseNoOverflow ==
  ASSUME IInv, NEW s \in Slots, NEW r, Release(s, r), r # "overflow"
  PROVE  NoOverflow
BY DEF Release, NoOverflow, IInv, TypeOK

LEMMA AcceptSettles ==
  ASSUME IInv, Settled, HandleAccept
  PROVE  Settled' /\ NoOverflow
<1>1. pc = "batch" /\ pc' = pc /\ cur' = cur
  BY DEF HandleAccept
<1>2. \/ UNCHANGED <<slotFd, rx>>
      \/ \E s \in Slots : rx' = [rx EXCEPT ![s] = <<>>]
  <2>1. CASE UNCHANGED slotVars
    BY <2>1 DEF slotVars
  <2>2. CASE FreeSlots # {} /\ rx' = [rx EXCEPT ![Min(FreeSlots)] = <<>>]
    <3>1. Min(FreeSlots) \in Slots
      <4>1. FreeSlots \in SUBSET Slots
        BY DEF FreeSlots
      <4>. QED  BY <2>2, <4>1, MinIsMember
    <3>. QED  BY <2>2, <3>1
  <2>. QED  BY <2>1, <2>2 DEF HandleAccept
<1>3. Settled'
  <2>1. \A s \in Slots : rx'[s] = rx[s] \/ rx'[s] = <<>>
    BY <1>2 DEF IInv, TypeOK
  <2>2. \A s \in Slots : Len(rx'[s]) >= HeaderSize => rx'[s] = rx[s]
    <3>1. ~(Len(<<>>) >= HeaderSize)
      BY EmptyIsShort, EmptySeq, ServerAssumption
    <3>. QED  BY <2>1, <3>1
  <2>. QED  BY <1>1, <2>2 DEF Settled, Waits
<1>4. NoOverflow
  <2>1. why' = why \/ \E r \in {"full", "reactor"} : why' = [why EXCEPT ![Head(backlog)] = r]
    BY DEF HandleAccept
  <2>. QED  BY <2>1 DEF NoOverflow, IInv, TypeOK
<1>. QED  BY <1>3, <1>4

LEMMA ClientEventSettles ==
  ASSUME IInv, Streams, Settled, HandleClientEvent
  PROVE  /\ Settled'
         /\ \A c \in Conns : why'[c] = "overflow" => why[c] = "overflow" \/ Len(sent[c]) >= Len(done[c]) + 2
<1>1. PICK e \in batch :
        /\ e.fd \in Fds
        /\ SlotsOf(e.fd) # {} =>
             LET s == Min(SlotsOf(e.fd))
                 in == inq[peer[e.fd]]
                 most == Min({Len(in), Chunk})
             IN /\ cur' = s
                /\ \/ Release(s, "eof") /\ pc' = "batch"
                   \/ \E k \in (IF e.hup THEN {most} ELSE 1..most) \ {0} :
                        \/ Overflows(s, k) /\ Release(s, "overflow") /\ pc' = "batch"
                        \/ /\ rx' = [rx EXCEPT ![s] = @ \o SubSeq(in, 1, k)]
                           /\ pc' = "frames" /\ UNCHANGED <<slotFd, why>>
  BY DEF HandleClientEvent
<1>2. pc = "batch" /\ SlotsOf(e.fd) # {} /\ e \in Event
  BY <1>1 DEF HandleClientEvent, IInv, TypeOK, Struct, EventsFresh
<1>3. PICK s \in Slots : s = Min(SlotsOf(e.fd)) /\ slotFd[s] = e.fd /\ slotFd[s] # NoFd
  <2>1. SlotsOf(e.fd) \in SUBSET Slots
    BY DEF SlotsOf
  <2>2. Min(SlotsOf(e.fd)) \in SlotsOf(e.fd)
    BY <1>2, <2>1, MinIsMember
  <2>. QED  BY <1>1, <2>2, ServerAssumption DEF SlotsOf
<1>4. PICK c \in Conns : c = peer[slotFd[s]]
  BY <1>3, StreamTypes
<1>5. CASE Release(s, "eof") /\ pc' = "batch"
  <2>1. Settled' /\ NoOverflow
    BY <1>2, <1>5, ReleaseSettles, ReleaseNoOverflow
  <2>. QED  BY <2>1 DEF NoOverflow
<1>6. ASSUME NEW k \in (IF e.hup THEN {Min({Len(inq[c]), Chunk})} ELSE 1..Min({Len(inq[c]), Chunk})) \ {0},
             Overflows(s, k), Release(s, "overflow"), pc' = "batch"
      PROVE  /\ Settled'
             /\ \A d \in Conns : why'[d] = "overflow" => why[d] = "overflow" \/ Len(sent[d]) >= Len(done[d]) + 2
  <2>1. Settled'
    BY <1>2, <1>6, ReleaseSettles
  <2>2. k \in 1..Len(inq[c]) /\ k <= Chunk
    <3>1. Len(inq[c]) \in Nat /\ e.hup \in BOOLEAN
      BY <1>2, StreamTypes, LenProperties DEF Event
    <3>. QED  BY <1>6, <3>1, ReadFits
  <2>3. Len(sent[c]) >= Len(done[c]) + 2
    BY <1>2, <1>3, <1>4, <1>6, <2>2, OverflowMeansTwo
  <2>4. \A d \in Conns \ {c} : why'[d] = why[d]
    BY <1>4, <1>6 DEF Release
  <2>. QED  BY <2>1, <2>3, <2>4
<1>7. ASSUME pc' = "frames", cur' = s, UNCHANGED <<slotFd, why>>, NEW w, rx' = [rx EXCEPT ![s] = w]
      PROVE  Settled'
  <2>1. \A t \in Slots \ {s} : rx'[t] = rx[t] /\ Waits(t)
    BY <1>2, <1>7 DEF Waits
  <2>2. \A t \in Slots : Waits(t)' => t # s
    BY <1>7 DEF Waits
  <2>. QED  BY <1>7, <2>1, <2>2 DEF Settled
<1>. QED  BY <1>1, <1>2, <1>3, <1>4, <1>5, <1>6, <1>7

LEMMA LoopSettles ==
  ASSUME IInv, Settled, RejectFrame \/ FramesDone \/ DispatchSilent \/ DispatchAnswered \/ WritePart \/ WriteFails
  PROVE  Settled' /\ NoOverflow
<1>0. cur \in Slots /\ rx \in [Slots -> Seq(Unit)]
  BY DEF IInv, TypeOK
<1>1. CASE RejectFrame
  <2>1. pc = "frames" /\ pc' = "tail" /\ cur' = cur /\ Release(cur, "protocol")
    BY <1>1 DEF RejectFrame
  <2>. QED  BY <1>0, <2>1, ReleaseSettles, ReleaseNoOverflow
<1>2. CASE FramesDone
  <2>1. /\ pc' = "batch" /\ cur' = cur
        /\ pc = "tail" \/ (pc = "frames" /\ ~Rejected /\ ~FrameIn)
        /\ Release(cur, "hup") \/ KeepSlots
    BY <1>2 DEF FramesDone
  <2>2. CASE Release(cur, "hup")
    BY <1>0, <2>1, <2>2, ReleaseSettles, ReleaseNoOverflow
  <2>3. CASE KeepSlots
    <3>1. UNCHANGED <<rx, slotFd, why>>
      BY <2>3 DEF KeepSlots, slotVars
    <3>2. Len(rx[cur]) >= HeaderSize => Size(Head(rx[cur]).f) <= Capacity
      <4>1. CASE pc = "tail"
        <5>1. rx[cur] = <<>>
          BY <1>0, <4>1 DEF Settled, IInv, Struct, RxBounded
        <5>2. ~(Len(<<>>) >= HeaderSize)
          BY EmptyIsShort, EmptySeq, ServerAssumption
        <5>. QED  BY <5>1, <5>2
      <4>2. CASE pc = "frames" /\ ~Rejected
        <5>. SUFFICES ASSUME HeaderIn  PROVE Size(Head(rx[cur]).f) <= Capacity
          BY DEF HeaderIn
        <5>1. Head(rx[cur]) \in Unit
          BY FrontIsLive
        <5>2. Head(rx[cur]).f.plen \in Nat
          <6>1. Head(rx[cur]).f \in Frame
            BY <5>1 DEF Unit
          <6>. QED  BY <6>1 DEF Frame
        <5>3. ~(Head(rx[cur]).f.plen > Capacity - HeaderSize)
          BY <4>2 DEF Rejected
        <5>. QED  BY <5>2, <5>3, ServerAssumption DEF Size
      <4>. QED  BY <2>1, <4>1, <4>2
    <3>3. \A s \in Slots \ {cur} : Waits(s)
      BY DEF Waits
    <3>. QED  BY <2>1, <3>1, <3>2, <3>3 DEF Settled, NoOverflow
  <2>. QED  BY <2>1, <2>2, <2>3
<1>3. CASE DispatchSilent
  <2>1. pc' = "frames" /\ Compact /\ UNCHANGED <<slotFd, cur, why>>
    BY <1>3 DEF DispatchSilent
  <2>. QED  BY <1>0, <2>1, CompactSettled DEF NoOverflow
<1>4. CASE DispatchAnswered
  <2>1. pc = "frames" /\ pc' = "write" /\ UNCHANGED <<rx, slotFd, cur, why>>
    BY <1>4 DEF DispatchAnswered, slotVars
  <2>. QED  BY <2>1, StillSettled DEF NoOverflow
<1>5. CASE WritePart
  <2>1. pc = "write" /\ UNCHANGED <<slotFd, cur, why>> /\ ((Compact /\ pc' = "frames") \/ UNCHANGED <<rx, pc>>)
    BY <1>5 DEF WritePart
  <2>2. CASE Compact /\ pc' = "frames"
    BY <1>0, <2>1, <2>2, CompactSettled DEF NoOverflow
  <2>3. CASE UNCHANGED <<rx, pc>>
    BY <2>1, <2>3, StillSettled DEF NoOverflow
  <2>. QED  BY <2>1, <2>2, <2>3
<1>6. CASE WriteFails
  <2>1. pc = "write" /\ pc' = "frames" /\ cur' = cur /\ Release(cur, "write")
    BY <1>6 DEF WriteFails
  <2>. QED  BY <1>0, <2>1, ReleaseSettles, ReleaseNoOverflow
<1>. QED  BY <1>1, <1>2, <1>3, <1>4, <1>5, <1>6

LEMMA CleanupSettles ==
  ASSUME IInv, Settled, Cleanup
  PROVE  Settled' /\ NoOverflow
<1>1. pc' = "stopped" /\ \A s \in Slots : rx'[s] = rx[s] \/ rx'[s] = <<>>
  BY DEF Cleanup
<1>2. pc = "loop"
  BY DEF Cleanup
<1>3. \A s \in Slots : Len(rx'[s]) >= HeaderSize => rx'[s] = rx[s]
  <2>1. ~(Len(<<>>) >= HeaderSize)
    BY EmptyIsShort, EmptySeq, ServerAssumption
  <2>. QED  BY <1>1, <2>1
<1>4. \A c \in Conns : why'[c] = why[c] \/ why'[c] = "stop"
  BY DEF Cleanup
<1>. QED  BY <1>1, <1>2, <1>3, <1>4 DEF Settled, Waits, NoOverflow

\* Nothing is sent on a connection that the server has closed.
LEMMA ClosedSendsNothing ==
  ASSUME [Next]_vars
  PROVE  \A c \in Conns : Closed(c) => sent'[c] = sent[c]
<1>1. CASE sent' = sent
  BY <1>1
<1>2. CASE \E c \in Conns : Send(c)
  BY <1>2 DEF Send
<1>3. CASE Environment
  <2>1. \A c \in Conns : Connect(c) \/ ShutdownWrites(c) \/ Close(c) \/ Receive(c) => sent' = sent
    BY DEF Connect, ShutdownWrites, Close, Receive, clientVars
  <2>2. ChildDies \/ Terminate => sent' = sent
    BY DEF ChildDies, Terminate, clientVars
  <2>. QED  BY <1>1, <1>2, <1>3, <2>1, <2>2 DEF Environment
<1>4. CASE Server \/ Halted \/ UNCHANGED vars
  BY <1>1, <1>4 DEF Server, Wait, WaitTimesOut, WaitFails, BatchDone, StartSignals, HandleSignals, HandleAccept,
     HandleClientEvent, RejectFrame, FramesDone, DispatchSilent, DispatchAnswered, WritePart, WriteFails, Cleanup,
     Halted, vars, clientVars
<1>. QED  BY <1>3, <1>4 DEF Next

LEMMA StepSettles ==
  IInv /\ Places /\ Streams /\ Settled /\ OverflowOnlyWhenPipelining /\ [Next]_vars
    => Settled' /\ OverflowOnlyWhenPipelining'
<1>. SUFFICES ASSUME IInv, Places, Streams, Settled, OverflowOnlyWhenPipelining, [Next]_vars
              PROVE  Settled' /\ OverflowOnlyWhenPipelining'
  OBVIOUS
<1>1. NoOverflow => OverflowOnlyWhenPipelining'
  <2>. SUFFICES ASSUME NoOverflow, NEW c \in Conns, why'[c] = "overflow"
                PROVE  Len(sent'[c]) >= Len(done'[c]) + 2
    BY DEF OverflowOnlyWhenPipelining
  <2>1. why[c] = "overflow" /\ Closed(c)
    BY DEF NoOverflow, Closed
  <2>2. done'[c] = done[c] /\ sent'[c] = sent[c]
    BY <2>1, StepQuiet, ClosedSendsNothing DEF QuietStep
  <2>. QED  BY <2>1, <2>2 DEF OverflowOnlyWhenPipelining
<1>2. CASE Environment
  <2>1. UNCHANGED <<rx, slotFd, cur, pc, why>>
    <3>1. \A c \in Conns : Connect(c) \/ Send(c) \/ ShutdownWrites(c) \/ Close(c) \/ Receive(c) =>
            UNCHANGED <<rx, slotFd, cur, pc, why>>
      BY DEF Connect, Send, ShutdownWrites, Close, Receive, slotVars, loopVars, history
    <3>2. ChildDies \/ Terminate => UNCHANGED <<rx, slotFd, cur, pc, why>>
      BY DEF ChildDies, Terminate, slotVars, loopVars, history
    <3>. QED  BY <1>2, <3>1, <3>2 DEF Environment
  <2>. QED  BY <1>1, <2>1, StillSettled DEF NoOverflow
<1>3. CASE Halted \/ WaitTimesOut \/ UNCHANGED vars
  <2>1. UNCHANGED <<rx, slotFd, cur, pc, why>>
    BY <1>3 DEF Halted, WaitTimesOut, vars, slotVars, loopVars, history
  <2>. QED  BY <1>1, <2>1, StillSettled DEF NoOverflow
<1>4. CASE Wait \/ WaitFails \/ BatchDone \/ StartSignals \/ HandleSignals
  <2>1. UNCHANGED <<rx, slotFd, cur, why>>
    BY <1>4 DEF Wait, WaitFails, BatchDone, StartSignals, HandleSignals, slotVars, history
  <2>2. pc \in {"loop", "batch", "signals"} /\ pc' # "tail"
    BY <1>4 DEF Wait, WaitFails, BatchDone, StartSignals, HandleSignals
  <2>. QED  BY <1>1, <2>1, <2>2, StillSettled DEF NoOverflow
<1>5. CASE HandleAccept
  BY <1>1, <1>5, AcceptSettles
<1>6. CASE HandleClientEvent
  <2>1. /\ Settled'
        /\ \A c \in Conns : why'[c] = "overflow" => why[c] = "overflow" \/ Len(sent[c]) >= Len(done[c]) + 2
    BY <1>6, ClientEventSettles
  <2>2. UNCHANGED <<sent, done>>
    BY <1>6 DEF HandleClientEvent, clientVars
  <2>3. OverflowOnlyWhenPipelining'
    BY <2>1, <2>2 DEF OverflowOnlyWhenPipelining
  <2>. QED  BY <2>1, <2>3
<1>7. CASE RejectFrame \/ FramesDone \/ DispatchSilent \/ DispatchAnswered \/ WritePart \/ WriteFails
  BY <1>1, <1>7, LoopSettles
<1>8. CASE Cleanup
  BY <1>1, <1>8, CleanupSettles
<1>. QED  BY <1>2, <1>3, <1>4, <1>5, <1>6, <1>7, <1>8 DEF Next, Server

\* A client with one request outstanding is never cut off for overflowing the receive
\* buffer, however its bytes are cut by reads: what is buffered of a frame that will be
\* accepted leaves room for the rest of it.
THEOREM OnlyPipelinersOverflow == Spec => []OverflowOnlyWhenPipelining
<1>1. Init => Settled /\ OverflowOnlyWhenPipelining
  <2>. SUFFICES ASSUME Init  PROVE Settled /\ OverflowOnlyWhenPipelining
    OBVIOUS
  <2>1. \A s \in Slots : ~(Len(rx[s]) >= HeaderSize)
    BY EmptyIsShort, EmptySeq, ServerAssumption DEF Init
  <2>2. pc # "tail" /\ \A c \in Conns : why[c] # "overflow"
    BY DEF Init
  <2>. QED  BY <2>1, <2>2 DEF Settled, OverflowOnlyWhenPipelining
<1>. QED  BY <1>1, InitialPlaces, StepQuiet, StepStreams, StepSettles, Invariance, PTL DEF Spec

-----------------------------------------------------------------------------
(* A client that shuts down its writes behind requests that fit one read   *)
(* is served before the hang-up closes its slot.  The event in hand says   *)
(* whether the client had hung up when it was collected (HangUps): the     *)
(* read that follows then leaves nothing in the socket, or has found more  *)
(* than a read takes (HupInHand), because a socket never holds more than   *)
(* what was sent (ReadSent).  When no frame is left to extract, the buffer *)
(* is empty, because it ends with a whole frame (Streams).                 *)

DonePrefix == \A c \in Conns : \A j \in 1..Len(done[c]) : done[c][j] = sent[c][j]
ReadSent == \A c \in Conns : Len(inq[c]) <= Total(sent[c])
HupInHand ==
  pc \in {"frames", "write"} /\ slotFd[cur] # NoFd =>
    /\ peer[ev.fd] = ev.conn
    /\ ev.hup => /\ HungUp(ev.conn)
                 /\ cstate[ev.conn] = "shut" => inq[ev.conn] = <<>> \/ Total(sent[ev.conn]) > Chunk
HangUps ==
  /\ \A e \in batch : e.fd \in Fds /\ e.hup => HungUp(e.conn)
  /\ \A c \in Conns : why[c] = "hup" => HungUp(c)

HalfClose == DonePrefix /\ ReadSent /\ HupInHand /\ HangUps /\ HalfCloseServesOneRead

-----------------------------------------------------------------------------
(* The length of a sequence of frames. *)

LEMMA Induction ==
  ASSUME NEW T \in SUBSET Nat, 0 \in T, \A k \in T : k + 1 \in T
  PROVE  Nat \subseteq T
<1>. DEFINE Less == OpToRel(<, Nat)
            Rest == Nat \ T
<1>1. \A a, b \in Nat : a < b => <<a, b>> \in Less
  BY DEF OpToRel
<1>2. IsWellFoundedOn(Less, Nat)
  BY NatLessThanWellFounded
<1>. SUFFICES ASSUME Rest # {}  PROVE FALSE
  OBVIOUS
<1>3. Rest \subseteq Nat
  OBVIOUS
<1>. HIDE DEF Less
<1>4. PICK x \in Rest : \A y \in Rest : ~ (<<y, x>> \in Less)
  BY <1>2, <1>3, WFMin
<1>5. x \in Nat /\ x # 0 /\ x - 1 \in Nat /\ x - 1 < x /\ (x - 1) + 1 = x
  BY <1>4
<1>6. x - 1 \in T
  BY <1>1, <1>4, <1>5
<1>. QED  BY <1>4, <1>5, <1>6

\* g adds up the lengths of the first n frames of fs.
Sums(g, n, fs) == g[0] = 0 /\ \A i \in 1..n : g[i] = g[i - 1] + Size(fs[i])

Summed(n, fs) == \E g \in [0..n -> Nat] : Sums(g, n, fs)

LEMMA SizesAreNat ==
  ASSUME NEW fs \in Seq(Frame)
  PROVE  Len(fs) \in Nat /\ \A i \in 1..Len(fs) : Size(fs[i]) \in Nat
<1>1. Len(fs) \in Nat /\ \A i \in 1..Len(fs) : fs[i] \in Frame
  BY LenProperties, ElementOfSeq
<1>2. \A f \in Frame : Size(f) \in Nat
  BY ServerAssumption DEF Size, Frame
<1>. QED  BY <1>1, <1>2

LEMMA SumsExist ==
  ASSUME NEW fs \in Seq(Frame), NEW n \in 0..Len(fs)
  PROVE  Summed(n, fs)
<1>. DEFINE T == {m \in Nat : m <= Len(fs) => Summed(m, fs)}
<1>1. 0 \in T
  <2>1. [i \in 0..0 |-> 0] \in [0..0 -> Nat] /\ Sums([i \in 0..0 |-> 0], 0, fs)
    BY DEF Sums
  <2>. QED  BY <2>1 DEF Summed
<1>2. ASSUME NEW k \in T  PROVE k + 1 \in T
  <2>. SUFFICES ASSUME k + 1 <= Len(fs)  PROVE Summed(k + 1, fs)
    OBVIOUS
  <2>1. k \in Nat /\ k + 1 \in 1..Len(fs) /\ k <= Len(fs)
    BY SizesAreNat
  <2>2. PICK f \in [0..k -> Nat] : Sums(f, k, fs)
    BY <2>1 DEF Summed
  <2>3. Size(fs[k + 1]) \in Nat
    BY <2>1, SizesAreNat
  <2>. HIDE DEF T
  <2>. DEFINE g == [i \in 0..(k + 1) |-> IF i = k + 1 THEN f[k] + Size(fs[k + 1]) ELSE f[i]]
  <2>4. g \in [0..(k + 1) -> Nat]
    <3>1. \A i \in 0..(k + 1) : i = k + 1 \/ i \in 0..k
      BY <2>1
    <3>2. k \in 0..k
      BY <2>1
    <3>. QED  BY <2>2, <2>3, <3>1, <3>2
  <2>5. g[0] = 0
    BY <2>1, <2>2 DEF Sums
  <2>6. ASSUME NEW i \in 1..(k + 1)  PROVE g[i] = g[i - 1] + Size(fs[i])
    <3>1. i \in 0..(k + 1) /\ i - 1 \in 0..(k + 1) /\ i - 1 # k + 1
      BY <2>1
    <3>2. CASE i = k + 1
      <4>1. i - 1 = k
        BY <2>1, <3>2
      <4>. QED  BY <3>1, <3>2, <4>1
    <3>3. CASE i # k + 1
      <4>1. i \in 1..k
        BY <2>1, <3>3
      <4>. QED  BY <2>2, <3>1, <3>3, <4>1 DEF Sums
    <3>. QED  BY <3>2, <3>3
  <2>. HIDE DEF g
  <2>7. Sums(g, k + 1, fs)
    BY <2>5, <2>6 DEF Sums
  <2>. QED  BY <2>4, <2>7 DEF Summed
<1>. HIDE DEF T
<1>3. T \in SUBSET Nat
  BY DEF T
<1>4. n \in Nat /\ n <= Len(fs)
  BY SizesAreNat
<1>5. n \in T
  BY <1>1, <1>2, <1>3, <1>4, Induction
<1>. QED  BY <1>4, <1>5 DEF T

\* Sums of sequences that begin alike are alike.
LEMMA SumsAgree ==
  ASSUME NEW n \in Nat, NEW fs, NEW gs, NEW f, NEW g, Sums(f, n, fs), Sums(g, n, gs),
         \A i \in 1..n : fs[i] = gs[i]
  PROVE  f[n] = g[n]
<1>. DEFINE T == {m \in Nat : m <= n => f[m] = g[m]}
<1>1. 0 \in T
  BY DEF Sums
<1>2. ASSUME NEW m \in T  PROVE m + 1 \in T
  <2>. SUFFICES ASSUME m + 1 <= n  PROVE f[m + 1] = g[m + 1]
    OBVIOUS
  <2>1. m + 1 \in 1..n /\ (m + 1) - 1 = m
    OBVIOUS
  <2>2. f[m] = g[m]
    OBVIOUS
  <2>. HIDE DEF T
  <2>3. f[m + 1] = f[m] + Size(fs[m + 1]) /\ g[m + 1] = g[m] + Size(gs[m + 1])
    BY <2>1 DEF Sums
  <2>. QED  BY <2>1, <2>2, <2>3
<1>. HIDE DEF T
<1>3. T \in SUBSET Nat
  BY DEF T
<1>4. n \in T
  BY <1>1, <1>2, <1>3, Induction
<1>. QED  BY <1>4 DEF T

\* Total is the last of the sums.
LEMMA TotalIs ==
  ASSUME NEW fs \in Seq(Frame)
  PROVE  \E g \in [0..Len(fs) -> Nat] : Sums(g, Len(fs), fs) /\ Total(fs) = g[Len(fs)]
<1>. PICK n : n = Len(fs)
  OBVIOUS
<1>. DEFINE Def(g) == [i \in 0..n |-> IF i = 0 THEN 0 ELSE g[i - 1] + Size(fs[i])]
            upto == CHOOSE g : g = Def(g)
<1>1. n \in Nat /\ n \in 0..n
  BY SizesAreNat
<1>2. PICK g \in [0..n -> Nat] : Sums(g, n, fs)
  BY <1>1, SumsExist DEF Summed
<1>3. g = Def(g)
  <2>1. ASSUME NEW i \in 0..n  PROVE g[i] = IF i = 0 THEN 0 ELSE g[i - 1] + Size(fs[i])
    <3>1. i = 0 \/ i \in 1..n
      BY <1>1
    <3>. QED  BY <1>2, <3>1 DEF Sums
  <2>. QED  BY <2>1
<1>4. upto = Def(upto)
  <2>. HIDE DEF Def
  <2>. QED  BY <1>3
<1>5. Total(fs) = upto[n]
  BY DEF Total
<1>. HIDE DEF upto
<1>6. Sums(upto, n, fs)
  <2>1. ASSUME NEW i \in 0..n  PROVE upto[i] = IF i = 0 THEN 0 ELSE upto[i - 1] + Size(fs[i])
    BY <1>4
  <2>2. 0 \in 0..n /\ \A i \in 1..n : i \in 0..n /\ i # 0
    BY <1>1
  <2>. QED  BY <2>1, <2>2 DEF Sums
<1>7. upto[n] = g[n]
  BY <1>1, <1>2, <1>6, SumsAgree
<1>. QED  BY <1>2, <1>5, <1>7

LEMMA TotalNat ==
  ASSUME NEW fs \in Seq(Frame)
  PROVE  Total(fs) \in Nat
<1>1. Len(fs) \in 0..Len(fs)
  BY SizesAreNat
<1>. QED  BY <1>1, TotalIs

LEMMA TotalAppend ==
  ASSUME NEW fs \in Seq(Frame), NEW f \in Frame
  PROVE  Total(Append(fs, f)) = Total(fs) + Size(f)
<1>1. PICK gs : gs = Append(fs, f)
  OBVIOUS
<1>2. PICK n : n = Len(fs)
  OBVIOUS
<1>3. gs \in Seq(Frame) /\ n \in Nat /\ Len(gs) = n + 1 /\ gs[n + 1] = f /\ \A i \in 1..n : fs[i] = gs[i]
  BY <1>1, <1>2, AppendProperties, LenProperties
<1>4. PICK g : Sums(g, n, fs) /\ Total(fs) = g[n]
  BY <1>2, TotalIs
<1>5. PICK h : Sums(h, n + 1, gs) /\ Total(gs) = h[n + 1]
  BY <1>3, TotalIs
<1>6. Sums(h, n, gs) /\ h[n + 1] = h[n] + Size(f)
  <2>1. n + 1 \in 1..(n + 1) /\ (n + 1) - 1 = n /\ \A i \in 1..n : i \in 1..(n + 1)
    BY <1>3
  <2>. QED  BY <1>3, <1>5, <2>1 DEF Sums
<1>7. g[n] = h[n]
  <2>1. n \in Nat /\ \A i \in 1..n : fs[i] = gs[i]
    BY <1>3
  <2>2. Sums(g, n, fs) /\ Sums(h, n, gs)
    BY <1>4, <1>6
  <2>. QED  BY <2>1, <2>2, SumsAgree
<1>. QED  BY <1>4, <1>5, <1>6, <1>7, <1>1, Zenon

-----------------------------------------------------------------------------
(* What the steps leave to the conjuncts. *)

\* A client that has hung up sends nothing more, and does not come back.
LEMMA HangUpLasts ==
  ASSUME TypeOK, Environment, NEW c \in Conns, HungUp(c)
  PROVE  /\ HungUp(c)' /\ sent'[c] = sent[c] /\ (cstate'[c] = "shut" => cstate[c] = "shut")
         /\ inq'[c] = inq[c] \/ inq'[c] = <<>>
<1>. USE DEF HungUp
<1>1. ASSUME NEW d \in Conns, Connect(d) \/ Send(d) \/ ShutdownWrites(d)
      PROVE  cstate'[c] = cstate[c] /\ sent'[c] = sent[c] /\ inq'[c] = inq[c]
  <2>1. d # c
    BY <1>1 DEF Connect, Send, ShutdownWrites
  <2>2. CASE Connect(d)
    BY <2>1, <2>2 DEF Connect, TypeOK
  <2>3. CASE Send(d)
    BY <2>1, <2>3 DEF Send, TypeOK
  <2>4. CASE ShutdownWrites(d)
    BY <2>1, <2>4 DEF ShutdownWrites, TypeOK, kernelVars
  <2>. QED  BY <1>1, <2>2, <2>3, <2>4
<1>2. ASSUME NEW d \in Conns, Close(d)
      PROVE  /\ cstate'[c] = cstate[c] \/ cstate'[c] = "gone"
             /\ sent'[c] = sent[c] /\ (inq'[c] = inq[c] \/ inq'[c] = <<>>)
  BY <1>2 DEF Close, TypeOK
<1>3. CASE ChildDies \/ Terminate \/ \E d \in Conns : Receive(d)
  BY <1>3 DEF ChildDies, Terminate, Receive, clientVars
<1>. QED  BY <1>1, <1>2, <1>3 DEF Environment

LEMMA EnvironmentElsewhere ==
  ASSUME Environment
  PROVE  UNCHANGED <<pc, slotFd, cur, peer, ev, batch, why, done>>
<1>1. ASSUME NEW c \in Conns, Connect(c) \/ Send(c) \/ ShutdownWrites(c) \/ Close(c) \/ Receive(c)
      PROVE  UNCHANGED <<pc, slotFd, cur, peer, ev, batch, why, done>>
  BY <1>1 DEF Connect, Send, ShutdownWrites, Close, Receive, kernelVars, slotVars, loopVars, history
<1>2. CASE ChildDies \/ Terminate
  BY <1>2 DEF ChildDies, Terminate, slotVars, loopVars, history
<1>. QED  BY <1>1, <1>2 DEF Environment

LEMMA ServerLeavesClients ==
  ASSUME Server \/ Halted \/ UNCHANGED vars
  PROVE  UNCHANGED <<cstate, sent>>
BY DEF Server, Wait, WaitTimesOut, WaitFails, BatchDone, StartSignals, HandleSignals, HandleAccept,
   HandleClientEvent, RejectFrame, FramesDone, DispatchSilent, DispatchAnswered, WritePart, WriteFails, Cleanup,
   Halted, vars, clientVars

LEMMA SendsFrame ==
  ASSUME IInv, NEW c \in Conns, Send(c)
  PROVE  \E f \in Frame : /\ sent' = [sent EXCEPT ![c] = Append(@, f)]
                          /\ inq' = [inq EXCEPT ![c] = @ \o Encode(f)]
<1>1. PICK m \in Menu :
        LET f == [kind |-> m.kind, plen |-> m.plen, rid |-> <<c, Len(sent[c]) + 1>>] IN
          /\ sent' = [sent EXCEPT ![c] = Append(@, f)]
          /\ inq' = [inq EXCEPT ![c] = @ \o Encode(f)]
  BY DEF Send
<1>. DEFINE f == [kind |-> m.kind, plen |-> m.plen, rid |-> <<c, Len(sent[c]) + 1>>]
<1>2. f \in Frame
  <2>1. Len(sent[c]) + 1 \in Nat
    BY StreamTypes, LenProperties
  <2>2. m.kind \in Kinds /\ m.plen \in Nat
    BY ServerAssumption
  <2>. QED  BY <2>1, <2>2 DEF Frame
<1>. QED  BY <1>1, <1>2

\* The connections that events are about.
LEMMA EventConn ==
  ASSUME IInv, NEW e \in batch, e.fd \in Fds
  PROVE  e.conn \in Conns /\ peer[e.fd] = e.conn
<1>1. SlotsOf(e.fd) # {} /\ peer[e.fd] = e.conn
  BY DEF IInv, Struct, EventsFresh
<1>2. PICK s \in Slots : slotFd[s] = e.fd
  BY <1>1 DEF SlotsOf
<1>3. slotFd[s] # NoFd
  BY <1>2, ServerAssumption
<1>. QED  BY <1>1, <1>2, <1>3, StreamTypes

LEMMA HandConn ==
  ASSUME IInv, HupInHand, pc \in {"frames", "write"}, slotFd[cur] # NoFd
  PROVE  slotFd[cur] = ev.fd /\ ev.conn = peer[ev.fd] /\ ev.conn \in Conns /\ cur \in Slots
<1>1. cur \in Slots /\ slotFd[cur] = ev.fd
  BY DEF IInv, TypeOK, Struct, InHand
<1>2. peer[slotFd[cur]] \in Conns
  BY <1>1, StreamTypes
<1>. QED  BY <1>1, <1>2 DEF HupInHand

\* A hang-up is the reason of a close only at the end of handle_client_event.
NoHup == \A c \in Conns : why'[c] = "hup" => why[c] = "hup"

LEMMA ReleaseNoHup ==
  ASSUME IInv, NEW s \in Slots, NEW r, Release(s, r), r # "hup"
  PROVE  NoHup
BY DEF Release, NoHup, IInv, TypeOK

-----------------------------------------------------------------------------
(* What is dispatched was sent. *)

LEMMA DispatchPrefix ==
  ASSUME IInv, Streams, DonePrefix, pc = "frames", FrameIn,
         done' = [done EXCEPT ![peer[slotFd[cur]]] = Append(@, Head(rx[cur]).f)], sent' = sent
  PROVE  DonePrefix'
<1>1. PICK c \in Conns : c = peer[slotFd[cur]]
  BY FrontIsLive DEF FrameIn
<1>2. PICK f : f = Head(rx[cur]).f
  OBVIOUS
<1>3. rx[cur] # <<>> /\ slotFd[cur] # NoFd /\ FrontOf(c) = Len(done[c])
  BY FrontIsLive DEF FrameIn, FrontOf
<1>4. sent[c][Len(done[c]) + 1] = f
  BY <1>1, <1>2, <1>3, FrontIsNext
<1>5. f \in Frame
  BY <1>2, FrontIsLive DEF FrameIn, Unit
<1>6. done'[c] = Append(done[c], f) /\ \A d \in Conns \ {c} : done'[d] = done[d]
  BY <1>1, <1>2 DEF IInv, TypeOK
<1>7. done[c] \in Seq(Frame) /\ Len(done[c]) \in Nat
  BY StreamTypes, LenProperties
<1>8. /\ Len(done'[c]) = Len(done[c]) + 1 /\ done'[c][Len(done[c]) + 1] = f
      /\ \A j \in 1..Len(done[c]) : done'[c][j] = done[c][j]
  BY <1>5, <1>6, <1>7, AppendProperties
<1>9. \A j \in 1..Len(done'[c]) : done'[c][j] = sent[c][j]
  <2>1. \A j \in 1..Len(done'[c]) : j \in 1..Len(done[c]) \/ j = Len(done[c]) + 1
    BY <1>7, <1>8
  <2>2. \A j \in 1..Len(done[c]) : done[c][j] = sent[c][j]
    BY DEF DonePrefix
  <2>. QED  BY <1>4, <1>8, <2>1, <2>2
<1>. QED  BY <1>6, <1>9 DEF DonePrefix

LEMMA SendPrefix ==
  ASSUME IInv, Streams, DonePrefix, NEW c \in Conns, Send(c)
  PROVE  DonePrefix'
<1>1. PICK f \in Frame : sent' = [sent EXCEPT ![c] = Append(@, f)]
  BY SendsFrame
<1>2. sent'[c] = Append(sent[c], f) /\ (\A d \in Conns \ {c} : sent'[d] = sent[d]) /\ done' = done
  BY <1>1 DEF IInv, TypeOK, Send, history
<1>3. sent[c] \in Seq(Frame) /\ Len(sent[c]) \in Nat /\ Len(done[c]) \in Nat /\ Len(done[c]) <= Len(sent[c])
  BY StreamTypes, LenProperties DEF Streams, ServedWereSent
<1>4. \A j \in 1..Len(sent[c]) : sent'[c][j] = sent[c][j]
  BY <1>2, <1>3, AppendProperties
<1>5. \A j \in 1..Len(done[c]) : j \in 1..Len(sent[c])
  BY <1>3
<1>. QED  BY <1>2, <1>4, <1>5 DEF DonePrefix

LEMMA StepPrefix ==
  ASSUME IInv, Streams, DonePrefix, [Next]_vars
  PROVE  DonePrefix'
<1>1. CASE UNCHANGED <<sent, done>>
  BY <1>1 DEF DonePrefix
<1>2. CASE Environment
  <2>1. \A c \in Conns : Connect(c) \/ ShutdownWrites(c) \/ Close(c) \/ Receive(c) => sent' = sent
    BY DEF Connect, ShutdownWrites, Close, Receive, clientVars
  <2>2. ChildDies \/ Terminate => sent' = sent
    BY DEF ChildDies, Terminate, clientVars
  <2>3. done' = done
    BY <1>2, EnvironmentElsewhere
  <2>. QED  BY <1>1, <1>2, <2>1, <2>2, <2>3, SendPrefix DEF Environment
<1>3. CASE DispatchSilent
  BY <1>3, DispatchPrefix DEF DispatchSilent, clientVars
<1>4. CASE DispatchAnswered
  BY <1>4, DispatchPrefix DEF DispatchAnswered, clientVars
<1>5. CASE Halted \/ UNCHANGED vars \/ Wait \/ WaitTimesOut \/ WaitFails \/ BatchDone \/ StartSignals \/ HandleSignals
  BY <1>1, <1>5 DEF Halted, vars, Wait, WaitTimesOut, WaitFails, BatchDone, StartSignals, HandleSignals, clientVars, history
<1>6. CASE HandleAccept \/ HandleClientEvent \/ RejectFrame \/ FramesDone \/ WritePart \/ WriteFails \/ Cleanup
  BY <1>1, <1>6 DEF HandleAccept, HandleClientEvent, RejectFrame, FramesDone, WritePart, WriteFails, Cleanup, clientVars
<1>. QED  BY <1>2, <1>3, <1>4, <1>5, <1>6 DEF Next, Server

-----------------------------------------------------------------------------
(* One read of a client event. *)

\* It drops the client, or takes k units to the buffer: all there are, or as many as
\* a read takes, if the client has hung up.
Reads(s, e, c, k) ==
  /\ slotFd[s] = e.fd /\ e.fd \in Fds /\ e.conn = c /\ peer[e.fd] = c
  /\ cur' = s /\ ev' = e /\ batch' = batch \ {e}
  /\ \/ pc' = "batch" /\ \E r \in {"eof", "overflow"} : Release(s, r)
     \/ /\ pc' = "frames" /\ UNCHANGED <<slotFd, peer, why>>
        /\ inq' = [inq EXCEPT ![c] = SubSeq(@, k + 1, Len(@))]
        /\ e.hup => k = Len(inq[c]) \/ Len(inq[c]) > Chunk

LEMMA MinOfTwo ==
  ASSUME NEW m \in Nat, NEW n \in Nat
  PROVE  Min({m, n}) \in {m, n}
<1>1. \E x \in {m, n} : \A y \in {m, n} : x =< y
  OBVIOUS
<1>. QED  BY <1>1 DEF Min

LEMMA ClientEventReads ==
  ASSUME IInv, HandleClientEvent
  PROVE  \E s \in Slots, e \in batch, c \in Conns : \E k \in 0..Len(inq[c]) : Reads(s, e, c, k)
<1>1. PICK e \in batch :
        /\ e.fd \in Fds /\ batch' = batch \ {e} /\ ev' = e
        /\ SlotsOf(e.fd) # {} =>
             LET s == Min(SlotsOf(e.fd))
                 in == inq[peer[e.fd]]
                 most == Min({Len(in), Chunk})
             IN /\ cur' = s
                /\ \/ Release(s, "eof") /\ pc' = "batch"
                   \/ \E k \in (IF e.hup THEN {most} ELSE 1..most) \ {0} :
                        \/ Release(s, "overflow") /\ pc' = "batch"
                        \/ /\ inq' = [inq EXCEPT ![peer[e.fd]] = SubSeq(@, k + 1, Len(@))]
                           /\ pc' = "frames" /\ UNCHANGED <<slotFd, peer, why>>
  BY DEF HandleClientEvent
<1>2. SlotsOf(e.fd) # {} /\ e \in Event
  BY <1>1 DEF IInv, TypeOK, Struct, EventsFresh
<1>3. PICK s \in Slots : s = Min(SlotsOf(e.fd)) /\ slotFd[s] = e.fd
  <2>1. SlotsOf(e.fd) \in SUBSET Slots
    BY DEF SlotsOf
  <2>2. Min(SlotsOf(e.fd)) \in SlotsOf(e.fd)
    BY <1>2, <2>1, MinIsMember
  <2>. QED  BY <2>2 DEF SlotsOf
<1>4. PICK c \in Conns : c = e.conn /\ peer[e.fd] = c
  BY <1>1, EventConn
<1>5. inq[c] \in Seq(Unit) /\ Len(inq[c]) \in Nat /\ Chunk \in Nat
  BY StreamTypes, LenProperties, ServerAssumption
<1>6. CASE pc' = "batch" /\ \E r \in {"eof", "overflow"} : Release(s, r)
  <2>1. Reads(s, e, c, 0)
    BY <1>1, <1>2, <1>3, <1>4, <1>6 DEF Reads
  <2>. QED  BY <1>5, <2>1
<1>7. ASSUME NEW k \in (IF e.hup THEN {Min({Len(inq[c]), Chunk})} ELSE 1..Min({Len(inq[c]), Chunk})) \ {0},
             inq' = [inq EXCEPT ![c] = SubSeq(@, k + 1, Len(@))],
             pc' = "frames", UNCHANGED <<slotFd, peer, why>>
      PROVE  k \in 0..Len(inq[c]) /\ Reads(s, e, c, k)
  <2>1. e.hup \in BOOLEAN
    BY <1>2 DEF Event
  <2>2. k \in 1..Len(inq[c]) /\ k <= Chunk
    BY <1>5, <1>7, <2>1, ReadFits
  <2>3. e.hup => k = Len(inq[c]) \/ Len(inq[c]) > Chunk
    <3>1. e.hup => k \in {Len(inq[c]), Chunk}
      <4>1. Min({Len(inq[c]), Chunk}) \in {Len(inq[c]), Chunk}
        BY <1>5, MinOfTwo
      <4>. QED  BY <1>7, <4>1
    <3>2. k \in {Len(inq[c]), Chunk} => k = Len(inq[c]) \/ Len(inq[c]) > Chunk
      BY <1>5, <2>2
    <3>. QED  BY <3>1, <3>2, Zenon
  <2>. QED  BY <1>1, <1>2, <1>3, <1>4, <1>7, <2>2, <2>3 DEF Reads
<1>. QED  BY <1>1, <1>2, <1>3, <1>4, <1>6, <1>7

-----------------------------------------------------------------------------
(* A socket holds no more than was sent. *)

LEMMA FewerUnread ==
  ASSUME IInv, ReadSent, UNCHANGED sent,
         \A c \in Conns : inq'[c] = inq[c] \/ inq'[c] = <<>>
                          \/ \E k \in 0..Len(inq[c]) : inq'[c] = SubSeq(inq[c], k + 1, Len(inq[c]))
  PROVE  ReadSent'
<1>. SUFFICES ASSUME NEW c \in Conns  PROVE Len(inq'[c]) <= Total(sent[c])
  BY DEF ReadSent
<1>1. /\ inq[c] \in Seq(Unit) /\ Len(inq[c]) \in Nat /\ Total(sent[c]) \in Nat
      /\ Len(inq[c]) <= Total(sent[c])
  BY StreamTypes, LenProperties, TotalNat DEF ReadSent
<1>2. CASE inq'[c] = <<>>
  BY <1>1, <1>2, EmptySeq
<1>3. CASE \E k \in 0..Len(inq[c]) : inq'[c] = SubSeq(inq[c], k + 1, Len(inq[c]))
  <2>1. PICK k \in 0..Len(inq[c]) : inq'[c] = SubSeq(inq[c], k + 1, Len(inq[c]))
    BY <1>3
  <2>2. Len(SubSeq(inq[c], k + 1, Len(inq[c]))) = Len(inq[c]) - k
    BY <1>1, CutSeq
  <2>. QED  BY <1>1, <2>1, <2>2
<1>4. CASE inq'[c] = inq[c]
  BY <1>1, <1>4
<1>. QED  BY <1>2, <1>3, <1>4

LEMMA SendUnread ==
  ASSUME IInv, ReadSent, NEW c \in Conns, Send(c)
  PROVE  ReadSent'
<1>1. PICK f \in Frame : /\ sent' = [sent EXCEPT ![c] = Append(@, f)]
                         /\ inq' = [inq EXCEPT ![c] = @ \o Encode(f)]
  BY SendsFrame
<1>2. /\ sent'[c] = Append(sent[c], f) /\ inq'[c] = inq[c] \o Encode(f)
      /\ \A d \in Conns \ {c} : sent'[d] = sent[d] /\ inq'[d] = inq[d]
  BY <1>1 DEF IInv, TypeOK
<1>3. sent[c] \in Seq(Frame) /\ inq[c] \in Seq(Unit) /\ Len(inq[c]) \in Nat /\ Size(f) \in Nat
  <2>1. sent[c] \in Seq(Frame) /\ inq[c] \in Seq(Unit) /\ Len(inq[c]) \in Nat
    BY StreamTypes, LenProperties
  <2>2. Size(f) \in Nat
    BY ServerAssumption DEF Size, Frame
  <2>. QED  BY <2>1, <2>2
<1>4. Encode(f) \in Seq(Unit) /\ Len(Encode(f)) = Size(f)
  <2>1. Encode(f) \in Seq(Unit) /\ DOMAIN Encode(f) = 1..Size(f)
    BY EncodeIsSeq DEF Encode
  <2>. QED  BY <1>3, <2>1, LenProperties
<1>5. Len(inq'[c]) = Len(inq[c]) + Size(f)
  <2>. PICK a \in Seq(Unit) : a = inq[c]
    BY <1>3
  <2>. PICK b \in Seq(Unit) : b = Encode(f)
    BY <1>4
  <2>1. Len(a \o b) = Len(a) + Len(b)
    BY ConcatProperties
  <2>. QED  BY <1>2, <1>4, <2>1
<1>6. Total(sent'[c]) = Total(sent[c]) + Size(f) /\ Total(sent[c]) \in Nat /\ Len(inq[c]) <= Total(sent[c])
  BY <1>2, <1>3, TotalAppend, TotalNat DEF ReadSent
<1>7. Len(inq'[c]) <= Total(sent'[c])
  BY <1>3, <1>5, <1>6
<1>. QED  BY <1>2, <1>7 DEF ReadSent

LEMMA StepUnread ==
  ASSUME IInv, ReadSent, [Next]_vars
  PROVE  ReadSent'
<1>1. CASE UNCHANGED <<sent, inq>>
  BY <1>1, FewerUnread
<1>2. ASSUME NEW s \in Slots, NEW r, Release(s, r), UNCHANGED sent  PROVE ReadSent'
  <2>1. \A c \in Conns : inq'[c] = inq[c] \/ inq'[c] = <<>>
    BY <1>2 DEF Release, IInv, TypeOK
  <2>. QED  BY <1>2, <2>1, FewerUnread
<1>3. CASE Environment
  <2>1. ASSUME NEW c \in Conns, Connect(c) \/ ShutdownWrites(c) \/ Receive(c)  PROVE ReadSent'
    BY <1>1, <2>1 DEF Connect, ShutdownWrites, Receive, clientVars, kernelVars
  <2>2. ASSUME NEW c \in Conns, Close(c)  PROVE ReadSent'
    <3>1. sent' = sent /\ \A d \in Conns : inq'[d] = inq[d] \/ inq'[d] = <<>>
      BY <2>2 DEF Close, IInv, TypeOK
    <3>. QED  BY <3>1, FewerUnread
  <2>3. CASE ChildDies \/ Terminate
    BY <1>1, <2>3 DEF ChildDies, Terminate, clientVars
  <2>. QED  BY <1>3, <2>1, <2>2, <2>3, SendUnread DEF Environment
<1>4. CASE Halted \/ UNCHANGED vars \/ Wait \/ WaitTimesOut \/ WaitFails \/ BatchDone \/ StartSignals \/ HandleSignals
  BY <1>1, <1>4 DEF Halted, vars, Wait, WaitTimesOut, WaitFails, BatchDone, StartSignals, HandleSignals,
                    clientVars, kernelVars
<1>5. CASE DispatchSilent \/ DispatchAnswered \/ WritePart
  BY <1>1, <1>5 DEF DispatchSilent, DispatchAnswered, WritePart, clientVars, kernelVars
<1>6. cur \in Slots
  BY DEF IInv, TypeOK
<1>7. CASE RejectFrame \/ FramesDone \/ WriteFails
  <2>1. sent' = sent /\ ((\E r \in {"protocol", "hup", "write"} : Release(cur, r)) \/ KeepSlots)
    BY <1>7 DEF RejectFrame, FramesDone, WriteFails, clientVars
  <2>. QED  BY <1>1, <1>2, <1>6, <2>1 DEF KeepSlots
<1>8. CASE HandleAccept
  <2>1. sent' = sent /\ (inq' = inq \/ inq' = [inq EXCEPT ![Head(backlog)] = <<>>])
    BY <1>8 DEF HandleAccept, clientVars
  <2>2. \A c \in Conns : inq'[c] = inq[c] \/ inq'[c] = <<>>
    BY <2>1 DEF IInv, TypeOK
  <2>. QED  BY <2>1, <2>2, FewerUnread
<1>9. CASE HandleClientEvent
  <2>. PICK s \in Slots, e \in batch, c \in Conns : \E k \in 0..Len(inq[c]) : Reads(s, e, c, k)
    BY <1>9, ClientEventReads
  <2>. PICK k \in 0..Len(inq[c]) : Reads(s, e, c, k)
    OBVIOUS
  <2>1. \/ \E r \in {"eof", "overflow"} : Release(s, r)
        \/ inq' = [inq EXCEPT ![c] = SubSeq(@, k + 1, Len(@))]
    BY DEF Reads
  <2>2. sent' = sent
    BY <1>9 DEF HandleClientEvent, clientVars
  <2>3. CASE inq' = [inq EXCEPT ![c] = SubSeq(@, k + 1, Len(@))]
    <3>1. \A d \in Conns : inq'[d] = inq[d] \/ \E m \in 0..Len(inq[d]) : inq'[d] = SubSeq(inq[d], m + 1, Len(inq[d]))
      BY <2>3 DEF IInv, TypeOK
    <3>. QED  BY <2>2, <3>1, FewerUnread
  <2>. QED  BY <1>2, <2>1, <2>2, <2>3
<1>10. CASE Cleanup
  <2>1. sent' = sent /\ \A c \in Conns : inq'[c] = inq[c] \/ inq'[c] = <<>>
    BY <1>10 DEF Cleanup, clientVars
  <2>. QED  BY <2>1, FewerUnread
<1>. QED  BY <1>3, <1>4, <1>5, <1>7, <1>8, <1>9, <1>10 DEF Next, Server

-----------------------------------------------------------------------------
(* What the events say of their clients. *)

LEMMA EnvironmentHangUps ==
  ASSUME IInv, HupInHand, HangUps, Environment
  PROVE  HupInHand' /\ HangUps'
<1>1. UNCHANGED <<pc, slotFd, cur, peer, ev, batch, why>>
  BY EnvironmentElsewhere
<1>2. HangUps'
  <2>1. ASSUME NEW e \in batch, e.fd \in Fds, e.hup  PROVE HungUp(e.conn)'
    <3>1. e.conn \in Conns /\ HungUp(e.conn)
      BY <2>1, EventConn DEF HangUps
    <3>. QED  BY <3>1, HangUpLasts DEF IInv
  <2>2. ASSUME NEW c \in Conns, why[c] = "hup"  PROVE HungUp(c)'
    BY <2>2, HangUpLasts DEF IInv, HangUps
  <2>. QED  BY <1>1, <2>1, <2>2 DEF HangUps
<1>3. HupInHand'
  <2>. SUFFICES ASSUME pc \in {"frames", "write"}, slotFd[cur] # NoFd
                PROVE  /\ peer[ev.fd] = ev.conn
                       /\ ev.hup => /\ HungUp(ev.conn)'
                                    /\ cstate'[ev.conn] = "shut" => inq'[ev.conn] = <<>> \/ Total(sent'[ev.conn]) > Chunk
    BY <1>1 DEF HupInHand
  <2>1. ev.conn \in Conns /\ ev.conn = peer[ev.fd]
    BY HandConn
  <2>2. ASSUME ev.hup
        PROVE  HungUp(ev.conn)' /\ (cstate'[ev.conn] = "shut" => inq'[ev.conn] = <<>> \/ Total(sent'[ev.conn]) > Chunk)
    <3>1. PICK c \in Conns : c = ev.conn
      BY <2>1
    <3>2. HungUp(c) /\ (cstate[c] = "shut" => inq[c] = <<>> \/ Total(sent[c]) > Chunk)
      BY <2>2, <3>1 DEF HupInHand
    <3>3. /\ HungUp(c)' /\ sent'[c] = sent[c] /\ (cstate'[c] = "shut" => cstate[c] = "shut")
          /\ inq'[c] = inq[c] \/ inq'[c] = <<>>
      BY <3>2, HangUpLasts DEF IInv
    <3>4. cstate'[c] = "shut" => inq'[c] = <<>> \/ Total(sent'[c]) > Chunk
      BY <3>2, <3>3
    <3>5. HungUp(ev.conn)'
      BY <1>1, <3>1, <3>3 DEF HungUp
    <3>. QED  BY <3>1, <3>4, <3>5
  <2>. QED  BY <2>1, <2>2
<1>. QED  BY <1>2, <1>3

\* The client event: if its client had hung up, the read has taken everything or found
\* more than it takes.
LEMMA ClientEventHangUps ==
  ASSUME IInv, ReadSent, HupInHand, HangUps, HandleClientEvent
  PROVE  HupInHand' /\ HangUps'
<1>1. PICK s \in Slots, e \in batch, c \in Conns : \E k \in 0..Len(inq[c]) : Reads(s, e, c, k)
  BY ClientEventReads
<1>2. PICK k \in 0..Len(inq[c]) : Reads(s, e, c, k)
  BY <1>1
<1>3. UNCHANGED <<cstate, sent>> /\ \A d \in Conns : HungUp(d)' <=> HungUp(d)
  BY DEF HandleClientEvent, clientVars, HungUp
<1>4. HangUps'
  <2>1. \A d \in Conns : why'[d] = "hup" => why[d] = "hup"
    <3>1. CASE UNCHANGED why
      BY <3>1
    <3>2. CASE \E r \in {"eof", "overflow"} : Release(s, r)
      BY <3>2, ReleaseNoHup DEF NoHup
    <3>. QED  BY <1>2, <3>1, <3>2 DEF Reads
  <2>2. batch' \subseteq batch
    BY <1>2 DEF Reads
  <2>3. ASSUME NEW g \in batch, g.fd \in Fds, g.hup  PROVE HungUp(g.conn)'
    BY <1>3, <2>3, EventConn DEF HangUps
  <2>. QED  BY <1>3, <2>1, <2>2, <2>3 DEF HangUps
<1>5. HupInHand'
  <2>1. CASE pc' = "batch"
    BY <2>1 DEF HupInHand
  <2>2. CASE pc' = "frames"
    <3>1. /\ cur' = s /\ ev' = e /\ peer' = peer /\ e.fd \in Fds /\ e.conn = c /\ peer[e.fd] = c
          /\ inq' = [inq EXCEPT ![c] = SubSeq(@, k + 1, Len(@))]
          /\ e.hup => k = Len(inq[c]) \/ Len(inq[c]) > Chunk
      BY <1>2, <2>2 DEF Reads
    <3>2. ASSUME e.hup  PROVE HungUp(c)'
      BY <1>3, <3>1, <3>2 DEF HangUps
    <3>3. inq[c] \in Seq(Unit) /\ Len(inq[c]) \in Nat /\ inq'[c] = SubSeq(inq[c], k + 1, Len(inq[c]))
      BY <3>1, StreamTypes, LenProperties DEF IInv, TypeOK
    <3>4. CASE k = Len(inq[c])
      <4>1. inq'[c] \in Seq(Unit) /\ Len(inq'[c]) = Len(inq[c]) - k
        BY <3>3, CutSeq
      <4>2. Len(inq'[c]) = 0
        BY <3>3, <3>4, <4>1
      <4>3. inq'[c] = <<>>
        BY <4>1, <4>2, EmptySeq
      <4>. QED  BY <3>1, <3>2, <4>3 DEF HupInHand, HungUp
    <3>5. CASE Len(inq[c]) > Chunk
      <4>1. Len(inq[c]) <= Total(sent[c]) /\ Total(sent[c]) \in Nat /\ Chunk \in Nat
        BY StreamTypes, TotalNat, ServerAssumption DEF ReadSent
      <4>2. Total(sent'[c]) > Chunk
        BY <1>3, <3>3, <3>5, <4>1
      <4>. QED  BY <3>1, <3>2, <4>2 DEF HupInHand, HungUp
    <3>6. CASE ~e.hup
      BY <3>1, <3>6 DEF HupInHand
    <3>. QED  BY <3>1, <3>4, <3>5, <3>6
  <2>. QED  BY <1>2, <2>1, <2>2 DEF Reads
<1>. QED  BY <1>4, <1>5

\* The end of handle_client_event: a client dropped for its hang-up has been served
\* what the one read could take.
LEMMA DroppedIsServed ==
  ASSUME IInv, Streams, Settled, DonePrefix, HupInHand, FramesDone, slotFd[cur] # NoFd, ev.hup
  PROVE  \E c \in Conns :
           /\ Release(cur, "hup") /\ c = peer[slotFd[cur]] /\ HungUp(c)
           /\ cstate[c] = "shut" => done[c] = sent[c] \/ Total(sent[c]) > Chunk
<1>1. pc = "frames" /\ ~Rejected /\ ~FrameIn /\ Release(cur, "hup")
  BY DEF FramesDone, Settled
<1>2. slotFd[cur] = ev.fd /\ ev.conn = peer[ev.fd] /\ ev.conn \in Conns /\ cur \in Slots
  BY <1>1, HandConn
<1>3. PICK c \in Conns : c = peer[slotFd[cur]] /\ c = ev.conn
  BY <1>2
<1>4. HungUp(c) /\ (cstate[c] = "shut" => inq[c] = <<>> \/ Total(sent[c]) > Chunk)
  BY <1>1, <1>3 DEF HupInHand
<1>5. ASSUME cstate[c] = "shut", inq[c] = <<>>  PROVE done[c] = sent[c]
  <2>1. /\ rx[cur] \in Seq(Unit) /\ Len(rx[cur]) \in Nat
        /\ done[c] \in Seq(Frame) /\ sent[c] \in Seq(Frame) /\ Len(done[c]) \in Nat /\ Len(sent[c]) \in Nat
    BY <1>2, StreamTypes, LenProperties
  <2>2. rx[cur] \o inq[c] = rx[cur]
    BY <1>5, <2>1, ConcatEmptySeq
  <2>3. Good(c, rx[cur] \o inq[c])
    BY <1>2, <1>3 DEF Streams, BufferedGood
  <2>4. FrontOf(c) = Len(done[c])
    BY <1>1 DEF FrontOf
  <2>5. Chain(rx[cur], Len(done[c]), sent[c]) /\ Whole(rx[cur], Len(done[c]), sent[c])
    BY <1>5, <2>2, <2>3, <2>4 DEF Good
  <2>6. rx[cur] = <<>>
    <3>. SUFFICES ASSUME rx[cur] # <<>>  PROVE FALSE
      OBVIOUS
    <3>1. 1 \in 1..Len(rx[cur]) /\ rx[cur][1] = Head(rx[cur])
      BY <2>1, HeadTailProperties, EmptySeq
    <3>2. PICK n : n = Size(Head(rx[cur]).f)
      OBVIOUS
    <3>3. rx[cur][1].i = 1 /\ 1 + n <= Len(rx[cur]) + 1
      BY <2>5, <3>1, <3>2 DEF Chain, Whole
    <3>4. n \in Nat /\ n >= HeaderSize /\ HeaderSize \in Nat
      <4>1. Head(rx[cur]) \in Unit
        BY <2>1, HeadTailProperties
      <4>2. Head(rx[cur]).f.plen \in Nat
        BY <4>1 DEF Unit, Frame
      <4>3. HeaderSize \in Nat
        BY ServerAssumption
      <4>. QED  BY <3>2, <4>2, <4>3 DEF Size
    <3>5. Len(rx[cur]) >= HeaderSize /\ Len(rx[cur]) >= n
      BY <2>1, <3>3, <3>4
    <3>. QED  BY <1>1, <3>2, <3>5 DEF FrameIn, HeaderIn
  <2>7. Len(done[c]) = Len(sent[c])
    BY <2>5, <2>6 DEF Whole
  <2>8. \A j \in 1..Len(done[c]) : done[c][j] = sent[c][j]
    BY DEF DonePrefix
  <2>. QED  BY <2>1, <2>7, <2>8, SeqEqual
<1>. QED  BY <1>1, <1>3, <1>4, <1>5

\* Only the end of handle_client_event drops a client for its hang-up.
Drops == FramesDone /\ slotFd[cur] # NoFd /\ ev.hup

LEMMA OnlyDroppingIsHup ==
  ASSUME IInv, [Next]_vars, ~Drops
  PROVE  NoHup
<1>0. cur \in Slots
  BY DEF IInv, TypeOK
<1>1. CASE UNCHANGED why
  BY <1>1 DEF NoHup
<1>2. CASE RejectFrame \/ WriteFails
  <2>1. \E r \in {"protocol", "write"} : Release(cur, r)
    BY <1>2 DEF RejectFrame, WriteFails
  <2>. QED  BY <1>0, <2>1, ReleaseNoHup
<1>3. CASE FramesDone
  BY <1>1, <1>3 DEF FramesDone, Drops, KeepSlots
<1>4. CASE HandleAccept
  <2>1. why' = why \/ \E r \in {"full", "reactor"} : why' = [why EXCEPT ![Head(backlog)] = r]
    BY <1>4 DEF HandleAccept
  <2>. QED  BY <2>1 DEF NoHup, IInv, TypeOK
<1>5. CASE HandleClientEvent
  <2>1. PICK s \in Slots, e \in batch, c \in Conns : \E k \in 0..Len(inq[c]) : Reads(s, e, c, k)
    BY <1>5, ClientEventReads
  <2>2. UNCHANGED why \/ \E r \in {"eof", "overflow"} : Release(s, r)
    BY <2>1 DEF Reads
  <2>. QED  BY <1>1, <2>2, ReleaseNoHup
<1>6. CASE Cleanup
  BY <1>6 DEF Cleanup, NoHup
<1>7. CASE Environment
  BY <1>1, <1>7, EnvironmentElsewhere
<1>8. CASE Wait \/ WaitTimesOut \/ WaitFails \/ BatchDone \/ StartSignals \/ HandleSignals
  BY <1>1, <1>8 DEF Wait, WaitTimesOut, WaitFails, BatchDone, StartSignals, HandleSignals, vars, history
<1>9. CASE DispatchSilent \/ DispatchAnswered \/ WritePart \/ Halted \/ UNCHANGED vars
  BY <1>1, <1>9 DEF DispatchSilent, DispatchAnswered, WritePart, Halted, vars, history
<1>. QED  BY <1>2, <1>3, <1>4, <1>5, <1>6, <1>7, <1>8, <1>9 DEF Next, Server

\* Steps of the loop that bring no event to hand and close nothing for a hang-up.
LEMMA StillHangUps ==
  ASSUME HupInHand, HangUps, NoHup, UNCHANGED <<cstate, sent>>, batch' \subseteq batch,
         \/ pc' \notin {"frames", "write"} \/ slotFd'[cur'] = NoFd
         \/ pc \in {"frames", "write"} /\ UNCHANGED <<slotFd, cur, peer, ev, inq>>
  PROVE  HupInHand' /\ HangUps'
<1>1. \A c : HungUp(c)' <=> HungUp(c)
  BY DEF HungUp
<1>2. HangUps'
  BY <1>1 DEF HangUps, NoHup
<1>3. HupInHand'
  BY <1>1 DEF HupInHand
<1>. QED  BY <1>2, <1>3

LEMMA LoopHangUps ==
  ASSUME IInv, HupInHand, HangUps, NoHup,
         RejectFrame \/ FramesDone \/ DispatchSilent \/ DispatchAnswered \/ WritePart \/ WriteFails
  PROVE  HupInHand' /\ HangUps'
<1>1. UNCHANGED <<cstate, sent, batch>>
  BY DEF RejectFrame, FramesDone, DispatchSilent, DispatchAnswered, WritePart, WriteFails, clientVars
<1>2. CASE RejectFrame \/ FramesDone
  <2>1. pc' \in {"tail", "batch"}
    BY <1>2 DEF RejectFrame, FramesDone
  <2>. QED  BY <1>1, <2>1, StillHangUps
<1>3. CASE DispatchSilent \/ DispatchAnswered \/ WritePart
  <2>1. pc \in {"frames", "write"} /\ UNCHANGED <<slotFd, cur, peer, ev, inq>>
    BY <1>3 DEF DispatchSilent, DispatchAnswered, WritePart, kernelVars, slotVars
  <2>. QED  BY <1>1, <2>1, StillHangUps
<1>4. CASE WriteFails
  <2>1. slotFd'[cur'] = NoFd
    BY <1>4 DEF WriteFails, Release, IInv, TypeOK
  <2>. QED  BY <1>1, <2>1, StillHangUps
<1>. QED  BY <1>2, <1>3, <1>4

LEMMA WaitHangUps ==
  ASSUME HangUps, Wait
  PROVE  HupInHand' /\ HangUps'
<1>1. pc' = "batch" /\ batch' = ReadyEvents /\ UNCHANGED <<cstate, why>>
  BY DEF Wait, clientVars, history
<1>2. \A e \in ReadyEvents : e.fd \in Fds /\ e.hup => HungUp(e.conn)
  BY ServerAssumption DEF ReadyEvents, PlainEvent
<1>3. \A c : HungUp(c)' <=> HungUp(c)
  BY <1>1 DEF HungUp
<1>. QED  BY <1>1, <1>2, <1>3 DEF HangUps, HupInHand

LEMMA StepHangUps ==
  ASSUME IInv, Streams, Settled, DonePrefix, ReadSent, HupInHand, HangUps, [Next]_vars
  PROVE  HupInHand' /\ HangUps'
<1>1. CASE Drops
  <2>1. PICK c \in Conns : Release(cur, "hup") /\ c = peer[slotFd[cur]] /\ HungUp(c)
    BY <1>1, DroppedIsServed DEF Drops
  <2>2. UNCHANGED <<cstate, batch>> /\ pc' = "batch"
    BY <1>1 DEF Drops, FramesDone, clientVars
  <2>3. \A d \in Conns : why'[d] = "hup" => why[d] = "hup" \/ d = c
    BY <2>1 DEF Release, IInv, TypeOK
  <2>4. \A d : HungUp(d)' <=> HungUp(d)
    BY <2>2 DEF HungUp
  <2>5. HangUps'
    BY <2>1, <2>2, <2>3, <2>4 DEF HangUps
  <2>. QED  BY <2>2, <2>5 DEF HupInHand
<1>2. CASE ~Drops
  <2>1. NoHup
    BY <1>2, OnlyDroppingIsHup
  <2>2. CASE WaitFails \/ BatchDone \/ StartSignals \/ HandleSignals \/ HandleAccept \/ Cleanup
    <3>1. UNCHANGED <<cstate, sent>> /\ pc' \notin {"frames", "write"} /\ batch' \subseteq batch
      BY <2>2 DEF WaitFails, BatchDone, StartSignals, HandleSignals, HandleAccept, Cleanup, clientVars
    <3>. QED  BY <2>1, <3>1, StillHangUps
  <2>3. CASE Halted \/ WaitTimesOut \/ UNCHANGED vars
    <3>1. UNCHANGED <<cstate, sent, inq, peer, slotFd, cur, ev, batch, pc, why>>
      BY <2>3 DEF Halted, WaitTimesOut, vars, clientVars, kernelVars, slotVars, loopVars, history
    <3>. QED  BY <2>1, <3>1, StillHangUps
  <2>. QED  BY <2>1, <2>2, <2>3, EnvironmentHangUps, ClientEventHangUps, LoopHangUps, WaitHangUps DEF Next, Server
<1>. QED  BY <1>1, <1>2

LEMMA StepHalfClose ==
  IInv /\ Places /\ Streams /\ Settled /\ HalfClose /\ [Next]_vars => HalfClose'
<1>. SUFFICES ASSUME IInv, Places, Streams, Settled, HalfClose, [Next]_vars
              PROVE  HalfClose'
  OBVIOUS
<1>. USE DEF HalfClose
<1>1. DonePrefix' /\ ReadSent'
  BY StepPrefix, StepUnread
<1>2. HupInHand' /\ HangUps'
  BY StepHangUps
<1>3. \A c \in Conns : cstate'[c] = "shut" /\ HungUp(c) => cstate[c] = "shut"
  <2>1. CASE Environment
    BY <2>1, HangUpLasts DEF IInv
  <2>2. CASE Server \/ Halted \/ UNCHANGED vars
    BY <2>2, ServerLeavesClients
  <2>. QED  BY <2>1, <2>2 DEF Next
<1>4. ASSUME NEW c \in Conns, why[c] = "hup", cstate'[c] = "shut"
      PROVE  done'[c] = sent'[c] \/ Total(sent'[c]) > Chunk
  <2>1. Closed(c) /\ HungUp(c) /\ cstate[c] = "shut"
    BY <1>3, <1>4 DEF Closed, HangUps
  <2>2. done'[c] = done[c] /\ sent'[c] = sent[c]
    BY <2>1, StepQuiet, ClosedSendsNothing DEF QuietStep
  <2>. QED  BY <1>4, <2>1, <2>2 DEF HalfCloseServesOneRead
<1>5. ASSUME NEW c \in Conns, why'[c] = "hup", why[c] # "hup", cstate'[c] = "shut"
      PROVE  done'[c] = sent'[c] \/ Total(sent'[c]) > Chunk
  <2>1. CASE Drops
    <3>1. PICK d \in Conns :
            /\ Release(cur, "hup") /\ d = peer[slotFd[cur]]
            /\ cstate[d] = "shut" => done[d] = sent[d] \/ Total(sent[d]) > Chunk
      BY <2>1, DroppedIsServed DEF Drops
    <3>2. c = d
      BY <1>5, <3>1 DEF Release, IInv, TypeOK
    <3>3. UNCHANGED <<cstate, sent, done>>
      BY <2>1 DEF Drops, FramesDone, clientVars
    <3>. QED  BY <1>5, <3>1, <3>2, <3>3
  <2>2. CASE ~Drops
    <3>1. NoHup
      BY <2>2, OnlyDroppingIsHup
    <3>. QED  BY <1>5, <3>1 DEF NoHup
  <2>. QED  BY <2>1, <2>2
<1>6. HalfCloseServesOneRead'
  BY <1>4, <1>5 DEF HalfCloseServesOneRead
<1>. QED  BY <1>1, <1>2, <1>6

\* A client may send its requests and shut down its writes at once: if they fit one read,
\* they have all been served when the server drops it for the hang-up.
THEOREM HalfCloseServed == Spec => []HalfCloseServesOneRead
<1>1. Init => Settled /\ OverflowOnlyWhenPipelining /\ HalfClose
  <2>. SUFFICES ASSUME Init  PROVE Settled /\ OverflowOnlyWhenPipelining /\ HalfClose
    OBVIOUS
  <2>1. \A s \in Slots : ~(Len(rx[s]) >= HeaderSize)
    BY EmptyIsShort, EmptySeq, ServerAssumption DEF Init
  <2>2. pc = "loop" /\ batch = {} /\ \A c \in Conns : why[c] = "no" /\ inq[c] = <<>> /\ done[c] = <<>> /\ sent[c] = <<>>
    BY DEF Init
  <2>3. <<>> \in Seq(Frame) /\ Len(<<>>) = 0 /\ 1..0 = {}
    BY EmptySeq
  <2>4. Total(<<>>) \in Nat
    BY <2>3, TotalNat
  <2>5. Settled /\ OverflowOnlyWhenPipelining /\ HupInHand /\ HangUps /\ HalfCloseServesOneRead
    BY <2>1, <2>2 DEF Settled, OverflowOnlyWhenPipelining, HupInHand, HangUps, HalfCloseServesOneRead
  <2>6. DonePrefix /\ ReadSent
    BY <2>2, <2>3, <2>4 DEF DonePrefix, ReadSent
  <2>. QED  BY <2>5, <2>6 DEF HalfClose
<1>2. HalfClose => HalfCloseServesOneRead
  BY DEF HalfClose
<1>. QED  BY <1>1, <1>2, InitialPlaces, StepQuiet, StepStreams, StepSettles, StepHalfClose, Invariance, PTL DEF Spec

-----------------------------------------------------------------------------
(* The daemon. *)

\* Before run the server has done nothing.
NotServing == stage \notin {"run", "reboot", "off", "panic"} => \A c \in Conns : done[c] = <<>>
NotLooping == stage \in {"mount", "mask", "listen", "init"} => pc = "loop"

DaemonInv == IInv /\ Places /\ NotServing /\ NotLooping

\* close of the listener, between two batches: connections that were queued are
\* closed, and nothing else changes.
LEMMA CloseListenerKeeps ==
  ASSUME IInv, Places, batch = {}, CloseListener
  PROVE  IInv' /\ Places' /\ QuietStep
<1>1. /\ backlog' = <<>>
      /\ inq' = [c \in Conns |-> IF c \in Range(backlog) THEN <<>> ELSE inq[c]]
      /\ why' = [c \in Conns |-> IF c \in Range(backlog) THEN "stop" ELSE why[c]]
      /\ UNCHANGED <<clientVars, peer, unread, sigs, living, zombies, slotVars, loopVars, done, resp>>
  BY DEF CloseListener
<1>2. \A c \in Conns : c \in Range(backlog) <=> Queued(c)
  <2>1. backlog \in Seq(Conns)
    BY DEF IInv, TypeOK
  <2>. QED  BY <2>1 DEF Range, Queued
<1>3. \A c \in Conns : /\ Queued(c) => why'[c] = "stop"
                       /\ ~Queued(c) => why'[c] = why[c]
  BY <1>1, <1>2
<1>4. TypeOK'
  <2>1. <<>> \in Seq(Unit) /\ <<>> \in Seq(Conns)
    BY EmptySeq
  <2>2. inq' \in [Conns -> Seq(Unit)] /\ why' \in [Conns -> Reasons] /\ backlog' \in Seq(Conns)
    BY <1>1, <2>1 DEF IInv, TypeOK, Reasons
  <2>. QED  BY <1>1, <2>2 DEF IInv, TypeOK, clientVars, slotVars, loopVars
<1>5. Struct'
  BY <1>1 DEF IInv, Struct, slotVars, loopVars, RxBounded, DescriptorsAccounted, EventsFresh, OneEventPerFd,
              InHand, Writing, BatchOver, QueuedForAccept
<1>6. Places'
  <2>1. \A c \in Conns : ~Queued(c)' /\ (Held(c)' <=> Held(c)) /\ cstate'[c] = cstate[c]
    BY <1>1, EmptySeq DEF Queued, Held, clientVars
  <2>2. \A c \in Conns : Held(c) => ~Closed(c)'
    BY <1>3 DEF Places, QueuedIsOpen, HeldIsOpen, Closed
  <2>3. \A c \in Conns : cstate[c] = "idle" => ~Closed(c)' /\ ~Held(c)
    BY <1>3 DEF Places, IdleIsUnknown, Closed
  <2>4. HeldOnce' /\ QueuedOnce'
    BY <1>1, EmptySeq DEF Places, HeldOnce, QueuedOnce
  <2>. QED  BY <2>1, <2>2, <2>3, <2>4 DEF Places, IdleIsUnknown, QueuedIsOpen, HeldIsOpen
<1>7. QuietStep
  BY <1>1, <1>3 DEF QuietStep, Places, QueuedIsOpen, HeldIsOpen, Held, Closed
<1>. QED  BY <1>4, <1>5, <1>6, <1>7 DEF IInv

\* A step that leaves the server alone.
LEMMA ServerStill ==
  ASSUME IInv, Places, UNCHANGED vars
  PROVE  IInv' /\ Places' /\ QuietStep
BY Inductive, StepQuiet

\* The world does not serve, and does not move the loop.
LEMMA WorldKeeps ==
  ASSUME DaemonInv, World
  PROVE  DaemonInv' /\ QuietStep
<1>1. Environment /\ UNCHANGED main
  BY DEF World, Environment
<1>2. IInv' /\ Places' /\ QuietStep
  BY <1>1, Inductive, StepQuiet DEF DaemonInv, Next
<1>3. done' = done /\ pc' = pc /\ stage' = stage
  BY <1>1 DEF main, Environment, Connect, Send, ShutdownWrites, Close, Receive, ChildDies, Terminate,
              history, loopVars
<1>. QED  BY <1>2, <1>3 DEF DaemonInv, NotServing, NotLooping

LEMMA StartKeeps ==
  ASSUME DaemonInv, Mount \/ MountFails \/ Mask \/ Listen \/ InitServer
  PROVE  DaemonInv' /\ QuietStep
<1>1. UNCHANGED vars /\ stage \in {"mount", "mask", "listen", "init"}
  BY DEF Mount, MountFails, Mask, Listen, InitServer
<1>2. IInv' /\ Places' /\ QuietStep
  BY <1>1, ServerStill DEF DaemonInv
<1>3. done' = done /\ pc' = pc
  BY <1>1 DEF vars, history, loopVars
<1>. QED  BY <1>1, <1>2, <1>3 DEF DaemonInv, NotServing, NotLooping

LEMMA EndKeeps ==
  ASSUME DaemonInv, BootFails \/ RunEnds
  PROVE  DaemonInv' /\ QuietStep
<1>1. CloseListener /\ stage' \in {"panic", "reboot"}
  BY DEF BootFails, RunEnds, AfterRun
<1>2. batch = {}
  <2>1. pc \in {"loop", "stopped", "failed"}
    BY DEF BootFails, RunEnds, DaemonInv, NotLooping
  <2>. QED  BY <2>1 DEF DaemonInv, IInv, Struct, BatchOver
<1>3. IInv' /\ Places' /\ QuietStep
  BY <1>1, <1>2, CloseListenerKeeps DEF DaemonInv
<1>4. NotServing' /\ NotLooping'
  BY <1>1 DEF NotServing, NotLooping
<1>. QED  BY <1>3, <1>4 DEF DaemonInv

LEMMA RebootKeeps ==
  ASSUME DaemonInv, PowerOff \/ RebootFails
  PROVE  DaemonInv' /\ QuietStep
<1>1. UNCHANGED vars /\ stage' \in {"off", "panic"}
  BY DEF PowerOff, RebootFails
<1>2. IInv' /\ Places' /\ QuietStep
  BY <1>1, ServerStill DEF DaemonInv
<1>. QED  BY <1>1, <1>2 DEF DaemonInv, NotServing, NotLooping

LEMMA RunKeeps ==
  ASSUME DaemonInv, Run
  PROVE  DaemonInv' /\ QuietStep
<1>1. stage = "run" /\ stage' = stage /\ Server
  BY DEF Run, main
<1>2. IInv' /\ Places' /\ QuietStep
  BY <1>1, Inductive, StepQuiet DEF DaemonInv, Next
<1>. QED  BY <1>1, <1>2 DEF DaemonInv, NotServing, NotLooping

LEMMA DaemonStep == DaemonInv /\ [DaemonNext]_daemonVars => DaemonInv' /\ QuietStep
<1>. SUFFICES ASSUME DaemonInv, [DaemonNext]_daemonVars PROVE DaemonInv' /\ QuietStep
  OBVIOUS
<1>1. CASE Main
  BY <1>1, StartKeeps, EndKeeps, RebootKeeps, RunKeeps DEF Main
<1>2. CASE World
  BY <1>2, WorldKeeps
<1>3. CASE Halts \/ UNCHANGED daemonVars
  <2>1. UNCHANGED vars /\ stage' = stage
    BY <1>3 DEF Halts, daemonVars, main
  <2>2. IInv' /\ Places' /\ QuietStep
    BY <2>1, ServerStill DEF DaemonInv
  <2>3. done' = done /\ pc' = pc
    BY <2>1 DEF vars, history, loopVars
  <2>. QED  BY <2>1, <2>2, <2>3 DEF DaemonInv, NotServing, NotLooping
<1>. QED  BY <1>1, <1>2, <1>3 DEF DaemonNext

THEOREM DaemonInvariant == DaemonSpec => []DaemonInv
<1>1. DaemonInit => DaemonInv
  <2>. SUFFICES ASSUME DaemonInit PROVE DaemonInv
    OBVIOUS
  <2>1. IInv
    BY InitIInv DEF DaemonInit
  <2>2. Places
    BY ServerAssumption, EmptySeq
    DEF DaemonInit, Init, Places, IdleIsUnknown, QueuedIsOpen, QueuedOnce, HeldIsOpen, HeldOnce, Held, Queued, Closed
  <2>3. NotServing /\ NotLooping
    BY DEF DaemonInit, Init, NotServing, NotLooping
  <2>. QED  BY <2>1, <2>2, <2>3 DEF DaemonInv
<1>2. DaemonInv /\ [DaemonNext]_daemonVars => DaemonInv'
  BY DaemonStep
<1>. QED  BY <1>1, <1>2, PTL DEF DaemonSpec

\* No fault of the reactor, however late, makes PID 1 return: the kernel panics only
\* over a start that failed, before the first request, or a reboot that was refused.
THEOREM PanicsNotInService == DaemonSpec => NoPanicInService
<1>1. DaemonInv /\ [DaemonNext]_daemonVars
        => [stage' = "panic" => stage \in {"panic", "reboot"} \/ \A c \in Conns : done'[c] = <<>>]_daemonVars
  <2>. SUFFICES ASSUME DaemonInv, DaemonNext, stage' = "panic", stage \notin {"panic", "reboot"}
                PROVE  \A c \in Conns : done'[c] = <<>>
    OBVIOUS
  <2>1. BootFails
    BY DEF DaemonNext, Main, World, Halts, Ended, daemonVars, main, Run, Mount, MountFails, Mask, Listen,
           InitServer, RunEnds, AfterRun, PowerOff, RebootFails
  <2>2. done' = done /\ stage \notin {"run", "reboot", "off", "panic"}
    BY <2>1 DEF BootFails, CloseListener
  <2>. QED  BY <2>2 DEF DaemonInv, NotServing
<1>. QED  BY <1>1, DaemonInvariant, PTL DEF DaemonSpec, NoPanicInService

\* The descriptors are accounted for in the whole life of the machine, also when a
\* fault ends the loop in the middle and main closes the listener under the clients.
THEOREM DaemonLeaksNothing == DaemonSpec => [](DescriptorsAccounted /\ EventsFresh)
<1>1. DaemonInv => DescriptorsAccounted /\ EventsFresh
  BY DEF DaemonInv, IInv, Struct
<1>. QED  BY <1>1, DaemonInvariant, PTL

\* A connection that is closed stays quiet, to the end of the machine.
THEOREM ClosedToTheEnd == DaemonSpec => ClosedStaysQuiet
<1>1. QuietStep => [\A c \in Conns :
       /\ Closed(c) => done'[c] = done[c] /\ resp'[c] = resp[c] /\ why'[c] = why[c]
                       /\ \A fd \in Fds : peer'[fd] # c
       /\ ~Closed(c) /\ why'[c] = "full" => \A s \in Slots : slotFd[s] # NoFd]_vars
  BY DEF QuietStep
<1>. QED  BY <1>1, DaemonStep, DaemonInvariant, PTL DEF DaemonSpec, ClosedStaysQuiet

=============================================================================
