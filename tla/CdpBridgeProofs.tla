--------------------------- MODULE CdpBridgeProofs ---------------------------
(***************************************************************************)
(* TLAPS proofs about CdpBridge, for every pair of pipes, set of           *)
(* documents, size of the list, of the map and of the buffer, and for a    *)
(* browser with all the faults it may have.                                *)
(***************************************************************************)
EXTENDS CdpBridge, FiniteSetTheorems, SequenceTheorems, TLAPS

-----------------------------------------------------------------------------
(* The filter of trees. *)

\* What is received of a document is a document that begins with its whole nodes.
LEMMA ReceivedIsDocument ==
  ASSUME NEW doc \in Seq(Node)
  PROVE  /\ Whole(doc) \in Seq(Node)
         /\ \A d \in Received(doc) :
              /\ d \in Seq(Node) /\ Len(Whole(doc)) <= Len(d)
              /\ \A i \in 1 .. Len(Whole(doc)) : d[i] = Whole(doc)[i]
<1>1. /\ Len(doc) \in Nat /\ BufferNodes \in Nat \ {0} /\ Powers \subseteq Nat \ {0}
      /\ \A i \in 1 .. Len(doc) : doc[i] \in Node
  BY BridgeAssumption
<1>2. ASSUME NEW node \in Node, NEW rest \in Cut(node)
      PROVE  rest \in Node
  <2>1. node.kind \in Kinds /\ node.id \in Nat /\ node.name \in STRING \cup {NoName}
    BY DEF Node
  <2>2. Beginnings(node.id) \subseteq Nat
    BY <2>1 DEF Beginnings
  <2>3. CASE rest \in [kind : Kinds, id : {0}, name : {NoName}]
    BY <2>3 DEF Node
  <2>4. CASE rest \in [kind : {node.kind}, id : Beginnings(node.id), name : {node.name}]
    BY <2>1, <2>2, <2>4 DEF Node
  <2>. QED  BY <2>3, <2>4 DEF Cut
<1>3. PICK k : k = IF Len(doc) <= BufferNodes THEN Len(doc) ELSE BufferNodes
  OBVIOUS
<1>4. k \in Nat /\ 1 .. k \subseteq 1 .. Len(doc)
  BY <1>1, <1>3
<1>. DEFINE w == Whole(doc)
            S == Node
<1>5. w \in Seq(S)
  <2>1. w = [i \in 1 .. k |-> doc[i]]
    BY <1>1, <1>3, <1>4 DEF Whole
  <2>. QED  BY <1>1, <1>4, <2>1
<1>6. ASSUME NEW d \in Received(doc), d # w
      PROVE  \E rest \in S : d = Append(w, rest)
  <2>1. ~(Len(doc) <= BufferNodes) /\ \E rest \in Cut(doc[BufferNodes + 1]) : d = Append(w, rest)
    BY <1>6 DEF Received
  <2>2. doc[BufferNodes + 1] \in Node
    BY <1>1, <2>1
  <2>. QED  BY <1>2, <2>1, <2>2
<1>. HIDE DEF w, S
<1>7. ASSUME NEW d \in Received(doc)
      PROVE  d \in Seq(S) /\ Len(w) <= Len(d) /\ \A i \in 1 .. Len(w) : d[i] = w[i]
  <2>1. Len(w) \in Nat
    BY <1>5
  <2>2. CASE d = w
    BY <1>5, <2>1, <2>2
  <2>3. CASE d # w
    <3>1. PICK rest \in S : d = Append(w, rest)
      BY <1>6, <2>3
    <3>2. d \in Seq(S) /\ Len(d) = Len(w) + 1 /\ \A i \in 1 .. Len(w) : d[i] = w[i]
      BY <1>5, <3>1, AppendProperties
    <3>. QED  BY <2>1, <3>2
  <2>. QED  BY <2>2, <2>3
<1>. QED  BY <1>5, <1>7 DEF w, S

\* Two nodes of a list have different numbers.
LEMMA UpToInjective ==
  ASSUME NEW doc \in Seq(Node), NEW S \in SUBSET DOMAIN doc, NEW i \in S, NEW j \in S, i < j
  PROVE  UpTo(S, i) < UpTo(S, j)
<1>. DEFINE A == {k \in S : k <= i}
            B == {k \in S : k <= j}
<1>1. DOMAIN doc = 1 .. Len(doc) /\ Len(doc) \in Nat
  OBVIOUS
<1>2. IsFiniteSet(B)
  BY <1>1, FS_Interval, FS_Subset, B \in SUBSET (1 .. Len(doc)), 1 \in Int, Len(doc) \in Int
<1>3. A \in SUBSET B /\ j \in B /\ j \notin A
  BY <1>1
<1>4. IsFiniteSet(A) /\ Cardinality(A) <= Cardinality(B) /\ Cardinality(A) # Cardinality(B)
  BY <1>2, <1>3, FS_Subset
<1>5. Cardinality(A) \in Nat /\ Cardinality(B) \in Nat
  BY <1>2, <1>4, FS_CardinalityType
<1>6. Cardinality(A) < Cardinality(B)
  BY <1>4, <1>5
<1>. QED  BY <1>6 DEF UpTo

\* Only one node gets a handle, and a longer document, or a list with room for one
\* more, gives it to the same.
LEMMA HandledOnce ==
  ASSUME NEW whole \in Seq(Node), NEW doc \in Seq(Node), Len(whole) <= Len(doc),
         \A i \in 1 .. Len(whole) : doc[i] = whole[i],
         NEW n \in Nat, NEW h \in Handles, Handled(whole, n, h) # {}
  PROVE  /\ Handled(doc, n + 1, h) = Handled(whole, n, h)
         /\ \A i \in Handled(whole, n, h) : doc[i] = whole[i]
<1>1. Actions(doc) \subseteq DOMAIN doc /\ Listed(doc) \subseteq DOMAIN doc
  BY DEF Actions, Listed
<1>2. /\ DOMAIN doc = 1 .. Len(doc) /\ DOMAIN whole = 1 .. Len(whole)
      /\ Len(doc) \in Nat /\ Len(whole) \in Nat
  OBVIOUS
<1>3. \A i \in DOMAIN doc : UpTo(Listed(doc), i) \in Nat
  <2>. TAKE i \in DOMAIN doc
  <2>1. {k \in Listed(doc) : k <= i} \in SUBSET (1 .. Len(doc))
    BY <1>1
  <2>2. IsFiniteSet({k \in Listed(doc) : k <= i})
    BY <2>1, FS_Interval, FS_Subset, 1 \in Int, Len(doc) \in Int
  <2>. QED  BY <2>2, FS_CardinalityType DEF UpTo
<1>4. ASSUME NEW i \in DOMAIN whole
      PROVE  /\ i \in DOMAIN doc /\ doc[i] = whole[i]
             /\ (i \in Listed(doc) <=> i \in Listed(whole)) /\ (i \in Actions(doc) <=> i \in Actions(whole))
  <2>1. \A j \in 1 .. i : j \in 1 .. Len(whole) /\ doc[j] = whole[j]
    BY <1>2
  <2>2. i \in 1 .. i /\ 1 .. i - 1 \subseteq 1 .. i
    BY <1>2
  <2>3. i \in DOMAIN doc
    BY <1>2
  <2>4. Dropped(doc, i) <=> Dropped(whole, i)
    BY <2>1, <2>2 DEF Dropped
  <2>. QED  BY <2>1, <2>2, <2>3, <2>4 DEF Listed, Actions
<1>5. ASSUME NEW i \in DOMAIN whole
      PROVE  UpTo(Listed(doc), i) = UpTo(Listed(whole), i) /\ UpTo(Actions(doc), i) = UpTo(Actions(whole), i)
  <2>1. \A j \in DOMAIN doc : j <= i => j \in DOMAIN whole
    BY <1>2
  <2>2. Listed(whole) \subseteq DOMAIN whole /\ Actions(whole) \subseteq DOMAIN whole
    BY DEF Listed, Actions
  <2>3. {j \in Listed(doc) : j <= i} = {j \in Listed(whole) : j <= i}
    BY <1>1, <1>4, <2>1, <2>2
  <2>4. {j \in Actions(doc) : j <= i} = {j \in Actions(whole) : j <= i}
    BY <1>1, <1>4, <2>1, <2>2
  <2>. QED  BY <2>3, <2>4 DEF UpTo
<1>6. Handled(whole, n, h) \subseteq DOMAIN whole
  BY DEF Handled, Actions, Listed
<1>7. Handled(whole, n, h) \subseteq Handled(doc, n + 1, h)
  <2>. SUFFICES ASSUME NEW i \in Handled(whole, n, h)
                PROVE  i \in Handled(doc, n + 1, h)
    OBVIOUS
  <2>1. i \in DOMAIN whole /\ i \in Actions(whole) /\ UpTo(Actions(whole), i) = h /\ UpTo(Listed(whole), i) <= n
    BY <1>6 DEF Handled
  <2>2. i \in Actions(doc) /\ UpTo(Actions(doc), i) = h /\ UpTo(Listed(doc), i) <= n
    BY <1>4, <1>5, <2>1
  <2>3. UpTo(Listed(doc), i) <= n + 1
    BY <1>3, <1>4, <2>1, <2>2
  <2>. QED  BY <2>2, <2>3 DEF Handled
<1>8. ASSUME NEW i \in Handled(doc, n + 1, h), NEW j \in Handled(doc, n + 1, h)
      PROVE  i = j
  <2>1. /\ i \in Actions(doc) /\ j \in Actions(doc)
        /\ UpTo(Actions(doc), i) = h /\ UpTo(Actions(doc), j) = h
    BY DEF Handled
  <2>2. ~(i < j) /\ ~(j < i)
    BY <1>1, <2>1, UpToInjective, h \in Int DEF Handles
  <2>. QED  BY <1>1, <1>2, <2>1, <2>2
<1>. QED  BY <1>4, <1>6, <1>7, <1>8

\* A number for each handle.
LEMMA NumberedType ==
  ASSUME NEW doc \in Seq(Node), NEW n \in Nat
  PROVE  Numbered(doc, n) \in [Handles -> Nat]
<1>1. \A h \in Handles : \A i \in Handled(doc, n, h) : doc[i].id \in Nat
  <2>1. \A h \in Handles : Handled(doc, n, h) \subseteq DOMAIN doc
    BY DEF Handled, Actions, Listed
  <2>2. \A i \in DOMAIN doc : doc[i] \in Node
    OBVIOUS
  <2>. QED  BY <2>1, <2>2 DEF Node
<1>2. \A h \in Handles : Handled(doc, n, h) # {} => doc[CHOOSE i \in Handled(doc, n, h) : TRUE].id \in Nat
  BY <1>1
<1>. QED  BY <1>2 DEF Numbered

\* What is shown under a handle is what the map has for it, however the rest was cut.
LEMMA ShownIsMapped ==
  ASSUME NEW p \in DOMAIN Docs
  PROVE  /\ Trees[p] \in [Handles -> Nat]
         /\ \A map \in Maps[p] :
              /\ map \in [Handles -> Nat]
              /\ \A h \in Handles : Trees[p][h] # 0 => map[h] = Trees[p][h]
<1>1. Docs[p] \in Seq(Node) /\ MaxNodes \in Nat /\ MaxNodes + 1 \in Nat
  BY BridgeAssumption
<1>2. PICK whole : whole = Whole(Docs[p])
  OBVIOUS
<1>3. Trees[p] = Numbered(whole, MaxNodes)
  BY <1>2 DEF Trees
<1>4. whole \in Seq(Node)
  BY <1>1, <1>2, ReceivedIsDocument
<1>5. ASSUME NEW map \in Maps[p]
      PROVE  /\ map \in [Handles -> Nat]
             /\ \A h \in Handles : Trees[p][h] # 0 => map[h] = Trees[p][h]
  <2>1. PICK doc \in Received(Docs[p]) : map = Numbered(doc, MaxNodes + 1)
    BY <1>5 DEF Maps
  <2>2. doc \in Seq(Node) /\ Len(whole) <= Len(doc) /\ \A i \in 1 .. Len(whole) : doc[i] = whole[i]
    BY <1>1, <1>2, ReceivedIsDocument
  <2>3. ASSUME NEW h \in Handles, Numbered(whole, MaxNodes)[h] # 0
        PROVE  Numbered(doc, MaxNodes + 1)[h] = Numbered(whole, MaxNodes)[h]
    <3>1. Handled(whole, MaxNodes, h) # {}
      BY <2>3 DEF Numbered
    <3>2. /\ Handled(doc, MaxNodes + 1, h) = Handled(whole, MaxNodes, h)
          /\ \A i \in Handled(whole, MaxNodes, h) : doc[i] = whole[i]
      BY <1>1, <1>4, <2>2, <3>1, HandledOnce
    <3>3. PICK i : i = CHOOSE k \in Handled(whole, MaxNodes, h) : TRUE
      OBVIOUS
    <3>4. i \in Handled(whole, MaxNodes, h)
      BY <3>1, <3>3
    <3>5. Numbered(whole, MaxNodes)[h] = whole[i].id
      BY <3>1, <3>3 DEF Numbered
    <3>6. Numbered(doc, MaxNodes + 1)[h] = doc[i].id
      BY <3>1, <3>2, <3>3 DEF Numbered
    <3>. QED  BY <3>2, <3>4, <3>5, <3>6
  <2>. QED  BY <1>1, <1>3, <2>1, <2>2, <2>3, NumberedType
<1>. QED  BY <1>1, <1>3, <1>4, <1>5, NumberedType

\* An id that begins with another one and is not greater is that one.
LEMMA FoundIsEqual ==
  ASSUME NEW id \in Nat, NEW n \in Nat \ {0}, id <= n, Matches(id, n)
  PROVE  id = n
<1>1. ASSUME NEW p \in Powers, id \div p = n
      PROVE  id = n
  <2>1. p \in Nat \ {0}
    BY BridgeAssumption
  <2>2. id \div p <= id
    BY <2>1
  <2>. QED  BY <1>1, <2>2
<1>. QED  BY <1>1 DEF Matches

-----------------------------------------------------------------------------
(* The inductive invariant. *)

Cmd == [id : Nat \ {0}, does : Exchanges, session : BOOLEAN, node : Nat, object : Elem, meant : Elem]
Msg == [id : Nat, ok : BOOLEAN, page : 0 .. Len(Docs), elem : Elem]

Types ==
  /\ TypeOK
  /\ toChrome \in Seq(Cmd) /\ busy \subseteq Cmd /\ fromChrome \in Seq(Msg)
  /\ op.handle \in Nat

\* What goes with the place a request has come to.
Places ==
  /\ pc = "resolve" => op.handle \in Handles
  /\ want # 0 => pc \in Exchanges /\ want = next_req_id_ - 1
  /\ proc = "running" => page # 0
  /\ pc = "stopped" => ~started_
  /\ ~started_ => proc \notin {"running", "zombie"}

\* Everything in the pipes has an id that was given out, and what has the id that is
\* waited for belongs to the exchange at hand.
GoodCmd(r) == r.id < next_req_id_ /\ (r.id = want => r.does = pc)
GoodMsg(m) ==
  /\ m.id < next_req_id_
  /\ m.id = want /\ want # 0 => IF pc = "tree" THEN m.ok => m.page # 0 ELSE m.page = 0

InFlight ==
  /\ \A i \in 1 .. Len(toChrome) : GoodCmd(toChrome[i])
  /\ \A r \in busy : GoodCmd(r)
  /\ \A i \in 1 .. Len(fromChrome) : GoodMsg(fromChrome[i])

IInv == Types /\ Places /\ InFlight /\ OwnReply

LEMMA CmdAt ==
  ASSUME NEW q \in Seq(Cmd), NEW i \in 1 .. Len(q)
  PROVE  q[i] \in Cmd /\ q[i].id \in Nat \ {0}
<1>1. q[i] \in Cmd
  OBVIOUS
<1>. QED  BY <1>1 DEF Cmd

LEMMA MsgAt ==
  ASSUME NEW q \in Seq(Msg), NEW i \in 1 .. Len(q)
  PROVE  q[i] \in Msg /\ q[i].id \in Nat
<1>1. q[i] \in Msg
  OBVIOUS
<1>. QED  BY <1>1 DEF Msg

-----------------------------------------------------------------------------
(* The end of an exchange. *)

LEMMA GoOnGoes ==
  ASSUME Types, pc \in Exchanges, NEW t \in 0 .. Len(Docs), GoOn(t)
  PROVE  /\ pc' \in (Exchanges \ {"resolve"}) \cup {"idle"} /\ want' = 0
         /\ shown' \in [Clients -> 0 .. Len(Docs)]
         /\ (pc' = "call") => (pc = "resolve")
         /\ op' = IF pc' = "idle" THEN NoOp ELSE op
<1>. USE DEF Types, TypeOK
<1>1. CASE pc \in {"tree", "scroll"} \/ (pc = "call" /\ op.kind = "type")
  BY <1>1 DEF GoOn, Finish, Exchanges
<1>2. CASE ~(pc \in {"tree", "scroll"} \/ (pc = "call" /\ op.kind = "type"))
  BY <1>2 DEF GoOn, Follows, Exchanges
<1>. QED  BY <1>1, <1>2

LEMMA FailureGoes ==
  ASSUME Types, pc \in Exchanges, ReadFails \/ WriteFails
  PROVE  /\ pc' \in (Exchanges \ {"resolve"}) \cup {"idle"} /\ want' = 0
         /\ shown' \in [Clients -> 0 .. Len(Docs)]
         /\ pc' # "call"
         /\ op' = IF pc' = "idle" THEN NoOp ELSE op
<1>1. 0 \in 0 .. Len(Docs)
  BY BridgeAssumption
<1>2. CASE GiveUp
  BY <1>2 DEF GiveUp, Finish, Types, TypeOK
<1>3. CASE pc # "resolve" /\ GoOn(0)
  BY <1>1, <1>3, GoOnGoes
<1>. QED  BY <1>2, <1>3 DEF ReadFails, WriteFails, AnswerIgnored, WriteIgnored

\* When the wait is over, whatever is in the pipes is of the past.
LEMMA NothingAwaited ==
  ASSUME Types, InFlight, want' = 0, next_req_id_' \in Nat, next_req_id_' >= next_req_id_,
         UNCHANGED <<toChrome, busy>>, fromChrome' \in Seq(Msg),
         \A i \in 1 .. Len(fromChrome') : fromChrome'[i].id < next_req_id_'
  PROVE  InFlight'
<1>. USE DEF Types, TypeOK
<1>1. \A i \in 1 .. Len(toChrome) : toChrome[i].id \in Nat \ {0}
  BY CmdAt
<1>2. \A r \in busy : r.id \in Nat \ {0}
  BY DEF Cmd
<1>3. \A i \in 1 .. Len(toChrome) : GoodCmd(toChrome[i])'
  BY <1>1 DEF InFlight, GoodCmd
<1>4. \A r \in busy : GoodCmd(r)'
  BY <1>2 DEF InFlight, GoodCmd
<1>5. \A i \in 1 .. Len(fromChrome') : GoodMsg(fromChrome[i])'
  BY DEF GoodMsg
<1>. QED  BY <1>3, <1>4, <1>5 DEF InFlight

-----------------------------------------------------------------------------
(* The steps of the server. *)

LEMMA TreesTyped ==
  ASSUME NEW p \in 0 .. Len(Docs), p # 0
  PROVE  Trees[p] \in [Handles -> Nat] /\ Maps[p] \subseteq [Handles -> Nat]
<1>1. p \in DOMAIN Docs
  BY BridgeAssumption
<1>. QED  BY <1>1, ShownIsMapped

LEMMA InitGood == Init => IInv
<1>. SUFFICES ASSUME Init PROVE IInv
  OBVIOUS
<1>1. NoElem \in Elem /\ NoHandles \in [Handles -> Nat] /\ 0 \in 0 .. Len(Docs)
  BY BridgeAssumption DEF NoElem, Elem, NoHandles
<1>2. IsFiniteSet({})
  BY FS_EmptySet
<1>3. TypeOK
  <2>1. next_req_id_ \in Nat \ {0} /\ want \in Nat
    BY DEF Init
  <2>5. started_ \in BOOLEAN /\ session_id_ \in BOOLEAN
    BY DEF Init
  <2>2. handle_map_ \in [Handles -> Nat] /\ object \in Elem /\ op.meant \in Elem
    BY <1>1 DEF Init, NoOp
  <2>3. pc = "idle" /\ proc = "none" /\ page \in 0 .. Len(Docs) /\ IsFiniteSet(busy)
    BY <1>1, <1>2 DEF Init
  <2>4. shown \in [Clients -> 0 .. Len(Docs)]
    BY <1>1 DEF Init
  <2>. QED  BY <2>1, <2>2, <2>3, <2>4, <2>5 DEF TypeOK
<1>4. toChrome \in Seq(Cmd) /\ fromChrome \in Seq(Msg)
  <2>. DEFINE S == Cmd
              T == Msg
  <2>. HIDE DEF S, T
  <2>1. <<>> \in Seq(S) /\ <<>> \in Seq(T)
    OBVIOUS
  <2>. QED  BY <2>1 DEF Init, S, T
<1>5. Types
  BY <1>3, <1>4 DEF Init, Types, NoOp
<1>6. Places /\ OwnReply
  BY DEF Init, Places, OwnReply
<1>7. InFlight
  BY DEF Init, InFlight
<1>. QED  BY <1>5, <1>6, <1>7 DEF IInv

LEMMA ReceiveKeeps ==
  ASSUME IInv, NEW c \in Clients, NEW kind, NEW h \in Nat, Receive(c, kind, h),
         kind \in {"click", "type"} \/ h = 0,
         kind \in {"navigate", "tree", "scroll", "click", "type"}
  PROVE  IInv'
<1>. USE DEF IInv, Types, TypeOK
<1>1. Meant(c, h) \in Elem
  <2>1. CASE shown[c] # 0 /\ h \in Handles
    BY <2>1, TreesTyped DEF Meant, NoElem, Elem
  <2>. QED  BY <2>1 DEF Meant, NoElem, Elem
<1>2. /\ First(kind, h) \in Exchanges \cup {"start", "refused"}
      /\ First(kind, h) = "resolve" => h \in Handles
  BY DEF First, Exchanges
<1>3. pc' \in Exchanges \cup {"start", "idle"} /\ (pc' = "resolve" => h \in Handles)
  BY <1>2 DEF Receive
<1>4. /\ op'.handle \in Nat /\ op'.meant \in Elem /\ (pc' = "resolve" => op'.handle = h)
      /\ object' = NoElem /\ want = 0
  BY <1>1 DEF Receive, Places, Exchanges
<1>5. /\ started_' = started_ /\ next_req_id_' = next_req_id_ /\ handle_map_' = handle_map_
      /\ session_id_' = session_id_ /\ proc' = proc /\ page' = page /\ toChrome' = toChrome
      /\ busy' = busy /\ fromChrome' = fromChrome /\ want' = want /\ shown' = shown /\ own' = own
  BY DEF Receive, bridge, browser, history
<1>6. NoElem \in Elem
  BY DEF NoElem, Elem
<1>7. TypeOK'
  BY <1>1, <1>3, <1>4, <1>5, <1>6
<1>8. Types'
  BY <1>4, <1>5, <1>7
<1>. HIDE DEF Types, TypeOK
<1>9. Places'
  <2>1. (pc = "resolve" => op.handle \in Handles)' /\ pc' # "stopped"
    BY <1>3, <1>4 DEF Exchanges
  <2>2. (want # 0 => pc \in Exchanges /\ want = next_req_id_ - 1)'
    BY <1>4, <1>5
  <2>3. (proc = "running" => page # 0)' /\ (~started_ => proc \notin {"running", "zombie"})'
    BY <1>5 DEF Places
  <2>. QED  BY <2>1, <2>2, <2>3 DEF Places
<1>11. OwnReply'
  BY <1>5 DEF OwnReply
<1>10. InFlight'
  <2>1. \A i \in 1 .. Len(fromChrome') : fromChrome'[i].id < next_req_id_'
    BY <1>5 DEF InFlight, GoodMsg
  <2>2. next_req_id_ \in Nat /\ next_req_id_ >= next_req_id_ /\ fromChrome \in Seq(Msg)
    BY DEF Types, TypeOK
  <2>. QED  BY <1>4, <1>5, <2>1, <2>2, NothingAwaited
<1>. QED  BY <1>8, <1>9, <1>10, <1>11

\* The request goes on to another exchange or ends.
LEMMA Continues ==
  ASSUME IInv, want' = 0, pc' \in (Exchanges \ {"resolve"}) \cup {"idle"},
         shown' \in [Clients -> 0 .. Len(Docs)], started_' = started_, op' \in {op, NoOp},
         session_id_' \in BOOLEAN, handle_map_' \in [Handles -> Nat], object' \in Elem,
         next_req_id_' \in Nat, next_req_id_' >= next_req_id_,
         proc' = proc, page' = page, toChrome' = toChrome, busy' = busy,
         fromChrome' \in Seq(Msg),
         \A i \in 1 .. Len(fromChrome') : fromChrome'[i].id < next_req_id_',
         own'
  PROVE  IInv'
<1>1. Types /\ TypeOK /\ Places /\ InFlight
  BY DEF IInv, Types
<1>2. TypeOK'
  <2>1. started_' \in BOOLEAN /\ session_id_' \in BOOLEAN
    BY <1>1 DEF TypeOK
  <2>2. next_req_id_' \in Nat \ {0} /\ want' \in Nat
    BY <1>1 DEF TypeOK
  <2>3. pc' \in Exchanges \cup {"idle", "start", "stopped"} /\ IsFiniteSet(busy')
    BY <1>1 DEF TypeOK
  <2>4. /\ proc' \in {"none", "running", "zombie", "reaped", "other", "stray"}
        /\ page' \in 0 .. Len(Docs) /\ op'.meant \in Elem
    BY <1>1 DEF TypeOK, NoOp, NoElem, Elem
  <2>. QED  BY <2>1, <2>2, <2>3, <2>4 DEF TypeOK
<1>3. Types'
  BY <1>1, <1>2 DEF Types, NoOp
<1>4. Places'
  <2>1. pc' # "resolve" /\ pc' # "stopped"
    BY DEF Exchanges
  <2>2. (proc = "running" => page # 0)' /\ (~started_ => proc \notin {"running", "zombie"})'
    BY <1>1 DEF Places
  <2>. QED  BY <2>1, <2>2 DEF Places
<1>5. InFlight'
  BY <1>1, NothingAwaited
<1>. QED  BY <1>3, <1>4, <1>5 DEF IInv, OwnReply

\* The server does not move: only what is in the pipes, and the browser, change.
LEMMA BrowserMoves ==
  ASSUME IInv, started_' = started_, next_req_id_' = next_req_id_, handle_map_' = handle_map_,
         session_id_' = session_id_, pc' = pc, want' = want, op' = op, object' = object,
         shown' = shown, own' = own,
         page' \in 0 .. Len(Docs), proc' \in {"none", "running", "zombie", "reaped", "other", "stray"},
         proc' = "running" => page' # 0,
         proc' \in {"running", "zombie"} => proc \in {"running", "zombie"},
         toChrome' \in Seq(Cmd), busy' \subseteq Cmd, IsFiniteSet(busy'), fromChrome' \in Seq(Msg),
         \A i \in 1 .. Len(toChrome') : GoodCmd(toChrome'[i]),
         \A r \in busy' : GoodCmd(r),
         \A i \in 1 .. Len(fromChrome') : GoodMsg(fromChrome'[i])
  PROVE  IInv'
<1>1. Types /\ TypeOK /\ Places
  BY DEF IInv, Types
<1>2. TypeOK'
  <2>1. started_' \in BOOLEAN /\ session_id_' \in BOOLEAN
    BY <1>1 DEF TypeOK
  <2>2. next_req_id_' \in Nat \ {0} /\ want' \in Nat /\ handle_map_' \in [Handles -> Nat]
    BY <1>1 DEF TypeOK
  <2>3. /\ pc' \in Exchanges \cup {"idle", "start", "stopped"}
        /\ shown' \in [Clients -> 0 .. Len(Docs)] /\ object' \in Elem /\ op'.meant \in Elem
    BY <1>1 DEF TypeOK
  <2>. QED  BY <2>1, <2>2, <2>3 DEF TypeOK
<1>3. Types'
  BY <1>1, <1>2 DEF Types
<1>4. Places'
  <2>1. (pc = "resolve" => op.handle \in Handles)' /\ (pc = "stopped" => ~started_)'
    BY <1>1 DEF Places
  <2>2. (want # 0 => pc \in Exchanges /\ want = next_req_id_ - 1)'
    BY <1>1 DEF Places
  <2>3. (~started_ => proc \notin {"running", "zombie"})'
    BY <1>1 DEF Places
  <2>. QED  BY <2>1, <2>2, <2>3 DEF Places
<1>5. InFlight'
  BY DEF InFlight, GoodCmd, GoodMsg
<1>. QED  BY <1>3, <1>4, <1>5 DEF IInv, OwnReply

\* What the invariant says of ids and types, in the form the steps use.
LEMMA Given ==
  ASSUME IInv
  PROVE  /\ next_req_id_ \in Nat \ {0} /\ next_req_id_ >= next_req_id_ /\ next_req_id_ + 1 >= next_req_id_
         /\ session_id_ \in BOOLEAN /\ handle_map_ \in [Handles -> Nat] /\ object \in Elem
         /\ shown \in [Clients -> 0 .. Len(Docs)]
         /\ toChrome \in Seq(Cmd) /\ busy \subseteq Cmd /\ IsFiniteSet(busy) /\ fromChrome \in Seq(Msg)
         /\ op.handle \in Nat /\ op.meant \in Elem /\ page \in 0 .. Len(Docs)
         /\ \A i \in 1 .. Len(fromChrome) : fromChrome[i].id < next_req_id_
         /\ own
BY DEF IInv, Types, TypeOK, InFlight, GoodMsg, OwnReply

LEMMA LaunchKeeps == IInv /\ Launch => IInv'
<1>. SUFFICES ASSUME IInv, Launch PROVE IInv'
  OBVIOUS
<1>1. Types /\ TypeOK /\ Places /\ InFlight
  BY DEF IInv, Types
<1>2. /\ started_' = TRUE /\ proc' = "running" /\ page' = 1 /\ pc' = "targets"
      /\ next_req_id_' = next_req_id_ /\ handle_map_' = handle_map_ /\ session_id_' = session_id_
      /\ toChrome' = toChrome /\ busy' = busy /\ fromChrome' = fromChrome /\ want' = want
      /\ op' = op /\ object' = object /\ shown' = shown /\ own' = own
  BY DEF Launch, history
<1>3. want = 0
  BY <1>1 DEF Launch, Places, Exchanges
<1>4. 1 \in 0 .. Len(Docs)
  BY BridgeAssumption
<1>5. TypeOK'
  <2>1. started_' \in BOOLEAN /\ session_id_' \in BOOLEAN
    BY <1>1, <1>2 DEF TypeOK
  <2>2. next_req_id_' \in Nat \ {0} /\ want' \in Nat /\ handle_map_' \in [Handles -> Nat]
    BY <1>1, <1>2 DEF TypeOK
  <2>3. /\ pc' \in Exchanges \cup {"idle", "start", "stopped"}
        /\ shown' \in [Clients -> 0 .. Len(Docs)] /\ object' \in Elem /\ op'.meant \in Elem
        /\ IsFiniteSet(busy')
    BY <1>1, <1>2 DEF TypeOK, Exchanges
  <2>. QED  BY <1>2, <1>4, <2>1, <2>2, <2>3 DEF TypeOK
<1>6. Types'
  BY <1>1, <1>2, <1>5 DEF Types
<1>7. Places'
  <2>1. pc' # "resolve" /\ pc' # "stopped" /\ want' = 0 /\ page' # 0
    BY <1>2, <1>3
  <2>2. started_'
    BY <1>2
  <2>. QED  BY <2>1, <2>2 DEF Places
<1>8. InFlight'
  BY <1>1, <1>2, <1>3, Given, NothingAwaited
<1>9. OwnReply'
  BY <1>2 DEF IInv, OwnReply
<1>. QED  BY <1>6, <1>7, <1>8, <1>9 DEF IInv

LEMMA LaunchFailsKeeps == IInv /\ LaunchFails => IInv'
<1>. SUFFICES ASSUME IInv, LaunchFails PROVE IInv'
  OBVIOUS
<1>1. /\ started_' = started_ /\ next_req_id_' = next_req_id_ /\ handle_map_' = handle_map_
      /\ session_id_' = session_id_ /\ proc' = proc /\ page' = page /\ toChrome' = toChrome
      /\ busy' = busy /\ fromChrome' = fromChrome /\ object' = object /\ own' = own
  BY DEF LaunchFails, bridge, browser
<1>2. want' = 0 /\ pc' = "idle" /\ shown' = shown /\ op' = NoOp
  BY DEF LaunchFails, Finish
<1>. QED  BY <1>1, <1>2, Given, Continues

\* A command that cannot be written; one that is, is the only one with its id.
LEMMA SendKeeps == IInv /\ Send => IInv'
<1>. SUFFICES ASSUME IInv, Send PROVE IInv'
  OBVIOUS
<1>1. /\ started_' = started_ /\ handle_map_' = handle_map_ /\ session_id_' = session_id_
      /\ proc' = proc /\ page' = page /\ busy' = busy /\ fromChrome' = fromChrome
      /\ object' = object /\ own' = own /\ next_req_id_' = next_req_id_ + 1
      /\ pc \in Exchanges /\ want = 0
  BY DEF Send
<1>2. Types /\ TypeOK /\ Places /\ InFlight
  BY DEF IInv, Types
<1>3. CASE WriteFails /\ UNCHANGED toChrome
  <2>1. /\ pc' \in (Exchanges \ {"resolve"}) \cup {"idle"} /\ want' = 0
        /\ shown' \in [Clients -> 0 .. Len(Docs)] /\ op' \in {op, NoOp}
    BY <1>1, <1>2, <1>3, FailureGoes
  <2>2. \A i \in 1 .. Len(fromChrome') : fromChrome'[i].id < next_req_id_'
    <3>1. \A i \in 1 .. Len(fromChrome) : fromChrome[i].id \in Nat
      BY Given, MsgAt
    <3>. QED  BY <1>1, <3>1, Given
  <2>. QED  BY <1>1, <1>3, <2>1, <2>2, Given, Continues
<1>4. CASE /\ proc = "running" /\ toChrome' = Append(toChrome, Command)
           /\ want' = next_req_id_ /\ UNCHANGED <<pc, op, astray, shown>>
  <2>1. Command \in Cmd
    <3>1. pc = "resolve" => handle_map_[op.handle] \in Nat
      BY <1>2, Given DEF Places
    <3>2. (IF pc = "resolve" THEN handle_map_[op.handle] ELSE 0) \in Nat
      BY <3>1
    <3>3. next_req_id_ \in Nat \ {0} /\ session_id_ \in BOOLEAN /\ object \in Elem /\ op.meant \in Elem
      BY Given
    <3>. QED  BY <1>1, <3>2, <3>3 DEF Command, Cmd
  <2>2. TypeOK'
    <3>1. started_' \in BOOLEAN /\ session_id_' \in BOOLEAN
      BY <1>1, <1>2 DEF TypeOK
    <3>2. next_req_id_' \in Nat \ {0} /\ want' \in Nat /\ handle_map_' \in [Handles -> Nat]
      BY <1>1, <1>2, <1>4 DEF TypeOK
    <3>3. /\ pc' \in Exchanges \cup {"idle", "start", "stopped"}
          /\ shown' \in [Clients -> 0 .. Len(Docs)] /\ object' \in Elem /\ op'.meant \in Elem
          /\ page' \in 0 .. Len(Docs) /\ IsFiniteSet(busy')
          /\ proc' \in {"none", "running", "zombie", "reaped", "other", "stray"}
      BY <1>1, <1>2, <1>4 DEF TypeOK
    <3>. QED  BY <3>1, <3>2, <3>3 DEF TypeOK
  <2>3. Types'
    <3>1. toChrome' \in Seq(Cmd)
      BY <1>4, <2>1, Given
    <3>. QED  BY <1>1, <1>2, <1>4, <2>2, <3>1 DEF Types
  <2>4. Places'
    <3>1. (pc = "resolve" => op.handle \in Handles)' /\ pc' # "stopped"
      BY <1>1, <1>2, <1>4 DEF Places, Exchanges
    <3>2. (want # 0 => pc \in Exchanges /\ want = next_req_id_ - 1)'
      BY <1>1, <1>4, Given
    <3>3. (proc = "running" => page # 0)' /\ (~started_ => proc \notin {"running", "zombie"})'
      BY <1>1, <1>2 DEF Places
    <3>. QED  BY <3>1, <3>2, <3>3 DEF Places
  <2>5. InFlight'
    <3>. DEFINE n == next_req_id_
    <3>1. n \in Nat /\ n' = n + 1 /\ want' = n
      BY <1>1, <1>4, Given
    <3>2. ASSUME NEW i \in 1 .. Len(toChrome') PROVE GoodCmd(toChrome[i])'
      <4>1. CASE i \in 1 .. Len(toChrome)
        <5>1. toChrome'[i] = toChrome[i] /\ toChrome[i].id \in Nat /\ toChrome[i].id < n
          BY <1>2, <1>4, <4>1, Given, CmdAt DEF InFlight, GoodCmd
        <5>. QED  BY <3>1, <5>1 DEF GoodCmd
      <4>2. CASE i \notin 1 .. Len(toChrome)
        <5>1. toChrome'[i] = Command
          BY <1>4, <4>2, Given
        <5>. QED  BY <1>4, <3>1, <5>1 DEF GoodCmd, Command
      <4>. QED  BY <4>1, <4>2
    <3>3. ASSUME NEW r \in busy' PROVE GoodCmd(r)'
      <4>1. r.id \in Nat /\ r.id < n
        BY <1>1, <1>2, Given DEF InFlight, GoodCmd, Cmd
      <4>. QED  BY <3>1, <4>1 DEF GoodCmd
    <3>4. ASSUME NEW i \in 1 .. Len(fromChrome') PROVE GoodMsg(fromChrome[i])'
      <4>1. fromChrome'[i] = fromChrome[i] /\ fromChrome[i].id \in Nat /\ fromChrome[i].id < n
        BY <1>1, Given, MsgAt
      <4>. QED  BY <3>1, <4>1 DEF GoodMsg
    <3>. QED  BY <3>2, <3>3, <3>4 DEF InFlight
  <2>6. OwnReply'
    BY <1>1 DEF IInv, OwnReply
  <2>. QED  BY <2>3, <2>4, <2>5, <2>6 DEF IInv
<1>. QED  BY <1>3, <1>4 DEF Send

LEMMA DiscardKeeps == IInv /\ Discard => IInv'
<1>. SUFFICES ASSUME IInv, Discard PROVE IInv'
  OBVIOUS
<1>1. /\ started_' = started_ /\ next_req_id_' = next_req_id_ /\ handle_map_' = handle_map_
      /\ session_id_' = session_id_ /\ pc' = pc /\ want' = want /\ op' = op /\ object' = object
      /\ shown' = shown /\ own' = own /\ proc' = proc /\ page' = page /\ toChrome' = toChrome
      /\ busy' = busy /\ fromChrome # <<>> /\ fromChrome' = Tail(fromChrome)
  BY DEF Discard, bridge, turn, history
<1>2. Types /\ TypeOK /\ Places /\ InFlight
  BY DEF IInv, Types
<1>3. /\ fromChrome' \in Seq(Msg) /\ Len(fromChrome') = Len(fromChrome) - 1
      /\ \A i \in 1 .. Len(fromChrome') : fromChrome'[i] = fromChrome[i + 1] /\ i + 1 \in 1 .. Len(fromChrome)
  <2>. DEFINE q == fromChrome
              S == Msg
  <2>1. q \in Seq(S) /\ q # <<>> /\ fromChrome' = Tail(q)
    BY <1>1, Given
  <2>. HIDE DEF q, S
  <2>2. Tail(q) \in Seq(S) /\ Len(Tail(q)) = Len(q) - 1 /\ Len(q) \in Nat
    BY <2>1
  <2>3. \A i \in 1 .. Len(Tail(q)) : Tail(q)[i] = q[i + 1] /\ i + 1 \in 1 .. Len(q)
    BY <2>1, <2>2
  <2>. QED  BY <2>1, <2>2, <2>3 DEF q, S
<1>4. \A i \in 1 .. Len(fromChrome') : GoodMsg(fromChrome'[i])
  BY <1>2, <1>3 DEF InFlight
<1>5. \A i \in 1 .. Len(toChrome') : GoodCmd(toChrome'[i])
  BY <1>1, <1>2 DEF InFlight
<1>6. \A r \in busy' : GoodCmd(r)
  BY <1>1, <1>2 DEF InFlight
<1>7. /\ proc' \in {"none", "running", "zombie", "reaped", "other", "stray"}
      /\ (proc' = "running" => page' # 0) /\ page' \in 0 .. Len(Docs)
  BY <1>1, <1>2 DEF TypeOK, Places
<1>. QED  BY <1>1, <1>3, <1>4, <1>5, <1>6, <1>7, Given, BrowserMoves

\* The message that is taken is the answer to the command that waits, since no id
\* given out is greater.
LEMMA TakeKeeps == IInv /\ Take => IInv'
<1>. SUFFICES ASSUME IInv, Take PROVE IInv'
  OBVIOUS
<1>. DEFINE m == fromChrome[1]
<1>1. /\ started_' = started_ /\ next_req_id_' = next_req_id_ /\ proc' = proc /\ page' = page
      /\ toChrome' = toChrome /\ busy' = busy
      /\ pc \in Exchanges /\ want # 0 /\ fromChrome # <<>> /\ Matches(m.id, want) /\ Use(m)
      /\ own' = (own /\ m.id = want) /\ fromChrome' = Tail(fromChrome)
  BY DEF Take, Waiting
<1>2. Types /\ TypeOK /\ Places /\ InFlight
  BY DEF IInv, Types
<1>3. /\ fromChrome' \in Seq(Msg) /\ 1 \in 1 .. Len(fromChrome)
      /\ \A i \in 1 .. Len(fromChrome') : fromChrome'[i] = fromChrome[i + 1] /\ i + 1 \in 1 .. Len(fromChrome)
  <2>. DEFINE q == fromChrome
              S == Msg
  <2>1. q \in Seq(S) /\ q # <<>> /\ fromChrome' = Tail(q)
    BY <1>1, Given
  <2>. HIDE DEF q, S
  <2>2. Tail(q) \in Seq(S) /\ Len(Tail(q)) = Len(q) - 1 /\ Len(q) \in Nat /\ Len(q) # 0
    BY <2>1
  <2>3. \A i \in 1 .. Len(Tail(q)) : Tail(q)[i] = q[i + 1] /\ i + 1 \in 1 .. Len(q)
    BY <2>1, <2>2
  <2>. QED  BY <2>1, <2>2, <2>3 DEF q, S
<1>. HIDE DEF m
<1>4. m \in Msg /\ m.id \in Nat /\ m.page \in 0 .. Len(Docs) /\ m.ok \in BOOLEAN /\ m.elem \in Elem /\ GoodMsg(m)
  BY <1>2, <1>3, Given, MsgAt DEF InFlight, Msg, m
<1>5. m.id = want
  <2>1. want \in Nat \ {0} /\ m.id <= want
    <3>1. want \in Nat /\ want = next_req_id_ - 1 /\ m.id < next_req_id_ /\ next_req_id_ \in Nat
      BY <1>1, <1>2, <1>4, Given DEF Places, TypeOK, GoodMsg
    <3>. QED  BY <1>1, <1>4, <3>1
  <2>. QED  BY <1>1, <1>4, <2>1, FoundIsEqual
<1>6. /\ pc' \in (Exchanges \ {"resolve"}) \cup {"idle"} /\ want' = 0
      /\ shown' \in [Clients -> 0 .. Len(Docs)] /\ op' \in {op, NoOp}
  <2>1. CASE GoOn(m.page)
    BY <1>1, <1>2, <1>4, <2>1, GoOnGoes
  <2>2. CASE GiveUp
    <3>1. pc' = "idle" /\ want' = 0 /\ shown' = shown /\ op' = NoOp
      BY <2>2 DEF GiveUp, Finish
    <3>. QED  BY <3>1, Given
  <2>. QED  BY <1>1, <2>1, <2>2 DEF Use
<1>7. session_id_' \in BOOLEAN
  <2>1. session_id_' = (session_id_ \/ (pc = "attach" /\ m.ok))
    BY <1>1 DEF Use
  <2>. QED  BY <2>1
<1>8. handle_map_' \in [Handles -> Nat]
  <2>1. NoHandles \in [Handles -> Nat]
    BY DEF NoHandles
  <2>2. CASE pc = "tree" /\ m.ok
    <3>1. m.page # 0
      BY <1>1, <1>4, <1>5, <2>2 DEF GoodMsg
    <3>2. Maps[m.page] \subseteq [Handles -> Nat]
      BY <1>4, <3>1, TreesTyped
    <3>. QED  BY <1>1, <2>2, <3>2 DEF Use, NewMap
  <2>3. CASE ~(pc = "tree" /\ m.ok)
    BY <1>1, <2>1, <2>3, Given DEF Use, NewMap
  <2>. QED  BY <2>2, <2>3
<1>9. object' \in Elem
  BY <1>1, <1>4, Given DEF Use
<1>10. \A i \in 1 .. Len(fromChrome') : fromChrome'[i].id < next_req_id_'
  BY <1>1, <1>3, Given
<1>11. own'
  BY <1>1, <1>5, Given
<1>. QED  BY <1>1, <1>3, <1>6, <1>7, <1>8, <1>9, <1>10, <1>11, Given, Continues

LEMMA TimeoutKeeps == IInv /\ Timeout => IInv'
<1>. SUFFICES ASSUME IInv, Timeout PROVE IInv'
  OBVIOUS
<1>1. /\ started_' = started_ /\ next_req_id_' = next_req_id_ /\ handle_map_' = handle_map_
      /\ session_id_' = session_id_ /\ proc' = proc /\ page' = page /\ toChrome' = toChrome
      /\ busy' = busy /\ object' = object /\ own' = own
      /\ pc \in Exchanges /\ ReadFails
  BY DEF Timeout, Waiting, bridge
<1>2. /\ pc' \in (Exchanges \ {"resolve"}) \cup {"idle"} /\ want' = 0
      /\ shown' \in [Clients -> 0 .. Len(Docs)] /\ op' \in {op, NoOp}
  BY <1>1, FailureGoes DEF IInv
<1>3. CASE fromChrome' = fromChrome
  BY <1>1, <1>2, <1>3, Given, Continues
<1>4. CASE fromChrome # <<>> /\ fromChrome' = [fromChrome EXCEPT ![1] = Rest(@)]
  <2>1. 1 \in 1 .. Len(fromChrome)
    BY <1>4, Given
  <2>2. Rest(fromChrome[1]) \in Msg /\ Rest(fromChrome[1]).id = 0
    BY <2>1, Given, MsgAt DEF Rest, Msg
  <2>3. /\ fromChrome' \in Seq(Msg) /\ Len(fromChrome') = Len(fromChrome)
        /\ fromChrome'[1] = Rest(fromChrome[1])
        /\ \A i \in 1 .. Len(fromChrome) : i # 1 => fromChrome'[i] = fromChrome[i]
    BY <1>4, <2>1, <2>2, Given
  <2>4. 0 < next_req_id_
    BY Given
  <2>5. \A i \in 1 .. Len(fromChrome') : fromChrome'[i].id < next_req_id_'
    BY <1>1, <2>2, <2>3, <2>4, Given
  <2>. QED  BY <1>1, <1>2, <2>3, <2>5, Given, Continues
<1>. QED  BY <1>3, <1>4 DEF Timeout

LEMMA EndOfFileKeeps == IInv /\ EndOfFile => IInv'
<1>. SUFFICES ASSUME IInv, EndOfFile PROVE IInv'
  OBVIOUS
<1>1. /\ started_' = started_ /\ next_req_id_' = next_req_id_ /\ handle_map_' = handle_map_
      /\ session_id_' = session_id_ /\ proc' = proc /\ page' = page /\ toChrome' = toChrome
      /\ busy' = busy /\ fromChrome' = fromChrome /\ object' = object /\ own' = own
      /\ pc \in Exchanges /\ ReadFails
  BY DEF EndOfFile, Waiting, bridge, browser
<1>2. /\ pc' \in (Exchanges \ {"resolve"}) \cup {"idle"} /\ want' = 0
      /\ shown' \in [Clients -> 0 .. Len(Docs)] /\ op' \in {op, NoOp}
  BY <1>1, FailureGoes DEF IInv
<1>. QED  BY <1>1, <1>2, Given, Continues

\* stop sends the signal wherever the browser was started, so nothing of it is left.
LEMMA StopKeeps == IInv /\ Stop => IInv'
<1>. SUFFICES ASSUME IInv, Stop PROVE IInv'
  OBVIOUS
<1>1. /\ pc = "idle" /\ pc' = "stopped" /\ proc' = Ended /\ started_' = FALSE /\ session_id_' = FALSE
      /\ next_req_id_' = 1 /\ handle_map_' = NoHandles /\ toChrome' = <<>> /\ busy' = {}
      /\ fromChrome' = <<>> /\ page' = page /\ want' = want /\ op' = op /\ object' = object
      /\ shown' = shown /\ own' = own
  BY DEF Stop, history
<1>2. Types /\ TypeOK /\ Places
  BY DEF IInv, Types
<1>3. want = 0
  BY <1>1, <1>2 DEF Places, Exchanges
<1>4. proc' \in {"none", "reaped", "other", "stray"}
  BY <1>1, <1>2 DEF Ended, Collected, Places, TypeOK
<1>5. toChrome' \in Seq(Cmd) /\ fromChrome' \in Seq(Msg) /\ Len(toChrome') = 0 /\ Len(fromChrome') = 0
  <2>. DEFINE S == Cmd
              T == Msg
  <2>. HIDE DEF S, T
  <2>1. <<>> \in Seq(S) /\ <<>> \in Seq(T) /\ Len(<<>>) = 0
    OBVIOUS
  <2>. QED  BY <1>1, <2>1 DEF S, T
<1>6. TypeOK'
  <2>1. started_' \in BOOLEAN /\ session_id_' \in BOOLEAN
    BY <1>1
  <2>2. next_req_id_' \in Nat \ {0} /\ want' \in Nat /\ handle_map_' \in [Handles -> Nat]
    BY <1>1, <1>3 DEF NoHandles
  <2>3. /\ shown' \in [Clients -> 0 .. Len(Docs)] /\ object' \in Elem /\ op'.meant \in Elem
        /\ page' \in 0 .. Len(Docs)
    BY <1>1, <1>2 DEF TypeOK
  <2>4. IsFiniteSet(busy')
    BY <1>1, FS_EmptySet
  <2>. QED  BY <1>1, <1>4, <2>1, <2>2, <2>3, <2>4 DEF TypeOK
<1>7. Types'
  BY <1>1, <1>2, <1>5, <1>6 DEF Types
<1>8. Places'
  <2>1. pc' # "resolve" /\ want' = 0 /\ proc' \notin {"running", "zombie"}
    BY <1>1, <1>3, <1>4
  <2>2. ~started_'
    BY <1>1
  <2>. QED  BY <2>1, <2>2 DEF Places
<1>9. InFlight'
  BY <1>1, <1>5 DEF InFlight
<1>. QED  BY <1>1, <1>7, <1>8, <1>9, Given DEF IInv, OwnReply

-----------------------------------------------------------------------------
(* The steps of the browser. *)

\* What the browser has not touched is still good.
LEMMA PipesGood ==
  ASSUME IInv
  PROVE  /\ \A i \in 1 .. Len(toChrome) : GoodCmd(toChrome[i])
         /\ \A r \in busy : GoodCmd(r)
         /\ \A i \in 1 .. Len(fromChrome) : GoodMsg(fromChrome[i])
         /\ proc \in {"none", "running", "zombie", "reaped", "other", "stray"}
         /\ proc = "running" => page # 0
BY DEF IInv, InFlight, Places, Types, TypeOK

\* A command that is read is one of those that were written.
LEMMA HeadAndTail ==
  ASSUME NEW S, NEW q \in Seq(S), q # <<>>
  PROVE  /\ 1 \in 1 .. Len(q) /\ Head(q) = q[1] /\ Head(q) \in S
         /\ Tail(q) \in Seq(S)
         /\ \A i \in 1 .. Len(Tail(q)) : Tail(q)[i] = q[i + 1] /\ i + 1 \in 1 .. Len(q)
<1>1. Len(q) \in Nat /\ Len(q) # 0 /\ Len(Tail(q)) = Len(q) - 1 /\ Tail(q) \in Seq(S)
  OBVIOUS
<1>2. 1 \in 1 .. Len(q)
  BY <1>1
<1>3. q[1] \in S /\ Head(q) = q[1]
  BY <1>2
<1>4. \A i \in 1 .. Len(Tail(q)) : Tail(q)[i] = q[i + 1] /\ i + 1 \in 1 .. Len(q)
  BY <1>1
<1>. QED  BY <1>1, <1>2, <1>3, <1>4

LEMMA ReadsKeeps == IInv /\ Reads => IInv'
<1>. SUFFICES ASSUME IInv, Reads PROVE IInv'
  OBVIOUS
<1>1. /\ started_' = started_ /\ next_req_id_' = next_req_id_ /\ handle_map_' = handle_map_
      /\ session_id_' = session_id_ /\ pc' = pc /\ want' = want /\ op' = op /\ object' = object
      /\ shown' = shown /\ own' = own
      /\ proc' = proc /\ page' = page /\ fromChrome' = fromChrome /\ toChrome # <<>>
      /\ busy' = busy \cup {Head(toChrome)} /\ toChrome' = Tail(toChrome)
  BY DEF Reads, bridge, turn, history
<1>2. toChrome \in Seq(Cmd)
  BY Given
<1>3. /\ 1 \in 1 .. Len(toChrome) /\ Head(toChrome) = toChrome[1] /\ Head(toChrome) \in Cmd
      /\ toChrome' \in Seq(Cmd)
      /\ \A i \in 1 .. Len(toChrome') : toChrome'[i] = toChrome[i + 1] /\ i + 1 \in 1 .. Len(toChrome)
  BY <1>1, <1>2, HeadAndTail
<1>4. busy' \subseteq Cmd /\ IsFiniteSet(busy')
  BY <1>1, <1>3, Given, FS_AddElement
<1>5. \A i \in 1 .. Len(toChrome') : GoodCmd(toChrome'[i])
  BY <1>3, PipesGood
<1>6. \A r \in busy' : GoodCmd(r)
  BY <1>1, <1>3, PipesGood
<1>. QED  BY <1>1, <1>3, <1>4, <1>5, <1>6, Given, PipesGood, BrowserMoves

LEMMA AnswersKeeps == ASSUME NEW r PROVE IInv /\ Answers(r) => IInv'
<1>. SUFFICES ASSUME IInv, Answers(r) PROVE IInv'
  OBVIOUS
<1>1. /\ started_' = started_ /\ next_req_id_' = next_req_id_ /\ handle_map_' = handle_map_
      /\ session_id_' = session_id_ /\ pc' = pc /\ want' = want /\ op' = op /\ object' = object
      /\ shown' = shown /\ own' = own
      /\ proc' = proc /\ page' = page /\ toChrome' = toChrome /\ busy' = busy \ {r}
      /\ r \in busy /\ proc = "running"
  BY DEF Answers, bridge, turn
<1>2. PICK ok \in Possible(r) : fromChrome' = Append(fromChrome,
        [id |-> r.id, ok |-> ok, page |-> IF r.does = "tree" THEN page ELSE 0,
         elem |-> IF r.does = "resolve" THEN <<page, r.node>> ELSE NoElem])
  BY DEF Answers
<1>. DEFINE m == [id |-> r.id, ok |-> ok, page |-> IF r.does = "tree" THEN page ELSE 0,
                  elem |-> IF r.does = "resolve" THEN <<page, r.node>> ELSE NoElem]
<1>3. /\ r \in Cmd /\ r.id \in Nat /\ r.node \in Nat /\ r.session \in BOOLEAN /\ GoodCmd(r)
      /\ page # 0 /\ page \in 0 .. Len(Docs) /\ page \in Nat
  <2>1. r \in Cmd /\ GoodCmd(r)
    BY <1>1, Given, PipesGood
  <2>2. r.id \in Nat /\ r.node \in Nat /\ r.session \in BOOLEAN
    BY <2>1, BridgeAssumption DEF Cmd
  <2>3. page # 0 /\ page \in 0 .. Len(Docs) /\ page \in Nat
    BY <1>1, Given, PipesGood, BridgeAssumption, SMTT(30)
  <2>. QED  BY <2>1, <2>2, <2>3
<1>4. ok \in BOOLEAN
  BY <1>2, <1>3 DEF Possible
<1>5. m \in Msg
  <2>1. (IF r.does = "tree" THEN page ELSE 0) \in 0 .. Len(Docs)
    BY <1>3, BridgeAssumption
  <2>2. (IF r.does = "resolve" THEN <<page, r.node>> ELSE NoElem) \in Elem
    BY <1>3 DEF Elem, NoElem
  <2>. QED  BY <1>3, <1>4, <2>1, <2>2 DEF Msg
<1>6. GoodMsg(m)
  <2>1. m.id = r.id /\ m.page = IF r.does = "tree" THEN page ELSE 0
    OBVIOUS
  <2>. QED  BY <1>3, <2>1 DEF GoodMsg, GoodCmd
<1>. HIDE DEF m
<1>7. fromChrome' = Append(fromChrome, m)
  BY <1>2 DEF m
<1>8. fromChrome' \in Seq(Msg) /\ \A i \in 1 .. Len(fromChrome') : GoodMsg(fromChrome'[i])
  <2>1. \A i \in 1 .. Len(fromChrome') : fromChrome'[i] = m \/ (i \in 1 .. Len(fromChrome) /\ fromChrome'[i] = fromChrome[i])
    BY <1>5, <1>7, Given
  <2>. QED  BY <1>5, <1>6, <1>7, <2>1, Given, PipesGood
<1>9. busy' \subseteq Cmd /\ IsFiniteSet(busy')
  BY <1>1, Given, FS_RemoveElement
<1>10. \A s \in busy' : GoodCmd(s)
  BY <1>1, PipesGood
<1>. QED  BY <1>1, <1>8, <1>9, <1>10, Given, PipesGood, BrowserMoves

LEMMA ReportsKeeps == IInv /\ Reports => IInv'
<1>. SUFFICES ASSUME IInv, Reports PROVE IInv'
  OBVIOUS
<1>. DEFINE m == [id |-> 0, ok |-> FALSE, page |-> 0, elem |-> NoElem]
<1>1. /\ started_' = started_ /\ next_req_id_' = next_req_id_ /\ handle_map_' = handle_map_
      /\ session_id_' = session_id_ /\ pc' = pc /\ want' = want /\ op' = op /\ object' = object
      /\ shown' = shown /\ own' = own
      /\ proc' = proc /\ page' = page /\ toChrome' = toChrome /\ busy' = busy
      /\ fromChrome' = Append(fromChrome, m)
  BY DEF Reports, bridge, turn, history
<1>2. m \in Msg
  <2>1. 0 \in 0 .. Len(Docs) /\ NoElem \in Elem
    BY BridgeAssumption DEF Elem, NoElem
  <2>. QED  BY <2>1 DEF Msg
<1>3. GoodMsg(m)
  <2>1. 0 < next_req_id_ /\ m.id = 0
    BY Given
  <2>. QED  BY <2>1 DEF GoodMsg
<1>. HIDE DEF m
<1>4. fromChrome' \in Seq(Msg) /\ \A i \in 1 .. Len(fromChrome') : GoodMsg(fromChrome'[i])
  <2>1. \A i \in 1 .. Len(fromChrome') : fromChrome'[i] = m \/ (i \in 1 .. Len(fromChrome) /\ fromChrome'[i] = fromChrome[i])
    BY <1>1, <1>2, Given
  <2>. QED  BY <1>1, <1>2, <1>3, <2>1, Given, PipesGood
<1>. QED  BY <1>1, <1>4, Given, PipesGood, BrowserMoves

LEMMA LoadsKeeps == IInv /\ Loads => IInv'
<1>. SUFFICES ASSUME IInv, Loads PROVE IInv'
  OBVIOUS
<1>1. /\ started_' = started_ /\ next_req_id_' = next_req_id_ /\ handle_map_' = handle_map_
      /\ session_id_' = session_id_ /\ pc' = pc /\ want' = want /\ op' = op /\ object' = object
      /\ shown' = shown /\ own' = own
      /\ proc' = proc /\ page' = page + 1 /\ page < Len(Docs) /\ toChrome' = toChrome
      /\ busy' = busy /\ fromChrome' = fromChrome
  BY DEF Loads, bridge, turn, history
<1>2. page' \in 0 .. Len(Docs) /\ page' # 0
  BY <1>1, Given, BridgeAssumption, SMTT(30)
<1>. QED  BY <1>1, <1>2, Given, PipesGood, BrowserMoves

LEMMA EndsKeeps == IInv /\ Ends => IInv'
<1>. SUFFICES ASSUME IInv, Ends PROVE IInv'
  OBVIOUS
<1>1. /\ started_' = started_ /\ next_req_id_' = next_req_id_ /\ handle_map_' = handle_map_
      /\ session_id_' = session_id_ /\ pc' = pc /\ want' = want /\ op' = op /\ object' = object
      /\ shown' = shown /\ own' = own
      /\ proc = "running" /\ proc' = "zombie" /\ page' = page /\ toChrome' = <<>> /\ busy' = {}
  BY DEF Ends, bridge, turn, history
<1>2. PICK n \in 0 .. Len(fromChrome) : fromChrome' = SubSeq(fromChrome, 1, n)
  BY DEF Ends
<1>3. /\ fromChrome' \in Seq(Msg)
      /\ \A i \in 1 .. Len(fromChrome') : i \in 1 .. Len(fromChrome) /\ fromChrome'[i] = fromChrome[i]
  <2>. DEFINE q == fromChrome
              S == Msg
  <2>1. q \in Seq(S) /\ n \in 0 .. Len(q) /\ fromChrome' = SubSeq(q, 1, n)
    BY <1>2, Given
  <2>. HIDE DEF q, S
  <2>2. SubSeq(q, 1, n) \in Seq(S) /\ Len(SubSeq(q, 1, n)) = n /\ Len(q) \in Nat
    BY <2>1
  <2>3. \A i \in 1 .. n : i \in 1 .. Len(q) /\ SubSeq(q, 1, n)[i] = q[i]
    BY <2>1, <2>2
  <2>. QED  BY <2>1, <2>2, <2>3 DEF q, S
<1>4. \A i \in 1 .. Len(fromChrome') : GoodMsg(fromChrome'[i])
  BY <1>3, PipesGood
<1>5. toChrome' \in Seq(Cmd) /\ Len(toChrome') = 0 /\ IsFiniteSet(busy')
  <2>. DEFINE S == Cmd
  <2>. HIDE DEF S
  <2>1. <<>> \in Seq(S) /\ Len(<<>>) = 0
    OBVIOUS
  <2>. QED  BY <1>1, <2>1, FS_EmptySet DEF S
<1>. QED  BY <1>1, <1>3, <1>4, <1>5, Given, BrowserMoves

\* Its number is read, or used by somebody else.
LEMMA NumberKeeps == IInv /\ (ReapChildren \/ NumberReused) => IInv'
<1>. SUFFICES ASSUME IInv, ReapChildren \/ NumberReused PROVE IInv'
  OBVIOUS
<1>1. /\ started_' = started_ /\ next_req_id_' = next_req_id_ /\ handle_map_' = handle_map_
      /\ session_id_' = session_id_ /\ pc' = pc /\ want' = want /\ op' = op /\ object' = object
      /\ shown' = shown /\ own' = own
      /\ proc' \in {"reaped", "other"} /\ page' = page /\ toChrome' = toChrome
      /\ busy' = busy /\ fromChrome' = fromChrome
  BY DEF ReapChildren, NumberReused, bridge, turn, history
<1>. QED  BY <1>1, Given, PipesGood, BrowserMoves

-----------------------------------------------------------------------------
(* The first invariant holds. *)

LEMMA RequestKeeps == IInv /\ Request => IInv'
<1>. SUFFICES ASSUME IInv, NEW c \in Clients,
       \/ \E kind \in {"navigate", "tree", "scroll"} : Receive(c, kind, 0)
       \/ \E kind \in {"click", "type"}, h \in 0 .. MaxHandles : Receive(c, kind, h)
     PROVE IInv'
  BY DEF Request
<1>1. ASSUME NEW kind \in {"navigate", "tree", "scroll"}, Receive(c, kind, 0)
      PROVE  IInv'
  BY <1>1, ReceiveKeeps, 0 \in Nat
<1>2. ASSUME NEW kind \in {"click", "type"}, NEW h \in 0 .. MaxHandles, Receive(c, kind, h)
      PROVE  IInv'
  <2>1. h \in Nat
    BY BridgeAssumption
  <2>. QED  BY <1>2, <2>1, ReceiveKeeps
<1>. QED  BY <1>1, <1>2

LEMMA StutterKeeps == IInv /\ UNCHANGED vars => IInv'
<1>. SUFFICES ASSUME IInv, UNCHANGED vars PROVE IInv'
  OBVIOUS
<1>1. /\ started_' = started_ /\ next_req_id_' = next_req_id_ /\ handle_map_' = handle_map_
      /\ session_id_' = session_id_ /\ pc' = pc /\ want' = want /\ op' = op /\ object' = object
      /\ shown' = shown /\ own' = own
      /\ proc' = proc /\ page' = page /\ toChrome' = toChrome /\ busy' = busy /\ fromChrome' = fromChrome
  BY DEF vars, bridge, turn, browser, history
<1>. QED  BY <1>1, Given, PipesGood, BrowserMoves

LEMMA NextKeeps == IInv /\ [Next]_vars => IInv'
<1>. SUFFICES ASSUME IInv, [Next]_vars PROVE IInv'
  OBVIOUS
<1>1. CASE Request
  BY <1>1, RequestKeeps
<1>2. CASE Serve
  BY <1>2, LaunchKeeps, LaunchFailsKeeps, SendKeeps, DiscardKeeps, TakeKeeps, TimeoutKeeps, EndOfFileKeeps
  DEF Serve
<1>3. CASE Browser
  <2>1. CASE Answer
    BY <2>1, AnswersKeeps DEF Answer
  <2>. QED  BY <1>3, <2>1, ReadsKeeps, ReportsKeeps, LoadsKeeps, EndsKeeps, NumberKeeps DEF Browser
<1>4. CASE ReapChildren \/ Stop
  BY <1>4, NumberKeeps, StopKeeps
<1>5. CASE Stopped \/ UNCHANGED vars
  BY <1>5, StutterKeeps DEF Stopped
<1>. QED  BY <1>1, <1>2, <1>3, <1>4, <1>5 DEF Next

\* The invariant holds: everything in the pipes has an id that was given out, and
\* what has the id that is waited for belongs to the exchange at hand.
THEOREM BridgeInvariant == Spec => []IInv
<1>1. Init => IInv
  BY InitGood
<1>2. IInv /\ [Next]_vars => IInv'
  BY NextKeeps
<1>. QED  BY <1>1, <1>2, PTL DEF Spec

\* The variables of the bridge keep their types.
THEOREM BridgeTypeCorrect == Spec => []TypeOK
<1>1. IInv => TypeOK
  BY DEF IInv, Types
<1>. QED  BY <1>1, BridgeInvariant, PTL

\* read_msg_matching only ever takes the answer to the command that waits, although
\* the search for its id also finds ids that begin with it: all greater ids are still
\* to be given out.
THEOREM OwnReplies == Spec => []OwnReply
<1>1. IInv => OwnReply
  BY DEF IInv
<1>. QED  BY <1>1, BridgeInvariant, PTL

\* When the server has stopped, the browser has ended and been waited for: start
\* records it before the first exchange that can fail.
THEOREM NoBrowserSurvives == Spec => []NoBrowserLeft
<1>1. IInv => NoBrowserLeft
  BY DEF IInv, Places, NoBrowserLeft
<1>. QED  BY <1>1, BridgeInvariant, PTL

-----------------------------------------------------------------------------
(* One client: the map of handles goes with its tree, and what it asks for  *)
(* is done to the element it was shown.                                     *)

OneClient == \A c, d \in Clients : c = d

\* The map is empty, or it is the one made with the tree that was sent.
Shown(c) == handle_map_ = NoHandles \/ (shown[c] # 0 /\ handle_map_ \in Maps[shown[c]])

ShownInv ==
  /\ pc \in Exchanges \cup {"start"} => op.client \in Clients
  /\ \A c \in Clients : Shown(c)

\* A resolveNode asks for the node that is meant, its answer is the element, and the
\* function is called on it; a command of the past keeps what was meant by it.
AimedCmd(r) ==
  /\ r.does = "call" /\ r.meant # NoElem => r.object[2] = r.meant[2]
  /\ r.id = want /\ r.does = "resolve" /\ op.meant # NoElem => r.node = op.meant[2]
AimedMsg(m) ==
  m.id = want /\ want # 0 /\ pc = "resolve" /\ m.ok /\ op.meant # NoElem => m.elem[2] = op.meant[2]

Aimed ==
  /\ pc = "resolve" /\ op.meant # NoElem => handle_map_[op.handle] = op.meant[2]
  /\ pc = "call" /\ op.meant # NoElem => object[2] = op.meant[2]
  /\ \A i \in 1 .. Len(toChrome) : AimedCmd(toChrome[i])
  /\ \A r \in busy : AimedCmd(r)
  /\ \A i \in 1 .. Len(fromChrome) : AimedMsg(fromChrome[i])
  /\ hit.elem \in Elem /\ hit.meant \in Elem
  /\ hit.meant # NoElem => hit.elem[2] = hit.meant[2]

AimInv == IInv /\ ShownInv /\ Aimed

LEMMA InitAimed == Init => AimInv
<1>. SUFFICES ASSUME Init PROVE AimInv
  OBVIOUS
<1>1. ShownInv
  BY DEF Init, ShownInv, Shown, Exchanges
<1>2. Aimed
  <2>1. NoElem \in Elem
    BY DEF NoElem, Elem
  <2>. QED  BY <2>1 DEF Init, Aimed
<1>. QED  BY <1>1, <1>2, InitGood DEF AimInv

\* The server goes on without a command in flight: what is meant by the commands of
\* the past does not change.
LEMMA ServerAims ==
  ASSUME AimInv, ShownInv', want' = 0, toChrome' = toChrome, busy' = busy, hit' = hit,
         pc' = "resolve" /\ op'.meant # NoElem => handle_map_'[op'.handle] = op'.meant[2],
         pc' = "call" /\ op'.meant # NoElem => object'[2] = op'.meant[2]
  PROVE  ShownInv' /\ Aimed'
<1>1. \A i \in 1 .. Len(toChrome') : AimedCmd(toChrome[i])'
  <2>1. \A i \in 1 .. Len(toChrome) : toChrome[i].id # 0 /\ AimedCmd(toChrome[i])
    BY Given, CmdAt DEF AimInv, Aimed
  <2>. QED  BY <2>1 DEF AimedCmd
<1>2. \A r \in busy' : AimedCmd(r)'
  <2>1. \A r \in busy : r.id # 0 /\ AimedCmd(r)
    BY Given DEF AimInv, Aimed, Cmd
  <2>. QED  BY <2>1 DEF AimedCmd
<1>3. \A i \in 1 .. Len(fromChrome') : AimedMsg(fromChrome[i])'
  BY DEF AimedMsg
<1>. QED  BY <1>1, <1>2, <1>3 DEF Aimed, AimInv

\* The browser, and a message that is passed over.
LEMMA BrowserAims ==
  ASSUME AimInv, handle_map_' = handle_map_, pc' = pc, want' = want, op' = op, object' = object,
         shown' = shown,
         \A i \in 1 .. Len(toChrome') : AimedCmd(toChrome'[i]),
         \A r \in busy' : AimedCmd(r),
         \A i \in 1 .. Len(fromChrome') : AimedMsg(fromChrome'[i]),
         hit'.elem \in Elem, hit'.meant \in Elem, hit'.meant # NoElem => hit'.elem[2] = hit'.meant[2]
  PROVE  ShownInv' /\ Aimed'
<1>1. ShownInv'
  BY DEF AimInv, ShownInv, Shown
<1>2. Aimed'
  BY DEF AimInv, Aimed, AimedCmd, AimedMsg
<1>. QED  BY <1>1, <1>2

LEMMA AimsGiven ==
  ASSUME AimInv
  PROVE  /\ \A i \in 1 .. Len(toChrome) : AimedCmd(toChrome[i])
         /\ \A r \in busy : AimedCmd(r)
         /\ \A i \in 1 .. Len(fromChrome) : AimedMsg(fromChrome[i])
         /\ hit.elem \in Elem /\ hit.meant \in Elem
         /\ hit.meant # NoElem => hit.elem[2] = hit.meant[2]
BY DEF AimInv, Aimed

\* A handle that is in the map is the one of the tree the client was sent.
LEMMA ReceiveAims ==
  ASSUME AimInv, NEW c \in Clients, NEW kind, NEW h \in Nat, Receive(c, kind, h),
         kind \in {"click", "type"} \/ h = 0,
         kind \in {"navigate", "tree", "scroll", "click", "type"}
  PROVE  ShownInv' /\ Aimed'
<1>1. /\ handle_map_' = handle_map_ /\ toChrome' = toChrome /\ busy' = busy /\ want' = want
      /\ shown' = shown /\ hit' = hit
      /\ pc = "idle" /\ (pc' = First(kind, h) \/ pc' = "idle")
      /\ pc' # "idle" => op'.client = c /\ op'.handle = h /\ op'.meant = Meant(c, h)
  BY DEF Receive, bridge, browser, history
<1>2. want = 0 /\ IInv /\ ShownInv
  BY <1>1 DEF AimInv, IInv, Places, Exchanges
<1>3. ShownInv'
  BY <1>1, <1>2 DEF ShownInv, Shown, Exchanges
<1>4. pc' # "call"
  BY <1>1 DEF First
<1>5. ASSUME pc' = "resolve", Meant(c, h) # NoElem
      PROVE  handle_map_[h] = Meant(c, h)[2]
  <2>1. h \in Handles /\ handle_map_[h] # 0
    BY <1>1, <1>5 DEF First
  <2>2. shown[c] # 0 /\ Trees[shown[c]][h] # 0 /\ Meant(c, h) = <<shown[c], Trees[shown[c]][h]>>
    BY <1>5 DEF Meant
  <2>3. handle_map_ \in Maps[shown[c]]
    <3>1. handle_map_ # NoHandles
      BY <2>1 DEF NoHandles
    <3>. QED  BY <1>2, <3>1 DEF ShownInv, Shown
  <2>4. shown[c] \in DOMAIN Docs
    <3>1. shown[c] \in 0 .. Len(Docs)
      BY <1>2, Given
    <3>. QED  BY <2>2, <3>1, BridgeAssumption
  <2>. QED  BY <2>1, <2>2, <2>3, <2>4, ShownIsMapped
<1>. QED  BY <1>1, <1>2, <1>3, <1>4, <1>5, ServerAims

LEMMA FailureShows ==
  ASSUME ReadFails \/ WriteFails
  PROVE  shown' = shown
BY DEF ReadFails, WriteFails, GiveUp, GoOn, Finish

LEMMA EndsAim ==
  ASSUME AimInv, Launch \/ LaunchFails \/ Timeout \/ EndOfFile
  PROVE  ShownInv' /\ Aimed'
<1>1. /\ handle_map_' = handle_map_ /\ toChrome' = toChrome /\ busy' = busy /\ hit' = hit
      /\ pc \in Exchanges \cup {"start"}
  BY DEF Launch, LaunchFails, Timeout, EndOfFile, Waiting, bridge, browser, history
<1>2. want' = 0 /\ shown' = shown /\ pc' # "resolve" /\ pc' # "call" /\ (pc' # "idle" => op' = op)
  <2>1. CASE Launch
    <3>1. want = 0
      BY <2>1 DEF AimInv, IInv, Places, Launch, Exchanges
    <3>. QED  BY <2>1, <3>1 DEF Launch
  <2>2. CASE LaunchFails
    BY <2>2 DEF LaunchFails, Finish
  <2>3. CASE Timeout \/ EndOfFile
    <3>1. ReadFails /\ pc \in Exchanges /\ Types
      BY <2>3 DEF Timeout, EndOfFile, Waiting, AimInv, IInv
    <3>2. /\ want' = 0 /\ pc' # "call" /\ pc' \in (Exchanges \ {"resolve"}) \cup {"idle"}
          /\ (pc' # "idle" => op' = op)
      BY <3>1, FailureGoes
    <3>. QED  BY <3>1, <3>2, FailureShows
  <2>. QED  BY <2>1, <2>2, <2>3
<1>3. ShownInv'
  BY <1>1, <1>2 DEF AimInv, ShownInv, Shown, Exchanges
<1>. QED  BY <1>1, <1>2, <1>3, ServerAims

LEMMA SendAims ==
  ASSUME AimInv, Send
  PROVE  ShownInv' /\ Aimed'
<1>1. /\ handle_map_' = handle_map_ /\ busy' = busy /\ fromChrome' = fromChrome
      /\ object' = object /\ hit' = hit /\ pc \in Exchanges /\ IInv
  BY DEF Send, AimInv
<1>2. CASE WriteFails /\ UNCHANGED toChrome
  <2>1. want' = 0 /\ pc' # "call" /\ pc' # "resolve" /\ (pc' # "idle" => op' = op)
    BY <1>1, <1>2, FailureGoes DEF IInv, Exchanges
  <2>2. shown' = shown
    BY <1>2, FailureShows
  <2>3. ShownInv'
    BY <1>1, <2>1, <2>2 DEF AimInv, ShownInv, Shown, Exchanges
  <2>. QED  BY <1>1, <1>2, <2>1, <2>3, ServerAims
<1>3. CASE /\ proc = "running" /\ toChrome' = Append(toChrome, Command)
           /\ want' = next_req_id_ /\ UNCHANGED <<pc, op, astray, shown>>
  <2>1. ShownInv'
    BY <1>1, <1>3 DEF AimInv, ShownInv, Shown
  <2>2. next_req_id_ \in Nat
    BY <1>1, Given
  <2>3. ASSUME NEW i \in 1 .. Len(toChrome') PROVE AimedCmd(toChrome[i])'
    <3>1. CASE i \in 1 .. Len(toChrome)
      <4>1. /\ toChrome'[i] = toChrome[i] /\ toChrome[i].id \in Nat /\ toChrome[i].id < next_req_id_
            /\ AimedCmd(toChrome[i])
        BY <1>1, <1>3, <3>1, Given, PipesGood, AimsGiven, CmdAt DEF GoodCmd
      <4>2. toChrome'[i].id # want'
        BY <1>3, <2>2, <4>1
      <4>. QED  BY <4>1, <4>2 DEF AimedCmd
    <3>2. CASE i \notin 1 .. Len(toChrome)
      <4>1. toChrome'[i] = Command
        BY <1>1, <1>3, <3>2, Given
      <4>. QED  BY <1>1, <1>3, <4>1 DEF AimedCmd, Command, AimInv, Aimed
    <3>. QED  BY <3>1, <3>2
  <2>4. ASSUME NEW r \in busy' PROVE AimedCmd(r)'
    <3>1. r.id \in Nat /\ r.id < next_req_id_ /\ AimedCmd(r)
      BY <1>1, Given, PipesGood, AimsGiven DEF GoodCmd, Cmd
    <3>2. r.id # want'
      BY <1>3, <2>2, <3>1
    <3>. QED  BY <3>1, <3>2 DEF AimedCmd
  <2>5. ASSUME NEW i \in 1 .. Len(fromChrome') PROVE AimedMsg(fromChrome[i])'
    <3>1. fromChrome'[i].id \in Nat /\ fromChrome'[i].id < next_req_id_
      BY <1>1, Given, MsgAt
    <3>2. fromChrome'[i].id # want'
      BY <1>3, <2>2, <3>1
    <3>. QED  BY <3>2 DEF AimedMsg
  <2>6. /\ (pc = "resolve" /\ op.meant # NoElem => handle_map_[op.handle] = op.meant[2])'
        /\ (pc = "call" /\ op.meant # NoElem => object[2] = op.meant[2])'
    BY <1>1, <1>3 DEF AimInv, Aimed
  <2>7. /\ (hit.elem \in Elem /\ hit.meant \in Elem)'
        /\ (hit.meant # NoElem => hit.elem[2] = hit.meant[2])'
    BY <1>1, AimsGiven
  <2>. QED  BY <2>1, <2>3, <2>4, <2>5, <2>6, <2>7 DEF Aimed
<1>. QED  BY <1>2, <1>3 DEF Send

\* A tree is sent with its map; any other answer leaves both alone.
LEMMA TakeAims ==
  ASSUME OneClient, AimInv, Take
  PROVE  ShownInv' /\ Aimed'
<1>. DEFINE m == fromChrome[1]
<1>1. /\ toChrome' = toChrome /\ busy' = busy /\ hit' = hit
      /\ pc \in Exchanges /\ want # 0 /\ fromChrome # <<>> /\ Use(m)
      /\ own' = (own /\ m.id = want)
  BY DEF Take, Waiting
<1>2. IInv /\ ShownInv
  BY DEF AimInv
<1>3. 1 \in 1 .. Len(fromChrome)
  <2>. DEFINE q == fromChrome
              S == Msg
  <2>1. q \in Seq(S) /\ q # <<>>
    BY <1>1, <1>2, Given
  <2>. HIDE DEF q, S
  <2>. QED  BY <2>1, HeadAndTail DEF q
<1>. HIDE DEF m
<1>4. m \in Msg /\ m.page \in 0 .. Len(Docs) /\ GoodMsg(m) /\ AimedMsg(m)
  BY <1>2, <1>3, Given, PipesGood, AimsGiven, MsgAt DEF Msg, m
<1>5. m.id = want
  <2>1. IInv'
    BY <1>2, TakeKeeps
  <2>. QED  BY <1>1, <2>1 DEF IInv, OwnReply
<1>6. want' = 0 /\ pc' # "resolve" /\ (pc' = "call" => pc = "resolve") /\ (pc' # "idle" => op' = op)
  <2>1. CASE GoOn(m.page)
    BY <1>1, <1>2, <1>4, <2>1, GoOnGoes DEF IInv, Exchanges
  <2>2. CASE GiveUp
    BY <2>2 DEF GiveUp, Finish
  <2>. QED  BY <1>1, <2>1, <2>2 DEF Use
<1>7. ASSUME pc' = "call", op'.meant # NoElem
      PROVE  object'[2] = op'.meant[2]
  <2>1. pc = "resolve" /\ m.ok
    BY <1>1, <1>6, <1>7 DEF Use, GiveUp, Finish, AnswerIgnored
  <2>2. object' = m.elem
    BY <1>1, <2>1 DEF Use
  <2>. QED  BY <1>1, <1>4, <1>5, <1>6, <1>7, <2>1, <2>2 DEF AimedMsg
<1>8. ShownInv'
  <2>1. op.client \in Clients /\ (pc' \in Exchanges \cup {"start"} => op'.client \in Clients)
    BY <1>1, <1>2, <1>6 DEF ShownInv, Exchanges
  <2>2. ASSUME NEW c \in Clients PROVE Shown(c)'
    <3>1. CASE pc = "tree" /\ m.ok
      <4>1. m.page # 0
        BY <1>1, <1>4, <1>5, <3>1 DEF GoodMsg
      <4>2. shown' = [shown EXCEPT ![op.client] = m.page] /\ handle_map_' \in Maps[m.page]
        BY <1>1, <3>1, <4>1 DEF Use, GoOn, Finish, NewMap
      <4>3. c = op.client /\ shown \in [Clients -> 0 .. Len(Docs)]
        BY <1>1, <1>2, <2>1, Given DEF OneClient
      <4>4. shown'[c] = m.page
        BY <4>2, <4>3
      <4>. QED  BY <4>1, <4>2, <4>4 DEF Shown
    <3>2. CASE pc = "tree" /\ ~m.ok
      BY <1>1, <3>2 DEF Use, NewMap, Shown
    <3>3. CASE pc # "tree"
      <4>1. m.page = 0
        BY <1>1, <1>4, <1>5, <3>3 DEF GoodMsg
      <4>2. shown' = shown
        BY <1>1, <4>1 DEF Use, GoOn, GiveUp, Finish
      <4>3. handle_map_' = handle_map_
        BY <1>1, <3>3 DEF Use, NewMap
      <4>. QED  BY <1>2, <4>2, <4>3 DEF ShownInv, Shown
    <3>. QED  BY <3>1, <3>2, <3>3
  <2>. QED  BY <2>1, <2>2 DEF ShownInv
<1>. QED  BY <1>1, <1>6, <1>7, <1>8, ServerAims

LEMMA StopAims ==
  ASSUME AimInv, Stop
  PROVE  ShownInv' /\ Aimed'
<1>1. /\ pc' = "stopped" /\ handle_map_' = NoHandles /\ toChrome' = <<>> /\ busy' = {}
      /\ fromChrome' = <<>> /\ hit' = hit
  BY DEF Stop, history
<1>2. ShownInv'
  BY <1>1 DEF ShownInv, Shown, Exchanges
<1>3. Aimed'
  BY <1>1, AimsGiven DEF Aimed
<1>. QED  BY <1>2, <1>3

LEMMA DiscardAims ==
  ASSUME AimInv, Discard
  PROVE  ShownInv' /\ Aimed'
<1>1. /\ handle_map_' = handle_map_ /\ pc' = pc /\ want' = want /\ op' = op /\ object' = object
      /\ shown' = shown /\ toChrome' = toChrome /\ busy' = busy /\ hit' = hit
      /\ fromChrome # <<>> /\ fromChrome' = Tail(fromChrome)
  BY DEF Discard, bridge, turn, history
<1>2. fromChrome \in Seq(Msg)
  BY Given DEF AimInv
<1>3. \A i \in 1 .. Len(fromChrome') : fromChrome'[i] = fromChrome[i + 1] /\ i + 1 \in 1 .. Len(fromChrome)
  BY <1>1, <1>2, HeadAndTail
<1>4. \A i \in 1 .. Len(fromChrome') : AimedMsg(fromChrome'[i])
  BY <1>3, AimsGiven
<1>. QED  BY <1>1, <1>4, AimsGiven, BrowserAims

LEMMA ReadsAim ==
  ASSUME AimInv, Reads
  PROVE  ShownInv' /\ Aimed'
<1>1. /\ handle_map_' = handle_map_ /\ pc' = pc /\ want' = want /\ op' = op /\ object' = object
      /\ shown' = shown
      /\ fromChrome' = fromChrome /\ hit' = hit /\ toChrome # <<>>
      /\ busy' = busy \cup {Head(toChrome)} /\ toChrome' = Tail(toChrome)
  BY DEF Reads, bridge, turn, history
<1>2. toChrome \in Seq(Cmd)
  BY Given DEF AimInv
<1>3. /\ 1 \in 1 .. Len(toChrome) /\ Head(toChrome) = toChrome[1]
      /\ \A i \in 1 .. Len(toChrome') : toChrome'[i] = toChrome[i + 1] /\ i + 1 \in 1 .. Len(toChrome)
  BY <1>1, <1>2, HeadAndTail
<1>4. \A i \in 1 .. Len(toChrome') : AimedCmd(toChrome'[i])
  BY <1>3, AimsGiven
<1>5. \A r \in busy' : AimedCmd(r)
  BY <1>1, <1>3, AimsGiven
<1>. QED  BY <1>1, <1>4, <1>5, AimsGiven, BrowserAims

\* The browser answers with the node it was asked for, and acts on the object.
LEMMA AnswersAim ==
  ASSUME AimInv, NEW r, Answers(r)
  PROVE  ShownInv' /\ Aimed'
<1>1. /\ handle_map_' = handle_map_ /\ pc' = pc /\ want' = want /\ op' = op /\ object' = object
      /\ shown' = shown
      /\ toChrome' = toChrome /\ busy' = busy \ {r} /\ r \in busy
  BY DEF Answers, bridge, turn
<1>2. PICK ok \in Possible(r) :
        /\ fromChrome' = Append(fromChrome,
             [id |-> r.id, ok |-> ok, page |-> IF r.does = "tree" THEN page ELSE 0,
              elem |-> IF r.does = "resolve" THEN <<page, r.node>> ELSE NoElem])
        /\ hit' = IF r.does = "call" /\ ok THEN [elem |-> r.object, meant |-> r.meant] ELSE hit
  BY DEF Answers
<1>. DEFINE m == [id |-> r.id, ok |-> ok, page |-> IF r.does = "tree" THEN page ELSE 0,
                  elem |-> IF r.does = "resolve" THEN <<page, r.node>> ELSE NoElem]
<1>3. r \in Cmd /\ r.object \in Elem /\ r.meant \in Elem /\ GoodCmd(r) /\ AimedCmd(r)
  BY <1>1, Given, PipesGood, AimsGiven DEF AimInv, Cmd
<1>4. AimedMsg(m)
  <2>1. m.id = r.id /\ (r.does = "resolve" => m.elem[2] = r.node)
    OBVIOUS
  <2>. QED  BY <1>3, <2>1 DEF AimedMsg, AimedCmd, GoodCmd
<1>. HIDE DEF m
<1>5. \A i \in 1 .. Len(fromChrome') : AimedMsg(fromChrome'[i])
  <2>1. fromChrome \in Seq(Msg) /\ fromChrome' = Append(fromChrome, m)
    BY <1>2, Given DEF AimInv, m
  <2>2. \A i \in 1 .. Len(fromChrome') : fromChrome'[i] = m \/ (i \in 1 .. Len(fromChrome) /\ fromChrome'[i] = fromChrome[i])
    BY <2>1
  <2>. QED  BY <1>4, <2>2, AimsGiven
<1>6. hit'.elem \in Elem /\ hit'.meant \in Elem /\ (hit'.meant # NoElem => hit'.elem[2] = hit'.meant[2])
  <2>1. CASE r.does = "call" /\ ok
    BY <1>2, <1>3, <2>1 DEF AimedCmd
  <2>2. CASE ~(r.does = "call" /\ ok)
    <3>1. hit' = hit
      BY <1>2, <2>2
    <3>. QED  BY <3>1, AimsGiven
  <2>. QED  BY <2>1, <2>2
<1>. QED  BY <1>1, <1>5, <1>6, AimsGiven, BrowserAims

LEMMA ReportsAim ==
  ASSUME AimInv, Reports
  PROVE  ShownInv' /\ Aimed'
<1>. DEFINE m == [id |-> 0, ok |-> FALSE, page |-> 0, elem |-> NoElem]
<1>1. /\ handle_map_' = handle_map_ /\ pc' = pc /\ want' = want /\ op' = op /\ object' = object
      /\ shown' = shown
      /\ toChrome' = toChrome /\ busy' = busy /\ hit' = hit /\ fromChrome' = Append(fromChrome, m)
  BY DEF Reports, bridge, turn, history
<1>2. AimedMsg(m)
  BY DEF AimedMsg
<1>. HIDE DEF m
<1>3. fromChrome \in Seq(Msg)
  BY Given DEF AimInv
<1>4. \A i \in 1 .. Len(fromChrome') : fromChrome'[i] = m \/ (i \in 1 .. Len(fromChrome) /\ fromChrome'[i] = fromChrome[i])
  BY <1>1, <1>3
<1>5. \A i \in 1 .. Len(fromChrome') : AimedMsg(fromChrome'[i])
  BY <1>2, <1>4, AimsGiven
<1>. QED  BY <1>1, <1>5, AimsGiven, BrowserAims

LEMMA EndsAims ==
  ASSUME AimInv, Ends
  PROVE  ShownInv' /\ Aimed'
<1>1. /\ handle_map_' = handle_map_ /\ pc' = pc /\ want' = want /\ op' = op /\ object' = object
      /\ shown' = shown
      /\ toChrome' = <<>> /\ busy' = {} /\ hit' = hit
  BY DEF Ends, bridge, turn, history
<1>2. PICK n \in 0 .. Len(fromChrome) : fromChrome' = SubSeq(fromChrome, 1, n)
  BY DEF Ends
<1>3. fromChrome \in Seq(Msg)
  BY Given DEF AimInv
<1>4. \A i \in 1 .. Len(fromChrome') : i \in 1 .. Len(fromChrome) /\ fromChrome'[i] = fromChrome[i]
  BY <1>2, <1>3
<1>5. \A i \in 1 .. Len(fromChrome') : AimedMsg(fromChrome'[i])
  BY <1>4, AimsGiven
<1>. QED  BY <1>1, <1>5, AimsGiven, BrowserAims

LEMMA RestAims ==
  ASSUME AimInv, Loads \/ NumberReused \/ ReapChildren \/ UNCHANGED vars
  PROVE  ShownInv' /\ Aimed'
<1>1. /\ handle_map_' = handle_map_ /\ pc' = pc /\ want' = want /\ op' = op /\ object' = object
      /\ shown' = shown
      /\ toChrome' = toChrome /\ busy' = busy /\ fromChrome' = fromChrome /\ hit' = hit
  BY DEF Loads, NumberReused, ReapChildren, vars, bridge, browser, turn, history
<1>. QED  BY <1>1, AimsGiven, BrowserAims

LEMMA NextAims ==
  ASSUME OneClient, AimInv, [Next]_vars
  PROVE  AimInv'
<1>1. IInv'
  BY NextKeeps DEF AimInv
<1>2. CASE Request
  <2>1. PICK c \in Clients :
          \/ \E kind \in {"navigate", "tree", "scroll"} : Receive(c, kind, 0)
          \/ \E kind \in {"click", "type"}, h \in 0 .. MaxHandles : Receive(c, kind, h)
    BY <1>2 DEF Request
  <2>2. ASSUME NEW kind \in {"navigate", "tree", "scroll"}, Receive(c, kind, 0)
        PROVE  ShownInv' /\ Aimed'
    BY <2>2, ReceiveAims, 0 \in Nat
  <2>3. ASSUME NEW kind \in {"click", "type"}, NEW h \in 0 .. MaxHandles, Receive(c, kind, h)
        PROVE  ShownInv' /\ Aimed'
    <3>1. h \in Nat
      BY BridgeAssumption
    <3>. QED  BY <2>3, <3>1, ReceiveAims
  <2>. QED  BY <1>1, <2>1, <2>2, <2>3 DEF AimInv
<1>3. CASE Serve
  <2>1. ShownInv' /\ Aimed'
    BY <1>3, EndsAim, SendAims, DiscardAims, TakeAims DEF Serve
  <2>. QED  BY <1>1, <2>1 DEF AimInv
<1>4. CASE Browser
  <2>1. ASSUME Answer PROVE ShownInv' /\ Aimed'
    BY <2>1, AnswersAim DEF Answer
  <2>2. ShownInv' /\ Aimed'
    BY <1>4, <2>1, ReadsAim, ReportsAim, EndsAims, RestAims DEF Browser
  <2>. QED  BY <1>1, <2>2 DEF AimInv
<1>5. CASE ReapChildren \/ Stop \/ Stopped \/ UNCHANGED vars
  <2>1. ShownInv' /\ Aimed'
    BY <1>5, RestAims, StopAims DEF Stopped
  <2>. QED  BY <1>1, <2>1 DEF AimInv
<1>. QED  BY <1>2, <1>3, <1>4, <1>5 DEF Next

THEOREM AimInvariant == ASSUME OneClient PROVE Spec => []AimInv
<1>1. Init => AimInv
  BY InitAimed
<1>2. AimInv /\ [Next]_vars => AimInv'
  BY NextAims
<1>. QED  BY <1>1, <1>2, PTL DEF Spec

\* With one client, a handle stands for the element the client was last shown under
\* it, or for none: filter_and_format fills the map together with the text, and a
\* request that fails sends neither.
THEOREM HandlesMeanWhatWasShown == ASSUME OneClient PROVE Spec => []HandleMeansWhatWasShown
<1>1. AimInv => HandleMeansWhatWasShown
  <2>. SUFFICES ASSUME AimInv, NEW c \in Clients
       PROVE  IF shown[c] = 0 THEN handle_map_ = NoHandles
              ELSE \A h \in Handles : Trees[shown[c]][h] # 0 => handle_map_[h] \in {0, Trees[shown[c]][h]}
    BY DEF HandleMeansWhatWasShown
  <2>1. Shown(c)
    BY DEF AimInv, ShownInv
  <2>2. CASE shown[c] # 0
    <3>1. shown[c] \in DOMAIN Docs
      <4>1. shown[c] \in 0 .. Len(Docs)
        BY Given DEF AimInv
      <4>. QED  BY <2>2, <4>1, BridgeAssumption
    <3>2. \A h \in Handles : NoHandles[h] = 0
      BY DEF NoHandles
    <3>. QED  BY <2>1, <2>2, <3>1, <3>2, ShownIsMapped DEF Shown
  <2>. QED  BY <2>1, <2>2 DEF Shown
<1>. QED  BY <1>1, AimInvariant, PTL

\* With one client, a click or a text reaches the element the client was shown, or
\* none of that page: also when the browser carries it out after later requests.
THEOREM ActionsReachWhatWasShown == ASSUME OneClient PROVE Spec => []ActsOnWhatWasShown
<1>1. AimInv => ActsOnWhatWasShown
  <2>. SUFFICES ASSUME AimInv, hit.meant # NoElem, hit.elem[1] = hit.meant[1]
       PROVE  hit.elem = hit.meant
    BY DEF ActsOnWhatWasShown
  <2>1. hit.elem \in Elem /\ hit.meant \in Elem /\ hit.elem[2] = hit.meant[2]
    BY AimsGiven
  <2>. QED  BY <2>1 DEF Elem
<1>. QED  BY <1>1, AimInvariant, PTL
=============================================================================
