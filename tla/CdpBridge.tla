------------------------------ MODULE CdpBridge ------------------------------
(***************************************************************************)
(* The browser of the guest: CdpBridge (include/axiom/cdp.hpp) under the   *)
(* browser requests of the server (handle_cdp in include/axiom/server.hpp).*)
(*                                                                         *)
(* A request is a chain of exchanges over two pipes, each of a command     *)
(* with a fresh id and the wait for a message that has this id.  pc names  *)
(* the exchange at hand and want the id waited for, 0 before the command   *)
(* is written.  The browser reads, answers in any order, reports events,   *)
(* loads pages and dies at any time; its exit is collected by the server's *)
(* own reaping.  started_ stands for the open descriptors and child_pid_   *)
(* as well: start sets, and stop clears, the three together.               *)
(*                                                                         *)
(* A document is a sequence of accessibility nodes; an element is known by *)
(* <<page, backend id>>, and pages may use the same backend ids.           *)
(***************************************************************************)
EXTENDS Integers, Sequences, FiniteSets

CONSTANTS Clients,      \* connections with browser requests
          Docs,         \* documents the browser loads one after the other
          MaxNodes,     \* MAX_AX_NODES
          MaxHandles,   \* MAX_HANDLES
          BufferNodes,  \* nodes of an answer that fit rx_buf_
          Powers,       \* powers of the base that ids are printed in
          PipeRoom,     \* commands that fit the pipe to the browser
          MaxCalls,     \* bound: requests
          MaxTimeouts,  \* bound: reads that time out before the browser falls silent
          MaxEvents,    \* bound: events the browser reports
          Faults,       \* whether access, pipe2 and fork may fail
          Dies,         \* whether the browser may end by itself
          Reuses        \* whether the kernel gives its number to another process

Kinds == {"layout", "text", "other", "action"}
NoName == ""
Node == [kind : Kinds, id : Nat, name : STRING \cup {NoName}]

ASSUME BridgeAssumption ==
  /\ Docs \in Seq(Seq(Node)) /\ Docs # <<>>
  /\ {MaxNodes, MaxHandles, BufferNodes} \subseteq Nat \ {0}
  /\ Powers \subseteq Nat \ {0}
  /\ {PipeRoom, MaxCalls, MaxTimeouts, MaxEvents} \subseteq Nat
  /\ {Faults, Dies, Reuses} \subseteq BOOLEAN

VARIABLES
  started_, next_req_id_, handle_map_,
  session_id_,  \* whether session_id_ names the session of the page
  pc,           \* "idle", "start", an exchange, or "stopped"
  want,         \* id of the command whose answer is awaited
  op,           \* the request being served: [kind, client, handle, meant], or NoOp
  object,       \* element of the objectId that resolveNode answered
  proc,         \* "none", "running", "zombie", "reaped", "other", "stray"
  page,         \* document the browser has loaded, 0 before it runs
  toChrome,     \* commands in the pipe to the browser
  busy,         \* commands the browser has read and not answered
  fromChrome,   \* messages in the pipe from the browser
  shown,        \* shown[c]: page of the last tree client c was sent
  calls, timeouts, events,
  leaked,       \* history: descriptors of a pipe that nobody closes
  own,          \* history: every answer taken was to the command that waited
  astray,       \* history: a navigation was answered with status 0 without a session
  hit           \* history: the last element acted on: [elem, meant]

bridge == <<started_, next_req_id_, handle_map_, session_id_>>
browser == <<proc, page, toChrome, busy, fromChrome, events>>
turn == <<pc, want, op, object>>
history == <<leaked, own, astray, hit>>
vars == <<bridge, browser, turn, shown, calls, timeouts, history>>

Exchanges == {"targets", "attach", "ax", "page", "dom", "nav", "tree", "resolve", "call", "scroll"}
Handles == 1 .. MaxHandles - 1
NoElem == <<0, 0>>
NoHandles == [h \in Handles |-> 0]
NoOp == [kind |-> "none", client |-> CHOOSE c \in Clients : TRUE, handle |-> 0, meant |-> NoElem]

Init ==
  /\ started_ = FALSE /\ next_req_id_ = 1 /\ handle_map_ = NoHandles /\ session_id_ = FALSE
  /\ pc = "idle" /\ want = 0 /\ op = NoOp /\ object = NoElem
  /\ proc = "none" /\ page = 0 /\ toChrome = <<>> /\ busy = {} /\ fromChrome = <<>>
  /\ shown = [c \in Clients |-> 0]
  /\ calls = 0 /\ timeouts = 0 /\ events = 0
  /\ leaked = 0 /\ own = TRUE /\ astray = FALSE
  /\ hit = [elem |-> NoElem, meant |-> NoElem]

-----------------------------------------------------------------------------
(* The filter of accessibility trees. *)

\* What may be left of a node of which the end is missing: role, name and backend id
\* stand in it in this order, a field that is not found reads as nothing, and one that
\* is cut as its beginning, which may be another role or another id.
Beginnings(id) == {0, id} \cup {q \in 0 .. id : \E p \in Powers : q = id \div p}
Cut(node) == [kind : Kinds, id : {0}, name : {NoName}]
             \cup [kind : {node.kind}, id : Beginnings(node.id), name : {node.name}]

\* A message longer than rx_buf_ loses its end.
Whole(doc) == SubSeq(doc, 1, IF Len(doc) <= BufferNodes THEN Len(doc) ELSE BufferNodes)
Received(doc) ==
  {Whole(doc)} \cup (IF Len(doc) <= BufferNodes THEN {}
                     ELSE {Append(Whole(doc), rest) : rest \in Cut(doc[BufferNodes + 1])})

\* Layout is dropped, and text that has no name or the name of a node before it that
\* is no layout: such a node is listed, or there is one with its name that is.
Dropped(doc, i) ==
  \/ doc[i].kind = "layout"
  \/ /\ doc[i].kind = "text"
     /\ doc[i].name = NoName \/ \E j \in 1 .. i - 1 : doc[j].kind # "layout" /\ doc[j].name = doc[i].name

Listed(doc) == {i \in DOMAIN doc : ~Dropped(doc, i)}
Actions(doc) == {i \in Listed(doc) : doc[i].kind = "action"}
UpTo(S, i) == Cardinality({j \in S : j <= i})

\* The actionable nodes that get handle h while the list takes n nodes.
HandledByNode(doc, n, h) == \* mutant: every node of the list takes an entry of the map
  LET S == IF n > MaxNodes THEN Listed(doc) ELSE Actions(doc)
  IN {i \in S : UpTo(S, i) = h /\ UpTo(Listed(doc), i) <= n}
Handled(doc, n, h) == {i \in Actions(doc) : UpTo(Actions(doc), i) = h /\ UpTo(Listed(doc), i) <= n}

\* The backend id of handle h, 0 for none or a node without.
Numbered(doc, n) ==
  [h \in Handles |-> IF Handled(doc, n, h) = {} THEN 0 ELSE doc[CHOOSE i \in Handled(doc, n, h) : TRUE].id]

\* What is printed of each page, by handle, of the nodes that have come whole, and the
\* maps that may go with it: of the cut node as well, and a node gets its handle before
\* push_back finds the list full.
Trees == [p \in DOMAIN Docs |-> Numbered(Whole(Docs[p]), MaxNodes)]
Maps == [p \in DOMAIN Docs |-> {Numbered(doc, MaxNodes + 1) : doc \in Received(Docs[p])}]

Ids(p) == {Docs[p][i].id : i \in DOMAIN Docs[p]} \ {0}

-----------------------------------------------------------------------------
(* The end of a request. *)

Finish(status, tree) ==
  /\ pc' = "idle" /\ want' = 0 /\ op' = NoOp
  /\ astray' = (astray \/ (op.kind = "navigate" /\ status = 0 /\ ~session_id_))
  /\ shown' = IF tree = 0 THEN shown ELSE [shown EXCEPT ![op.client] = tree]

\* An error ends the request.  navigate and click, once done, are answered with
\* status 0 also when the tree cannot be had.
GiveUp == Finish(IF pc = "tree" /\ op.kind # "tree" THEN 0 ELSE -1, 0)

Follows == [targets |-> "attach", attach |-> "ax", ax |-> "page", page |-> "dom",
            dom |-> "tree", nav |-> "tree", resolve |-> "call", call |-> "tree"]

GoOn(tree) ==
  IF pc \in {"tree", "scroll"} \/ (pc = "call" /\ op.kind = "type")
  THEN Finish(0, tree)
  ELSE pc' = Follows[pc] /\ want' = 0 /\ UNCHANGED <<op, astray, shown>>

\* Exchanges whose answer, and whose writing, the code does not look at.
AnswerIgnored == {"ax", "page", "dom", "nav", "call", "scroll"}
WriteIgnored == {"ax", "page", "dom"}

ReadsAgain == UNCHANGED <<pc, want, op, astray, shown>>   \* mutant: a failed read is repeated
ReadFails == IF pc \in AnswerIgnored THEN GoOn(0) ELSE GiveUp
WriteFails == IF pc \in WriteIgnored THEN GoOn(0) ELSE GiveUp

-----------------------------------------------------------------------------
(* The server. *)

Meant(c, h) ==
  IF shown[c] # 0 /\ h \in Handles /\ Trees[shown[c]][h] # 0
  THEN <<shown[c], Trees[shown[c]][h]>> ELSE NoElem

\* handle_cdp and the checks that navigate, get_axtree, click, type_text and
\* scroll make before they use the pipes.
First(kind, h) ==
  CASE kind = "navigate" -> IF started_ THEN "nav" ELSE "start"
    [] kind = "tree"     -> IF started_ THEN "tree" ELSE "start"
    [] kind = "scroll"   -> IF started_ THEN "scroll" ELSE "refused"
    [] OTHER -> IF h \in Handles /\ handle_map_[h] # 0 THEN "resolve" ELSE "refused"

Receive(c, kind, h) ==
  /\ pc = "idle" /\ calls < MaxCalls
  /\ calls' = calls + 1
  /\ object' = NoElem
  /\ IF First(kind, h) = "refused" THEN UNCHANGED <<pc, op>>
     ELSE /\ pc' = First(kind, h)
          /\ op' = [kind |-> kind, client |-> c, handle |-> h, meant |-> Meant(c, h)]
  /\ UNCHANGED <<bridge, browser, want, shown, timeouts, history>>

\* start: started_ is set as soon as the browser is forked.
Launch ==
  /\ pc = "start"
  /\ proc' = "running" /\ page' = 1 /\ started_' = TRUE /\ pc' = "targets"
  /\ UNCHANGED <<next_req_id_, handle_map_, session_id_, toChrome, busy, fromChrome, events,
                 want, op, object, shown, calls, timeouts, history>>

\* No browser, no first pipe or no process; or no second pipe, which leaves the
\* first one open.
LaunchFails ==
  /\ Faults /\ pc = "start"
  /\ Finish(-1, 0)
  /\ leaked' \in {leaked, leaked + 2}
  /\ UNCHANGED <<bridge, browser, object, calls, timeouts, own, hit>>

Command ==
  [id |-> next_req_id_, does |-> pc, session |-> session_id_,
   node |-> IF pc = "resolve" THEN handle_map_[op.handle] ELSE 0,
   object |-> object, meant |-> op.meant]

\* write_pipe blocks while the pipe is full, and fails once the browser is gone.
BrokenPipe == proc # "running"

Send ==
  /\ pc \in Exchanges /\ want = 0
  /\ next_req_id_' = next_req_id_ + 1
  /\ \/ /\ proc = "running" /\ Len(toChrome) < PipeRoom
        /\ toChrome' = Append(toChrome, Command)
        /\ want' = next_req_id_
        /\ UNCHANGED <<pc, op, astray, shown>>
     \/ BrokenPipe /\ WriteFails /\ UNCHANGED toChrome
  /\ UNCHANGED <<started_, handle_map_, session_id_, proc, page, busy, fromChrome, events,
                 object, calls, timeouts, leaked, own, hit>>

Waiting == pc \in Exchanges /\ want # 0

\* The needle is the beginning "id":<n>, so it is also found where the id has more
\* digits behind n.
MatchesAny(id, n) == id # 0   \* mutant: the next answer will do
Matches(id, n) == id = n \/ \E p \in Powers : id \div p = n

Discard ==
  /\ Waiting /\ fromChrome # <<>>
  /\ ~Matches(Head(fromChrome).id, want)
  /\ fromChrome' = Tail(fromChrome)
  /\ UNCHANGED <<bridge, proc, page, toChrome, busy, events, turn, shown, calls, timeouts, history>>

\* What the exchange does with its answer; without the field it looks for it fails,
\* and filter_and_format has then emptied the map of handles.
MapAfterClick(m) == \* mutant: the tree after a click is sent without its map
  IF pc # "tree" \/ op.kind = "click" THEN {handle_map_}
  ELSE IF m.ok THEN Maps[m.page] ELSE {NoHandles}
NewMap(m) ==
  IF pc # "tree" THEN {handle_map_} ELSE IF m.ok THEN Maps[m.page] ELSE {NoHandles}

Use(m) ==
  /\ IF pc \in AnswerIgnored \/ m.ok THEN GoOn(m.page) ELSE GiveUp
  /\ session_id_' = (session_id_ \/ (pc = "attach" /\ m.ok))
  /\ object' = IF pc = "resolve" /\ m.ok THEN m.elem ELSE object
  /\ handle_map_' \in NewMap(m)

Take ==
  /\ Waiting /\ fromChrome # <<>>
  /\ Matches(Head(fromChrome).id, want)
  /\ Use(Head(fromChrome))
  /\ own' = (own /\ Head(fromChrome).id = want)
  /\ fromChrome' = Tail(fromChrome)
  /\ UNCHANGED <<started_, next_req_id_, proc, page, toChrome, busy, events, calls,
                 timeouts, leaked, hit>>

\* poll finds nothing in time.  What has been read of a message is lost, and its
\* rest is the next message, without an id.
Rest(m) == [m EXCEPT !.id = 0]

Silent == timeouts > MaxTimeouts   \* the browser only reads, or ends

Timeout ==
  /\ Waiting
  /\ timeouts' = IF Silent THEN timeouts ELSE timeouts + 1
  /\ ReadFails
  /\ \/ UNCHANGED fromChrome
     \/ /\ fromChrome # <<>>
        /\ fromChrome' = [fromChrome EXCEPT ![1] = Rest(@)]
  /\ UNCHANGED <<bridge, proc, page, toChrome, busy, events, object, calls, leaked, own, hit>>

EndOfFile ==
  /\ Waiting /\ proc # "running" /\ fromChrome = <<>>
  /\ ReadFails
  /\ UNCHANGED <<bridge, browser, object, calls, timeouts, leaked, own, hit>>

\* reap_children, on SIGCHLD in the loop of the server.
ReapChildren ==
  /\ pc = "idle" /\ proc = "zombie"
  /\ proc' = "reaped"
  /\ UNCHANGED <<bridge, page, toChrome, busy, fromChrome, events, turn, shown, calls, timeouts, history>>

\* kill and waitpid of child_pid_, whatever process has that number now.
Collected ==
  CASE proc \in {"running", "zombie"} -> "reaped"
    [] proc = "other"                 -> "stray"
    [] OTHER                          -> proc

EndedIfAttached == IF session_id_ THEN Collected ELSE proc   \* mutant: nothing to stop without a session
Ended == IF started_ THEN Collected ELSE proc

\* cleanup of the server, then stop.
Stop ==
  /\ pc = "idle"
  /\ pc' = "stopped"
  /\ proc' = Ended
  /\ started_' = FALSE /\ session_id_' = FALSE /\ next_req_id_' = 1 /\ handle_map_' = NoHandles
  /\ toChrome' = <<>> /\ busy' = {} /\ fromChrome' = <<>>
  /\ UNCHANGED <<page, events, want, op, object, shown, calls, timeouts, history>>

Stopped == pc = "stopped" /\ UNCHANGED vars

-----------------------------------------------------------------------------
(* The browser. *)

Reads ==
  /\ proc = "running" /\ toChrome # <<>>
  /\ busy' = busy \cup {Head(toChrome)}
  /\ toChrome' = Tail(toChrome)
  /\ UNCHANGED <<bridge, proc, page, fromChrome, events, turn, shown, calls, timeouts, history>>

\* Whether r can be done: a page is there to attach to; the session is named; the
\* node is in the page, the object in its world.
Possible(r) ==
  CASE r.does \in {"targets", "attach"} -> {TRUE, FALSE}
    [] r.does = "resolve" -> {r.session /\ r.node \in Ids(page)}
    [] r.does = "call"    -> {r.session /\ r.object[1] = page}
    [] OTHER              -> {r.session}

Answers(r) ==
  /\ proc = "running" /\ ~Silent /\ r \in busy
  /\ \E ok \in Possible(r) :
       /\ fromChrome' = Append(fromChrome,
            [id |-> r.id, ok |-> ok, page |-> IF r.does = "tree" THEN page ELSE 0,
             elem |-> IF r.does = "resolve" THEN <<page, r.node>> ELSE NoElem])
       /\ hit' = IF r.does = "call" /\ ok THEN [elem |-> r.object, meant |-> r.meant] ELSE hit
  /\ busy' = busy \ {r}
  /\ UNCHANGED <<bridge, proc, page, toChrome, events, turn, shown, calls, timeouts, leaked, own, astray>>

Reports ==
  /\ proc = "running" /\ ~Silent /\ events < MaxEvents
  /\ events' = events + 1
  /\ fromChrome' = Append(fromChrome, [id |-> 0, ok |-> FALSE, page |-> 0, elem |-> NoElem])
  /\ UNCHANGED <<bridge, proc, page, toChrome, busy, turn, shown, calls, timeouts, history>>

\* A navigation, a script or a click has replaced the document.
Loads ==
  /\ proc = "running" /\ ~Silent /\ page < Len(Docs)
  /\ page' = page + 1
  /\ UNCHANGED <<bridge, proc, toChrome, busy, fromChrome, events, turn, shown, calls, timeouts, history>>

\* What it has not written yet is lost.
Ends ==
  /\ Dies /\ proc = "running"
  /\ proc' = "zombie" /\ toChrome' = <<>> /\ busy' = {}
  /\ \E n \in 0 .. Len(fromChrome) : fromChrome' = SubSeq(fromChrome, 1, n)
  /\ UNCHANGED <<bridge, page, events, turn, shown, calls, timeouts, history>>

NumberReused ==
  /\ Reuses /\ proc = "reaped" /\ pc # "stopped"
  /\ proc' = "other"
  /\ UNCHANGED <<bridge, page, toChrome, busy, fromChrome, events, turn, shown, calls, timeouts, history>>

-----------------------------------------------------------------------------
Request == \E c \in Clients :
  \/ \E kind \in {"navigate", "tree", "scroll"} : Receive(c, kind, 0)
  \/ \E kind \in {"click", "type"}, h \in 0 .. MaxHandles : Receive(c, kind, h)

Serve == Launch \/ LaunchFails \/ Send \/ Discard \/ Take \/ Timeout \/ EndOfFile
Answer == \E r \in busy : Answers(r)
Browser == Reads \/ Answer \/ Reports \/ Loads \/ Ends \/ NumberReused

Next == Request \/ Serve \/ ReapChildren \/ Stop \/ Stopped \/ Browser

Spec == Init /\ [][Next]_vars

\* The server is one thread that is scheduled, and poll returns when its time is up.
\* Nothing is expected of the browser.
FairSpec == Spec /\ WF_vars(Serve)

-----------------------------------------------------------------------------
Elem == Nat \X Nat

\* Types.
TypeOK ==
  /\ started_ \in BOOLEAN /\ session_id_ \in BOOLEAN
  /\ next_req_id_ \in Nat \ {0} /\ want \in Nat
  /\ handle_map_ \in [Handles -> Nat]
  /\ pc \in Exchanges \cup {"idle", "start", "stopped"}
  /\ proc \in {"none", "running", "zombie", "reaped", "other", "stray"}
  /\ page \in 0 .. Len(Docs) /\ shown \in [Clients -> 0 .. Len(Docs)]
  /\ object \in Elem /\ op.meant \in Elem
  /\ IsFiniteSet(busy)

\* The answer an exchange takes is the one to its own command, although events and
\* late answers of timed-out exchanges are in the pipe and the search for the id
\* also finds ids that begin with it (read_msg_matching).
OwnReply == own

\* A handle stands for the element that the client was last shown under it, or for
\* none: the map changes only together with the tree that is sent (filter_and_format
\* and handle_cdp), also when an exchange of the request fails.  The node at which an
\* answer is cut is not counted in.
HandleMeansWhatWasShown ==
  \A c \in Clients :
    IF shown[c] = 0 THEN handle_map_ = NoHandles
    ELSE \A h \in Handles : Trees[shown[c]][h] # 0 => handle_map_[h] \in {0, Trees[shown[c]][h]}

\* A click or a text reaches the element that the client was shown under the handle,
\* if the node had come whole and the page has not been replaced: also when it is
\* carried out late, after later requests (click and type_text).
ActsOnWhatWasShown ==
  (hit.meant # NoElem /\ hit.elem[1] = hit.meant[1]) => hit.elem = hit.meant

\* A click or a text reaches an element that has a handle in the tree of its page: not
\* so for the node at which an answer is cut, the id of which may be that of any element.
ActsOnActionable ==
  hit.elem # NoElem =>
    LET doc == Docs[hit.elem[1]] IN \E i \in Actions(doc) : doc[i].id = hit.elem[2]

\* A click or a text reaches the element that the client was shown, whatever the
\* browser has loaded since.
ActsOnShownPage == hit.meant # NoElem => hit.elem = hit.meant

\* When the server has stopped, the browser has ended and been waited for, wherever
\* its start had failed (stop, called by cleanup).
NoBrowserLeft == pc = "stopped" => proc \notin {"running", "zombie"}

\* stop ends the browser and no other process.
StopsNobodyElse == proc # "stray"

\* Every pipe that start opens is closed by someone.
NoPipeLeak == leaked = 0

\* A navigation that is answered with status 0 was sent to the session of a page.
NavigatedInSession == ~astray

\* Every browser request is answered, whatever the browser does, as each read of it has
\* a time limit; unless the only thread of the guest is held up for ever by a write to
\* the pipe, which has none (write_pipe, cdp.hpp:861).
Blocked == pc \in Exchanges /\ want = 0 /\ proc = "running" /\ Len(toChrome) >= PipeRoom
AlwaysAnswered == (pc \in Exchanges \cup {"start"}) ~> (pc = "idle")
RequestsAnswered == <>[]Blocked \/ AlwaysAnswered

=============================================================================
