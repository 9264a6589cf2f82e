------------------------------ MODULE SdkClient -----------------------------
(***************************************************************************)
(* The TypeScript client of the appliance (AxiomClient in                  *)
(* sdk/typescript/src/client.ts).  Calls are promises on one event loop    *)
(* and share one socket and one receive buffer: each call writes its       *)
(* request and polls the buffer for an answer, which it takes from the     *)
(* front without looking at the request id.  Nothing keeps calls apart,    *)
(* and the buffer is emptied by close only.                                *)
(*                                                                         *)
(* A call runs undivided between two awaits.  What follows the await of a  *)
(* connection that exists already is a microtask: it runs before the next  *)
(* timer or socket event, but after what the caller does in the same turn. *)
(***************************************************************************)
EXTENDS Integers, Sequences, FiniteSets, SequencesExt

CONSTANTS HeaderSize,  \* HEADER_SIZE, in units
          Kinds,       \* the opcodes used
          MaxCalls     \* bound: calls made

Opcodes == {"Ping", "Exec", "ReadFile", "WriteFile", "GetSymbols", "GetSlice", "PatchSymbol", "CdpAction"}

ASSUME SdkAssumption ==
  /\ HeaderSize \in Nat \ {0} /\ MaxCalls \in Nat
  /\ Kinds \subseteq Opcodes

Calls == 1..MaxCalls
\* Answers to writes and patches have a fixed size, the others vary.
PayloadLen(kind) ==
  CASE kind = "Ping" -> 0 [] kind \in {"WriteFile", "PatchSymbol"} -> 1 [] OTHER -> 2
Unit == [id : Calls, kind : Kinds, i : 1..(HeaderSize + 2)]
Answer(r) == [i \in 1..(HeaderSize + PayloadLen(r.kind)) |-> [id |-> r.id, kind |-> r.kind, i |-> i]]

VARIABLES
  socket,   \* "null", "connecting", "open", "destroyed"
  peer,     \* the other end: "up" or "closed"
  reqs,     \* requests written and not answered
  stream,   \* units on their way to the client
  buffer,   \* this.buffer
  turn,     \* microtasks: calls that go on at once, in order
  pc,       \* per call: "new", "connect", "turn", "header", "payload", "done", "failed", "hung"
  kind,     \* per call: its opcode
  total,    \* per call: totalExpected, 0 before the header
  trouble,  \* history: what happened since the last close: "failed", "overlap", "ended"
  returned, \* history: what calls returned
  crashed   \* an error event without a listener has ended the program

vars == <<socket, peer, reqs, stream, buffer, turn, pc, kind, total, trouble, returned, crashed>>

Init ==
  /\ socket = "null" /\ peer = "up"
  /\ reqs = <<>> /\ stream = <<>> /\ buffer = <<>> /\ turn = <<>>
  /\ pc = [c \in Calls |-> "new"] /\ kind = [c \in Calls |-> "Ping"] /\ total = [c \in Calls |-> 0]
  /\ trouble = {} /\ returned = {} /\ crashed = FALSE

Running(c) == pc[c] \in {"connect", "turn", "header", "payload"}

-----------------------------------------------------------------------------
(* What the program does in its turn. *)

\* exchange up to its first await: connect makes a socket if there is none.
Exchange(c, k) ==
  /\ ~crashed /\ pc[c] = "new"
  /\ c > 1 => pc[c - 1] # "new"
  /\ kind' = [kind EXCEPT ![c] = k]
  /\ trouble' = trouble \cup (IF \E d \in Calls \ {c} : Running(d) THEN {"overlap"} ELSE {})
  /\ \/ /\ socket \in {"connecting", "open"}
        /\ pc' = [pc EXCEPT ![c] = "turn"] /\ turn' = Append(turn, c)
        /\ UNCHANGED <<socket, peer, reqs, stream>>
     \/ /\ socket \in {"null", "destroyed"}
        /\ pc' = [pc EXCEPT ![c] = "connect"]
        /\ socket' = "connecting" /\ peer' = "up"
        /\ reqs' = <<>> /\ stream' = <<>>
        /\ UNCHANGED turn
  /\ UNCHANGED <<buffer, total, returned, crashed>>

\* A connection closed while it is being made settles no promise.
Hang == pc' = [c \in Calls |-> IF pc[c] = "connect" THEN "hung" ELSE pc[c]]

CloseKeepingBuffer ==   \* mutant
  /\ ~crashed /\ socket # "null"
  /\ socket' = "null" /\ reqs' = <<>> /\ stream' = <<>>
  /\ trouble' = {} /\ Hang
  /\ UNCHANGED <<peer, buffer, turn, kind, total, returned, crashed>>

Close ==
  /\ ~crashed /\ socket # "null"
  /\ socket' = "null" /\ reqs' = <<>> /\ stream' = <<>>
  /\ buffer' = <<>>
  /\ trouble' = {} /\ Hang
  /\ UNCHANGED <<peer, turn, kind, total, returned, crashed>>

-----------------------------------------------------------------------------
(* A call from one await to the next. *)

Return(c, units) ==
  /\ pc' = [pc EXCEPT ![c] = "done"]
  /\ returned' = returned \cup {[id |-> c, kind |-> kind[c], units |-> units, trouble |-> trouble]}
  /\ UNCHANGED trouble

Throw(c) ==
  /\ pc' = [pc EXCEPT ![c] = "failed"]
  /\ trouble' = trouble \cup {"failed"}
  /\ UNCHANGED returned

\* decodeHeader: the buffer starts with the magic.
IsHeader(u) == u.i = 1

\* Wait for totalExpected units, then take them from the front: they need not
\* be the ones the header was read from.
Take(c, n) ==
  IF Len(buffer) < n THEN pc' = [pc EXCEPT ![c] = "payload"] /\ UNCHANGED <<buffer, trouble, returned>>
  ELSE Return(c, SubSeq(buffer, 1, n)) /\ buffer' = SubSeq(buffer, n + 1, Len(buffer))

\* The buffer keeps a header that is thrown at.
Examine(c) ==
  IF Len(buffer) < HeaderSize
  THEN pc' = [pc EXCEPT ![c] = "header"] /\ UNCHANGED <<buffer, total, trouble, returned>>
  ELSE IF ~IsHeader(buffer[1]) \/ buffer[1].kind # kind[c]
  THEN Throw(c) /\ UNCHANGED <<buffer, total>>
  ELSE LET n == HeaderSize + PayloadLen(buffer[1].kind)
       IN total' = [total EXCEPT ![c] = n] /\ Take(c, n)

\* The rest of exchange up to its next await: the request is written, queued by
\* the socket if it is still connecting.
Write(c) ==
  /\ IF socket = "null" THEN Throw(c) /\ UNCHANGED <<reqs, buffer, total>>
     ELSE /\ reqs' = IF peer = "up" THEN Append(reqs, [id |-> c, kind |-> kind[c]]) ELSE reqs
          /\ Examine(c)
  /\ UNCHANGED <<kind, crashed>>

Microtask ==
  /\ ~crashed /\ turn # <<>>
  /\ turn' = Tail(turn)
  /\ Write(Head(turn))
  /\ UNCHANGED <<socket, peer, stream>>

\* Timers and socket events wait for the microtasks.
EventLoop == ~crashed /\ turn = <<>>

\* The timer of one poll finds that the units needed have arrived.
Ready(c) ==
  \/ pc[c] = "header" /\ Len(buffer) >= HeaderSize
  \/ pc[c] = "payload" /\ Len(buffer) >= total[c]

Poll(c) ==
  /\ EventLoop /\ Ready(c)
  /\ \/ pc[c] = "header" /\ Examine(c)
     \/ pc[c] = "payload" /\ Take(c, total[c]) /\ UNCHANGED total
  /\ UNCHANGED <<socket, peer, reqs, stream, turn, kind, crashed>>

TimeoutForHeader(c) ==   \* mutant: no limit for the payload
  /\ EventLoop /\ pc[c] = "header"
  /\ Throw(c)
  /\ UNCHANGED <<socket, peer, reqs, stream, buffer, turn, kind, total, crashed>>

\* A call that finds its time over throws, even if its units have arrived
\* during the last millisecond.
Timeout(c) ==
  /\ EventLoop /\ pc[c] \in {"header", "payload"}
  /\ Throw(c)
  /\ UNCHANGED <<socket, peer, reqs, stream, buffer, turn, kind, total, crashed>>

-----------------------------------------------------------------------------
(* Socket events. *)

\* connHandler: the call that made the socket goes on.
Connected ==
  /\ EventLoop /\ socket = "connecting" /\ peer = "up"
  /\ socket' = "open"
  /\ turn' = SetToSeq({c \in Calls : pc[c] = "connect"})
  /\ pc' = [c \in Calls |-> IF pc[c] = "connect" THEN "turn" ELSE pc[c]]
  /\ UNCHANGED <<peer, reqs, stream, buffer, kind, total, trouble, returned, crashed>>

\* errorHandler.
ConnectFails ==
  /\ EventLoop /\ socket = "connecting"
  /\ socket' = "destroyed" /\ reqs' = <<>>
  /\ trouble' = trouble \cup {"failed"}
  /\ pc' = [c \in Calls |-> IF pc[c] = "connect" THEN "failed" ELSE pc[c]]
  /\ UNCHANGED <<peer, stream, buffer, turn, kind, total, returned, crashed>>

DataReplacing ==   \* mutant: a chunk replaces the buffer
  /\ EventLoop /\ socket = "open" /\ stream # <<>>
  /\ \E n \in 1..Len(stream) :
       buffer' = SubSeq(stream, 1, n) /\ stream' = SubSeq(stream, n + 1, Len(stream))
  /\ UNCHANGED <<socket, peer, reqs, turn, pc, kind, total, trouble, returned, crashed>>

Data ==
  /\ EventLoop /\ socket = "open" /\ stream # <<>>
  /\ \E n \in 1..Len(stream) :
       buffer' = buffer \o SubSeq(stream, 1, n) /\ stream' = SubSeq(stream, n + 1, Len(stream))
  /\ UNCHANGED <<socket, peer, reqs, turn, pc, kind, total, trouble, returned, crashed>>

\* The end of the stream destroys the socket; the buffer stays.
End ==
  /\ EventLoop /\ socket = "open" /\ peer = "closed" /\ stream = <<>>
  /\ socket' = "destroyed"
  /\ trouble' = trouble \cup {"ended"}
  /\ UNCHANGED <<peer, reqs, stream, buffer, turn, pc, kind, total, returned, crashed>>

\* A reset after the connection was made: nothing listens for errors any more.
Error ==
  /\ EventLoop /\ socket = "open" /\ peer = "closed"
  /\ crashed' = TRUE
  /\ UNCHANGED <<socket, peer, reqs, stream, buffer, turn, pc, kind, total, trouble, returned>>

-----------------------------------------------------------------------------
(* The other end. *)

\* Short and unknown requests get no answer; a connection may be closed in the
\* middle of one.
Respond ==
  /\ socket = "open" /\ peer = "up" /\ reqs # <<>>
  /\ reqs' = Tail(reqs)
  /\ stream' \in {stream, stream \o Answer(Head(reqs))}
  /\ UNCHANGED <<socket, peer, buffer, turn, pc, kind, total, trouble, returned, crashed>>

HangUp ==
  /\ socket = "open" /\ peer = "up"
  /\ peer' = "closed" /\ reqs' = <<>>
  /\ \/ UNCHANGED stream
     \/ reqs # <<>> /\ stream' = stream \o Front(Answer(Head(reqs)))
  /\ UNCHANGED <<socket, buffer, turn, pc, kind, total, trouble, returned, crashed>>

-----------------------------------------------------------------------------
AllOver == crashed \/ \A c \in Calls : pc[c] \in {"done", "failed", "hung"}
\* A poll that finds too little sets its timer again.
PollAgain(c) == EventLoop /\ pc[c] \in {"header", "payload"} /\ ~Ready(c) /\ UNCHANGED vars
Idle == AllOver /\ UNCHANGED vars

Next ==
  \/ \E c \in Calls, k \in Kinds : Exchange(c, k)
  \/ \E c \in Calls : Poll(c) \/ PollAgain(c) \/ Timeout(c)
  \/ Close \/ Microtask \/ Connected \/ ConnectFails \/ Data \/ End \/ Error
  \/ Respond \/ HangUp \/ Idle

Spec == Init /\ [][Next]_vars

\* The event loop serves what is due; a connection attempt ends in some way;
\* time passes for a call that waits.
Fairness ==
  /\ WF_vars(Microtask) /\ WF_vars(Connected \/ ConnectFails)
  /\ \A c \in Calls : WF_vars(Poll(c) \/ Timeout(c))
FairSpec == Spec /\ Fairness

-----------------------------------------------------------------------------
TypeOK ==
  /\ socket \in {"null", "connecting", "open", "destroyed"} /\ peer \in {"up", "closed"}
  /\ reqs \in Seq([id : Calls, kind : Kinds])
  /\ stream \in Seq(Unit) /\ buffer \in Seq(Unit)
  /\ \A c \in Calls : (pc[c] = "turn") = (c \in ToSet(turn))
  /\ \A c \in Calls : pc[c] = "connect" => socket = "connecting"
  /\ \A c \in Calls : pc[c] = "payload" => total[c] >= HeaderSize
  /\ trouble \subseteq {"failed", "overlap", "ended"} /\ crashed \in BOOLEAN

\* A call that runs alone, on a connection on which no call failed or overlapped
\* another one since the last close, returns the whole answer to its own
\* request: also when the peer ended an earlier connection without a close,
\* whose buffer the next connection inherits.
OwnAnswerAlone ==
  \A r \in returned : r.trouble \subseteq {"ended"} => r.units = Answer(r)

\* As long as calls do not overlap and the stream has not ended inside an
\* answer, a call may get the answer of a call that timed out, but a whole one
\* and of its own kind.
WholeAnswer ==
  \A r \in returned : r.trouble \subseteq {"failed"} =>
    /\ r.units[1].kind = r.kind
    /\ r.units = Answer(r.units[1])

\* Every call returns or throws, unless the client is closed while it connects
\* or the program ends.
CallsSettle ==
  \A c \in Calls : Running(c) ~> (pc[c] \in {"done", "failed", "hung"} \/ crashed)

\* "Internal helper to exchange a framed binary request and await response."
\* (sdk/typescript/src/client.ts:107): calls on a connection without failures
\* return the response to their own request.
OwnAnswer ==
  \A r \in returned : r.trouble \subseteq {"overlap"} => \A i \in 1..Len(r.units) : r.units[i].id = r.id

=============================================================================
