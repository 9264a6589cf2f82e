----------------------------- MODULE HostClient -----------------------------
(***************************************************************************)
(* The host's Python driver as a client of the appliance (MicroVM in       *)
(* host/axiom/vm.py): one call at a time over one vsock connection, each   *)
(* call sends a request frame and then reads header and payload of the     *)
(* next answer in the stream, with a timeout of five seconds on each read. *)
(* The answer's request id is never looked at, and the connection is kept  *)
(* whatever happens.                                                       *)
(*                                                                         *)
(* The appliance answers in order, but late, or not at all, or it hangs up *)
(* in the middle.  An answer is a sequence of units, the first HeaderSize  *)
(* of them the header, each knowing which request it answers and its       *)
(* position.  It is written and arrives in parts, so a read may time out   *)
(* anywhere in it; the next call then reads what is left of it, and        *)
(* payload, which is whatever a file or a command holds, may happen to     *)
(* look like a header.                                                     *)
(***************************************************************************)
EXTENDS Integers, Sequences, SequencesExt

CONSTANTS HeaderSize,  \* wire::HEADER_SIZE, in units
          Payload,     \* payload of an answer to any call but ping, in units
          MaxCalls     \* bound: calls made

ASSUME ClientAssumption ==
  /\ {HeaderSize, Payload} \subseteq Nat \ {0}
  /\ MaxCalls \in Nat

Calls == 1..MaxCalls
Kinds == {"Ping", "Exec", "ReadFile", "WriteFile", "GetSymbols", "GetSlice", "PatchSymbol", "CdpAction"}
PayloadLen(kind) == IF kind = "Ping" THEN 0 ELSE Payload
Unit == [id : Calls, kind : Kinds, i : 1..(HeaderSize + Payload)]

VARIABLES
  conn,     \* vsock_conn: "none", "open", or "dead" when the peer hung up
  reqs,     \* requests the appliance has received and not answered
  stream,   \* units that the appliance has written or is going to, in order
  pc,       \* "idle", "header", "payload", "off"
  call,     \* the current call, [id, kind]
  got,      \* units read by the current call
  need,     \* units it reads before it looks at them
  calls,    \* calls made so far
  tainted,  \* history: a call has failed since the connection was made
  torn,     \* history: a call has left the rest of an answer unread since then
  returned  \* history: calls that returned, with the units they were given

vars == <<conn, reqs, stream, pc, call, got, need, calls, tainted, torn, returned>>

Init ==
  /\ conn = "none" /\ reqs = <<>> /\ stream = <<>>
  /\ pc = "idle" /\ call = [id |-> 0, kind |-> "Ping"] /\ got = <<>> /\ need = HeaderSize
  /\ calls = 0 /\ tainted = FALSE /\ torn = FALSE /\ returned = {}

-----------------------------------------------------------------------------
(* The appliance, as the client sees it. *)

Answer(r) == [i \in 1..(HeaderSize + PayloadLen(r.kind)) |-> [id |-> r.id, kind |-> r.kind, i |-> i]]

\* Short and unknown requests get no answer.  Header, output and diff are written one
\* after the other: a unit of the stream arrives when it arrives.
Respond ==
  /\ conn = "open" /\ reqs # <<>>
  /\ stream' \in {stream, stream \o Answer(Head(reqs))}
  /\ reqs' = Tail(reqs)
  /\ UNCHANGED <<conn, pc, call, got, need, calls, tainted, torn, returned>>

\* What was not written by then never is.
HangUp ==
  /\ conn = "open"
  /\ conn' = "dead" /\ reqs' = <<>>
  /\ \E n \in 0..Len(stream) : stream' = SubSeq(stream, 1, n)
  /\ UNCHANGED <<pc, call, got, need, calls, tainted, torn, returned>>

-----------------------------------------------------------------------------
(* The client. *)

AtEnd(units) == LET u == units[Len(units)] IN units = <<>> \/ u.i = HeaderSize + PayloadLen(u.kind)

\* A call is over: what it read is gone, what it left is still in the stream.
Over == pc' = "idle" /\ got' = <<>> /\ need' = HeaderSize /\ torn' = (torn \/ ~AtEnd(got))

\* It raises; vsock_conn stays as it is.
Raise == Over /\ tainted' = TRUE /\ UNCHANGED returned

Return ==
  /\ returned' = returned \cup {[call |-> call, units |-> got, tainted |-> tainted, torn |-> torn]}
  /\ Over /\ UNCHANGED tainted

\* connect_vsock if there is no connection, then sendall, which on a dead one
\* may fail or seem to succeed.
Call(kind) ==
  /\ pc = "idle" /\ calls < MaxCalls
  /\ calls' = calls + 1
  /\ call' = [id |-> calls + 1, kind |-> kind]
  /\ \/ /\ conn \in {"none", "open"}
        /\ conn' = "open" /\ reqs' = Append(reqs, call')
        /\ tainted' = (tainted /\ conn = "open")
        /\ pc' = "header"
        /\ UNCHANGED <<stream, got, need, torn, returned>>
     \/ /\ conn = "none"
        /\ Raise /\ UNCHANGED <<conn, reqs, stream>>
     \/ /\ conn = "dead"
        /\ pc' = "header"
        /\ UNCHANGED <<conn, reqs, stream, got, need, tainted, torn, returned>>
     \/ /\ conn = "dead"
        /\ Raise /\ UNCHANGED <<conn, reqs, stream>>

Ping == Call("Ping")
Exec == Call("Exec")
ReadFile == Call("ReadFile")
WriteFile == Call("WriteFile")
GetSymbols == Call("GetSymbols")
GetSlice == Call("GetSlice")
PatchSymbol == Call("PatchSymbol")
CdpAction == Call("CdpAction")

Reading == pc \in {"header", "payload"} /\ Len(got) < need

Recv ==
  /\ Reading /\ stream # <<>>
  /\ got' = Append(got, Head(stream)) /\ stream' = Tail(stream)
  /\ UNCHANGED <<conn, reqs, pc, call, need, calls, tainted, torn, returned>>

\* TimeoutError of the socket, whatever has arrived of the answer, or "Socket closed
\* while awaiting ...".
RecvFails ==
  /\ Reading
  /\ Raise
  /\ UNCHANGED <<conn, reqs, stream, call, calls>>

\* What decode_header makes of units with the right magic, u the first of them: the
\* header of an answer, or bytes out of the middle of one that imitate any header.
ReadsAs(u) ==
  IF u.i = 1 THEN {[kind |-> u.kind, len |-> PayloadLen(u.kind)]} ELSE [kind : Kinds, len : 0..Payload]

AnyOpcode(h) == TRUE   \* mutant: the payload is decoded without a test of the opcode
\* The opcode tests of exec and its siblings; ping has none.
Expected(h) == call.kind = "Ping" \/ h.kind = call.kind

\* The magic is tested, then the opcode; ping returns with the header, whatever
\* payload it announces.
Header ==
  /\ pc = "header" /\ Len(got) = HeaderSize
  /\ \/ got[1].i # 1 /\ Raise
     \/ \E h \in ReadsAs(got[1]) :
          IF ~Expected(h) THEN Raise
          ELSE IF call.kind = "Ping" THEN Return
          ELSE pc' = "payload" /\ need' = HeaderSize + h.len /\ UNCHANGED <<got, tainted, torn, returned>>
  /\ UNCHANGED <<conn, reqs, stream, call, calls>>

\* Decoding a payload that is none may fail.
Finish ==
  /\ pc = "payload" /\ Len(got) = need
  /\ Return \/ (got[1].i # 1 /\ Raise)
  /\ UNCHANGED <<conn, reqs, stream, call, calls>>

ResumeKeepingStream ==   \* mutant: the old connection is used again
  /\ pc = "idle" /\ conn # "none"
  /\ conn' = "open" /\ tainted' = FALSE /\ torn' = FALSE
  /\ UNCHANGED <<reqs, stream, pc, call, got, need, calls, returned>>

\* resume: the connection is closed and made anew, which may fail.
Resume ==
  /\ pc = "idle"
  /\ conn' \in {"open", "none"}
  /\ reqs' = <<>> /\ stream' = <<>> /\ tainted' = FALSE /\ torn' = FALSE
  /\ UNCHANGED <<pc, call, got, need, calls, returned>>

Shutdown ==
  /\ pc = "idle"
  /\ conn' = "none" /\ reqs' = <<>> /\ stream' = <<>>
  /\ pc' = "off"
  /\ UNCHANGED <<call, got, need, calls, tainted, torn, returned>>

Off == pc = "off" /\ UNCHANGED vars

Next ==
  \/ Respond \/ HangUp
  \/ Ping \/ Exec \/ ReadFile \/ WriteFile \/ GetSymbols \/ GetSlice \/ PatchSymbol \/ CdpAction
  \/ Recv \/ RecvFails \/ Header \/ Finish \/ Resume \/ Shutdown \/ Off

Spec == Init /\ [][Next]_vars

-----------------------------------------------------------------------------
TypeOK ==
  /\ conn \in {"none", "open", "dead"}
  /\ reqs \in Seq([id : Calls, kind : Kinds])
  /\ stream \in Seq(Unit) /\ got \in Seq(Unit)
  /\ pc \in {"idle", "header", "payload", "off"}
  /\ need \in HeaderSize..(HeaderSize + Payload) /\ (pc # "payload" => need = HeaderSize)
  /\ IF pc \in {"idle", "off"} THEN got = <<>> ELSE Len(got) <= need
  /\ call.id \in 0..MaxCalls /\ calls \in 0..MaxCalls
  /\ {tainted, torn} \subseteq BOOLEAN

\* Without request ids a call can only trust the order of the stream: what it
\* returns is the whole answer to its own request as long as no earlier call on
\* the connection has failed, and a resume gives it a stream to trust again.
OwnAnswerOnFreshStream ==
  \A r \in returned : ~r.tainted => r.units = Answer(r.call)

\* Also after calls that failed, late answers and pings that took the header of one:
\* what is returned is one whole answer, of the kind asked for (the header of one, for
\* a ping), as long as none of them gave up in the middle of an answer, and after that
\* whenever what was read as a header is the header of an answer.
NoMixedAnswer ==
  \A r \in returned : ~r.torn \/ r.units[1].i = 1 =>
    /\ \A i \in 1..Len(r.units) : r.units[i].i = i /\ r.units[i].id = r.units[1].id
    /\ r.call.kind # "Ping" => r.units = Answer([id |-> r.units[1].id, kind |-> r.call.kind])

\* Without these conditions: once a call has given up in the middle of an answer, the
\* next ones may return pieces of payload as an answer.
NeverMixed ==
  \A r \in returned : \A i \in 1..Len(r.units) : r.units[i].i = i /\ r.units[i].id = r.units[1].id

\* "Executes a command inside the appliance over vsock and returns response and
\* latency." (host/axiom/vm.py:263): what a call returns answers its request.
OwnAnswer == \A r \in returned : \A i \in 1..Len(r.units) : r.units[i].id = r.call.id

=============================================================================
