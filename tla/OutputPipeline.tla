--------------------------- MODULE OutputPipeline ---------------------------
(***************************************************************************)
(* How ProcessRunner::run turns what a command prints into what the agent  *)
(* is given: one ring buffer and one ANSI filter, kept by the runner from  *)
(* command to command, are reset, the child's output is pushed through the *)
(* ring while it arrives, and what is left there is linearized, filtered   *)
(* if the request asks for it, and flagged when some of it was lost.       *)
(*                                                                         *)
(* The child prints whole pieces, a character of text or one escape        *)
(* sequence, but it may be killed in the middle of one.                    *)
(***************************************************************************)
EXTENDS RingBuffer, AnsiFilter

CONSTANTS Pieces,     \* the pieces a command may print, sequences of classes
          MaxPieces,  \* bound: pieces printed by a command
          MaxRuns     \* bound: commands run

ASSUME PipelineAssumption ==
  /\ Byte = Classes
  /\ Pieces \subseteq Seq(Classes) \ {<<>>}
  /\ MaxPieces \in Nat /\ MaxRuns \in Nat

VARIABLES
  phase,   \* "idle", "running", "ended"
  pieces,  \* the whole pieces the command has printed
  broken,  \* the start of a piece it was killed in
  unread,  \* bytes in the pipe
  filter,  \* ansi_filter_.state_
  strip,   \* whether EXEC_FLAG_STRIP_ANSI is set
  answer,  \* the last answer: its output and its TRUNCATED flag
  runs     \* commands run so far

pipeVars == <<phase, pieces, broken, unread, filter, strip, answer, runs>>
vars == <<ringVars, pipeVars>>

Printable(p) == \A i \in 1..Len(p) : p[i] \in Printed
\* What an escape-free terminal would show: the printable pieces, in order.
Shown(p) == IF Printable(p) THEN p ELSE <<>>
TextOf(ps) == FlattenSeq([i \in DOMAIN ps |-> Shown(ps[i])])
Raw == FlattenSeq(pieces) \o broken

\* The pieces of ECMA-48 that the filter knows: text, a control character, a control
\* sequence, an operating system command ended by BEL or ST, and the escape sequences
\* of two and three bytes.
Opens(p, b) == Len(p) > 2 /\ p[1] = "esc" /\ p[2] = b
Control(p) == Len(p) = 1 /\ p[1] \in {"cr", "bel", "ctl"}
Csi(p) ==
  /\ Opens(p, "[") /\ p[Len(p)] \in Finals
  /\ \E m \in 2..(Len(p) - 1) : /\ \A i \in 3..m : p[i] = "param"
                               /\ \A i \in (m + 1)..(Len(p) - 1) : p[i] = "interm"
Osc(p) ==
  /\ Opens(p, "]")
  /\ \E m \in 2..(Len(p) - 1) :
       /\ \A i \in 3..m : p[i] \notin {"bel", "esc"}
       /\ \/ m = Len(p) - 1 /\ p[m + 1] = "bel"
          \/ m = Len(p) - 2 /\ p[m + 1] = "esc" /\ p[m + 2] = "\\"
TwoByte(p) == Len(p) = 2 /\ p[1] = "esc" /\ p[2] \in (Finals \cup {"param"}) \ {"[", "]"}
ThreeByte(p) == Len(p) = 3 /\ Opens(p, "interm") /\ p[3] \in Finals \cup {"param"}
Known(p) == Printable(p) \/ Control(p) \/ Csi(p) \/ Osc(p) \/ TwoByte(p) \/ ThreeByte(p)

Init ==
  /\ RingInit
  /\ phase = "idle" /\ pieces = <<>> /\ broken = <<>> /\ unread = <<>>
  /\ filter = "Ground" /\ strip = TRUE
  /\ answer = [out |-> <<>>, truncated |-> FALSE]
  /\ runs = 0

ResetKept == filter   \* mutant: the filter is not reset between commands
Reset == "Ground"     \* ansi_filter_.reset()

\* The head of run: clear and reset, then the child is started.
Start ==
  /\ phase = "idle" /\ runs < MaxRuns
  /\ Clear
  /\ filter' = Reset
  /\ strip' \in BOOLEAN
  /\ phase' = "running" /\ runs' = runs + 1
  /\ pieces' = <<>> /\ broken' = <<>> /\ unread' = <<>>
  /\ UNCHANGED answer

Prints(p) ==
  /\ phase = "running" /\ Len(pieces) < MaxPieces
  /\ pieces' = Append(pieces, p)
  /\ unread' = unread \o p
  /\ UNCHANGED <<ringVars, phase, broken, filter, strip, answer, runs>>

\* The child exits or is killed, then possibly in the middle of a piece.
Ends ==
  /\ phase = "running"
  /\ \E p \in Pieces : \E n \in 0..(Len(p) - 1) :
       /\ broken' = SubSeq(p, 1, n)
       /\ unread' = unread \o SubSeq(p, 1, n)
  /\ phase' = "ended"
  /\ UNCHANGED <<ringVars, pieces, filter, strip, answer, runs>>

\* drain_pipe: a byte read from the pipe goes into the ring.
Drain ==
  /\ unread # <<>>
  /\ Push(Head(unread))
  /\ unread' = Tail(unread)
  /\ UNCHANGED <<phase, pieces, broken, filter, strip, answer, runs>>

TruncatedEarly == total >= Capacity   \* mutant: off by one
Truncated == IsTruncated

\* The tail of run, once the final drain has found the pipe empty.
Deliver ==
  /\ phase = "ended" /\ unread = <<>>
  /\ LET f == Filter(filter, Linear) IN
       IF strip
       THEN filter' = f.st /\ answer' = [out |-> f.out, truncated |-> Truncated]
       ELSE filter' = filter /\ answer' = [out |-> Linear, truncated |-> Truncated]
  /\ phase' = "idle"
  /\ UNCHANGED <<ringVars, pieces, broken, unread, strip, runs>>

Finished == phase = "idle" /\ runs = MaxRuns /\ UNCHANGED vars

Next == Start \/ (\E p \in Pieces : Prints(p)) \/ Ends \/ Drain \/ Deliver \/ Finished

Spec == Init /\ [][Next]_vars

-----------------------------------------------------------------------------
Answered == phase = "idle" /\ runs > 0

TypeOK ==
  /\ RingTypeOK
  /\ phase \in {"idle", "running", "ended"}
  /\ pieces \in Seq(Pieces) /\ broken \in Seq(Classes) /\ unread \in Seq(Classes)
  /\ filter \in States
  /\ strip \in BOOLEAN
  /\ answer \in [out : Seq(Classes), truncated : BOOLEAN]
  /\ runs \in 0..MaxRuns

\* Output that fits the buffer is given back whole: the text of the command and
\* nothing of its escape sequences when stripping, every byte of it otherwise,
\* also when it was cut short in a sequence and whatever the command before it
\* left behind.
StripsToText ==
  Answered /\ Len(Raw) <= Capacity =>
    /\ ~answer.truncated
    /\ answer.out = IF strip THEN TextOf(pieces \o <<broken>>) ELSE Raw

\* Output that does not fit is flagged, and is the latest Capacity bytes.
FlagsTheLoss ==
  Answered =>
    /\ answer.truncated <=> Len(Raw) > Capacity
    /\ ~strip => IsSuffix(answer.out, Raw) /\ Len(answer.out) = IF answer.truncated THEN Capacity ELSE Len(Raw)

\* What was printed after the i-th piece.
After(i) == SubSeq(pieces, i + 1, Len(pieces)) \o <<broken>>

\* Output that does not fit spoils at most the piece that the buffer has cut: the text of
\* the pieces after it comes through whole and last, and what is left of the cut piece
\* before it is no longer than the bytes of it that were kept.  The filter that starts in
\* the middle of a sequence is back in step when the next piece begins.
DamageConfined ==
  Answered /\ strip =>
    \A i \in 1..Len(pieces) :
      LET n == Len(FlattenSeq(After(i))) IN
      n <= Capacity /\ n + Len(pieces[i]) > Capacity =>
        /\ IsSuffix(TextOf(After(i)), answer.out)
        /\ Len(answer.out) - Len(TextOf(After(i))) <= Capacity - n

\* "ANSI escape sequences are stripped via a single-pass finite-state parser"
\* (ARCHITECTURE.md:114): no byte of a stripped answer comes from a sequence, so
\* the answer is the end of the text, also when the buffer has overflowed.
SequencesStripped ==
  Answered /\ strip => IsSuffix(answer.out, TextOf(pieces \o <<broken>>))

=============================================================================
