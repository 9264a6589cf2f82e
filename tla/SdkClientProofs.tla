--------------------------- MODULE SdkClientProofs ---------------------------
(***************************************************************************)
(* TLAPS proofs about SdkClient, for every size of header and every number *)
(* of calls: calls that do not overlap return whole answers (Framed), and  *)
(* those that run alone on a connection on which none has failed return    *)
(* their own (Trusted), also when the peer has ended connections.  Both    *)
(* rest on what the buffer starts with while a call waits for a payload    *)
(* (Examined).  Calls that overlap may tear answers apart.                 *)
(***************************************************************************)
EXTENDS SdkClient, SequenceTheorems, FiniteSetTheorems, TLAPS

Size(k) == HeaderSize + PayloadLen(k)
Request == [id : Calls, kind : Kinds]
Asked(c) == [id |-> c, kind |-> kind[c]]
Steps == {"new", "connect", "turn", "header", "payload", "done", "failed", "hung"}
Waiting(c) == pc[c] \in {"header", "payload"}

\* The units read and not taken, and those on their way.
Flow == buffer \o stream

\* Behind every unit of s follows the rest of its answer.
Whole(s) ==
  \A j \in 1..Len(s) : \A k \in s[j].i..Size(s[j].kind) :
    /\ j + k - s[j].i <= Len(s)
    /\ s[j + k - s[j].i] = [id |-> s[j].id, kind |-> s[j].kind, i |-> k]
\* ... or would follow, had the peer gone on.
Begun(s) == \E w \in Seq(Unit) : Whole(s \o w)

AtFront(c) == buffer # <<>> /\ buffer[1].i = 1 /\ buffer[1].kind = kind[c]

\* Each call that is to go on at once stands in the queue of microtasks once.
Queued ==
  /\ turn \in Seq(Calls)
  /\ \A i, j \in 1..Len(turn) : turn[i] = turn[j] => i = j
  /\ \A c \in Calls : pc[c] = "turn" <=> \E i \in 1..Len(turn) : turn[i] = c

Typed ==
  /\ socket \in {"null", "connecting", "open", "destroyed"} /\ peer \in {"up", "closed"}
  /\ reqs \in Seq(Request) /\ stream \in Seq(Unit) /\ buffer \in Seq(Unit)
  /\ pc \in [Calls -> Steps] /\ kind \in [Calls -> Opcodes] /\ total \in [Calls -> Nat]
  /\ \A c \in Calls : pc[c] # "new" => kind[c] \in Kinds
  /\ \A c \in Calls : pc[c] = "connect" => socket = "connecting"
  /\ \A c \in Calls : pc[c] = "payload" => total[c] = Size(kind[c])
  /\ trouble \subseteq {"failed", "overlap", "ended"} /\ crashed \in BOOLEAN

Unconnected ==
  /\ socket = "null" => reqs = <<>> /\ buffer = <<>>
  /\ socket # "open" => stream = <<>>
  /\ socket = "connecting" => peer = "up"

\* Calls that were running when the client was closed may still run, but find nothing.
Lone == "overlap" \notin trouble /\ socket # "null" =>
          \A c, d \in Calls : Running(c) /\ Running(d) => c = d

Examined == "overlap" \notin trouble /\ socket # "null" =>
              \A c \in Calls : pc[c] = "payload" => AtFront(c)

Framed == trouble \subseteq {"failed"} =>
            Whole(Flow) \/ (Begun(Flow) /\ peer = "closed" /\ socket = "open")

\* The start of its answer, and no more, is there for a call that waits.
Trusted == trouble \subseteq {"ended"} =>
  \/ reqs = <<>> /\ Flow = <<>>
  \/ \E c \in Calls :
       /\ Waiting(c) /\ kind[c] \in Kinds
       /\ \/ reqs = <<Asked(c)>> /\ Flow = <<>>
          \/ /\ reqs = <<>> /\ Len(Flow) <= Size(kind[c])
             /\ \A i \in 1..Len(Flow) : Flow[i] = [id |-> c, kind |-> kind[c], i |-> i]

SdkInv ==
  /\ Typed /\ Queued /\ Unconnected
  /\ Lone /\ Examined /\ Framed /\ Trusted
  /\ OwnAnswerAlone /\ WholeAnswer

-----------------------------------------------------------------------------
(* Answers and streams. *)

LEMMA Sizes ==
  ASSUME NEW k \in Opcodes
  PROVE  /\ PayloadLen(k) \in 0..2 /\ HeaderSize \in Nat /\ HeaderSize > 0
         /\ Size(k) \in Nat /\ Size(k) >= HeaderSize /\ Size(k) <= HeaderSize + 2 /\ Size(k) > 0
<1>1. PayloadLen(k) \in 0..2
  BY DEF PayloadLen, Opcodes
<1>. QED  BY <1>1, SdkAssumption DEF Size

LEMMA UnitFields ==
  ASSUME NEW u \in Unit
  PROVE  u.i \in Nat /\ u.i >= 1 /\ u.kind \in Kinds /\ u.id \in Calls /\ Size(u.kind) \in Nat
<1>1. u.i \in 1..(HeaderSize + 2) /\ u.kind \in Kinds /\ u.id \in Calls
  BY DEF Unit
<1>2. u.kind \in Opcodes
  BY <1>1, SdkAssumption
<1>. QED  BY <1>1, <1>2, Sizes

LEMMA AnswerUnits ==
  ASSUME NEW r \in Request
  PROVE  /\ Answer(r) \in Seq(Unit) /\ Len(Answer(r)) = Size(r.kind)
         /\ \A k \in 1..Size(r.kind) : Answer(r)[k] = [id |-> r.id, kind |-> r.kind, i |-> k]
<1>1. r.id \in Calls /\ r.kind \in Kinds /\ r.kind \in Opcodes
  BY SdkAssumption DEF Request
<1>2. Size(r.kind) \in Nat /\ Size(r.kind) <= HeaderSize + 2 /\ HeaderSize \in Nat
  BY <1>1, Sizes
<1>3. \A k \in 1..Size(r.kind) : [id |-> r.id, kind |-> r.kind, i |-> k] \in Unit
  BY <1>1, <1>2 DEF Unit
<1>4. Answer(r) = [k \in 1..Size(r.kind) |-> [id |-> r.id, kind |-> r.kind, i |-> k]]
  BY DEF Answer, Size
<1>. QED  BY <1>2, <1>3, <1>4

LEMMA Joined ==
  ASSUME NEW s \in Seq(Unit), NEW t \in Seq(Unit)
  PROVE  /\ s \o t \in Seq(Unit)
         /\ Len(s) \in Nat /\ Len(t) \in Nat /\ Len(s \o t) = Len(s) + Len(t)
         /\ \A j \in 1..Len(s) : (s \o t)[j] = s[j]
         /\ \A k \in 1..Len(t) : (s \o t)[Len(s) + k] = t[k]
  OBVIOUS

LEMMA NoneWhole == Whole(<<>>)
<1>1. Len(<<>>) = 0
  BY EmptySeq
<1>. QED  BY <1>1 DEF Whole

\* An answer written behind whole answers.
LEMMA WholeExtends ==
  ASSUME NEW s \in Seq(Unit), Whole(s), NEW r \in Request
  PROVE  Whole(s \o Answer(r))
<1>. DEFINE a == Answer(r)
            t == s \o a
<1>1. /\ a \in Seq(Unit) /\ Len(a) = Size(r.kind) /\ Len(a) \in Nat /\ Len(s) \in Nat
      /\ \A k \in 1..Len(a) : a[k] = [id |-> r.id, kind |-> r.kind, i |-> k]
  BY AnswerUnits
<1>2. /\ Len(t) = Len(s) + Len(a)
      /\ \A j \in 1..Len(s) : t[j] = s[j]
      /\ \A k \in 1..Len(a) : t[Len(s) + k] = a[k]
  BY <1>1, Joined
<1>. HIDE DEF a, t
<1>. SUFFICES ASSUME NEW j \in 1..Len(t), NEW k \in t[j].i..Size(t[j].kind)
              PROVE  /\ j + k - t[j].i <= Len(t)
                     /\ t[j + k - t[j].i] = [id |-> t[j].id, kind |-> t[j].kind, i |-> k]
  BY DEF Whole, t, a
<1>3. CASE j <= Len(s)
  <2>1. j \in 1..Len(s) /\ t[j] = s[j] /\ s[j] \in Unit
    BY <1>1, <1>2, <1>3
  <2>2. s[j].i \in Nat /\ Size(s[j].kind) \in Nat /\ k \in Int /\ k >= s[j].i
    BY <2>1, UnitFields
  <2>3. /\ j + k - s[j].i <= Len(s)
        /\ s[j + k - s[j].i] = [id |-> s[j].id, kind |-> s[j].kind, i |-> k]
    BY <2>1 DEF Whole
  <2>4. j + k - s[j].i \in 1..Len(s)
    BY <1>1, <2>1, <2>2, <2>3
  <2>. QED  BY <1>1, <1>2, <2>1, <2>3, <2>4
<1>4. CASE j > Len(s)
  <2>1. PICK m \in 1..Len(a) : j = Len(s) + m
    <3>1. j - Len(s) \in 1..Len(a) /\ j = Len(s) + (j - Len(s))
      BY <1>1, <1>2, <1>4
    <3>. QED  BY <3>1
  <2>2. t[j] = [id |-> r.id, kind |-> r.kind, i |-> m]
    BY <1>1, <1>2, <2>1
  <2>3. k \in m..Len(a)
    BY <1>1, <2>2
  <2>4. j + k - t[j].i = Len(s) + k /\ k \in 1..Len(a)
    BY <1>1, <2>1, <2>2, <2>3
  <2>5. t[Len(s) + k] = [id |-> r.id, kind |-> r.kind, i |-> k] /\ Len(s) + k <= Len(t)
    BY <1>1, <1>2, <2>4
  <2>. QED  BY <2>2, <2>4, <2>5
<1>. QED  BY <1>1, <1>2, <1>3, <1>4

\* What is left when the first units are read and forgotten.
LEMMA WholeBehind ==
  ASSUME NEW s \in Seq(Unit), NEW t \in Seq(Unit), Whole(s \o t)
  PROVE  Whole(t)
<1>. DEFINE w == s \o t
<1>1. /\ Len(s) \in Nat /\ Len(t) \in Nat /\ Len(w) = Len(s) + Len(t)
      /\ \A k \in 1..Len(t) : w[Len(s) + k] = t[k]
  BY Joined
<1>. HIDE DEF w
<1>. SUFFICES ASSUME NEW j \in 1..Len(t), NEW k \in t[j].i..Size(t[j].kind)
              PROVE  /\ j + k - t[j].i <= Len(t)
                     /\ t[j + k - t[j].i] = [id |-> t[j].id, kind |-> t[j].kind, i |-> k]
  BY DEF Whole
<1>2. t[j] \in Unit /\ w[Len(s) + j] = t[j] /\ Len(s) + j \in 1..Len(w)
  BY <1>1
<1>3. t[j].i \in Nat /\ Size(t[j].kind) \in Nat /\ k \in Int /\ k >= t[j].i
  BY <1>2, UnitFields
<1>4. /\ (Len(s) + j) + k - t[j].i <= Len(w)
      /\ w[(Len(s) + j) + k - t[j].i] = [id |-> t[j].id, kind |-> t[j].kind, i |-> k]
  <2>1. Whole(w) /\ k \in w[Len(s) + j].i..Size(w[Len(s) + j].kind)
    BY <1>2 DEF w
  <2>. QED  BY <1>2, <2>1 DEF Whole
<1>5. /\ j + k - t[j].i \in 1..Len(t)
      /\ (Len(s) + j) + k - t[j].i = Len(s) + (j + k - t[j].i)
  BY <1>1, <1>3, <1>4, SMTT(30)
<1>. QED  BY <1>1, <1>4, <1>5

\* Units read from the start of an answer belong to it, as far as it reaches.
LEMMA OnePiece ==
  ASSUME NEW s \in Seq(Unit), NEW t \in Seq(Unit), Whole(s \o t), s # <<>>, s[1].i = 1,
         Len(s) <= Size(s[1].kind)
  PROVE  \A k \in 1..Len(s) : s[k] = [id |-> s[1].id, kind |-> s[1].kind, i |-> k]
<1>. DEFINE w == s \o t
<1>1. /\ Len(s) \in Nat /\ Len(t) \in Nat /\ Len(w) = Len(s) + Len(t) /\ Len(s) > 0
      /\ \A k \in 1..Len(s) : w[k] = s[k]
  BY Joined
<1>. HIDE DEF w
<1>2. s[1] \in Unit /\ w[1] = s[1] /\ 1 \in 1..Len(w)
  BY <1>1
<1>3. Size(s[1].kind) \in Nat
  BY <1>2, UnitFields
<1>. SUFFICES ASSUME NEW k \in 1..Len(s)
              PROVE  s[k] = [id |-> s[1].id, kind |-> s[1].kind, i |-> k]
  OBVIOUS
<1>4. k \in s[1].i..Size(s[1].kind)
  BY <1>1, <1>3
<1>5. w[1 + k - s[1].i] = [id |-> s[1].id, kind |-> s[1].kind, i |-> k]
  BY <1>2, <1>4, SMTT(30) DEF Whole, w
<1>6. 1 + k - s[1].i = k
  BY <1>1
<1>. QED  BY <1>1, <1>5, <1>6

LEMMA Splits ==
  ASSUME NEW s \in Seq(Unit), NEW n \in 0..Len(s)
  PROVE  /\ SubSeq(s, 1, n) \in Seq(Unit) /\ Len(SubSeq(s, 1, n)) = n
         /\ SubSeq(s, n + 1, Len(s)) \in Seq(Unit) /\ Len(SubSeq(s, n + 1, Len(s))) = Len(s) - n
         /\ \A i \in 1..n : SubSeq(s, 1, n)[i] = s[i]
         /\ SubSeq(s, 1, n) \o SubSeq(s, n + 1, Len(s)) = s
<1>. DEFINE a == SubSeq(s, 1, n)
            b == SubSeq(s, n + 1, Len(s))
<1>1. Len(s) \in Nat /\ n \in Nat /\ n <= Len(s)
  BY LenProperties
<1>2. \A i \in 1..Len(s) : s[i] \in Unit
  BY ElementOfSeq
<1>3. a \in Seq(Unit) /\ Len(a) = n /\ \A i \in 1..n : a[i] = s[i]
  BY <1>1, <1>2, SubSeqProperties
<1>4. b \in Seq(Unit) /\ Len(b) = Len(s) - n /\ \A i \in 1..(Len(s) - n) : b[i] = s[n + i]
  <2>1. \A i \in (n + 1)..Len(s) : s[i] \in Unit
    BY <1>1, <1>2
  <2>2. b \in Seq(Unit) /\ Len(b) = IF n + 1 <= Len(s) THEN Len(s) - (n + 1) + 1 ELSE 0
    BY <1>1, <2>1, SubSeqProperties
  <2>3. \A i \in 1..(Len(s) - n) : b[i] = s[n + i]
    BY <1>1, <2>2, SubSeqProperties
  <2>. QED  BY <1>1, <2>2, <2>3
<1>. HIDE DEF a, b
<1>5. a \o b = s
  <2>1. /\ a \o b \in Seq(Unit) /\ Len(a \o b) = Len(s)
        /\ \A i \in 1..n : (a \o b)[i] = a[i]
        /\ \A i \in 1..(Len(s) - n) : (a \o b)[n + i] = b[i]
    BY <1>1, <1>3, <1>4, Joined
  <2>2. ASSUME NEW i \in 1..Len(s)
        PROVE  (a \o b)[i] = s[i]
    <3>1. CASE i <= n
      <4>1. i \in 1..n
        BY <1>1, <3>1
      <4>. QED  BY <1>3, <2>1, <4>1
    <3>2. CASE i > n
      <4>1. i - n \in 1..(Len(s) - n) /\ n + (i - n) = i
        BY <1>1, <3>2
      <4>2. (a \o b)[n + (i - n)] = b[i - n] /\ b[i - n] = s[n + (i - n)]
        BY <1>4, <2>1, <4>1
      <4>. QED  BY <4>1, <4>2
    <3>3. i <= n \/ i > n
      BY <1>1
    <3>. QED  BY <3>1, <3>2, <3>3, Zenon
  <2>. QED  BY <2>1, <2>2, SeqEqual
<1>. QED  BY <1>1, <1>3, <1>4, <1>5 DEF a, b

LEMMA WholeIsBegun ==
  ASSUME NEW s \in Seq(Unit), Whole(s)
  PROVE  Begun(s)
<1>1. s \o <<>> = s /\ <<>> \in Seq(Unit)
  BY ConcatEmptySeq, EmptySeq
<1>. QED  BY <1>1 DEF Begun

LEMMA BegunBehind ==
  ASSUME NEW s \in Seq(Unit), NEW t \in Seq(Unit)
  PROVE  /\ Whole(s \o t) => Whole(t)
         /\ Begun(s \o t) => Begun(t)
<1>1. Whole(s \o t) => Whole(t)
  BY WholeBehind
<1>2. ASSUME Begun(s \o t) PROVE Begun(t)
  <2>1. PICK w \in Seq(Unit) : Whole((s \o t) \o w)
    BY <1>2 DEF Begun
  <2>2. (s \o t) \o w = s \o (t \o w) /\ t \o w \in Seq(Unit)
    BY ConcatAssociative, ConcatProperties
  <2>3. Whole(t \o w)
    BY <2>1, <2>2, WholeBehind
  <2>. QED  BY <2>3 DEF Begun
<1>. QED  BY <1>1, <1>2

LEMMA BegunPiece ==
  ASSUME NEW s \in Seq(Unit), NEW t \in Seq(Unit), Begun(s \o t), s # <<>>, s[1].i = 1,
         Len(s) <= Size(s[1].kind)
  PROVE  \A k \in 1..Len(s) : s[k] = [id |-> s[1].id, kind |-> s[1].kind, i |-> k]
<1>1. PICK w \in Seq(Unit) : Whole((s \o t) \o w)
  BY DEF Begun
<1>2. (s \o t) \o w = s \o (t \o w) /\ t \o w \in Seq(Unit)
  BY ConcatAssociative, ConcatProperties
<1>. PICK v \in Seq(Unit) : v = t \o w
  BY <1>2
<1>3. Whole(s \o v)
  BY <1>1, <1>2
<1>. QED  BY <1>3, OnePiece

LEMMA CutAnswerBegun ==
  ASSUME NEW s \in Seq(Unit), Whole(s), NEW r \in Request
  PROVE  /\ Front(Answer(r)) \in Seq(Unit) /\ Len(Front(Answer(r))) < Size(r.kind)
         /\ \A i \in 1..Len(Front(Answer(r))) : Front(Answer(r))[i] = Answer(r)[i]
         /\ Begun(s \o Front(Answer(r)))
<1>. DEFINE a == Answer(r)
            n == Len(a) - 1
<1>1. a \in Seq(Unit) /\ Len(a) = Size(r.kind) /\ Len(a) \in Nat /\ Len(a) > 0
  <2>1. r.kind \in Opcodes
    BY SdkAssumption DEF Request
  <2>. QED  BY <2>1, AnswerUnits, Sizes
<1>. HIDE DEF a
<1>2. n \in 0..Len(a)
  BY <1>1
<1>3. /\ SubSeq(a, 1, n) \in Seq(Unit) /\ Len(SubSeq(a, 1, n)) = n
      /\ SubSeq(a, n + 1, Len(a)) \in Seq(Unit)
      /\ \A i \in 1..n : SubSeq(a, 1, n)[i] = a[i]
      /\ SubSeq(a, 1, n) \o SubSeq(a, n + 1, Len(a)) = a
  BY <1>1, <1>2, Splits
<1>4. (s \o SubSeq(a, 1, n)) \o SubSeq(a, n + 1, Len(a)) = s \o a
  <2>1. PICK u \in Seq(Unit) : u = SubSeq(a, 1, n)
    BY <1>3
  <2>2. PICK v \in Seq(Unit) : v = SubSeq(a, n + 1, Len(a))
    BY <1>3
  <2>3. (s \o u) \o v = s \o (u \o v)
    BY ConcatAssociative
  <2>. QED  BY <1>3, <2>1, <2>2, <2>3
<1>5. Whole(s \o a)
  BY WholeExtends DEF a
<1>6. Begun(s \o SubSeq(a, 1, n))
  BY <1>3, <1>4, <1>5 DEF Begun
<1>7. n < Len(a)
  BY <1>1
<1>. QED  BY <1>1, <1>3, <1>6, <1>7 DEF Front, a

-----------------------------------------------------------------------------
(* What a call may do in its turn, whatever it waited for. *)

Enough(c) == Len(buffer) >= Size(kind[c]) /\ ("overlap" \notin trouble => AtFront(c))

TotalsBut(c) ==
  total' \in [Calls -> Nat] /\ total'[c] = Size(kind[c]) /\ \A d \in Calls \ {c} : total'[d] = total[d]

WaitsForHeader(c) == pc' = [pc EXCEPT ![c] = "header"] /\ UNCHANGED <<buffer, total, trouble, returned>>
WaitsForPayload(c) ==
  /\ pc' = [pc EXCEPT ![c] = "payload"] /\ TotalsBut(c) /\ UNCHANGED <<buffer, trouble, returned>>
  /\ "overlap" \notin trouble /\ socket # "null" => AtFront(c)
Throws(c) == Throw(c) /\ UNCHANGED <<buffer, total>>
Returns(c) ==
  /\ Enough(c) /\ TotalsBut(c)
  /\ Return(c, SubSeq(buffer, 1, Size(kind[c])))
  /\ buffer' = SubSeq(buffer, Size(kind[c]) + 1, Len(buffer))

Outcome(c) == WaitsForHeader(c) \/ WaitsForPayload(c) \/ Throws(c) \/ Returns(c)

LEMMA ExamineOutcome ==
  ASSUME Typed, NEW c \in Calls, kind[c] \in Kinds, Examine(c)
  PROVE  Outcome(c) /\ (buffer = <<>> => WaitsForHeader(c))
<1>1. /\ buffer \in Seq(Unit) /\ Len(buffer) \in Nat /\ HeaderSize \in Nat /\ HeaderSize > 0
      /\ total \in [Calls -> Nat]
      /\ Size(kind[c]) \in Nat
  <2>1. kind[c] \in Opcodes
    BY SdkAssumption
  <2>. QED  BY <2>1, Sizes, LenProperties DEF Typed
<1>2. CASE Len(buffer) < HeaderSize
  BY <1>1, <1>2 DEF Examine, Outcome, WaitsForHeader
<1>3. CASE Len(buffer) >= HeaderSize
  <2>1. buffer # <<>>
    BY <1>1, <1>3, EmptySeq
  <2>2. CASE ~IsHeader(buffer[1]) \/ buffer[1].kind # kind[c]
    BY <1>1, <1>3, <2>1, <2>2 DEF Examine, Outcome, Throws
  <2>3. CASE IsHeader(buffer[1]) /\ buffer[1].kind = kind[c]
    <3>1. AtFront(c)
      BY <2>1, <2>3 DEF AtFront, IsHeader
    <3>2. total' = [total EXCEPT ![c] = Size(kind[c])] /\ Take(c, Size(kind[c]))
      BY <1>1, <1>3, <2>3 DEF Examine, Size
    <3>3. TotalsBut(c)
      BY <1>1, <3>2 DEF TotalsBut
    <3>4. CASE Len(buffer) < Size(kind[c])
      <4>1. pc' = [pc EXCEPT ![c] = "payload"] /\ UNCHANGED <<buffer, trouble, returned>>
        BY <3>2, <3>4 DEF Take
      <4>. QED  BY <2>1, <3>1, <3>3, <4>1 DEF Outcome, WaitsForPayload
    <3>5. CASE Len(buffer) >= Size(kind[c])
      <4>1. Return(c, SubSeq(buffer, 1, Size(kind[c]))) /\ buffer' = SubSeq(buffer, Size(kind[c]) + 1, Len(buffer))
        BY <1>1, <3>2, <3>5 DEF Take
      <4>2. Enough(c)
        BY <3>1, <3>5 DEF Enough
      <4>. QED  BY <2>1, <3>3, <4>1, <4>2 DEF Outcome, Returns
    <3>. QED  BY <1>1, <2>1, <3>4, <3>5
  <2>. QED  BY <2>2, <2>3
<1>. QED  BY <1>1, <1>2, <1>3

LEMMA PollOutcome ==
  ASSUME Typed, Unconnected, Examined, NEW c \in Calls, Poll(c)
  PROVE  Outcome(c) /\ Waiting(c)
<1>1. Waiting(c) /\ kind[c] \in Kinds
  BY DEF Poll, Ready, Waiting, Typed
<1>2. CASE pc[c] = "header"
  BY <1>1, <1>2, ExamineOutcome DEF Poll
<1>3. CASE pc[c] = "payload"
  <2>1. /\ Len(buffer) >= Size(kind[c]) /\ Take(c, Size(kind[c])) /\ total' = total
        /\ total[c] = Size(kind[c]) /\ total \in [Calls -> Nat]
    BY <1>3 DEF Poll, Ready, Typed
  <2>2. Size(kind[c]) \in Nat /\ Size(kind[c]) > 0 /\ Len(buffer) \in Nat
    <3>1. kind[c] \in Opcodes
      BY <1>1, SdkAssumption
    <3>. QED  BY <3>1, Sizes, LenProperties DEF Typed
  <2>3. socket # "null"
    BY <2>1, <2>2, EmptySeq DEF Unconnected
  <2>4. Enough(c)
    BY <1>3, <2>1, <2>3 DEF Enough, Examined
  <2>5. TotalsBut(c)
    BY <2>1 DEF TotalsBut
  <2>6. Return(c, SubSeq(buffer, 1, Size(kind[c]))) /\ buffer' = SubSeq(buffer, Size(kind[c]) + 1, Len(buffer))
    BY <2>1, <2>2 DEF Take
  <2>. QED  BY <1>1, <2>4, <2>5, <2>6 DEF Outcome, Returns
<1>. QED  BY <1>1, <1>2, <1>3 DEF Waiting

\* What the outcome of one call leaves of the others.
LEMMA OutcomeFacts ==
  ASSUME Typed, NEW c \in Calls, kind[c] \in Kinds, Running(c), kind' = kind, Outcome(c)
  PROVE  /\ buffer' \in Seq(Unit) /\ pc' \in [Calls -> Steps] /\ total' \in [Calls -> Nat]
         /\ \A d \in Calls \ {c} : pc'[d] = pc[d] /\ total'[d] = total[d]
         /\ pc'[c] \in {"header", "payload", "failed", "done"}
         /\ pc'[c] = "payload" => total'[c] = Size(kind[c])
         /\ trouble \subseteq trouble' /\ trouble' \subseteq trouble \cup {"failed"}
         /\ \A d \in Calls : Running(d)' => Running(d)
         /\ buffer = <<>> => buffer' = <<>>
<1>1. /\ pc \in [Calls -> Steps] /\ total \in [Calls -> Nat] /\ buffer \in Seq(Unit) /\ Len(buffer) \in Nat
      /\ Size(kind[c]) \in Nat /\ Size(kind[c]) > 0
  <2>1. kind[c] \in Opcodes
    BY SdkAssumption
  <2>. QED  BY <2>1, Sizes, LenProperties DEF Typed
<1>2. /\ pc' \in [Calls -> Steps] /\ \A d \in Calls \ {c} : pc'[d] = pc[d]
      /\ pc'[c] \in {"header", "payload", "failed", "done"}
  BY <1>1 DEF Outcome, WaitsForHeader, WaitsForPayload, Throws, Returns, Throw, Return, Steps
<1>3. /\ total' \in [Calls -> Nat] /\ \A d \in Calls \ {c} : total'[d] = total[d]
      /\ pc'[c] = "payload" => total'[c] = Size(kind[c])
  BY <1>1 DEF Outcome, WaitsForHeader, WaitsForPayload, Throws, Returns, Throw, Return, Steps, TotalsBut
<1>4. trouble \subseteq trouble' /\ trouble' \subseteq trouble \cup {"failed"}
  BY DEF Outcome, WaitsForHeader, WaitsForPayload, Throws, Returns, Throw, Return
<1>5. buffer' \in Seq(Unit) /\ (buffer = <<>> => buffer' = <<>>)
  <2>1. CASE Returns(c)
    <3>1. Len(buffer) >= Size(kind[c]) /\ buffer' = SubSeq(buffer, Size(kind[c]) + 1, Len(buffer))
      BY <2>1 DEF Returns, Enough
    <3>2. Size(kind[c]) \in 0..Len(buffer) /\ buffer # <<>>
      BY <1>1, <3>1, EmptySeq
    <3>. QED  BY <1>1, <3>1, <3>2, Splits
  <2>2. CASE ~Returns(c)
    BY <1>1, <2>2 DEF Outcome, WaitsForHeader, WaitsForPayload, Throws
  <2>. QED  BY <2>1, <2>2
<1>6. \A d \in Calls : Running(d)' => Running(d)
  BY <1>2 DEF Running
<1>. QED  BY <1>2, <1>3, <1>4, <1>5, <1>6

\* What a call returns has been the front of the buffer.
LEMMA ReturnsFront ==
  ASSUME Typed, NEW c \in Calls, kind[c] \in Kinds, Returns(c)
  PROVE  /\ SubSeq(buffer, 1, Size(kind[c])) \in Seq(Unit)
         /\ Len(SubSeq(buffer, 1, Size(kind[c]))) = Size(kind[c])
         /\ \A i \in 1..Size(kind[c]) : SubSeq(buffer, 1, Size(kind[c]))[i] = buffer[i]
         /\ buffer' \in Seq(Unit) /\ Len(buffer') = Len(buffer) - Size(kind[c])
         /\ SubSeq(buffer, 1, Size(kind[c])) \o buffer' = buffer
         /\ SubSeq(buffer, 1, Size(kind[c])) \o (buffer' \o stream) = Flow
         /\ Size(kind[c]) \in Nat /\ Size(kind[c]) > 0 /\ Len(buffer) \in Nat /\ Len(buffer) >= Size(kind[c])
         /\ buffer # <<>>
<1>. PICK n : n = Size(kind[c])
  OBVIOUS
<1>1. /\ n \in Nat /\ n > 0 /\ Len(buffer) \in Nat /\ Len(buffer) >= n
      /\ buffer' = SubSeq(buffer, n + 1, Len(buffer)) /\ buffer \in Seq(Unit) /\ stream \in Seq(Unit)
  <2>1. kind[c] \in Opcodes
    BY SdkAssumption
  <2>. QED  BY <2>1, Sizes, LenProperties DEF Typed, Returns, Enough
<1>2. n \in 0..Len(buffer) /\ buffer # <<>>
  BY <1>1, EmptySeq
<1>3. /\ SubSeq(buffer, 1, n) \in Seq(Unit) /\ Len(SubSeq(buffer, 1, n)) = n
      /\ buffer' \in Seq(Unit) /\ Len(buffer') = Len(buffer) - n
      /\ \A i \in 1..n : SubSeq(buffer, 1, n)[i] = buffer[i]
      /\ SubSeq(buffer, 1, n) \o buffer' = buffer
  BY <1>1, <1>2, Splits
<1>4. SubSeq(buffer, 1, n) \o (buffer' \o stream) = Flow
  <2>1. PICK u \in Seq(Unit) : u = SubSeq(buffer, 1, n)
    BY <1>3
  <2>2. PICK v \in Seq(Unit) : v = buffer'
    BY <1>3
  <2>3. PICK w \in Seq(Unit) : w = stream
    BY <1>1
  <2>4. (u \o v) \o w = u \o (v \o w)
    BY ConcatAssociative
  <2>. QED  BY <1>3, <2>1, <2>2, <2>3, <2>4 DEF Flow
<1>. QED  BY <1>1, <1>2, <1>3, <1>4

\* A call that returns while the stream is framed takes one whole answer.
LEMMA ReturnsWhole ==
  ASSUME Typed, NEW c \in Calls, kind[c] \in Kinds, Returns(c), "overlap" \notin trouble, Begun(Flow)
  PROVE  LET u == SubSeq(buffer, 1, Size(kind[c])) IN u[1].kind = kind[c] /\ u = Answer(u[1])
<1>. DEFINE u == SubSeq(buffer, 1, Size(kind[c]))
<1>1. /\ u \in Seq(Unit) /\ Len(u) = Size(kind[c]) /\ buffer' \in Seq(Unit) /\ stream \in Seq(Unit)
      /\ u \o (buffer' \o stream) = Flow /\ Size(kind[c]) \in Nat /\ Size(kind[c]) > 0
      /\ \A i \in 1..Size(kind[c]) : u[i] = buffer[i]
  BY ReturnsFront DEF Typed
<1>. HIDE DEF u
<1>2. u[1] = buffer[1] /\ u # <<>>
  BY <1>1, EmptySeq
<1>3. u[1].i = 1 /\ u[1].kind = kind[c]
  BY <1>2 DEF Returns, Enough, AtFront
<1>4. \A k \in 1..Len(u) : u[k] = [id |-> u[1].id, kind |-> u[1].kind, i |-> k]
  <2>1. PICK t \in Seq(Unit) : t = buffer' \o stream
    BY <1>1, ConcatProperties
  <2>2. Begun(u \o t)
    BY <1>1, <2>1
  <2>3. Len(u) <= Size(u[1].kind)
    BY <1>1, <1>3
  <2>. QED  BY <1>1, <1>2, <1>3, <2>2, <2>3, BegunPiece
<1>5. Answer(u[1]) = [k \in 1..Len(u) |-> [id |-> u[1].id, kind |-> u[1].kind, i |-> k]]
  BY <1>1, <1>3 DEF Answer, Size
<1>6. u = [k \in 1..Len(u) |-> u[k]]
  BY <1>1, LenProperties
<1>7. u = Answer(u[1])
  BY <1>4, <1>5, <1>6
<1>. QED  BY <1>3, <1>7 DEF u

\* While every call has been alone and none has failed, the call that returns takes
\* all there is, and it is its own answer.
LEMMA ReturnsOwn ==
  ASSUME Typed, Unconnected, Lone, Trusted, NEW c \in Calls, Running(c), kind[c] \in Kinds, Returns(c),
         trouble \subseteq {"ended"}
  PROVE  /\ SubSeq(buffer, 1, Size(kind[c])) = Answer(Asked(c))
         /\ reqs = <<>> /\ buffer' \o stream = <<>>
<1>. DEFINE u == SubSeq(buffer, 1, Size(kind[c]))
<1>. PICK n : n = Size(kind[c])
  OBVIOUS
<1>1. /\ u \in Seq(Unit) /\ Len(u) = n /\ buffer' \in Seq(Unit) /\ stream \in Seq(Unit)
      /\ u \o (buffer' \o stream) = Flow /\ n \in Nat /\ n > 0
      /\ \A i \in 1..n : u[i] = buffer[i]
      /\ buffer \in Seq(Unit) /\ Len(buffer) \in Nat /\ Len(buffer) >= n /\ buffer # <<>>
  BY ReturnsFront DEF Typed
<1>. HIDE DEF u
<1>2. /\ Len(Flow) \in Nat /\ Len(Flow) = n + Len(buffer' \o stream) /\ Len(buffer' \o stream) \in Nat
      /\ buffer' \o stream \in Seq(Unit) /\ \A i \in 1..n : u[i] = Flow[i]
  <2>1. PICK t \in Seq(Unit) : t = buffer' \o stream
    BY <1>1, ConcatProperties
  <2>2. Len(u \o t) = Len(u) + Len(t) /\ Len(t) \in Nat /\ \A i \in 1..Len(u) : (u \o t)[i] = u[i]
    BY <1>1, Joined
  <2>. QED  BY <1>1, <2>1, <2>2
<1>3. Flow # <<>> /\ socket # "null" /\ "overlap" \notin trouble
  BY <1>1, <1>2, EmptySeq DEF Unconnected
<1>4. PICK d \in Calls :
        /\ Waiting(d) /\ reqs = <<>> /\ Len(Flow) <= Size(kind[d])
        /\ \A i \in 1..Len(Flow) : Flow[i] = [id |-> d, kind |-> kind[d], i |-> i]
  BY <1>3 DEF Trusted
<1>5. d = c
  <2>1. Running(d)
    BY <1>4 DEF Waiting, Running
  <2>. QED  BY <1>3, <2>1 DEF Lone
<1>6. Len(Flow) = n /\ Len(buffer' \o stream) = 0
  <2>1. Len(Flow) <= n
    BY <1>4, <1>5
  <2>2. PICK k \in Nat : k = Len(buffer' \o stream)
    BY <1>2
  <2>3. PICK m \in Nat : m = Len(Flow)
    BY <1>2
  <2>4. m = n + k /\ m <= n
    BY <1>2, <2>1, <2>2, <2>3
  <2>5. k = 0 /\ m = n
    BY <1>1, <2>4
  <2>. QED  BY <2>2, <2>3, <2>5
<1>7. buffer' \o stream = <<>>
  BY <1>2, <1>6, EmptySeq
<1>8. \A i \in 1..n : u[i] = [id |-> c, kind |-> kind[c], i |-> i]
  BY <1>2, <1>4, <1>5, <1>6
<1>9. u = [i \in 1..n |-> u[i]]
  BY <1>1, LenProperties
<1>10. Answer(Asked(c)) = [i \in 1..n |-> [id |-> c, kind |-> kind[c], i |-> i]]
  BY DEF Answer, Asked, Size
<1>11. u = Answer(Asked(c))
  BY <1>8, <1>9, <1>10
<1>. QED  BY <1>4, <1>7, <1>11 DEF u

LEMMA FramedNext ==
  ASSUME trouble' \subseteq {"failed"} => Whole(Flow') \/ (Begun(Flow') /\ peer' = "closed" /\ socket' = "open")
  PROVE  Framed'
BY DEF Framed, Begun, Whole

LEMMA FlowType ==
  ASSUME Typed
  PROVE  /\ Flow \in Seq(Unit) /\ Len(Flow) \in Nat
         /\ Flow = <<>> <=> buffer = <<>> /\ stream = <<>>
<1>1. PICK b \in Seq(Unit) : b = buffer
  BY DEF Typed
<1>2. PICK s \in Seq(Unit) : s = stream
  BY DEF Typed
<1>3. /\ b \o s \in Seq(Unit) /\ Len(b \o s) = Len(b) + Len(s)
      /\ Len(b) \in Nat /\ Len(s) \in Nat /\ Len(b \o s) \in Nat
  BY Joined, LenProperties
<1>4. /\ b \o s = <<>> <=> Len(b \o s) = 0
      /\ b = <<>> <=> Len(b) = 0
      /\ s = <<>> <=> Len(s) = 0
  BY <1>3, EmptySeq
<1>. QED  BY <1>1, <1>2, <1>3, <1>4 DEF Flow

\* A call that goes on keeps what does not depend on the requests.
LEMMA OutcomeKeeps ==
  ASSUME SdkInv, NEW c \in Calls, kind[c] \in Kinds, Running(c), Outcome(c),
         UNCHANGED <<socket, peer, stream, kind>>
  PROVE  Lone' /\ Examined' /\ Framed' /\ OwnAnswerAlone' /\ WholeAnswer'
<1>1. /\ buffer' \in Seq(Unit) /\ \A d \in Calls \ {c} : pc'[d] = pc[d]
      /\ trouble \subseteq trouble' /\ trouble' \subseteq trouble \cup {"failed"}
      /\ \A d \in Calls : Running(d)' => Running(d)
      /\ buffer \in Seq(Unit) /\ stream \in Seq(Unit) /\ pc \in [Calls -> Steps]
      /\ pc' \in [Calls -> Steps]
  BY OutcomeFacts DEF SdkInv, Typed
<1>2. Lone'
  BY <1>1 DEF SdkInv, Lone
<1>3. Examined'
  <2>. SUFFICES ASSUME "overlap" \notin trouble', socket' # "null", NEW d \in Calls, pc'[d] = "payload"
                PROVE  AtFront(d)'
    BY DEF Examined
  <2>1. "overlap" \notin trouble /\ socket # "null"
    BY <1>1
  <2>2. CASE d = c
    <3>1. WaitsForPayload(c)
      BY <1>1, <2>2 DEF Outcome, WaitsForHeader, Throws, Throw, Returns, Return, SdkInv, Typed
    <3>. QED  BY <2>1, <2>2, <3>1 DEF WaitsForPayload, AtFront
  <2>3. CASE d # c
    <3>1. Running(d) /\ pc[d] = "payload"
      BY <1>1, <2>3 DEF Running
    <3>. QED  BY <2>1, <2>3, <3>1 DEF SdkInv, Lone
  <2>. QED  BY <2>2, <2>3
<1>4. CASE Returns(c)
  <2>. DEFINE u == SubSeq(buffer, 1, Size(kind[c]))
              r == [id |-> c, kind |-> kind[c], units |-> u, trouble |-> trouble]
  <2>1. /\ u \in Seq(Unit) /\ u \o (buffer' \o stream) = Flow
        /\ trouble' = trouble /\ returned' = returned \cup {r}
    BY <1>4, ReturnsFront DEF Returns, Return, SdkInv
  <2>2. Framed'
    <3>. SUFFICES ASSUME trouble \subseteq {"failed"}
                  PROVE  Whole(Flow') \/ (Begun(Flow') /\ peer = "closed" /\ socket = "open")
      BY <2>1, FramedNext
    <3>1. Whole(Flow) \/ (Begun(Flow) /\ peer = "closed" /\ socket = "open")
      BY DEF SdkInv, Framed
    <3>2. PICK t \in Seq(Unit) : t = Flow'
      BY <1>1, ConcatProperties DEF Flow
    <3>3. t = buffer' \o stream
      BY <3>2 DEF Flow
    <3>4. (Whole(u \o t) => Whole(t)) /\ (Begun(u \o t) => Begun(t))
      BY <2>1, BegunBehind
    <3>. QED  BY <2>1, <3>1, <3>2, <3>3, <3>4
  <2>3. OwnAnswerAlone'
    <3>1. trouble \subseteq {"ended"} => u = Answer(r)
      <4>1. SUFFICES ASSUME trouble \subseteq {"ended"} PROVE u = Answer(r)
        OBVIOUS
      <4>2. u = Answer(Asked(c))
        BY <1>4, <4>1, ReturnsOwn DEF SdkInv
      <4>3. Answer(r) = Answer(Asked(c))
        BY DEF Answer, Asked
      <4>. QED  BY <4>2, <4>3
    <3>2. r.trouble = trouble /\ r.units = u
      OBVIOUS
    <3>. HIDE DEF r, u
    <3>3. ASSUME NEW x \in returned', x.trouble \subseteq {"ended"}
          PROVE  x.units = Answer(x)
      <4>1. CASE x = r
        BY <3>1, <3>2, <3>3, <4>1
      <4>2. CASE x \in returned
        BY <3>3, <4>2 DEF SdkInv, OwnAnswerAlone
      <4>. QED  BY <2>1, <4>1, <4>2
    <3>. QED  BY <3>3 DEF OwnAnswerAlone, Answer
  <2>4. WholeAnswer'
    <3>1. trouble \subseteq {"failed"} => u[1].kind = kind[c] /\ u = Answer(u[1])
      <4>1. SUFFICES ASSUME trouble \subseteq {"failed"} PROVE u[1].kind = kind[c] /\ u = Answer(u[1])
        OBVIOUS
      <4>2. Begun(Flow)
        BY <4>1, FlowType, WholeIsBegun DEF SdkInv, Framed
      <4>. QED  BY <1>4, <4>1, <4>2, ReturnsWhole DEF SdkInv
    <3>2. r.trouble = trouble /\ r.units = u /\ r.kind = kind[c]
      OBVIOUS
    <3>. HIDE DEF r, u
    <3>3. ASSUME NEW x \in returned', x.trouble \subseteq {"failed"}
          PROVE  x.units[1].kind = x.kind /\ x.units = Answer(x.units[1])
      <4>1. CASE x = r
        BY <3>1, <3>2, <3>3, <4>1
      <4>2. CASE x \in returned
        BY <3>3, <4>2 DEF SdkInv, WholeAnswer
      <4>. QED  BY <2>1, <4>1, <4>2
    <3>. QED  BY <3>3 DEF WholeAnswer, Answer
  <2>. QED  BY <1>2, <1>3, <2>2, <2>3, <2>4
<1>5. CASE ~Returns(c)
  <2>1. buffer' = buffer /\ returned' = returned /\ Flow' = Flow
    BY <1>5 DEF Outcome, WaitsForHeader, WaitsForPayload, Throws, Throw, Flow
  <2>2. Framed'
    <3>1. trouble' \subseteq {"failed"} => trouble \subseteq {"failed"}
      BY <1>1
    <3>2. trouble \subseteq {"failed"} => Whole(Flow) \/ (Begun(Flow) /\ peer = "closed" /\ socket = "open")
      BY DEF SdkInv, Framed
    <3>. QED  BY <2>1, <3>1, <3>2, FramedNext
  <2>3. OwnAnswerAlone' /\ WholeAnswer'
    BY <2>1 DEF SdkInv, OwnAnswerAlone, WholeAnswer, Answer
  <2>. QED  BY <1>2, <1>3, <2>2, <2>3
<1>. QED  BY <1>4, <1>5

-----------------------------------------------------------------------------
(* The steps of the program. *)

LEMMA SameQueue ==
  ASSUME Queued, turn' = turn, \A c \in Calls : pc'[c] = "turn" <=> pc[c] = "turn"
  PROVE  Queued'
BY DEF Queued

LEMMA PollKeeps ==
  ASSUME SdkInv, NEW c \in Calls, Poll(c)
  PROVE  SdkInv'
<1>1. /\ Outcome(c) /\ Waiting(c) /\ Running(c) /\ kind[c] \in Kinds
      /\ UNCHANGED <<socket, peer, reqs, stream, turn, kind, crashed>>
  <2>1. Outcome(c) /\ Waiting(c)
    BY PollOutcome DEF SdkInv
  <2>. QED  BY <2>1 DEF SdkInv, Typed, Poll, Waiting, Running
<1>2. /\ buffer' \in Seq(Unit) /\ pc' \in [Calls -> Steps] /\ total' \in [Calls -> Nat]
      /\ \A d \in Calls \ {c} : pc'[d] = pc[d] /\ total'[d] = total[d]
      /\ pc'[c] \in {"header", "payload", "failed", "done"}
      /\ pc'[c] = "payload" => total'[c] = Size(kind[c])
      /\ trouble \subseteq trouble' /\ trouble' \subseteq trouble \cup {"failed"}
      /\ buffer = <<>> => buffer' = <<>>
  BY <1>1, OutcomeFacts DEF SdkInv
<1>3. Lone' /\ Examined' /\ Framed' /\ OwnAnswerAlone' /\ WholeAnswer'
  BY <1>1, OutcomeKeeps
<1>4. Typed'
  BY <1>1, <1>2 DEF SdkInv, Typed, Size, PayloadLen
<1>5. Queued'
  <2>1. \A d \in Calls : pc'[d] = "turn" <=> pc[d] = "turn"
    BY <1>1, <1>2 DEF Waiting
  <2>. QED  BY <1>1, <2>1, SameQueue DEF SdkInv
<1>6. Unconnected'
  BY <1>1, <1>2 DEF SdkInv, Unconnected
<1>7. Trusted'
  <2>. SUFFICES ASSUME trouble' \subseteq {"ended"} PROVE Trusted'
    BY DEF Trusted
  <2>1. trouble \subseteq {"ended"}
    BY <1>2
  <2>2. CASE Returns(c)
    <3>1. reqs = <<>> /\ buffer' \o stream = <<>>
      BY <1>1, <2>1, <2>2, ReturnsOwn DEF SdkInv
    <3>2. reqs' = <<>> /\ Flow' = <<>>
      BY <1>1, <3>1 DEF Flow
    <3>. QED  BY <3>2 DEF Trusted
  <2>3. CASE ~Returns(c)
    <3>1. WaitsForHeader(c) \/ WaitsForPayload(c)
      BY <1>1, <2>3 DEF Outcome, Throws, Throw
    <3>2. pc'[c] \in {"header", "payload"} /\ buffer' = buffer /\ Flow' = Flow
      BY <1>1, <3>1 DEF WaitsForHeader, WaitsForPayload, Flow, SdkInv, Typed
    <3>3. \A d \in Calls : Waiting(d) => Waiting(d)'
      BY <1>2, <3>2 DEF Waiting
    <3>4. reqs' = reqs /\ kind' = kind
      BY <1>1
    <3>. QED  BY <2>1, <3>2, <3>3, <3>4 DEF SdkInv, Trusted, Asked, Size, PayloadLen
  <2>. QED  BY <2>2, <2>3
<1>. QED  BY <1>3, <1>4, <1>5, <1>6, <1>7 DEF SdkInv

\* The microtask that is run leaves the queue.
LEMMA QueueMoves ==
  ASSUME Queued, turn # <<>>, turn' = Tail(turn), NEW c \in Calls, c = Head(turn),
         pc'[c] # "turn", \A d \in Calls \ {c} : pc'[d] = pc[d]
  PROVE  Queued' /\ pc[c] = "turn"
<1>1. /\ turn \in Seq(Calls) /\ turn' \in Seq(Calls) /\ Len(turn) \in Nat /\ Len(turn) > 0
      /\ Len(turn') = Len(turn) - 1 /\ c = turn[1]
      /\ \A i \in 1..Len(turn') : turn'[i] = turn[i + 1]
  BY DEF Queued
<1>2. pc[c] = "turn"
  <2>1. 1 \in 1..Len(turn)
    BY <1>1
  <2>. QED  BY <1>1, <2>1 DEF Queued
<1>3. ASSUME NEW i \in 1..Len(turn'), NEW j \in 1..Len(turn'), turn'[i] = turn'[j]
      PROVE  i = j
  <2>1. i + 1 \in 1..Len(turn) /\ j + 1 \in 1..Len(turn) /\ turn[i + 1] = turn[j + 1]
    BY <1>1, <1>3
  <2>2. i + 1 = j + 1
    BY <2>1 DEF Queued
  <2>. QED  BY <2>2
<1>4. ASSUME NEW d \in Calls
      PROVE  pc'[d] = "turn" <=> \E i \in 1..Len(turn') : turn'[i] = d
  <2>1. CASE d = c
    <3>1. ASSUME NEW i \in 1..Len(turn') PROVE turn'[i] # c
      <4>1. i + 1 \in 1..Len(turn) /\ 1 \in 1..Len(turn) /\ i + 1 # 1
        BY <1>1
      <4>2. turn[i + 1] # turn[1]
        BY <4>1 DEF Queued
      <4>. QED  BY <1>1, <4>2
    <3>. QED  BY <2>1, <3>1
  <2>2. CASE d # c
    <3>1. pc'[d] = "turn" <=> \E i \in 1..Len(turn) : turn[i] = d
      BY <2>2 DEF Queued
    <3>2. ASSUME NEW i \in 1..Len(turn), turn[i] = d
          PROVE  \E k \in 1..Len(turn') : turn'[k] = d
      <4>1. i # 1
        BY <1>1, <2>2, <3>2
      <4>2. i - 1 \in 1..Len(turn') /\ (i - 1) + 1 = i
        BY <1>1, <4>1
      <4>. QED  BY <1>1, <3>2, <4>2
    <3>3. ASSUME NEW k \in 1..Len(turn'), turn'[k] = d
          PROVE  \E i \in 1..Len(turn) : turn[i] = d
      <4>1. k + 1 \in 1..Len(turn)
        BY <1>1
      <4>. QED  BY <1>1, <3>3, <4>1
    <3>. QED  BY <3>1, <3>2, <3>3
  <2>. QED  BY <2>1, <2>2
<1>. QED  BY <1>1, <1>2, <1>3, <1>4 DEF Queued

LEMMA MicrotaskKeeps ==
  ASSUME SdkInv, Microtask
  PROVE  SdkInv'
<1>1. PICK c \in Calls : c = Head(turn) /\ turn[1] = c /\ 1 \in 1..Len(turn)
  <2>1. turn # <<>> /\ turn \in Seq(Calls) /\ Len(turn) \in Nat /\ Len(turn) > 0
    BY DEF Microtask, SdkInv, Queued
  <2>2. 1 \in 1..Len(turn) /\ Head(turn) = turn[1] /\ turn[1] \in Calls
    BY <2>1, ElementOfSeq
  <2>. QED  BY <2>2
<1>2. /\ pc[c] = "turn" /\ Running(c) /\ kind[c] \in Kinds
      /\ UNCHANGED <<socket, peer, stream, kind, crashed>>
      /\ turn # <<>> /\ turn' = Tail(turn) /\ Write(c)
  BY <1>1 DEF SdkInv, Queued, Typed, Microtask, Write, Running
<1>3. Outcome(c) /\ (buffer = <<>> /\ socket # "null" => WaitsForHeader(c)) /\ (socket = "null" => Throws(c))
  <2>1. CASE socket = "null"
    BY <1>2, <2>1 DEF Write, Outcome, Throws
  <2>2. CASE socket # "null"
    BY <1>2, <2>2, ExamineOutcome DEF Write, SdkInv
  <2>. QED  BY <2>1, <2>2
<1>4. reqs' = reqs \/ (socket # "null" /\ reqs' = Append(reqs, Asked(c)))
  BY <1>2 DEF Write, Asked
<1>5. /\ buffer' \in Seq(Unit) /\ pc' \in [Calls -> Steps] /\ total' \in [Calls -> Nat]
      /\ \A d \in Calls \ {c} : pc'[d] = pc[d] /\ total'[d] = total[d]
      /\ pc'[c] \in {"header", "payload", "failed", "done"}
      /\ pc'[c] = "payload" => total'[c] = Size(kind[c])
      /\ trouble \subseteq trouble' /\ trouble' \subseteq trouble \cup {"failed"}
      /\ buffer = <<>> => buffer' = <<>>
  BY <1>2, <1>3, OutcomeFacts DEF SdkInv
<1>6. Lone' /\ Examined' /\ Framed' /\ OwnAnswerAlone' /\ WholeAnswer'
  BY <1>2, <1>3, OutcomeKeeps
<1>7. Typed'
  <2>1. Asked(c) \in Request
    BY <1>2 DEF Asked, Request
  <2>2. reqs' \in Seq(Request)
    <3>1. reqs \in Seq(Request)
      BY DEF SdkInv, Typed
    <3>2. Append(reqs, Asked(c)) \in Seq(Request)
      BY <2>1, <3>1, AppendProperties
    <3>. QED  BY <1>4, <3>1, <3>2, Zenon
  <2>. QED  BY <1>2, <1>5, <2>2 DEF SdkInv, Typed, Size, PayloadLen
<1>8. Queued'
  BY <1>1, <1>2, <1>5, QueueMoves DEF SdkInv
<1>9. Unconnected'
  BY <1>2, <1>4, <1>5 DEF SdkInv, Unconnected
<1>10. Trusted'
  <2>. SUFFICES ASSUME trouble' \subseteq {"ended"} PROVE Trusted'
    BY DEF Trusted
  <2>1. trouble \subseteq {"ended"} /\ socket # "null"
    BY <1>3, <1>5 DEF Throws, Throw
  <2>2. reqs = <<>> /\ Flow = <<>>
    <3>1. ASSUME NEW d \in Calls, Waiting(d) PROVE FALSE
      <4>1. Running(d) /\ d # c
        BY <1>2, <3>1 DEF Waiting, Running
      <4>. QED  BY <1>2, <2>1, <4>1 DEF SdkInv, Lone
    <3>. QED  BY <2>1, <3>1 DEF SdkInv, Trusted
  <2>3. buffer = <<>> /\ stream = <<>>
    BY <2>2, FlowType DEF SdkInv
  <2>4. WaitsForHeader(c)
    BY <1>3, <2>1, <2>3
  <2>5. Flow' = <<>> /\ Waiting(c)' /\ kind' = kind
    <3>1. buffer' = buffer /\ pc'[c] = "header"
      BY <2>4 DEF WaitsForHeader, SdkInv, Typed
    <3>. QED  BY <1>2, <2>2, <3>1 DEF Flow, Waiting
  <2>6. reqs' = <<>> \/ reqs' = <<Asked(c)>>
    <3>1. Asked(c) \in Request /\ reqs = <<>>
      BY <1>2, <2>2 DEF Asked, Request
    <3>2. Append(reqs, Asked(c)) = <<Asked(c)>>
      BY <3>1
    <3>. QED  BY <1>4, <3>1, <3>2
  <2>7. Asked(c)' = Asked(c)
    BY <1>2 DEF Asked
  <2>. QED  BY <1>2, <2>5, <2>6, <2>7 DEF Trusted
<1>. QED  BY <1>6, <1>7, <1>8, <1>9, <1>10 DEF SdkInv

\* A step after which no call is trusted any more.
LEMMA Untrusted ==
  ASSUME ~(trouble' \subseteq {"ended"})
  PROVE  Trusted'
BY DEF Trusted

LEMMA SameAnswers ==
  ASSUME OwnAnswerAlone, WholeAnswer, returned' = returned
  PROVE  OwnAnswerAlone' /\ WholeAnswer'
BY DEF OwnAnswerAlone, WholeAnswer, Answer

\* The start of a call.
LEMMA ExchangeKeeps ==
  ASSUME SdkInv, NEW c \in Calls, NEW k \in Kinds, Exchange(c, k)
  PROVE  SdkInv'
<1>1. /\ pc[c] = "new" /\ kind' = [kind EXCEPT ![c] = k]
      /\ trouble' = trouble \cup (IF \E d \in Calls \ {c} : Running(d) THEN {"overlap"} ELSE {})
      /\ UNCHANGED <<buffer, total, returned, crashed>>
  BY DEF Exchange
<1>2. /\ k \in Opcodes /\ kind' \in [Calls -> Opcodes] /\ kind'[c] = k
      /\ \A d \in Calls \ {c} : kind'[d] = kind[d]
  <2>1. k \in Opcodes /\ kind \in [Calls -> Opcodes]
    BY SdkAssumption DEF SdkInv, Typed
  <2>. QED  BY <1>1, <2>1
<1>3. /\ pc' \in [Calls -> Steps] /\ pc'[c] \in {"turn", "connect"} /\ \A d \in Calls \ {c} : pc'[d] = pc[d]
      /\ stream' = stream
      /\ socket' # "null" /\ (pc'[c] = "connect" => socket' = "connecting")
      /\ \/ /\ socket \in {"connecting", "open"} /\ pc'[c] = "turn" /\ turn' = Append(turn, c)
            /\ UNCHANGED <<socket, peer, reqs>>
         \/ /\ socket \in {"null", "destroyed"} /\ pc'[c] = "connect" /\ turn' = turn
            /\ socket' = "connecting" /\ peer' = "up" /\ reqs' = <<>>
  <2>1. pc \in [Calls -> Steps] /\ (socket # "open" => stream = <<>>)
    BY DEF SdkInv, Typed, Unconnected
  <2>2. CASE /\ socket \in {"connecting", "open"}
             /\ pc' = [pc EXCEPT ![c] = "turn"] /\ turn' = Append(turn, c)
             /\ UNCHANGED <<socket, peer, reqs, stream>>
    BY <2>1, <2>2 DEF Steps
  <2>3. CASE /\ socket \in {"null", "destroyed"}
             /\ pc' = [pc EXCEPT ![c] = "connect"]
             /\ socket' = "connecting" /\ peer' = "up"
             /\ reqs' = <<>> /\ stream' = <<>>
             /\ UNCHANGED turn
    BY <2>1, <2>3 DEF Steps
  <2>. QED  BY <2>2, <2>3 DEF Exchange
<1>4. Flow' = Flow
  BY <1>1, <1>3 DEF Flow
<1>5. /\ trouble \subseteq trouble'
      /\ "overlap" \notin trouble' => /\ trouble' = trouble
                                      /\ \A d \in Calls \ {c} : ~Running(d)
  BY <1>1
<1>6. Typed'
  <2>1. reqs' \in Seq(Request)
    BY <1>3, EmptySeq DEF SdkInv, Typed
  <2>2. \A d \in Calls : pc'[d] # "new" => kind'[d] \in Kinds
    BY <1>2, <1>3 DEF SdkInv, Typed
  <2>3. \A d \in Calls : pc'[d] = "connect" => socket' = "connecting"
    BY <1>3 DEF SdkInv, Typed
  <2>4. \A d \in Calls : pc'[d] = "payload" => total'[d] = Size(kind'[d])
    BY <1>1, <1>2, <1>3 DEF SdkInv, Typed
  <2>5. socket' \in {"null", "connecting", "open", "destroyed"} /\ peer' \in {"up", "closed"}
    BY <1>3 DEF SdkInv, Typed
  <2>6. trouble' \subseteq {"failed", "overlap", "ended"} /\ total' \in [Calls -> Nat] /\ crashed' \in BOOLEAN
        /\ buffer' \in Seq(Unit) /\ stream' \in Seq(Unit)
    BY <1>1, <1>3 DEF SdkInv, Typed
  <2>. QED  BY <1>2, <1>3, <2>1, <2>2, <2>3, <2>4, <2>5, <2>6 DEF Typed, Size, PayloadLen
<1>7. Queued'
  <2>1. CASE turn' = turn /\ pc'[c] = "connect"
    <3>1. \A d \in Calls : pc'[d] = "turn" <=> pc[d] = "turn"
      BY <1>1, <1>3, <2>1
    <3>. QED  BY <2>1, <3>1, SameQueue DEF SdkInv
  <2>2. CASE turn' = Append(turn, c) /\ pc'[c] = "turn"
    <3>1. /\ turn \in Seq(Calls) /\ Len(turn) \in Nat /\ turn' \in Seq(Calls) /\ Len(turn') = Len(turn) + 1
          /\ turn'[Len(turn) + 1] = c /\ \A i \in 1..Len(turn) : turn'[i] = turn[i]
      BY <2>2, AppendProperties, LenProperties DEF SdkInv, Queued
    <3>2. \A i \in 1..Len(turn) : turn[i] # c
      BY <1>1 DEF SdkInv, Queued
    <3>3. \A i \in 1..Len(turn') : i \in 1..Len(turn) \/ i = Len(turn) + 1
      BY <3>1
    <3>4. \A i, j \in 1..Len(turn') : turn'[i] = turn'[j] => i = j
      BY <3>1, <3>2, <3>3 DEF SdkInv, Queued
    <3>5. \A i \in 1..Len(turn) : i \in 1..Len(turn')
      BY <3>1
    <3>6. Len(turn) + 1 \in 1..Len(turn')
      BY <3>1
    <3>7. ASSUME NEW d \in Calls
          PROVE  pc'[d] = "turn" <=> \E i \in 1..Len(turn') : turn'[i] = d
      <4>1. CASE d = c
        BY <2>2, <3>1, <3>6, <4>1
      <4>2. CASE d # c
        <5>1. pc'[d] = "turn" <=> \E i \in 1..Len(turn) : turn[i] = d
          BY <1>3, <4>2 DEF SdkInv, Queued
        <5>. QED  BY <3>1, <3>3, <3>5, <4>2, <5>1
      <4>. QED  BY <4>1, <4>2
    <3>. QED  BY <3>1, <3>4, <3>7 DEF Queued
  <2>. QED  BY <1>3, <2>1, <2>2
<1>8. Unconnected'
  BY <1>3 DEF SdkInv, Unconnected
<1>9. Lone' /\ Examined'
  <2>1. \A d \in Calls \ {c} : Running(d)' <=> Running(d)
    BY <1>3 DEF Running
  <2>2. \A d \in Calls : pc'[d] = "payload" => d # c /\ Running(d)
    BY <1>3 DEF Running
  <2>. QED  BY <1>5, <2>1, <2>2 DEF Lone, Examined
<1>10. Framed'
  <2>1. trouble' \subseteq {"failed"} => trouble \subseteq {"failed"}
    BY <1>5
  <2>2. trouble \subseteq {"failed"} => Whole(Flow) \/ (Begun(Flow) /\ peer = "closed" /\ socket = "open")
    BY DEF SdkInv, Framed
  <2>3. peer = "closed" /\ socket = "open" => peer' = "closed" /\ socket' = "open"
    BY <1>3
  <2>. QED  BY <1>4, <2>1, <2>2, <2>3, FramedNext
<1>11. Trusted'
  <2>. SUFFICES ASSUME trouble' \subseteq {"ended"} PROVE Trusted'
    BY DEF Trusted
  <2>1. trouble \subseteq {"ended"} /\ \A d \in Calls \ {c} : ~Running(d)
    BY <1>5
  <2>2. \A d \in Calls : ~Waiting(d)
    BY <1>1, <2>1 DEF Waiting, Running
  <2>3. reqs = <<>> /\ Flow = <<>>
    BY <2>1, <2>2 DEF SdkInv, Trusted
  <2>4. reqs' = <<>> /\ Flow' = <<>>
    BY <1>3, <1>4, <2>3
  <2>. QED  BY <2>4 DEF Trusted
<1>12. OwnAnswerAlone' /\ WholeAnswer'
  BY <1>1, SameAnswers DEF SdkInv
<1>. QED  BY <1>6, <1>7, <1>8, <1>9, <1>10, <1>11, <1>12 DEF SdkInv

LEMMA CloseKeeps ==
  ASSUME SdkInv, Close
  PROVE  SdkInv'
<1>1. /\ socket' = "null" /\ reqs' = <<>> /\ stream' = <<>> /\ buffer' = <<>> /\ trouble' = {}
      /\ pc' = [d \in Calls |-> IF pc[d] = "connect" THEN "hung" ELSE pc[d]]
      /\ UNCHANGED <<peer, turn, kind, total, returned, crashed>>
  BY DEF Close, Hang
<1>2. Flow' = <<>>
  <2>1. <<>> \o <<>> = <<>>
    OBVIOUS
  <2>. QED  BY <1>1, <2>1 DEF Flow
<1>3. /\ pc' \in [Calls -> Steps]
      /\ \A d \in Calls : pc'[d] # "connect" /\ (pc'[d] \in {"new", "turn", "payload"} => pc'[d] = pc[d])
      /\ \A d \in Calls : pc[d] \in {"new", "turn"} => pc'[d] = pc[d]
  BY <1>1 DEF SdkInv, Typed, Steps
<1>4. Typed'
  BY <1>1, <1>3, EmptySeq DEF SdkInv, Typed, Size, PayloadLen
<1>5. Queued'
  <2>1. \A d \in Calls : pc'[d] = "turn" <=> pc[d] = "turn"
    BY <1>3
  <2>. QED  BY <1>1, <2>1, SameQueue DEF SdkInv
<1>6. Unconnected' /\ Lone' /\ Examined' /\ Trusted'
  BY <1>1, <1>2 DEF Unconnected, Lone, Examined, Trusted
<1>7. Framed'
  BY <1>2, NoneWhole, FramedNext
<1>8. OwnAnswerAlone' /\ WholeAnswer'
  BY <1>1, SameAnswers DEF SdkInv
<1>. QED  BY <1>4, <1>5, <1>6, <1>7, <1>8 DEF SdkInv

LEMMA TimeoutKeeps ==
  ASSUME SdkInv, NEW c \in Calls, Timeout(c)
  PROVE  SdkInv'
<1>1. /\ pc[c] \in {"header", "payload"}
      /\ pc' = [pc EXCEPT ![c] = "failed"] /\ trouble' = trouble \cup {"failed"}
      /\ UNCHANGED <<returned, socket, peer, reqs, stream, buffer, turn, kind, total, crashed>>
  BY DEF Timeout, Throw
<1>2. Throws(c) /\ Outcome(c) /\ Running(c) /\ kind[c] \in Kinds
  BY <1>1 DEF Timeout, Throws, Outcome, Running, SdkInv, Typed
<1>3. Lone' /\ Examined' /\ Framed' /\ OwnAnswerAlone' /\ WholeAnswer'
  BY <1>1, <1>2, OutcomeKeeps
<1>4. pc' \in [Calls -> Steps] /\ pc'[c] = "failed" /\ \A d \in Calls \ {c} : pc'[d] = pc[d]
  BY <1>1 DEF SdkInv, Typed, Steps
<1>5. Typed'
  BY <1>1, <1>4 DEF SdkInv, Typed, Size, PayloadLen
<1>6. Queued'
  <2>1. \A d \in Calls : pc'[d] = "turn" <=> pc[d] = "turn"
    BY <1>1, <1>4
  <2>. QED  BY <1>1, <2>1, SameQueue DEF SdkInv
<1>7. Unconnected' /\ Trusted'
  BY <1>1, Untrusted DEF SdkInv, Unconnected
<1>. QED  BY <1>3, <1>5, <1>6, <1>7 DEF SdkInv

-----------------------------------------------------------------------------
(* Events of the socket, and the other end. *)

\* A finite set in a sequence: each of its elements once.
LEMMA SetInSequence ==
  ASSUME NEW S, IsFiniteSet(S)
  PROVE  /\ SetToSeq(S) \in Seq(S)
         /\ \A i, j \in 1..Len(SetToSeq(S)) : SetToSeq(S)[i] = SetToSeq(S)[j] => i = j
         /\ \A x \in S : \E i \in 1..Len(SetToSeq(S)) : SetToSeq(S)[i] = x
<1>. PICK n : n = Cardinality(S)
  OBVIOUS
<1>1. n \in Nat /\ \E f \in [1..n -> S] : IsInjective(f)
  <2>1. n \in Nat /\ ExistsBijection(1..n, S)
    BY FS_CardinalityType
  <2>. QED  BY <2>1 DEF ExistsBijection, Bijection, Injection
<1>2. PICK g : g = SetToSeq(S)
  OBVIOUS
<1>3. g \in [1..n -> S] /\ IsInjective(g)
  BY <1>1, <1>2 DEF SetToSeq
<1>4. g \in Seq(S) /\ Len(g) = n /\ DOMAIN g = 1..n
  BY <1>1, <1>3
<1>5. \A i, j \in 1..n : g[i] = g[j] => i = j
  BY <1>3, <1>4 DEF IsInjective
<1>6. g \in Surjection(1..n, S)
  <2>1. g \in Injection(1..n, S)
    BY <1>3 DEF Injection
  <2>2. Cardinality(1..n) = n
    BY <1>1, FS_Interval
  <2>. QED  BY <2>1, <2>2, FS_Injection
<1>7. \A x \in S : \E i \in 1..n : g[i] = x
  BY <1>6 DEF Surjection
<1>. QED  BY <1>2, <1>4, <1>5, <1>7

LEMMA ConnectedKeeps ==
  ASSUME SdkInv, Connected
  PROVE  SdkInv'
<1>. DEFINE S == {d \in Calls : pc[d] = "connect"}
<1>1. /\ turn = <<>> /\ socket = "connecting" /\ peer = "up" /\ socket' = "open"
      /\ turn' = SetToSeq(S)
      /\ pc' = [d \in Calls |-> IF pc[d] = "connect" THEN "turn" ELSE pc[d]]
      /\ UNCHANGED <<peer, reqs, stream, buffer, kind, total, trouble, returned, crashed>>
  BY DEF Connected, EventLoop
<1>2. IsFiniteSet(S)
  <2>1. IsFiniteSet(Calls)
    BY SdkAssumption, FS_Interval DEF Calls
  <2>. QED  BY <2>1, FS_Subset
<1>3. S \subseteq Calls /\ \A d \in Calls : d \in S <=> pc[d] = "connect"
  OBVIOUS
<1>. HIDE DEF S
<1>4. /\ pc' \in [Calls -> Steps]
      /\ \A d \in Calls : /\ pc'[d] # "connect"
                          /\ pc[d] # "connect" => pc'[d] = pc[d]
                          /\ pc[d] = "connect" => pc'[d] = "turn"
  BY <1>1 DEF SdkInv, Typed, Steps
<1>5. Flow' = Flow
  BY <1>1 DEF Flow
<1>6. Typed'
  BY <1>1, <1>4 DEF SdkInv, Typed, Size, PayloadLen
<1>7. Queued'
  <2>1. \A d \in Calls : pc[d] # "turn"
    BY <1>1, EmptySeq DEF SdkInv, Queued
  <2>2. \A d \in Calls : pc'[d] = "turn" <=> d \in S
    BY <1>3, <1>4, <2>1
  <2>3. PICK g : g = SetToSeq(S)
    OBVIOUS
  <2>4. /\ g \in Seq(S) /\ \A i, j \in 1..Len(g) : g[i] = g[j] => i = j
        /\ \A x \in S : \E i \in 1..Len(g) : g[i] = x
    BY <1>2, <2>3, SetInSequence
  <2>5. g \in Seq(Calls) /\ \A i \in 1..Len(g) : g[i] \in S
    BY <1>3, <2>4, SeqMonotonic, ElementOfSeq
  <2>6. turn' = g
    BY <1>1, <2>3
  <2>. QED  BY <2>2, <2>4, <2>5, <2>6 DEF Queued
<1>8. Unconnected' /\ Lone' /\ Examined'
  <2>1. \A d \in Calls : Running(d)' <=> Running(d)
    BY <1>4 DEF Running
  <2>2. \A d \in Calls : pc'[d] = "payload" <=> pc[d] = "payload"
    BY <1>4
  <2>3. \A d \in Calls : AtFront(d)' <=> AtFront(d)
    BY <1>1 DEF AtFront
  <2>. QED  BY <1>1, <2>1, <2>2, <2>3 DEF SdkInv, Unconnected, Lone, Examined
<1>9. Framed'
  <2>1. trouble \subseteq {"failed"} => Whole(Flow)
    BY <1>1 DEF SdkInv, Framed
  <2>. QED  BY <1>1, <1>5, <2>1, FramedNext
<1>10. Trusted'
  <2>1. \A d \in Calls : Waiting(d) => Waiting(d)'
    BY <1>4 DEF Waiting
  <2>2. reqs' = reqs /\ kind' = kind /\ trouble' = trouble
    BY <1>1
  <2>. QED  BY <1>5, <2>1, <2>2 DEF SdkInv, Trusted, Asked, Size, PayloadLen
<1>11. OwnAnswerAlone' /\ WholeAnswer'
  BY <1>1, SameAnswers DEF SdkInv
<1>. QED  BY <1>6, <1>7, <1>8, <1>9, <1>10, <1>11 DEF SdkInv

LEMMA ConnectFailsKeeps ==
  ASSUME SdkInv, ConnectFails
  PROVE  SdkInv'
<1>1. /\ socket = "connecting" /\ socket' = "destroyed" /\ reqs' = <<>>
      /\ trouble' = trouble \cup {"failed"}
      /\ pc' = [d \in Calls |-> IF pc[d] = "connect" THEN "failed" ELSE pc[d]]
      /\ UNCHANGED <<peer, stream, buffer, turn, kind, total, returned, crashed>>
  BY DEF ConnectFails
<1>2. /\ pc' \in [Calls -> Steps]
      /\ \A d \in Calls : /\ pc'[d] # "connect"
                          /\ pc[d] # "connect" => pc'[d] = pc[d]
                          /\ pc[d] = "connect" => pc'[d] = "failed"
  BY <1>1 DEF SdkInv, Typed, Steps
<1>3. Typed'
  BY <1>1, <1>2, EmptySeq DEF SdkInv, Typed, Size, PayloadLen
<1>4. Queued'
  <2>1. \A d \in Calls : pc'[d] = "turn" <=> pc[d] = "turn"
    BY <1>2
  <2>. QED  BY <1>1, <2>1, SameQueue DEF SdkInv
<1>5. Unconnected' /\ Lone' /\ Examined'
  <2>1. \A d \in Calls : Running(d)' => Running(d)
    BY <1>2 DEF Running
  <2>2. \A d \in Calls : pc'[d] = "payload" => pc[d] = "payload"
    BY <1>2
  <2>3. \A d \in Calls : AtFront(d)' <=> AtFront(d)
    BY <1>1 DEF AtFront
  <2>. QED  BY <1>1, <2>1, <2>2, <2>3 DEF SdkInv, Unconnected, Lone, Examined
<1>6. Framed'
  <2>1. Flow' = Flow
    BY <1>1 DEF Flow
  <2>2. trouble' \subseteq {"failed"} => Whole(Flow)
    BY <1>1 DEF SdkInv, Framed
  <2>. QED  BY <2>1, <2>2, FramedNext
<1>7. Trusted' /\ OwnAnswerAlone' /\ WholeAnswer'
  BY <1>1, Untrusted, SameAnswers DEF SdkInv
<1>. QED  BY <1>3, <1>4, <1>5, <1>6, <1>7 DEF SdkInv

\* Steps that neither take from what the calls see nor move them.
LEMMA StreamKeeps ==
  ASSUME SdkInv, UNCHANGED <<turn, pc, kind, total, returned>>,
         Typed', socket # "null", socket' # "null", "overlap" \in trouble => "overlap" \in trouble',
         \A c \in Calls : AtFront(c) => AtFront(c)'
  PROVE  Queued' /\ Lone' /\ Examined' /\ OwnAnswerAlone' /\ WholeAnswer'
<1>1. \A c \in Calls : Running(c)' <=> Running(c)
  BY DEF Running
<1>2. Queued' /\ OwnAnswerAlone' /\ WholeAnswer'
  BY SameQueue, SameAnswers DEF SdkInv
<1>3. Lone' /\ Examined'
  BY <1>1 DEF SdkInv, Lone, Examined
<1>. QED  BY <1>2, <1>3

LEMMA DataKeeps ==
  ASSUME SdkInv, Data
  PROVE  SdkInv'
<1>1. /\ socket = "open" /\ stream \in Seq(Unit) /\ buffer \in Seq(Unit)
      /\ UNCHANGED <<socket, peer, reqs, turn, pc, kind, total, trouble, returned, crashed>>
  BY DEF Data, SdkInv, Typed
<1>2. PICK n \in 1..Len(stream) :
        buffer' = buffer \o SubSeq(stream, 1, n) /\ stream' = SubSeq(stream, n + 1, Len(stream))
  BY DEF Data
<1>3. n \in 0..Len(stream)
  BY <1>1, LenProperties
<1>4. PICK a \in Seq(Unit) : a = SubSeq(stream, 1, n)
  BY <1>1, <1>3, Splits
<1>5. PICK b \in Seq(Unit) : b = stream'
  BY <1>1, <1>2, <1>3, Splits
<1>6. PICK w \in Seq(Unit) : w = buffer
  BY <1>1
<1>7. a \o b = stream /\ buffer' = w \o a
  BY <1>1, <1>2, <1>3, <1>4, <1>5, <1>6, Splits
<1>8. Flow' = Flow
  <2>1. (w \o a) \o b = w \o (a \o b)
    BY ConcatAssociative
  <2>. QED  BY <1>5, <1>6, <1>7, <2>1 DEF Flow
<1>9. buffer' \in Seq(Unit) /\ stream' \in Seq(Unit)
  BY <1>5, <1>7, ConcatProperties
<1>10. \A c \in Calls : AtFront(c) => AtFront(c)'
  <2>1. w # <<>> => w \o a # <<>> /\ (w \o a)[1] = w[1]
    <3>1. w \o a \in Seq(Unit) /\ Len(w \o a) = Len(w) + Len(a) /\ Len(w) \in Nat /\ Len(a) \in Nat
          /\ \A i \in 1..Len(w) : (w \o a)[i] = w[i]
      BY Joined
    <3>2. ASSUME w # <<>> PROVE w \o a # <<>> /\ (w \o a)[1] = w[1]
      <4>1. Len(w) > 0
        BY <3>1, <3>2, EmptySeq
      <4>2. 1 \in 1..Len(w) /\ Len(w \o a) > 0
        BY <3>1, <4>1
      <4>. QED  BY <3>1, <4>2, EmptySeq
    <3>. QED  BY <3>2
  <2>. QED  BY <1>1, <1>6, <1>7, <2>1 DEF AtFront
<1>11. Typed'
  BY <1>1, <1>9 DEF SdkInv, Typed, Size, PayloadLen
<1>12. Queued' /\ Lone' /\ Examined' /\ OwnAnswerAlone' /\ WholeAnswer'
  BY <1>1, <1>10, <1>11, StreamKeeps
<1>13. Unconnected'
  BY <1>1 DEF Unconnected
<1>14. Framed'
  <2>1. trouble \subseteq {"failed"} => Whole(Flow) \/ (Begun(Flow) /\ peer = "closed" /\ socket = "open")
    BY DEF SdkInv, Framed
  <2>. QED  BY <1>1, <1>8, <2>1, FramedNext
<1>15. Trusted'
  BY <1>1, <1>8 DEF SdkInv, Trusted, Asked, Size, PayloadLen, Waiting
<1>. QED  BY <1>11, <1>12, <1>13, <1>14, <1>15 DEF SdkInv

LEMMA EndKeeps ==
  ASSUME SdkInv, End
  PROVE  SdkInv'
<1>1. /\ socket = "open" /\ stream = <<>> /\ socket' = "destroyed" /\ trouble' = trouble \cup {"ended"}
      /\ UNCHANGED <<peer, reqs, stream, buffer, turn, pc, kind, total, returned, crashed>>
  BY DEF End
<1>2. Typed'
  BY <1>1 DEF SdkInv, Typed, Size, PayloadLen
<1>3. Queued' /\ Lone' /\ Examined' /\ OwnAnswerAlone' /\ WholeAnswer'
  BY <1>1, <1>2, StreamKeeps DEF AtFront
<1>4. Unconnected' /\ Framed'
  BY <1>1 DEF Unconnected, Framed
<1>5. Trusted'
  <2>1. trouble' \subseteq {"ended"} => trouble \subseteq {"ended"}
    BY <1>1
  <2>2. Flow' = Flow
    BY <1>1 DEF Flow
  <2>. QED  BY <1>1, <2>1, <2>2 DEF SdkInv, Trusted, Asked, Size, PayloadLen, Waiting
<1>. QED  BY <1>2, <1>3, <1>4, <1>5 DEF SdkInv

LEMMA ErrorKeeps ==
  ASSUME SdkInv, crashed' \in BOOLEAN,
         UNCHANGED <<socket, peer, reqs, stream, buffer, turn, pc, kind, total, trouble, returned>>
  PROVE  SdkInv'
<1>1. Typed'
  BY DEF SdkInv, Typed, Size, PayloadLen
<1>2. Queued' /\ OwnAnswerAlone' /\ WholeAnswer'
  BY SameQueue, SameAnswers DEF SdkInv
<1>3. Lone' /\ Examined' /\ Unconnected'
  BY DEF SdkInv, Lone, Examined, Unconnected, AtFront, Running
<1>4. Framed'
  <2>1. Flow' = Flow
    BY DEF Flow
  <2>2. trouble \subseteq {"failed"} => Whole(Flow) \/ (Begun(Flow) /\ peer = "closed" /\ socket = "open")
    BY DEF SdkInv, Framed
  <2>. QED  BY <2>1, <2>2, FramedNext
<1>5. Trusted'
  BY DEF SdkInv, Trusted, Asked, Size, PayloadLen, Waiting, Flow
<1>. QED  BY <1>1, <1>2, <1>3, <1>4, <1>5 DEF SdkInv

LEMMA FlowGrows ==
  ASSUME Typed, NEW a \in Seq(Unit), buffer' = buffer, stream' = stream \o a
  PROVE  Flow' = Flow \o a /\ stream' \in Seq(Unit) /\ (Flow = <<>> => Flow' = a)
<1>1. PICK w \in Seq(Unit) : w = buffer
  BY DEF Typed
<1>2. PICK s \in Seq(Unit) : s = stream
  BY DEF Typed
<1>3. (w \o s) \o a = w \o (s \o a) /\ s \o a \in Seq(Unit) /\ <<>> \o a = a
  BY ConcatAssociative, ConcatProperties, ConcatEmptySeq
<1>4. Flow = w \o s /\ Flow' = w \o (s \o a)
  BY <1>1, <1>2 DEF Flow
<1>. QED  BY <1>2, <1>3, <1>4

\* While the calls are trusted, a request that is not answered is that of the call which
\* waits, and nothing has been sent yet.
LEMMA OneRequest ==
  ASSUME SdkInv, reqs # <<>>, trouble \subseteq {"ended"}
  PROVE  \E c \in Calls : /\ Waiting(c) /\ kind[c] \in Kinds /\ reqs = <<Asked(c)>> /\ Head(reqs) = Asked(c)
                          /\ Flow = <<>> /\ buffer = <<>> /\ stream = <<>>
<1>1. PICK c \in Calls : Waiting(c) /\ kind[c] \in Kinds /\ reqs = <<Asked(c)>> /\ Flow = <<>>
  BY DEF SdkInv, Trusted
<1>2. buffer = <<>> /\ stream = <<>>
  BY <1>1, FlowType DEF SdkInv
<1>3. Head(reqs) = Asked(c)
  BY <1>1
<1>. QED  BY <1>1, <1>2, <1>3

\* The start of the answer is on its way.
LEMMA AnswerBegins ==
  ASSUME SdkInv, NEW c \in Calls, Waiting(c), kind[c] \in Kinds, NEW a \in Seq(Unit),
         Len(a) <= Size(kind[c]), \A i \in 1..Len(a) : a[i] = Answer(Asked(c))[i],
         reqs' = <<>>, Flow' = a, UNCHANGED <<pc, kind, trouble>>
  PROVE  Trusted'
<1>1. \A i \in 1..Len(a) : a[i] = [id |-> c, kind |-> kind[c], i |-> i]
  <2>1. Asked(c) \in Request /\ Asked(c).id = c /\ Asked(c).kind = kind[c]
    BY DEF Asked, Request
  <2>2. Size(kind[c]) \in Nat /\ Len(a) \in Nat
    <3>1. kind[c] \in Opcodes
      BY SdkAssumption
    <3>. QED  BY <3>1, Sizes, LenProperties
  <2>3. \A i \in 1..Size(kind[c]) : Answer(Asked(c))[i] = [id |-> c, kind |-> kind[c], i |-> i]
    BY <2>1, AnswerUnits
  <2>4. \A i \in 1..Len(a) : i \in 1..Size(kind[c])
    BY <2>2
  <2>. QED  BY <2>3, <2>4
<1>2. Waiting(c)' /\ kind'[c] \in Kinds /\ Size(kind'[c]) = Size(kind[c])
  BY DEF Waiting
<1>. QED  BY <1>1, <1>2 DEF Trusted, Size, PayloadLen

LEMMA RespondKeeps ==
  ASSUME SdkInv, Respond
  PROVE  SdkInv'
<1>1. /\ socket = "open" /\ peer = "up" /\ reqs # <<>> /\ reqs' = Tail(reqs)
      /\ stream' \in {stream, stream \o Answer(Head(reqs))}
      /\ UNCHANGED <<socket, peer, buffer, turn, pc, kind, total, trouble, returned, crashed>>
  BY DEF Respond
<1>2. PICK r \in Request : r = Head(reqs)
  BY <1>1, HeadTailProperties DEF SdkInv, Typed
<1>3. PICK a \in Seq(Unit) : a = Answer(r)
  BY AnswerUnits
<1>4. reqs' \in Seq(Request)
  BY <1>1, HeadTailProperties DEF SdkInv, Typed
<1>5. \/ stream' = stream /\ Flow' = Flow
      \/ stream' = stream \o a /\ Flow' = Flow \o a /\ stream' \in Seq(Unit)
  <2>1. CASE stream' = stream
    BY <1>1, <2>1 DEF Flow
  <2>2. CASE stream' = stream \o a
    BY <1>1, <2>2, FlowGrows DEF SdkInv
  <2>. QED  BY <1>1, <1>2, <1>3, <2>1, <2>2
<1>6. Typed'
  <2>1. stream' \in Seq(Unit)
    BY <1>5 DEF SdkInv, Typed
  <2>. QED  BY <1>1, <1>4, <2>1 DEF SdkInv, Typed, Size, PayloadLen
<1>7. Queued' /\ Lone' /\ Examined' /\ OwnAnswerAlone' /\ WholeAnswer'
  BY <1>1, <1>6, StreamKeeps DEF AtFront
<1>8. Unconnected'
  BY <1>1 DEF Unconnected
<1>9. Framed'
  <2>1. trouble \subseteq {"failed"} => Whole(Flow)
    BY <1>1 DEF SdkInv, Framed
  <2>2. Whole(Flow) => Whole(Flow \o a)
    BY <1>3, FlowType, WholeExtends DEF SdkInv
  <2>. QED  BY <1>1, <1>5, <2>1, <2>2, FramedNext
<1>10. Trusted'
  <2>. SUFFICES ASSUME trouble \subseteq {"ended"} PROVE Trusted'
    BY <1>1 DEF Trusted
  <2>1. PICK c \in Calls :
          /\ Waiting(c) /\ kind[c] \in Kinds /\ reqs = <<Asked(c)>> /\ Head(reqs) = Asked(c)
          /\ Flow = <<>> /\ buffer = <<>> /\ stream = <<>>
    BY <1>1, OneRequest
  <2>2. reqs' = <<>>
    BY <1>1, <2>1
  <2>3. CASE Flow' = Flow
    BY <2>1, <2>2, <2>3 DEF Trusted
  <2>4. CASE Flow' # Flow
    <3>1. Flow' = a
      BY <1>1, <1>5, <2>1, <2>4, FlowGrows DEF SdkInv
    <3>2. Len(a) = Size(kind[c]) /\ a = Answer(Asked(c)) /\ Size(kind[c]) \in Nat
      <4>1. r = Asked(c) /\ r.kind = kind[c]
        BY <1>2, <2>1 DEF Asked
      <4>. QED  BY <1>3, <4>1, AnswerUnits, LenProperties
    <3>. QED  BY <1>1, <2>1, <2>2, <3>1, <3>2, AnswerBegins
  <2>. QED  BY <2>3, <2>4
<1>. QED  BY <1>6, <1>7, <1>8, <1>9, <1>10 DEF SdkInv

LEMMA HangUpKeeps ==
  ASSUME SdkInv, HangUp
  PROVE  SdkInv'
<1>1. /\ socket = "open" /\ peer = "up" /\ peer' = "closed" /\ reqs' = <<>>
      /\ stream' = stream \/ (reqs # <<>> /\ stream' = stream \o Front(Answer(Head(reqs))))
      /\ UNCHANGED <<socket, buffer, turn, pc, kind, total, trouble, returned, crashed>>
  BY DEF HangUp
<1>2. CASE stream' = stream
  <2>1. Flow' = Flow
    BY <1>1, <1>2 DEF Flow
  <2>2. Typed'
    BY <1>1, <1>2, EmptySeq DEF SdkInv, Typed, Size, PayloadLen
  <2>3. Queued' /\ Lone' /\ Examined' /\ OwnAnswerAlone' /\ WholeAnswer'
    BY <1>1, <2>2, StreamKeeps DEF AtFront
  <2>4. Unconnected'
    BY <1>1 DEF Unconnected
  <2>5. Framed'
    <3>1. trouble \subseteq {"failed"} => Whole(Flow)
      BY <1>1 DEF SdkInv, Framed
    <3>. QED  BY <1>1, <2>1, <3>1, FramedNext
  <2>6. Trusted'
    <3>. SUFFICES ASSUME trouble \subseteq {"ended"} PROVE Trusted'
      BY <1>1 DEF Trusted
    <3>1. CASE Flow = <<>>
      BY <1>1, <2>1, <3>1 DEF Trusted
    <3>2. CASE Flow # <<>>
      BY <1>1, <2>1, <3>2 DEF SdkInv, Trusted, Waiting, Size, PayloadLen
    <3>. QED  BY <3>1, <3>2
  <2>. QED  BY <2>2, <2>3, <2>4, <2>5, <2>6 DEF SdkInv
<1>3. CASE reqs # <<>> /\ stream' = stream \o Front(Answer(Head(reqs)))
  <2>1. PICK r \in Request : r = Head(reqs)
    BY <1>3, HeadTailProperties DEF SdkInv, Typed
  <2>2. PICK a \in Seq(Unit) : a = Front(Answer(r))
    BY NoneWhole, EmptySeq, CutAnswerBegun
  <2>3. Flow' = Flow \o a /\ stream' \in Seq(Unit) /\ (Flow = <<>> => Flow' = a)
    BY <1>1, <1>3, <2>1, <2>2, FlowGrows DEF SdkInv
  <2>4. Typed'
    BY <1>1, <2>3, EmptySeq DEF SdkInv, Typed, Size, PayloadLen
  <2>5. Queued' /\ Lone' /\ Examined' /\ OwnAnswerAlone' /\ WholeAnswer'
    BY <1>1, <2>4, StreamKeeps DEF AtFront
  <2>6. Unconnected'
    BY <1>1 DEF Unconnected
  <2>7. Framed'
    <3>1. trouble \subseteq {"failed"} => Whole(Flow)
      BY <1>1 DEF SdkInv, Framed
    <3>2. Whole(Flow) => Begun(Flow \o a)
      BY <2>2, FlowType, CutAnswerBegun DEF SdkInv
    <3>. QED  BY <1>1, <2>3, <3>1, <3>2, FramedNext
  <2>8. Trusted'
    <3>. SUFFICES ASSUME trouble \subseteq {"ended"} PROVE Trusted'
      BY <1>1 DEF Trusted
    <3>1. PICK c \in Calls :
            /\ Waiting(c) /\ kind[c] \in Kinds /\ Head(reqs) = Asked(c) /\ Flow = <<>>
      BY <1>3, OneRequest
    <3>2. r = Asked(c) /\ r.kind = kind[c] /\ Size(kind[c]) \in Nat /\ Len(a) \in Nat
      <4>1. kind[c] \in Opcodes
        BY <3>1, SdkAssumption
      <4>. QED  BY <2>1, <3>1, <4>1, Sizes, LenProperties DEF Asked
    <3>3. Len(a) < Size(kind[c]) /\ \A i \in 1..Len(a) : a[i] = Answer(Asked(c))[i]
      BY <2>2, <3>2, NoneWhole, EmptySeq, CutAnswerBegun
    <3>4. Len(a) <= Size(kind[c])
      BY <3>2, <3>3
    <3>. QED  BY <1>1, <2>3, <3>1, <3>3, <3>4, AnswerBegins
  <2>. QED  BY <2>4, <2>5, <2>6, <2>7, <2>8 DEF SdkInv
<1>. QED  BY <1>1, <1>2, <1>3

-----------------------------------------------------------------------------

LEMMA SdkInitially == Init => SdkInv
<1>. SUFFICES ASSUME Init PROVE SdkInv
  OBVIOUS
<1>1. /\ socket = "null" /\ peer = "up" /\ reqs = <<>> /\ stream = <<>> /\ buffer = <<>> /\ turn = <<>>
      /\ pc = [c \in Calls |-> "new"] /\ kind = [c \in Calls |-> "Ping"] /\ total = [c \in Calls |-> 0]
      /\ trouble = {} /\ returned = {} /\ crashed = FALSE
  BY DEF Init
<1>2. Flow = <<>>
  <2>1. <<>> \o <<>> = <<>>
    OBVIOUS
  <2>. QED  BY <1>1, <2>1 DEF Flow
<1>3. Typed
  <2>1. pc \in [Calls -> Steps] /\ kind \in [Calls -> Opcodes] /\ total \in [Calls -> Nat]
        /\ \A c \in Calls : pc[c] = "new"
    BY <1>1 DEF Steps, Opcodes
  <2>. QED  BY <1>1, <2>1, EmptySeq DEF Typed
<1>4. Queued
  <2>1. Len(<<>>) = 0 /\ <<>> \in Seq(Calls) /\ 1..0 = {}
    BY EmptySeq
  <2>. QED  BY <1>1, <2>1 DEF Queued
<1>5. Unconnected /\ Lone /\ Examined /\ Trusted /\ OwnAnswerAlone /\ WholeAnswer
  BY <1>1, <1>2 DEF Unconnected, Lone, Examined, Trusted, OwnAnswerAlone, WholeAnswer
<1>6. Framed
  BY <1>2, NoneWhole DEF Framed
<1>. QED  BY <1>3, <1>4, <1>5, <1>6 DEF SdkInv

LEMMA SdkInductive == SdkInv /\ [Next]_vars => SdkInv'
<1>. SUFFICES ASSUME SdkInv, [Next]_vars PROVE SdkInv'
  OBVIOUS
<1>1. ASSUME NEW c \in Calls, NEW k \in Kinds, Exchange(c, k) PROVE SdkInv'
  BY <1>1, ExchangeKeeps
<1>2. ASSUME NEW c \in Calls, Poll(c) \/ Timeout(c) PROVE SdkInv'
  BY <1>2, PollKeeps, TimeoutKeeps
<1>3. CASE Close \/ Microtask
  BY <1>3, CloseKeeps, MicrotaskKeeps
<1>4. CASE Connected \/ ConnectFails
  BY <1>4, ConnectedKeeps, ConnectFailsKeeps
<1>5. CASE Data \/ End
  BY <1>5, DataKeeps, EndKeeps
<1>6. CASE Respond \/ HangUp
  BY <1>6, RespondKeeps, HangUpKeeps
<1>7. CASE Error
  <2>1. /\ crashed' \in BOOLEAN
        /\ UNCHANGED <<socket, peer, reqs, stream, buffer, turn, pc, kind, total, trouble, returned>>
    BY <1>7 DEF Error
  <2>. QED  BY <2>1, ErrorKeeps
<1>8. CASE UNCHANGED vars
  <2>1. /\ crashed' \in BOOLEAN
        /\ UNCHANGED <<socket, peer, reqs, stream, buffer, turn, pc, kind, total, trouble, returned>>
    BY <1>8 DEF vars, SdkInv, Typed
  <2>. QED  BY <2>1, ErrorKeeps
<1>9. (\E c \in Calls : PollAgain(c)) \/ Idle => UNCHANGED vars
  BY DEF PollAgain, Idle
<1>. QED  BY <1>1, <1>2, <1>3, <1>4, <1>5, <1>6, <1>7, <1>8, <1>9 DEF Next

LEMMA SdkInvariant == Spec => []SdkInv
  BY SdkInitially, SdkInductive, PTL DEF Spec

\* The state has its types: each call that is to go on stands in the queue of microtasks,
\* and only then; a call that waits for a payload knows the size of the answer.
THEOREM SdkTypes == Spec => []TypeOK
<1>1. SdkInv => TypeOK
  <2>. SUFFICES ASSUME SdkInv PROVE TypeOK
    OBVIOUS
  <2>1. \A c \in Calls : (pc[c] = "turn") = (c \in ToSet(turn))
    <3>. SUFFICES ASSUME NEW c \in Calls PROVE pc[c] = "turn" <=> c \in ToSet(turn)
      OBVIOUS
    <3>1. DOMAIN turn = 1..Len(turn)
      BY LenProperties DEF SdkInv, Queued
    <3>. QED  BY <3>1 DEF SdkInv, Queued, ToSet
  <2>2. \A c \in Calls : pc[c] = "payload" => total[c] >= HeaderSize
    <3>. SUFFICES ASSUME NEW c \in Calls, pc[c] = "payload" PROVE total[c] >= HeaderSize
      OBVIOUS
    <3>1. kind[c] \in Opcodes /\ total[c] = Size(kind[c])
      BY DEF SdkInv, Typed
    <3>. QED  BY <3>1, Sizes
  <2>. QED  BY <2>1, <2>2 DEF SdkInv, Typed, TypeOK, Request
<1>. QED  BY <1>1, SdkInvariant, PTL

\* A call that runs alone, on a client in which no call has failed or overlapped another
\* since the last close, returns the whole answer to its own request, also when the peer
\* has ended connections in between.
THEOREM AloneGetsOwn == Spec => []OwnAnswerAlone
<1>1. SdkInv => OwnAnswerAlone
  BY DEF SdkInv
<1>. QED  BY <1>1, SdkInvariant, PTL

\* As long as calls do not overlap and no stream has ended, a call returns one whole
\* answer of its own kind, however many calls have timed out before.
THEOREM AnswersStayWhole == Spec => []WholeAnswer
<1>1. SdkInv => WholeAnswer
  BY DEF SdkInv
<1>. QED  BY <1>1, SdkInvariant, PTL

=============================================================================
