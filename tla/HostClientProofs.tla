--------------------------- MODULE HostClientProofs ---------------------------
(***************************************************************************)
(* TLAPS proofs about HostClient, for every size of header and payload and *)
(* every number of calls: what a call returns is one whole answer as long  *)
(* as the stream is in step, and its own as long as no earlier call on the *)
(* connection has failed.  The first needs to know that the units on their *)
(* way are a stretch of whole answers written one after the other, the     *)
(* last of them cut if the appliance has hung up (InOrder, Complete), and  *)
(* where the stretch begins (InStep); the second, that between calls a     *)
(* trusted stream is empty (Trusted).                                      *)
(***************************************************************************)
EXTENDS HostClient, SequenceTheorems, TLAPS

Size(kind) == HeaderSize + PayloadLen(kind)
Request == [id : Calls, kind : Kinds]

\* Behind every unit of s follows the rest of its answer, and behind that the next one.
InOrder(s) ==
  \A j \in 1..Len(s) :
    /\ \A k \in s[j].i..Size(s[j].kind) :
         j + k - s[j].i <= Len(s) => s[j + k - s[j].i] = [id |-> s[j].id, kind |-> s[j].kind, i |-> k]
    /\ s[j].i = Size(s[j].kind) /\ j < Len(s) => s[j + 1].i = 1

\* The last answer is not cut.
Complete(s) == \A j \in 1..Len(s) : j + Size(s[j].kind) - s[j].i <= Len(s)

Starts(s) == s = <<>> \/ s[1].i = 1

InCall == pc \in {"header", "payload"}

\* The units read and the units on their way.
Flow == got \o stream

Typed == TypeOK /\ call \in [id : 0..MaxCalls, kind : Kinds] /\ (InCall => call.id \in Calls)

Unconnected == conn = "none" => reqs = <<>> /\ stream = <<>> /\ ~InCall

\* The stretch of answers, and where it begins.
InStep == InOrder(Flow) /\ (conn # "dead" => Complete(Flow)) /\ (~torn => Starts(Flow))

Accepted ==
  pc = "payload" =>
    /\ Len(got) >= HeaderSize /\ call.kind # "Ping"
    /\ got[1].i = 1 => got[1].kind = call.kind /\ need = Size(call.kind)

\* Units from the start of the answer to c, perhaps not all of them.
Part(s, c) == Len(s) <= Size(c.kind) /\ \A k \in 1..Len(s) : s[k] = [id |-> c.id, kind |-> c.kind, i |-> k]

\* On a connection where no call has failed.
Trusted ==
  ~tainted =>
    IF InCall THEN \/ reqs = <<call>> /\ Flow = <<>>
                   \/ reqs = <<>> /\ Part(Flow, call)
    ELSE reqs = <<>> /\ stream = <<>>

HostInv ==
  /\ Typed /\ Unconnected /\ InStep /\ Accepted /\ Trusted
  /\ OwnAnswerOnFreshStream /\ NoMixedAnswer

-----------------------------------------------------------------------------
(* Answers and streams. *)

LEMMA Sizes ==
  ASSUME NEW kind \in Kinds
  PROVE  /\ HeaderSize \in Nat /\ HeaderSize > 0
         /\ PayloadLen(kind) \in Nat /\ (kind = "Ping" <=> PayloadLen(kind) = 0)
         /\ Size(kind) \in Nat /\ Size(kind) >= HeaderSize /\ Size(kind) <= HeaderSize + Payload
BY ClientAssumption DEF PayloadLen, Size

LEMMA AnswerUnits ==
  ASSUME NEW r \in Request
  PROVE  /\ Answer(r) \in Seq(Unit) /\ Len(Answer(r)) = Size(r.kind)
         /\ \A k \in 1..Size(r.kind) : Answer(r)[k] = [id |-> r.id, kind |-> r.kind, i |-> k]
<1>1. r.id \in Calls /\ r.kind \in Kinds
  BY DEF Request
<1>2. /\ Size(r.kind) \in Nat /\ Size(r.kind) <= HeaderSize + Payload /\ HeaderSize + Payload \in Int
  BY <1>1, Sizes, ClientAssumption
<1>3. \A k \in 1..Size(r.kind) : [id |-> r.id, kind |-> r.kind, i |-> k] \in Unit
  BY <1>1, <1>2 DEF Unit
<1>4. Answer(r) = [k \in 1..Size(r.kind) |-> [id |-> r.id, kind |-> r.kind, i |-> k]]
  BY DEF Answer, Size
<1>. QED  BY <1>2, <1>3, <1>4

LEMMA Joined ==
  ASSUME NEW s \in Seq(Unit), NEW t \in Seq(Unit)
  PROVE  /\ s \o t \in Seq(Unit)
         /\ Len(s) \in Nat /\ Len(t) \in Nat /\ Len(s \o t) = Len(s) + Len(t)
         /\ \A j \in 1..Len(s) : (s \o t)[j] = s[j]
         /\ \A k \in 1..Len(t) : (s \o t)[Len(s) + k] = t[k]
  OBVIOUS

LEMMA Fields ==
  ASSUME NEW u, NEW id, NEW kind, NEW i, u = [id |-> id, kind |-> kind, i |-> i]
  PROVE  u.id = id /\ u.kind = kind /\ u.i = i
  OBVIOUS

LEMMA UnitFields ==
  ASSUME NEW u \in Unit
  PROVE  u.i \in Nat /\ u.i >= 1 /\ u.kind \in Kinds /\ u.id \in Calls /\ Size(u.kind) \in Nat
<1>1. u.i \in 1..(HeaderSize + Payload) /\ u.kind \in Kinds /\ u.id \in Calls
  BY DEF Unit
<1>. QED  BY <1>1, Sizes, ClientAssumption

\* An answer written behind whole answers.
LEMMA AnswerBehind ==
  ASSUME NEW s \in Seq(Unit), InOrder(s), Complete(s), NEW r \in Request
  PROVE  /\ InOrder(s \o Answer(r)) /\ Complete(s \o Answer(r))
         /\ Starts(s) => Starts(s \o Answer(r))
<1>. DEFINE a == Answer(r)
            t == s \o a
<1>1. /\ a \in Seq(Unit) /\ Len(a) = Size(r.kind) /\ Len(a) \in Nat /\ Len(a) > 0 /\ Len(s) \in Nat
      /\ \A k \in 1..Len(a) : a[k] = [id |-> r.id, kind |-> r.kind, i |-> k]
  BY AnswerUnits, Sizes DEF Request
<1>2. /\ Len(t) = Len(s) + Len(a)
      /\ \A j \in 1..Len(s) : t[j] = s[j]
      /\ \A k \in 1..Len(a) : t[Len(s) + k] = a[k]
  BY <1>1, Joined
<1>. HIDE DEF a, t
<1>3. ASSUME NEW j \in 1..Len(s)
      PROVE  /\ t[j] = s[j] /\ j + Size(t[j].kind) - t[j].i <= Len(s)
             /\ \A k \in t[j].i..Size(t[j].kind) :
                  j + k - t[j].i <= Len(t) => t[j + k - t[j].i] = [id |-> t[j].id, kind |-> t[j].kind, i |-> k]
             /\ t[j].i = Size(t[j].kind) /\ j < Len(t) => t[j + 1].i = 1
  <2>1. t[j] = s[j] /\ s[j] \in Unit
    BY <1>2
  <2>2. s[j].i \in Nat /\ s[j].i >= 1 /\ Size(s[j].kind) \in Nat
    BY <2>1, UnitFields
  <2>3. j + Size(s[j].kind) - s[j].i <= Len(s)
    BY DEF Complete
  <2>4. ASSUME NEW k \in s[j].i..Size(s[j].kind)
        PROVE  t[j + k - s[j].i] = [id |-> s[j].id, kind |-> s[j].kind, i |-> k]
    <3>1. j + k - s[j].i \in 1..Len(s)
      BY <1>1, <2>2, <2>3
    <3>. QED  BY <1>2, <3>1 DEF InOrder
  <2>5. ASSUME s[j].i = Size(s[j].kind)
        PROVE  t[j + 1].i = 1
    <3>1. CASE j < Len(s)
      <4>1. s[j + 1].i = 1 /\ j + 1 \in 1..Len(s)
        BY <1>1, <2>5, <3>1 DEF InOrder
      <4>. QED  BY <1>2, <4>1
    <3>2. CASE j = Len(s)
      <4>1. t[Len(s) + 1] = a[1] /\ a[1].i = 1
        BY <1>1, <1>2
      <4>. QED  BY <3>2, <4>1
    <3>. QED  BY <1>1, <3>1, <3>2
  <2>. QED  BY <2>1, <2>3, <2>4, <2>5
<1>4. ASSUME NEW j \in 1..Len(t), j > Len(s)
      PROVE  /\ j + Size(t[j].kind) - t[j].i = Len(t)
             /\ \A k \in t[j].i..Size(t[j].kind) : t[j + k - t[j].i] = [id |-> t[j].id, kind |-> t[j].kind, i |-> k]
             /\ ~(t[j].i = Size(t[j].kind) /\ j < Len(t))
  <2>1. PICK m \in 1..Len(a) : j = Len(s) + m
    <3>1. j - Len(s) \in 1..Len(a) /\ j = Len(s) + (j - Len(s))
      BY <1>1, <1>2, <1>4
    <3>. QED  BY <3>1
  <2>2. t[j] = [id |-> r.id, kind |-> r.kind, i |-> m]
    BY <1>1, <1>2, <2>1
  <2>3. j + Size(t[j].kind) - t[j].i = Len(t) /\ ~(t[j].i = Size(t[j].kind) /\ j < Len(t))
    BY <1>1, <1>2, <2>1, <2>2
  <2>4. ASSUME NEW k \in t[j].i..Size(t[j].kind)
        PROVE  t[j + k - t[j].i] = [id |-> r.id, kind |-> r.kind, i |-> k]
    <3>1. j + k - t[j].i = Len(s) + k /\ k \in 1..Len(a)
      BY <1>1, <2>1, <2>2
    <3>. QED  BY <1>1, <1>2, <3>1
  <2>. QED  BY <2>2, <2>3, <2>4
<1>5. Complete(t)
  <2>. SUFFICES ASSUME NEW j \in 1..Len(t) PROVE j + Size(t[j].kind) - t[j].i <= Len(t)
    BY DEF Complete
  <2>1. CASE j <= Len(s)
    <3>1. t[j] \in Unit
      BY <1>1, <1>2, <2>1
    <3>2. t[j].i \in Nat /\ Size(t[j].kind) \in Nat
      BY <3>1, UnitFields
    <3>3. j \in 1..Len(s)
      BY <1>1, <2>1
    <3>. QED  BY <1>1, <1>2, <1>3, <3>2, <3>3
  <2>2. CASE j > Len(s)
    BY <1>1, <1>2, <1>4, <2>2
  <2>. QED  BY <1>1, <1>2, <2>1, <2>2
<1>6. InOrder(t)
  <2>. SUFFICES ASSUME NEW j \in 1..Len(t)
                PROVE  /\ \A k \in t[j].i..Size(t[j].kind) :
                            j + k - t[j].i <= Len(t)
                              => t[j + k - t[j].i] = [id |-> t[j].id, kind |-> t[j].kind, i |-> k]
                       /\ t[j].i = Size(t[j].kind) /\ j < Len(t) => t[j + 1].i = 1
    BY DEF InOrder
  <2>1. CASE j <= Len(s)
    <3>1. j \in 1..Len(s)
      BY <1>1, <2>1
    <3>. QED  BY <1>3, <3>1
  <2>2. CASE j > Len(s)
    BY <1>4, <2>2
  <2>. QED  BY <1>1, <1>2, <2>1, <2>2
<1>7. Starts(s) => Starts(t)
  <2>1. CASE s = <<>>
    <3>1. t[1] = a[1] /\ a[1].i = 1
      BY <1>1, <1>2, <2>1
    <3>. QED  BY <3>1 DEF Starts
  <2>2. CASE s # <<>>
    <3>1. 1 \in 1..Len(s)
      BY <1>1, <2>2
    <3>2. t[1] = s[1]
      BY <1>2, <3>1
    <3>. QED  BY <2>2, <3>2 DEF Starts
  <2>. QED  BY <2>1, <2>2
<1>. QED  BY <1>5, <1>6, <1>7 DEF t, a

\* What is left when the first units are read and forgotten.
LEMMA OrderBehind ==
  ASSUME NEW s \in Seq(Unit), NEW t \in Seq(Unit), InOrder(s \o t)
  PROVE  /\ InOrder(t) /\ (Complete(s \o t) => Complete(t))
         /\ AtEnd(s) /\ Starts(s \o t) => Starts(t)
<1>. DEFINE w == s \o t
<1>1. /\ Len(s) \in Nat /\ Len(t) \in Nat /\ Len(w) = Len(s) + Len(t)
      /\ \A j \in 1..Len(s) : w[j] = s[j]
      /\ \A k \in 1..Len(t) : w[Len(s) + k] = t[k]
  BY Joined
<1>. HIDE DEF w
<1>2. ASSUME NEW j \in 1..Len(t)
      PROVE  /\ w[Len(s) + j] = t[j] /\ Len(s) + j \in 1..Len(w)
             /\ t[j].i \in Nat /\ t[j].i >= 1 /\ Size(t[j].kind) \in Nat
  <2>1. t[j] \in Unit
    OBVIOUS
  <2>. QED  BY <1>1, <2>1, UnitFields
<1>3. Complete(w) => Complete(t)
  <2>. SUFFICES ASSUME Complete(w), NEW j \in 1..Len(t) PROVE j + Size(t[j].kind) - t[j].i <= Len(t)
    BY DEF Complete
  <2>1. (Len(s) + j) + Size(t[j].kind) - t[j].i <= Len(w)
    BY <1>2 DEF Complete
  <2>. QED  BY <1>1, <1>2, <2>1
<1>4. InOrder(t)
  <2>. SUFFICES ASSUME NEW j \in 1..Len(t)
                PROVE  /\ \A k \in t[j].i..Size(t[j].kind) :
                            j + k - t[j].i <= Len(t)
                              => t[j + k - t[j].i] = [id |-> t[j].id, kind |-> t[j].kind, i |-> k]
                       /\ t[j].i = Size(t[j].kind) /\ j < Len(t) => t[j + 1].i = 1
    BY DEF InOrder
  <2>0. /\ \A k \in t[j].i..Size(t[j].kind) :
             (Len(s) + j) + k - t[j].i <= Len(w)
               => w[(Len(s) + j) + k - t[j].i] = [id |-> t[j].id, kind |-> t[j].kind, i |-> k]
        /\ t[j].i = Size(t[j].kind) /\ Len(s) + j < Len(w) => w[(Len(s) + j) + 1].i = 1
    <3>. DEFINE m == Len(s) + j
    <3>1. InOrder(w) /\ m \in 1..Len(w) /\ w[m] = t[j]
      BY <1>2 DEF w
    <3>. HIDE DEF m
    <3>2. /\ \A k \in w[m].i..Size(w[m].kind) :
               m + k - w[m].i <= Len(w) => w[m + k - w[m].i] = [id |-> w[m].id, kind |-> w[m].kind, i |-> k]
          /\ w[m].i = Size(w[m].kind) /\ m < Len(w) => w[m + 1].i = 1
      BY <3>1 DEF InOrder
    <3>. QED  BY <3>1, <3>2 DEF m
  <2>1. ASSUME NEW k \in t[j].i..Size(t[j].kind), j + k - t[j].i <= Len(t)
        PROVE  t[j + k - t[j].i] = [id |-> t[j].id, kind |-> t[j].kind, i |-> k]
    <3>1. j + k - t[j].i \in 1..Len(t) /\ (Len(s) + j) + k - t[j].i = Len(s) + (j + k - t[j].i)
      BY <1>1, <1>2, <2>1
    <3>2. (Len(s) + j) + k - t[j].i <= Len(w)
      BY <1>1, <1>2, <2>1
    <3>3. w[(Len(s) + j) + k - t[j].i] = [id |-> t[j].id, kind |-> t[j].kind, i |-> k]
      BY <2>0, <3>2
    <3>. QED  BY <1>1, <3>1, <3>3
  <2>2. ASSUME t[j].i = Size(t[j].kind), j < Len(t) PROVE t[j + 1].i = 1
    <3>1. Len(s) + j < Len(w) /\ (Len(s) + j) + 1 = Len(s) + (j + 1) /\ j + 1 \in 1..Len(t)
      BY <1>1, <2>2
    <3>. QED  BY <1>1, <2>0, <2>2, <3>1
  <2>. QED  BY <2>1, <2>2
<1>5. AtEnd(s) /\ Starts(w) => Starts(t)
  <2>. SUFFICES ASSUME AtEnd(s), Starts(w), t # <<>> PROVE t[1].i = 1
    BY DEF Starts
  <2>0. Len(t) > 0 /\ 1 \in 1..Len(t) /\ w # <<>>
    BY <1>1
  <2>1. CASE s = <<>>
    BY <1>1, <2>0, <2>1 DEF Starts
  <2>2. CASE s # <<>>
    <3>1. Len(s) \in 1..Len(s) /\ Len(s) \in 1..Len(w) /\ Len(s) < Len(w) /\ w[Len(s)] = s[Len(s)]
      BY <1>1, <2>0, <2>2
    <3>2. s[Len(s)].i = Size(s[Len(s)].kind)
      BY <2>2 DEF AtEnd, Size
    <3>3. InOrder(w)
      BY DEF w
    <3>4. w[Len(s) + 1].i = 1
      BY <3>1, <3>2, <3>3 DEF InOrder
    <3>. QED  BY <1>1, <2>0, <3>4
  <2>. QED  BY <2>1, <2>2
<1>. QED  BY <1>3, <1>4, <1>5 DEF w

\* What is left when the last units are never written.
LEMMA OrderBefore ==
  ASSUME NEW s \in Seq(Unit), InOrder(s), NEW t \in Seq(Unit), Len(t) <= Len(s),
         \A j \in 1..Len(t) : t[j] = s[j]
  PROVE  InOrder(t) /\ (Starts(s) => Starts(t))
<1>0. Len(s) \in Nat /\ Len(t) \in Nat
  OBVIOUS
<1>1. InOrder(t)
  <2>. SUFFICES ASSUME NEW j \in 1..Len(t)
                PROVE  /\ \A k \in t[j].i..Size(t[j].kind) :
                            j + k - t[j].i <= Len(t)
                              => t[j + k - t[j].i] = [id |-> t[j].id, kind |-> t[j].kind, i |-> k]
                       /\ t[j].i = Size(t[j].kind) /\ j < Len(t) => t[j + 1].i = 1
    BY DEF InOrder
  <2>0. t[j] = s[j] /\ s[j] \in Unit /\ j \in 1..Len(s)
    BY <1>0
  <2>1. s[j].i \in Nat /\ s[j].i >= 1 /\ Size(s[j].kind) \in Nat
    BY <2>0, UnitFields
  <2>2. ASSUME NEW k \in s[j].i..Size(s[j].kind), j + k - s[j].i <= Len(t)
        PROVE  t[j + k - s[j].i] = [id |-> s[j].id, kind |-> s[j].kind, i |-> k]
    <3>1. j + k - s[j].i \in 1..Len(t) /\ j + k - s[j].i <= Len(s)
      BY <1>0, <2>1, <2>2
    <3>2. s[j + k - s[j].i] = [id |-> s[j].id, kind |-> s[j].kind, i |-> k]
      BY <2>0, <3>1 DEF InOrder
    <3>. QED  BY <3>1, <3>2
  <2>3. ASSUME s[j].i = Size(s[j].kind), j < Len(t) PROVE t[j + 1].i = 1
    <3>1. s[j + 1].i = 1 /\ j + 1 \in 1..Len(t)
      BY <1>0, <2>0, <2>3 DEF InOrder
    <3>. QED  BY <3>1
  <2>. QED  BY <2>0, <2>2, <2>3
<1>2. Starts(s) => Starts(t)
  <2>. SUFFICES ASSUME Starts(s), t # <<>> PROVE t[1].i = 1
    BY DEF Starts
  <2>1. 1 \in 1..Len(t) /\ s # <<>>
    BY <1>0
  <2>. QED  BY <2>1 DEF Starts
<1>. QED  BY <1>1, <1>2

\* Units read from the start of an answer belong to it, as far as it reaches.
LEMMA OnePiece ==
  ASSUME NEW s \in Seq(Unit), NEW t \in Seq(Unit), InOrder(s \o t), s # <<>>, s[1].i = 1,
         Len(s) <= Size(s[1].kind)
  PROVE  \A k \in 1..Len(s) : s[k] = [id |-> s[1].id, kind |-> s[1].kind, i |-> k]
<1>. DEFINE w == s \o t
<1>1. /\ Len(s) \in Nat /\ Len(t) \in Nat /\ Len(w) = Len(s) + Len(t) /\ Len(s) > 0
      /\ \A k \in 1..Len(s) : w[k] = s[k]
  BY Joined
<1>. HIDE DEF w
<1>2. s[1] \in Unit /\ w[1] = s[1] /\ 1 \in 1..Len(w)
  BY <1>1
<1>3. Size(s[1].kind) \in Nat
  BY <1>2, UnitFields
<1>. SUFFICES ASSUME NEW k \in 1..Len(s)
              PROVE  s[k] = [id |-> s[1].id, kind |-> s[1].kind, i |-> k]
  OBVIOUS
<1>4. k \in w[1].i..Size(w[1].kind) /\ 1 + k - w[1].i = k /\ k <= Len(w)
  BY <1>1, <1>2, <1>3
<1>5. InOrder(w)
  BY DEF w
<1>6. w[1 + k - w[1].i] = [id |-> w[1].id, kind |-> w[1].kind, i |-> k]
  BY <1>2, <1>4, <1>5 DEF InOrder
<1>. QED  BY <1>1, <1>2, <1>4, <1>6

-----------------------------------------------------------------------------
(* The steps. *)

\* A new call finds the stream as it was, whether it fails or not.
LEMMA CallKeeps ==
  ASSUME HostInv, NEW kind \in Kinds, Call(kind)
  PROVE  HostInv'
<1>1. /\ pc = "idle" /\ ~InCall /\ got = <<>> /\ need = HeaderSize /\ calls < MaxCalls /\ calls \in Nat
      /\ call' = [id |-> calls + 1, kind |-> kind] /\ calls' = calls + 1
      /\ got' = <<>> /\ need' = HeaderSize /\ stream' = stream /\ returned' = returned /\ torn' = torn
  BY ClientAssumption DEF HostInv, Typed, TypeOK, InCall, Call, Raise, Over, AtEnd
<1>2. calls + 1 \in Calls /\ calls + 1 \in 0..MaxCalls
  BY <1>1, ClientAssumption DEF Calls
<1>3. call' \in Request /\ call'.id \in Calls /\ call' \in [id : 0..MaxCalls, kind : Kinds]
  BY <1>1, <1>2 DEF Request
<1>4. reqs \in Seq(Request) /\ stream \in Seq(Unit) /\ got \in Seq(Unit)
  BY DEF HostInv, Typed, TypeOK, Request
<1>5. Flow' = Flow /\ Flow = stream
  BY <1>1, <1>4 DEF Flow
<1>6. OwnAnswerOnFreshStream' /\ NoMixedAnswer'
  BY <1>1 DEF HostInv, OwnAnswerOnFreshStream, NoMixedAnswer
<1>7. (conn' = "dead" => conn = "dead") /\ (conn' # "dead" => conn # "dead")
  BY DEF Call
<1>8. InStep'
  BY <1>1, <1>5, <1>7 DEF HostInv, InStep, InOrder, Complete, Starts
<1>9. CASE conn \in {"none", "open"} /\ conn' = "open" /\ reqs' = Append(reqs, call')
           /\ tainted' = (tainted /\ conn = "open") /\ pc' = "header"
  <2>1. Typed'
    <3>1. reqs' \in Seq(Request)
      BY <1>3, <1>4, <1>9
    <3>2. Len(got') <= need' /\ need' \in HeaderSize..(HeaderSize + Payload)
      BY <1>1, ClientAssumption
    <3>3. tainted' \in BOOLEAN
      BY <1>9 DEF HostInv, Typed, TypeOK
    <3>. QED  BY <1>1, <1>2, <1>3, <1>4, <1>9, <3>1, <3>2, <3>3 DEF HostInv, Typed, TypeOK, Request
  <2>2. Unconnected' /\ Accepted'
    BY <1>9 DEF Unconnected, Accepted
  <2>3. Trusted'
    <3>1. SUFFICES ASSUME ~tainted' PROVE reqs' = <<call'>> /\ Flow' = <<>>
      BY <1>9 DEF Trusted, InCall
    <3>2. reqs = <<>> /\ stream = <<>>
      BY <1>1, <1>9, <3>1 DEF HostInv, Trusted, Unconnected
    <3>. QED  BY <1>5, <1>9, <3>2
  <2>. QED  BY <1>6, <1>8, <2>1, <2>2, <2>3 DEF HostInv
<1>10. CASE Raise /\ UNCHANGED <<conn, reqs, stream>>
  <2>1. Typed'
    BY <1>1, <1>2, <1>3, <1>4, <1>10 DEF HostInv, Typed, TypeOK, Raise, Over, InCall
  <2>2. Unconnected' /\ Accepted' /\ Trusted'
    BY <1>1, <1>10 DEF HostInv, Unconnected, Accepted, Trusted, Raise, Over, InCall
  <2>. QED  BY <1>6, <1>8, <2>1, <2>2 DEF HostInv
<1>11. CASE conn = "dead" /\ pc' = "header" /\ UNCHANGED <<conn, reqs, stream, got, need, tainted, torn, returned>>
  <2>1. Typed'
    <3>1. Len(got') <= need'
      BY <1>1, ClientAssumption
    <3>. QED  BY <1>1, <1>2, <1>3, <1>4, <1>11, <3>1 DEF HostInv, Typed, TypeOK
  <2>2. Unconnected' /\ Accepted'
    BY <1>11 DEF Unconnected, Accepted
  <2>3. Trusted'
    <3>1. SUFFICES ASSUME ~tainted PROVE reqs' = <<>> /\ Part(Flow, call)'
      BY <1>11 DEF Trusted, InCall
    <3>2. reqs' = <<>> /\ Flow' = <<>>
      BY <1>1, <1>5, <1>11, <3>1 DEF HostInv, Trusted
    <3>3. Size(kind) \in Nat
      BY Sizes
    <3>. QED  BY <1>1, <3>2, <3>3 DEF Part
  <2>. QED  BY <1>6, <1>8, <2>1, <2>2, <2>3 DEF HostInv
<1>. QED  BY <1>1, <1>9, <1>10, <1>11 DEF Call

\* The appliance answers the oldest request, or drops it.
LEMMA RespondKeeps ==
  ASSUME HostInv, Respond
  PROVE  HostInv'
<1>1. /\ conn = "open" /\ reqs # <<>> /\ reqs' = Tail(reqs)
      /\ stream' \in {stream, stream \o Answer(Head(reqs))}
      /\ UNCHANGED <<conn, pc, call, got, need, calls, tainted, torn, returned>>
  BY DEF Respond
<1>2. /\ reqs \in Seq(Request) /\ stream \in Seq(Unit) /\ got \in Seq(Unit)
      /\ Head(reqs) \in Request /\ Tail(reqs) \in Seq(Request)
  <2>1. reqs \in Seq(Request) /\ stream \in Seq(Unit) /\ got \in Seq(Unit)
    BY DEF HostInv, Typed, TypeOK, Request
  <2>. QED  BY <1>1, <2>1, HeadTailProperties
<1>3. Answer(Head(reqs)) \in Seq(Unit)
  BY <1>2, AnswerUnits
<1>4. /\ Flow \in Seq(Unit) /\ Flow' \in {Flow, Flow \o Answer(Head(reqs))}
      /\ stream' \in Seq(Unit)
  <2>1. Flow \in Seq(Unit) /\ stream \o Answer(Head(reqs)) \in Seq(Unit)
    BY <1>2, <1>3, Joined DEF Flow
  <2>2. got \o (stream \o Answer(Head(reqs))) = (got \o stream) \o Answer(Head(reqs))
    BY <1>2, <1>3, ConcatAssociative, SMTT(30)
  <2>. QED  BY <1>1, <1>2, <2>1, <2>2 DEF Flow
<1>5. InStep'
  <2>1. InOrder(Flow) /\ Complete(Flow) /\ (~torn => Starts(Flow))
    BY <1>1 DEF HostInv, InStep
  <2>2. InOrder(Flow') /\ Complete(Flow') /\ (~torn => Starts(Flow'))
    BY <1>2, <1>4, <2>1, AnswerBehind
  <2>. QED  BY <1>1, <2>2 DEF InStep, InOrder, Complete, Starts
<1>6. Typed'
  BY <1>1, <1>2, <1>4 DEF HostInv, Typed, TypeOK, InCall, Request
<1>7. Unconnected' /\ Accepted' /\ OwnAnswerOnFreshStream' /\ NoMixedAnswer'
  BY <1>1 DEF HostInv, Unconnected, Accepted, OwnAnswerOnFreshStream, NoMixedAnswer
<1>8. Trusted'
  <2>1. SUFFICES ASSUME ~tainted PROVE InCall /\ reqs' = <<>> /\ Part(Flow, call)'
    BY <1>1 DEF Trusted, InCall
  <2>2. InCall /\ reqs = <<call>> /\ Flow = <<>>
    BY <1>1, <2>1 DEF HostInv, Trusted
  <2>3. Head(reqs) = call /\ reqs' = <<>> /\ call \in Request
    BY <1>1, <1>2, <2>2
  <2>4. Flow' \in {<<>>, Answer(call)}
    BY <1>3, <1>4, <2>2, <2>3
  <2>5. Size(call.kind) \in Nat
    BY <2>3, Sizes DEF Request
  <2>6. Part(Flow', call)
    BY <2>3, <2>4, <2>5, AnswerUnits DEF Part
  <2>. QED  BY <1>1, <2>2, <2>3, <2>6 DEF Part
<1>. QED  BY <1>5, <1>6, <1>7, <1>8 DEF HostInv

\* The end of the stream is lost.
LEMMA HangUpKeeps ==
  ASSUME HostInv, HangUp
  PROVE  HostInv'
<1>1. /\ conn = "open" /\ conn' = "dead" /\ reqs' = <<>>
      /\ UNCHANGED <<pc, call, got, need, calls, tainted, torn, returned>>
  BY DEF HangUp
<1>2. stream \in Seq(Unit) /\ got \in Seq(Unit)
  BY DEF HostInv, Typed, TypeOK
<1>3. PICK n \in 0..Len(stream) : stream' = SubSeq(stream, 1, n)
  BY DEF HangUp
<1>4. stream' \in Seq(Unit) /\ Len(stream') = n /\ \A k \in 1..n : stream'[k] = stream[k]
  BY <1>2, <1>3
<1>5. /\ Flow \in Seq(Unit) /\ Flow' \in Seq(Unit) /\ Len(Flow') <= Len(Flow)
      /\ \A j \in 1..Len(Flow') : Flow'[j] = Flow[j]
      /\ (stream = <<>> => stream' = <<>>) /\ (Flow = <<>> => Flow' = <<>>)
  <2>0. Flow' = got \o stream'
    BY <1>1 DEF Flow
  <2>. HIDE <1>3
  <2>1. /\ Flow \in Seq(Unit) /\ Flow' \in Seq(Unit) /\ Len(got) \in Nat /\ n \in Nat /\ Len(stream) \in Nat
        /\ Len(Flow) = Len(got) + Len(stream) /\ Len(Flow') = Len(got) + n /\ n <= Len(stream)
        /\ \A j \in 1..Len(got) : Flow[j] = got[j] /\ Flow'[j] = got[j]
        /\ \A k \in 1..n : Flow[Len(got) + k] = stream[k] /\ Flow'[Len(got) + k] = stream'[k]
    <3>. DEFINE rest == stream'
    <3>1. rest \in Seq(Unit) /\ Len(rest) = n
      BY <1>4
    <3>. HIDE DEF rest
    <3>2. /\ got \o rest \in Seq(Unit) /\ Len(got \o rest) = Len(got) + n
          /\ \A j \in 1..Len(got) : (got \o rest)[j] = got[j]
          /\ \A k \in 1..n : (got \o rest)[Len(got) + k] = rest[k]
      BY <1>2, <3>1, Joined
    <3>3. /\ Flow \in Seq(Unit) /\ Len(Flow) = Len(got) + Len(stream) /\ Len(got) \in Nat /\ Len(stream) \in Nat
          /\ \A j \in 1..Len(got) : Flow[j] = got[j]
          /\ \A k \in 1..Len(stream) : Flow[Len(got) + k] = stream[k]
      BY <1>2, Joined DEF Flow
    <3>. QED  BY <2>0, <3>2, <3>3 DEF rest
  <2>2. ASSUME NEW j \in 1..Len(Flow') PROVE Flow'[j] = Flow[j]
    <3>1. CASE j <= Len(got)
      BY <2>1, <3>1
    <3>2. CASE j > Len(got)
      <4>1. j - Len(got) \in 1..n /\ Len(got) + (j - Len(got)) = j
        BY <2>1, <3>2
      <4>. QED  BY <1>4, <2>1, <4>1
    <3>. QED  BY <2>1, <3>1, <3>2
  <2>3. (stream = <<>> => Len(stream') = 0) /\ (Flow = <<>> => Len(Flow') = 0)
    BY <1>2, <1>4, <2>1
  <2>. QED  BY <1>4, <2>1, <2>2, <2>3
<1>6. InStep'
  <2>1. InOrder(Flow') /\ (~torn => Starts(Flow'))
    BY <1>5, OrderBefore DEF HostInv, InStep
  <2>. QED  BY <1>1, <2>1 DEF InStep, InOrder, Starts
<1>7. Typed'
  <2>1. reqs' \in Seq([id : Calls, kind : Kinds])
    BY <1>1
  <2>. QED  BY <1>1, <1>4, <2>1 DEF HostInv, Typed, TypeOK, InCall
<1>8. Trusted'
  <2>. SUFFICES ASSUME ~tainted
                PROVE  IF InCall THEN Part(Flow', call) ELSE stream' = <<>>
    BY <1>1 DEF Trusted, InCall, Part
  <2>1. CASE InCall
    <3>1. call.kind \in Kinds
      BY DEF HostInv, Typed
    <3>2. Part(Flow, call) \/ Flow' = <<>>
      BY <1>5, <2>1 DEF HostInv, Trusted
    <3>. QED  BY <1>5, <2>1, <3>1, <3>2, Sizes DEF Part
  <2>2. CASE ~InCall
    BY <1>5, <2>2 DEF HostInv, Trusted
  <2>. QED  BY <2>1, <2>2
<1>9. Unconnected' /\ Accepted' /\ OwnAnswerOnFreshStream' /\ NoMixedAnswer'
  BY <1>1 DEF HostInv, Unconnected, Accepted, OwnAnswerOnFreshStream, NoMixedAnswer
<1>. QED  BY <1>6, <1>7, <1>8, <1>9 DEF HostInv

LEMMA RecvKeeps ==
  ASSUME HostInv, Recv
  PROVE  HostInv'
<1>1. /\ InCall /\ Len(got) < need /\ stream # <<>>
      /\ got' = Append(got, Head(stream)) /\ stream' = Tail(stream)
      /\ UNCHANGED <<conn, reqs, pc, call, need, calls, tainted, torn, returned>>
  BY DEF Recv, Reading, InCall
<1>2. stream \in Seq(Unit) /\ got \in Seq(Unit) /\ Head(stream) \in Unit
  BY <1>1 DEF HostInv, Typed, TypeOK
<1>3. /\ stream' \in Seq(Unit) /\ got' \in Seq(Unit) /\ Len(got) \in Nat /\ Len(got') = Len(got) + 1
      /\ (Len(got) > 0 => got'[1] = got[1])
  BY <1>1, <1>2
<1>4. Flow' = Flow
  BY <1>1, <1>2 DEF Flow
<1>5. Accepted'
  BY <1>1, <1>3, ClientAssumption DEF HostInv, Accepted
<1>6. Typed'
  <2>1. need \in Nat
    BY ClientAssumption DEF HostInv, Typed, TypeOK
  <2>2. Len(got') <= need'
    BY <1>1, <1>3, <2>1
  <2>. QED  BY <1>1, <1>3, <2>2 DEF HostInv, Typed, TypeOK, InCall
<1>7. Unconnected' /\ Trusted' /\ OwnAnswerOnFreshStream' /\ NoMixedAnswer'
  BY <1>1, <1>4 DEF HostInv, Unconnected, Trusted, Part, InCall, OwnAnswerOnFreshStream, NoMixedAnswer
<1>8. InStep'
  BY <1>1, <1>4 DEF HostInv, InStep, InOrder, Complete, Starts
<1>. QED  BY <1>5, <1>6, <1>7, <1>8 DEF HostInv

\* The end of a call: what it read is gone, the rest stays on its way.
LEMMA OverKeeps ==
  ASSUME HostInv, Over, UNCHANGED <<conn, reqs, stream, call, calls>>, tainted' \in BOOLEAN
  PROVE  Typed' /\ Unconnected' /\ InStep' /\ Accepted'
<1>1. pc' = "idle" /\ got' = <<>> /\ need' = HeaderSize /\ torn' = (torn \/ ~AtEnd(got)) /\ ~InCall'
  BY DEF Over, InCall
<1>2. stream \in Seq(Unit) /\ got \in Seq(Unit)
  BY DEF HostInv, Typed, TypeOK
<1>3. Flow' = stream
  BY <1>1, <1>2 DEF Flow
<1>4. InStep'
  <2>1. InOrder(stream) /\ (conn # "dead" => Complete(stream)) /\ (~torn' => Starts(stream))
    BY <1>1, <1>2, OrderBehind DEF HostInv, InStep, Flow
  <2>. QED  BY <1>3, <2>1 DEF InStep, InOrder, Complete, Starts
<1>5. Typed'
  <2>1. got' \in Seq(Unit) /\ torn' \in BOOLEAN /\ need' \in HeaderSize..(HeaderSize + Payload)
    BY <1>1, ClientAssumption
  <2>. QED  BY <1>1, <2>1 DEF HostInv, Typed, TypeOK
<1>6. Unconnected' /\ Accepted'
  BY <1>1 DEF HostInv, Unconnected, Accepted
<1>. QED  BY <1>4, <1>5, <1>6

LEMMA RaiseKeeps ==
  ASSUME HostInv, Raise, UNCHANGED <<conn, reqs, stream, call, calls>>
  PROVE  HostInv'
<1>1. Over /\ tainted' = TRUE /\ returned' = returned
  BY DEF Raise
<1>2. Trusted' /\ OwnAnswerOnFreshStream' /\ NoMixedAnswer'
  BY <1>1 DEF HostInv, Trusted, OwnAnswerOnFreshStream, NoMixedAnswer
<1>. QED  BY <1>1, <1>2, OverKeeps DEF HostInv

\* A call that returns after a header that is one has read one whole answer; if the
\* stream could be trusted, this was all there was, and it was its own.
LEMMA ReturnKeeps ==
  ASSUME HostInv, Return, UNCHANGED <<conn, reqs, stream, call, calls>>, InCall, got # <<>>,
         got[1].i = 1 => /\ Len(got) <= Size(got[1].kind)
                         /\ call.kind # "Ping" => got[1].kind = call.kind
                         /\ Len(got) = Size(call.kind)
  PROVE  HostInv'
<1>1. /\ returned' = returned \cup {[call |-> call, units |-> got, tainted |-> tainted, torn |-> torn]}
      /\ Over /\ tainted' = tainted
  BY DEF Return
<1>2. /\ stream \in Seq(Unit) /\ got \in Seq(Unit) /\ call \in Request
      /\ Len(got) \in Nat /\ Len(got) > 0 /\ got[1] \in Unit
  BY DEF HostInv, Typed, TypeOK, Request
<1>3. ASSUME got[1].i = 1
      PROVE  /\ \A k \in 1..Len(got) : got[k] = [id |-> got[1].id, kind |-> got[1].kind, i |-> k]
             /\ call.kind # "Ping" => got = Answer([id |-> got[1].id, kind |-> call.kind])
  <2>1. \A k \in 1..Len(got) : got[k] = [id |-> got[1].id, kind |-> got[1].kind, i |-> k]
    BY <1>2, <1>3, OnePiece DEF HostInv, InStep, Flow
  <2>2. ASSUME call.kind # "Ping"
        PROVE  got = Answer([id |-> got[1].id, kind |-> call.kind])
    <3>. DEFINE r == [id |-> got[1].id, kind |-> call.kind]
    <3>1. r \in Request /\ r.id = got[1].id /\ r.kind = got[1].kind /\ Len(got) = Size(r.kind)
      BY <1>2, <1>3, <2>2, UnitFields DEF Request
    <3>. HIDE DEF r
    <3>2. /\ Answer(r) \in Seq(Unit) /\ Len(Answer(r)) = Len(got)
          /\ \A k \in 1..Len(got) : Answer(r)[k] = got[k]
      <4>1. /\ Answer(r) \in Seq(Unit) /\ Len(Answer(r)) = Len(got)
            /\ \A k \in 1..Len(got) : Answer(r)[k] = [id |-> r.id, kind |-> r.kind, i |-> k]
        BY <3>1, AnswerUnits
      <4>. QED  BY <2>1, <3>1, <4>1
    <3>3. got = Answer(r)
      BY <1>2, <3>2
    <3>. QED  BY <3>3 DEF r
  <2>. QED  BY <2>1, <2>2
<1>4. NoMixedAnswer'
  <2>1. ~torn => got[1].i = 1
    <3>1. 1 \in 1..Len(got) /\ Flow[1] = got[1] /\ Flow # <<>>
      BY <1>2, Joined DEF Flow
    <3>. QED  BY <3>1 DEF HostInv, InStep, Starts
  <2>2. ~torn \/ got[1].i = 1 =>
          /\ \A i \in 1..Len(got) : got[i].i = i /\ got[i].id = got[1].id
          /\ call.kind # "Ping" => got = Answer([id |-> got[1].id, kind |-> call.kind])
    <3>. SUFFICES ASSUME got[1].i = 1
                  PROVE  /\ \A i \in 1..Len(got) : got[i].i = i /\ got[i].id = got[1].id
                         /\ call.kind # "Ping" => got = Answer([id |-> got[1].id, kind |-> call.kind])
      BY <2>1
    <3>1. \A i \in 1..Len(got) : got[i] = [id |-> got[1].id, kind |-> got[1].kind, i |-> i]
      BY <1>3
    <3>2. ASSUME NEW i \in 1..Len(got) PROVE got[i].i = i /\ got[i].id = got[1].id
      <4>1. got[i] = [id |-> got[1].id, kind |-> got[1].kind, i |-> i]
        BY <3>1
      <4>. QED  BY <4>1, Fields
    <3>. QED  BY <1>3, <3>2
  <2>3. \A r \in returned' : r \in returned \/ r = [call |-> call, units |-> got, tainted |-> tainted, torn |-> torn]
    BY <1>1
  <2>. QED  BY <2>2, <2>3 DEF HostInv, NoMixedAnswer
<1>5. ~tainted => reqs = <<>> /\ stream = <<>> /\ got = Answer(call)
  <2>1. SUFFICES ASSUME ~tainted PROVE reqs = <<>> /\ stream = <<>> /\ got = Answer(call)
    OBVIOUS
  <2>2. /\ Flow # <<>> /\ Len(Flow) = Len(got) + Len(stream) /\ Len(stream) \in Nat
        /\ \A k \in 1..Len(got) : Flow[k] = got[k]
    BY <1>2, Joined DEF Flow
  <2>3. reqs = <<>> /\ Part(Flow, call)
    BY <2>1, <2>2 DEF HostInv, Trusted
  <2>4. \A k \in 1..Len(got) : got[k] = [id |-> call.id, kind |-> call.kind, i |-> k]
    BY <2>2, <2>3 DEF Part
  <2>5. Len(got) = Size(call.kind) /\ Size(call.kind) \in Nat
    <3>1. got[1].i = 1
      <4>1. 1 \in 1..Len(got)
        BY <1>2
      <4>2. got[1] = [id |-> call.id, kind |-> call.kind, i |-> 1]
        BY <2>4, <4>1
      <4>. QED  BY <4>2, Fields
    <3>. QED  BY <1>2, <3>1, Sizes DEF Request
  <2>6. Len(stream) = 0
    BY <1>2, <2>2, <2>3, <2>5 DEF Part
  <2>7. stream = <<>>
    BY <1>2, <2>6
  <2>8. /\ Answer(call) \in Seq(Unit) /\ Len(Answer(call)) = Len(got)
        /\ \A k \in 1..Len(got) : Answer(call)[k] = got[k]
    BY <1>2, <2>4, <2>5, AnswerUnits
  <2>9. got = Answer(call)
    BY <1>2, <2>8
  <2>. QED  BY <2>3, <2>7, <2>9
<1>6. OwnAnswerOnFreshStream'
  <2>1. \A r \in returned' : r \in returned \/ r = [call |-> call, units |-> got, tainted |-> tainted, torn |-> torn]
    BY <1>1
  <2>. QED  BY <1>5, <2>1 DEF HostInv, OwnAnswerOnFreshStream
<1>7. Trusted'
  BY <1>1, <1>5 DEF Trusted, InCall, Over
<1>8. tainted' \in BOOLEAN
  BY <1>1 DEF HostInv, Typed, TypeOK
<1>. QED  BY <1>1, <1>4, <1>6, <1>7, <1>8, OverKeeps DEF HostInv

LEMMA HeaderKeeps ==
  ASSUME HostInv, Header
  PROVE  HostInv'
<1>1. /\ pc = "header" /\ InCall /\ Len(got) = HeaderSize /\ got \in Seq(Unit)
      /\ UNCHANGED <<conn, reqs, stream, call, calls>>
  BY DEF Header, InCall, HostInv, Typed, TypeOK
<1>2. got # <<>> /\ got[1] \in Unit /\ got[1].kind \in Kinds /\ call.kind \in Kinds /\ call \in Request
  BY <1>1, ClientAssumption, UnitFields DEF HostInv, Typed, Request
<1>3. CASE Raise
  BY <1>1, <1>3, RaiseKeeps
<1>4. ASSUME NEW h \in ReadsAs(got[1]), Expected(h),
             IF call.kind = "Ping" THEN Return
             ELSE pc' = "payload" /\ need' = HeaderSize + h.len /\ UNCHANGED <<got, tainted, torn, returned>>
      PROVE  HostInv'
  <2>1. h.kind \in Kinds /\ h.len \in 0..Payload /\ (got[1].i = 1 => h.kind = got[1].kind /\ h.len = PayloadLen(h.kind))
    <3>1. CASE got[1].i = 1
      BY <1>2, <1>4, <3>1, ClientAssumption DEF ReadsAs, PayloadLen
    <3>2. CASE got[1].i # 1
      BY <1>4, <3>2 DEF ReadsAs
    <3>. QED  BY <3>1, <3>2
  <2>2. CASE call.kind = "Ping"
    <3>1. HeaderSize = Size(call.kind) /\ HeaderSize <= Size(got[1].kind)
      BY <1>2, <2>2, Sizes DEF Size
    <3>. QED  BY <1>1, <1>2, <1>4, <2>2, <3>1, ReturnKeeps
  <2>3. CASE call.kind # "Ping"
    <3>0. pc' = "payload" /\ need' = HeaderSize + h.len /\ UNCHANGED <<got, tainted, torn, returned>>
      BY <1>4, <2>3
    <3>1. h.kind = call.kind
      BY <1>4, <2>3 DEF Expected
    <3>2. Accepted'
      BY <1>1, <2>1, <2>3, <3>0, <3>1, ClientAssumption DEF Accepted, Size
    <3>3. Typed'
      <4>1. need' \in HeaderSize..(HeaderSize + Payload) /\ Len(got') <= need'
        BY <1>1, <2>1, <3>0, ClientAssumption
      <4>. QED  BY <1>1, <3>0, <4>1 DEF HostInv, Typed, TypeOK, InCall
    <3>4. Unconnected' /\ Trusted' /\ OwnAnswerOnFreshStream' /\ NoMixedAnswer' /\ Flow' = Flow
      BY <1>1, <3>0 DEF HostInv, Unconnected, Trusted, Part, InCall, Flow, OwnAnswerOnFreshStream, NoMixedAnswer
    <3>5. InStep'
      BY <1>1, <3>0, <3>4 DEF HostInv, InStep, InOrder, Complete, Starts
    <3>. QED  BY <3>2, <3>3, <3>4, <3>5 DEF HostInv
  <2>. QED  BY <2>2, <2>3
<1>. QED  BY <1>1, <1>3, <1>4 DEF Header

LEMMA FinishKeeps ==
  ASSUME HostInv, Finish
  PROVE  HostInv'
<1>1. /\ pc = "payload" /\ InCall /\ UNCHANGED <<conn, reqs, stream, call, calls>>
      /\ Len(got) = need /\ (Return \/ Raise)
  BY DEF Finish, InCall
<1>2. /\ got # <<>> /\ call.kind \in Kinds
      /\ got[1].i = 1 => got[1].kind = call.kind /\ Len(got) = Size(call.kind)
  BY <1>1, ClientAssumption DEF HostInv, Accepted, Typed, TypeOK
<1>3. CASE Return
  BY <1>1, <1>2, <1>3, Sizes, ReturnKeeps
<1>4. CASE Raise
  BY <1>1, <1>4, RaiseKeeps
<1>. QED  BY <1>1, <1>3, <1>4

\* resume and shutdown leave no stream behind.
LEMMA StreamGone ==
  ASSUME HostInv, pc = "idle", pc' \in {"idle", "off"}, conn' \in {"open", "none"},
         reqs' = <<>>, stream' = <<>>, tainted' \in BOOLEAN, torn' \in BOOLEAN,
         UNCHANGED <<call, got, need, calls, returned>>
  PROVE  HostInv'
<1>1. got = <<>> /\ got' = <<>> /\ ~InCall'
  BY DEF HostInv, Typed, TypeOK, InCall
<1>2. Flow' = <<>> /\ InStep'
  <2>1. Flow' = <<>>
    BY <1>1 DEF Flow
  <2>. QED  BY <2>1 DEF InStep, InOrder, Complete, Starts
<1>3. Typed'
  BY <1>1 DEF HostInv, Typed, TypeOK, InCall
<1>. QED  BY <1>1, <1>2, <1>3 DEF HostInv, Unconnected, Accepted, Trusted, InCall, OwnAnswerOnFreshStream, NoMixedAnswer

LEMMA HostInductive == HostInv /\ [Next]_vars => HostInv'
<1>. SUFFICES ASSUME HostInv, [Next]_vars PROVE HostInv'
  OBVIOUS
<1>1. CASE Respond \/ HangUp \/ Recv \/ Header \/ Finish
  BY <1>1, RespondKeeps, HangUpKeeps, RecvKeeps, HeaderKeeps, FinishKeeps
<1>2. CASE Ping \/ Exec \/ ReadFile \/ WriteFile \/ GetSymbols \/ GetSlice \/ PatchSymbol \/ CdpAction
  BY <1>2, CallKeeps DEF Kinds, Ping, Exec, ReadFile, WriteFile, GetSymbols, GetSlice, PatchSymbol, CdpAction
<1>3. CASE RecvFails
  BY <1>3, RaiseKeeps DEF RecvFails
<1>4. CASE Resume \/ Shutdown
  <2>1. tainted' \in BOOLEAN /\ torn' \in BOOLEAN
    BY <1>4 DEF Resume, Shutdown, HostInv, Typed, TypeOK
  <2>. QED  BY <1>4, <2>1, StreamGone DEF Resume, Shutdown
<1>5. CASE UNCHANGED vars
  <2>1. UNCHANGED <<conn, reqs, stream, pc, call, got, need, calls, tainted, torn, returned>>
    BY <1>5 DEF vars
  <2>2. Typed' /\ Flow' = Flow
    BY <2>1 DEF HostInv, Typed, TypeOK, InCall, Flow
  <2>3. Unconnected' /\ Accepted' /\ Trusted' /\ OwnAnswerOnFreshStream' /\ NoMixedAnswer'
    BY <2>1, <2>2 DEF HostInv, Unconnected, Accepted, Trusted, Part, InCall, OwnAnswerOnFreshStream, NoMixedAnswer
  <2>4. InStep'
    BY <2>1, <2>2 DEF HostInv, InStep, InOrder, Complete, Starts
  <2>. QED  BY <2>2, <2>3, <2>4 DEF HostInv
<1>. QED  BY <1>1, <1>2, <1>3, <1>4, <1>5 DEF Next, Off

LEMMA HostInitial == Init => HostInv
<1>. SUFFICES ASSUME Init PROVE HostInv
  OBVIOUS
<1>1. Flow = <<>> /\ ~InCall
  BY DEF Init, Flow, InCall
<1>2. Typed
  <2>1. /\ reqs \in Seq([id : Calls, kind : Kinds]) /\ stream \in Seq(Unit) /\ got \in Seq(Unit)
    BY EmptySeq DEF Init
  <2>2. /\ call \in [id : 0..MaxCalls, kind : Kinds] /\ calls \in 0..MaxCalls
        /\ need \in HeaderSize..(HeaderSize + Payload)
    BY ClientAssumption DEF Init, Kinds
  <2>. QED  BY <1>1, <2>1, <2>2 DEF Init, Typed, TypeOK
<1>3. InStep
  BY <1>1 DEF InStep, InOrder, Complete, Starts
<1>. QED  BY <1>1, <1>2, <1>3 DEF Init, HostInv, Unconnected, Accepted, Trusted, OwnAnswerOnFreshStream, NoMixedAnswer

LEMMA HostSafe == Spec => []HostInv
<1>1. HostInv /\ [Next]_vars => HostInv'
  BY HostInductive
<1>. QED  BY <1>1, HostInitial, PTL DEF Spec

-----------------------------------------------------------------------------
(* The driver's variables keep their types; what a call has read never     *)
(* exceeds what its header asks for.                                       *)
THEOREM HostTypes == Spec => []TypeOK
<1>1. HostInv => TypeOK
  BY DEF HostInv, Typed
<1>. QED  BY <1>1, HostSafe, PTL

\* Until a call fails on a connection every call returns exactly the answer to
\* its own request, although the driver compares no request id.
THEOREM FreshStreamOwnAnswer == Spec => []OwnAnswerOnFreshStream
<1>1. HostInv => OwnAnswerOnFreshStream
  BY DEF HostInv
<1>. QED  BY <1>1, HostSafe, PTL

\* What a call returns is one whole answer of the kind it asked for (for a ping the
\* header of one), also after failures and late answers, as long as no call has given
\* up in the middle of an answer, and after that whenever it took a real header.
THEOREM AnswerNeverMixed == Spec => []NoMixedAnswer
<1>1. HostInv => NoMixedAnswer
  BY DEF HostInv
<1>. QED  BY <1>1, HostSafe, PTL

=============================================================================
