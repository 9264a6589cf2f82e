------------------------ MODULE OutputPipelineProofs ------------------------
(***************************************************************************)
(* TLAPS proofs about OutputPipeline and the RingBuffer inside it, for     *)
(* every Capacity and every output.                                        *)
(*                                                                         *)
(* The buffer: its indices stay in the array, and it implements the queue  *)
(* of OutputTail.  The refinement needs the position of the tail: until    *)
(* the buffer is full the head has not moved and the tail follows the      *)
(* size, afterwards they coincide.  The runner uses the buffer only        *)
(* through clear and push_byte, with bytes the pipe can hold, so that all  *)
(* this holds of it inside the runner.                                     *)
(*                                                                         *)
(* The answers: what the command has printed is what the buffer has        *)
(* forgotten, what it holds and what is still in the pipe, one after the   *)
(* other, and the filter, which stands on the ground between commands,     *)
(* reads every whole piece that it knows back to the ground.               *)
(***************************************************************************)
EXTENDS OutputPipeline, SequenceTheorems, WellFoundedInduction, TLAPS

-----------------------------------------------------------------------------
(* The buffer. *)

Wrapped ==
  \/ size < Capacity /\ head = 0 /\ tail = size /\ total = size
  \/ size = Capacity /\ tail = head /\ total >= Capacity

RingInv == RingTypeOK /\ Wrapped

\* The array index of the i-th byte counted from position h.
LEMMA WrapOnce ==
  ASSUME NEW k \in Nat, k < 2 * Capacity
  PROVE  k % Capacity = IF k < Capacity THEN k ELSE k - Capacity
<1>1. Capacity \in Nat /\ Capacity > 0
  BY RingAssumption
<1>2. CASE k < Capacity
  BY <1>1, <1>2
<1>3. CASE k >= Capacity
  BY <1>1, <1>3
<1>. QED  BY <1>1, <1>2, <1>3

LEMMA StepValue ==
  ASSUME NEW i \in Index
  PROVE  Step(i) = (IF i = Capacity - 1 THEN 0 ELSE i + 1) /\ Step(i) \in Index
<1>1. Capacity \in Nat /\ Capacity > 0 /\ i \in Nat /\ i < Capacity
  BY RingAssumption DEF Index
<1>2. i + 1 \in Nat /\ (i + 1 < 2 * Capacity \/ Capacity = 1)
  BY <1>1
<1>3. CASE i + 1 < 2 * Capacity
  BY <1>1, <1>3, WrapOnce DEF Step, Index
<1>4. CASE Capacity = 1
  BY <1>1, <1>4 DEF Step, Index
<1>. QED  BY <1>2, <1>3, <1>4

LEMMA RingInductive == RingInv /\ [RingNext]_ringVars => RingInv'
<1>. SUFFICES ASSUME RingInv, [RingNext]_ringVars PROVE RingInv'
  OBVIOUS
<1>. USE RingAssumption DEF RingInv, RingTypeOK, Wrapped
<1>1. CASE Clear
  BY <1>1, EmptySeq DEF Clear, Index
<1>2. ASSUME NEW b \in Byte, Push(b)  PROVE RingInv'
  <2>1. Step(tail) \in Index /\ Step(head) \in Index
    BY StepValue
  <2>3. storage' \in [Index -> Byte] /\ total' \in Nat /\ tail' = Step(tail)
    BY <1>2 DEF Push
  <2>4. CASE size < Capacity
    <3>1. size' = size + 1 /\ head' = 0 /\ total' = size + 1 /\ tail = size
      BY <1>2, <2>4 DEF Push
    <3>2. tail' = IF size = Capacity - 1 THEN 0 ELSE size + 1
      BY <2>3, <3>1, StepValue
    <3>. QED  BY <2>1, <2>3, <2>4, <3>1, <3>2 DEF Index
  <2>5. CASE size = Capacity
    <3>1. size' = size /\ head' = Step(head) /\ total' = total + 1 /\ tail = head
      BY <1>2, <2>5 DEF Push
    <3>. QED  BY <2>1, <2>3, <2>5, <3>1
  <2>. QED  BY <2>4, <2>5
<1>3. CASE UNCHANGED ringVars
  BY <1>3 DEF ringVars
<1>. QED  BY <1>1, <1>2, <1>3 DEF RingNext

LEMMA RingInvariance == RingSpec => []RingInv
<1>1. RingInit => RingInv
  BY RingAssumption, EmptySeq DEF RingInit, RingInv, RingTypeOK, Wrapped, Index
<1>. QED  BY <1>1, RingInductive, PTL DEF RingSpec

\* No write leaves the array: head_ and tail_ are always indices of storage_, and
\* size_ never exceeds the capacity.
THEOREM RingTypeCorrect == RingSpec => []RingTypeOK
<1>1. RingInv => RingTypeOK
  BY DEF RingInv
<1>. QED  BY <1>1, RingInvariance, PTL

-----------------------------------------------------------------------------
(* What is read back. *)

\* The array index of the i-th byte in order.
LEMMA Position ==
  ASSUME NEW h \in Index, NEW i \in 1..Capacity
  PROVE  /\ (h + i - 1) % Capacity \in Index
         /\ (h + i - 1) % Capacity = IF h + i - 1 < Capacity THEN h + i - 1 ELSE h + i - 1 - Capacity
<1>1. Capacity \in Nat /\ Capacity > 0 /\ h \in Nat /\ h < Capacity /\ i \in Nat /\ i >= 1 /\ i <= Capacity
  BY RingAssumption DEF Index
<1>2. PICK k \in Nat : k = h + i - 1 /\ k < 2 * Capacity
  BY <1>1
<1>3. k % Capacity = IF k < Capacity THEN k ELSE k - Capacity
  BY <1>2, WrapOnce
<1>. QED  BY <1>1, <1>2, <1>3 DEF Index

LEMMA LinearIsSeq ==
  ASSUME RingInv
  PROVE  Linear \in Seq(Byte) /\ Len(Linear) = size /\ DOMAIN Linear = 1..size
<1>. USE RingAssumption DEF RingInv, RingTypeOK
<1>1. \A i \in 1..size : i \in 1..Capacity
  OBVIOUS
<1>2. \A i \in 1..size : (head + i - 1) % Capacity \in Index
  BY <1>1, Position
<1>3. \A i \in 1..size : storage[(head + i - 1) % Capacity] \in Byte
  BY <1>2
<1>4. Linear \in Seq(Byte)
  BY <1>3, IsASeq DEF Linear
<1>5. DOMAIN Linear = 1..size
  BY DEF Linear
<1>. QED  BY <1>4, <1>5, LenProperties

\* Until the buffer is full a push appends to what is read back.
LEMMA PushAppends ==
  ASSUME RingInv, NEW b \in Byte, Push(b), size < Capacity
  PROVE  Linear' = Append(Linear, b)
<1>. USE RingAssumption DEF RingInv, RingTypeOK, Wrapped
<1>1. head = 0 /\ tail = size /\ size' = size + 1 /\ head' = 0
  BY DEF Push
<1>2. storage' = [storage EXCEPT ![size] = b] /\ size \in Index
  BY <1>1 DEF Push, Index
<1>3. \A i \in 1..(size + 1) : (0 + i - 1) % Capacity = i - 1 /\ i - 1 \in Index
  <2>. TAKE i \in 1..(size + 1)
  <2>1. i \in 1..Capacity /\ 0 \in Index
    BY DEF Index
  <2>. QED  BY <2>1, Position DEF Index
<1>4. Linear = [i \in 1..size |-> storage[i - 1]]
  BY <1>1, <1>3 DEF Linear
<1>5. Linear' = [i \in 1..(size + 1) |-> storage'[i - 1]]
  BY <1>1, <1>3 DEF Linear
<1>6. \A i \in 1..(size + 1) : storage'[i - 1] = IF i = size + 1 THEN b ELSE storage[i - 1]
  BY <1>2, <1>3
<1>7. Len(Linear) = size /\ Linear \in Seq(Byte)
  BY LinearIsSeq
<1>8. Append(Linear, b) \in Seq(Byte) /\ Len(Append(Linear, b)) = size + 1
  BY <1>7, AppendProperties
<1>9. \A i \in 1..(size + 1) : Append(Linear, b)[i] = IF i = size + 1 THEN b ELSE storage[i - 1]
  BY <1>4, <1>7, AppendProperties
<1>10. Append(Linear, b) = [i \in 1..(size + 1) |-> Append(Linear, b)[i]]
  BY <1>8, LenProperties
<1>. QED  BY <1>5, <1>6, <1>9, <1>10

\* Once it is full a push drops the oldest byte read back.
LEMMA PushDrops ==
  ASSUME RingInv, NEW b \in Byte, Push(b), size = Capacity
  PROVE  Linear' = Append(Tail(Linear), b)
<1>. USE RingAssumption DEF RingInv, RingTypeOK, Wrapped
<1>1. tail = head /\ size' = Capacity /\ head' = Step(head) /\ head' \in Index
  BY StepValue DEF Push
<1>2. storage' = [storage EXCEPT ![head] = b]
  BY <1>1 DEF Push
<1>3. \A i \in 1..Capacity :
        storage'[(head' + i - 1) % Capacity]
          = IF i = Capacity THEN b ELSE storage[(head + (i + 1) - 1) % Capacity]
  <2>. TAKE i \in 1..Capacity
  <2>1. head' = IF head = Capacity - 1 THEN 0 ELSE head + 1
    BY <1>1, StepValue
  <2>2. (head' + i - 1) % Capacity \in Index
        /\ (head' + i - 1) % Capacity
             = IF head' + i - 1 < Capacity THEN head' + i - 1 ELSE head' + i - 1 - Capacity
    BY <1>1, Position
  <2>3. CASE i = Capacity
    <3>1. (head' + i - 1) % Capacity = head
      BY <2>1, <2>2, <2>3 DEF Index
    <3>. QED  BY <1>2, <2>3, <3>1
  <2>4. CASE i # Capacity
    <3>1. i + 1 \in 1..Capacity
      BY <2>4
    <3>2. (head + (i + 1) - 1) % Capacity
            = IF head + (i + 1) - 1 < Capacity THEN head + (i + 1) - 1 ELSE head + (i + 1) - 1 - Capacity
      BY <3>1, Position
    <3>3. (head' + i - 1) % Capacity = (head + (i + 1) - 1) % Capacity
      BY <2>1, <2>2, <2>4, <3>2 DEF Index
    <3>4. (head' + i - 1) % Capacity # head
      BY <2>1, <2>2, <2>4 DEF Index
    <3>. QED  BY <1>2, <2>2, <2>4, <3>3, <3>4
  <2>. QED  BY <2>3, <2>4
<1>4. Linear' = [i \in 1..Capacity |-> storage'[(head' + i - 1) % Capacity]]
  BY <1>1 DEF Linear
<1>5. Linear = [i \in 1..Capacity |-> storage[(head + i - 1) % Capacity]]
  BY DEF Linear
<1>6. Linear \in Seq(Byte) /\ Len(Linear) = Capacity /\ Linear # <<>>
  BY LinearIsSeq, EmptySeq
<1>7. /\ Tail(Linear) \in Seq(Byte) /\ Len(Tail(Linear)) = Capacity - 1
      /\ \A i \in 1..(Capacity - 1) : Tail(Linear)[i] = Linear[i + 1]
  BY <1>6, HeadTailProperties
<1>8. Append(Tail(Linear), b) \in Seq(Byte) /\ Len(Append(Tail(Linear), b)) = Capacity
  BY <1>7, AppendProperties
<1>9. \A i \in 1..Capacity :
        Append(Tail(Linear), b)[i]
          = IF i = Capacity THEN b ELSE storage[(head + (i + 1) - 1) % Capacity]
  <2>. TAKE i \in 1..Capacity
  <2>1. CASE i = Capacity
    BY <1>7, <2>1, AppendProperties
  <2>2. CASE i # Capacity
    <3>1. i \in 1..(Capacity - 1) /\ i + 1 \in 1..Capacity
      BY <2>2
    <3>2. Append(Tail(Linear), b)[i] = Linear[i + 1]
      BY <1>7, <3>1, AppendProperties
    <3>. QED  BY <1>5, <2>2, <3>1, <3>2
  <2>. QED  BY <2>1, <2>2
<1>10. Append(Tail(Linear), b) = [i \in 1..Capacity |-> Append(Tail(Linear), b)[i]]
  BY <1>8, LenProperties
<1>. QED  BY <1>3, <1>4, <1>9, <1>10

-----------------------------------------------------------------------------

\* The circular buffer implements the queue that keeps the latest Capacity bytes:
\* every push is one Keep or one DropOldest, whatever the wrap-around.
THEOREM RingImplementsTail == RingSpec => ImplementsTail
<1>. USE RingAssumption
<1>1. RingInit => Promise!Init
  <2>. SUFFICES ASSUME RingInit PROVE Promise!Init
    OBVIOUS
  <2>1. size = 0 /\ total = 0
    BY DEF RingInit
  <2>2. Linear = <<>>
    BY <2>1 DEF Linear
  <2>. QED  BY <2>1, <2>2 DEF Promise!Init, DroppedBytes, IsTruncated
<1>2. RingInv /\ RingInv' /\ [RingNext]_ringVars => [Promise!Next]_<<Linear, DroppedBytes>>
  <2>. SUFFICES ASSUME RingInv, RingInv', [RingNext]_ringVars
       PROVE  [Promise!Next]_<<Linear, DroppedBytes>>
    OBVIOUS
  <2>1. CASE Clear
    <3>1. size' = 0 /\ total' = 0
      BY <2>1 DEF Clear
    <3>2. Linear' = <<>> /\ DroppedBytes' = 0
      BY <3>1 DEF Linear, DroppedBytes, IsTruncated
    <3>. QED  BY <3>2 DEF Promise!Next, Promise!Clear
  <2>2. ASSUME NEW b \in Byte, Push(b)  PROVE Promise!Next
    <3>1. Len(Linear) = size
      BY LinearIsSeq
    <3>2. CASE size < Capacity
      <4>1. Linear' = Append(Linear, b)
        BY <2>2, <3>2, PushAppends
      <4>2. DroppedBytes' = DroppedBytes
        BY <2>2, <3>2 DEF Push, DroppedBytes, IsTruncated, RingInv, RingTypeOK, Wrapped
      <4>. QED  BY <3>1, <3>2, <4>1, <4>2 DEF Promise!Next, Promise!Keep
    <3>3. CASE size = Capacity
      <4>1. Linear' = Append(Tail(Linear), b)
        BY <2>2, <3>3, PushDrops
      <4>2. DroppedBytes' = DroppedBytes + 1
        BY <2>2, <3>3 DEF Push, DroppedBytes, IsTruncated, RingInv, RingTypeOK, Wrapped
      <4>. QED  BY <3>1, <3>3, <4>1, <4>2 DEF Promise!Next, Promise!DropOldest
    <3>. QED  BY <3>2, <3>3 DEF RingInv, Wrapped
  <2>3. CASE UNCHANGED ringVars
    BY <2>3 DEF ringVars, Linear, DroppedBytes, IsTruncated
  <2>. QED  BY <2>1, <2>2, <2>3 DEF RingNext
<1>. QED  BY <1>1, <1>2, RingInvariance, PTL DEF RingSpec, ImplementsTail, Promise!Spec

-----------------------------------------------------------------------------
(* The buffer inside the runner. *)

\* What the pipe holds are bytes.
PipeOfBytes == unread \in Seq(Byte) /\ pieces \in Seq(Pieces)

LEMMA PieceIsSeq == ASSUME NEW p \in Pieces  PROVE p \in Seq(Byte)
  BY PipelineAssumption

LEMMA PartOfPiece ==
  ASSUME NEW p \in Pieces, NEW n \in 0..(Len(p) - 1)
  PROVE  SubSeq(p, 1, n) \in Seq(Byte)
<1>1. p \in Seq(Byte) /\ Len(p) \in Nat /\ n \in Nat /\ n <= Len(p)
  BY PieceIsSeq, LenProperties
<1>2. \A i \in 1..n : p[i] \in Byte
  BY <1>1, ElementOfSeq
<1>. QED  BY <1>1, <1>2, SubSeqProperties

LEMMA PipeInductive == PipeOfBytes /\ [Next]_vars => PipeOfBytes'
<1>. SUFFICES ASSUME PipeOfBytes, [Next]_vars PROVE PipeOfBytes'
  OBVIOUS
<1>. USE DEF PipeOfBytes
<1>1. CASE Start
  BY <1>1, EmptySeq DEF Start
<1>2. ASSUME NEW p \in Pieces, Prints(p)  PROVE PipeOfBytes'
  BY <1>2, PieceIsSeq, AppendProperties, ConcatProperties DEF Prints
<1>3. CASE Ends
  BY <1>3, PartOfPiece, ConcatProperties DEF Ends
<1>4. CASE Drain
  BY <1>4, HeadTailProperties DEF Drain
<1>5. CASE Deliver \/ Finished \/ UNCHANGED vars
  BY <1>5 DEF Deliver, Finished, vars, pipeVars
<1>. QED  BY <1>1, <1>2, <1>3, <1>4, <1>5 DEF Next

\* In the runner the ring buffer is used as the class allows: every step of run
\* clears it, pushes one byte, or leaves it alone.
THEOREM RunnerUsesRing == Spec => RingSpec
<1>1. Init => RingInit /\ PipeOfBytes
  BY EmptySeq DEF Init, PipeOfBytes
<1>2. PipeOfBytes /\ [Next]_vars => [RingNext]_ringVars
  <2>. SUFFICES ASSUME PipeOfBytes, [Next]_vars PROVE [RingNext]_ringVars
    OBVIOUS
  <2>1. CASE Start
    BY <2>1 DEF Start, RingNext
  <2>2. CASE Drain
    <3>1. Head(unread) \in Byte
      BY <2>2, HeadTailProperties DEF Drain, PipeOfBytes
    <3>. QED  BY <2>2, <3>1 DEF Drain, RingNext
  <2>3. ASSUME NEW p \in Pieces, Prints(p)  PROVE UNCHANGED ringVars
    BY <2>3 DEF Prints
  <2>4. CASE Ends \/ Deliver \/ Finished \/ UNCHANGED vars
    BY <2>4 DEF Ends, Deliver, Finished, vars
  <2>. QED  BY <2>1, <2>2, <2>3, <2>4 DEF Next
<1>. QED  BY <1>1, <1>2, PipeInductive, PTL DEF Spec, RingSpec

\* Whatever commands print and however they end, what run can read back from the
\* ring buffer is the latest output of the command, and it knows how much is lost.
THEOREM OutputImplementsTail == Spec => ImplementsTail
  BY RunnerUsesRing, RingImplementsTail, PTL

\* No output of any command makes a write leave the array of the ring buffer.
THEOREM OutputStaysInArray == Spec => []RingTypeOK
  BY RunnerUsesRing, RingTypeCorrect, PTL

-----------------------------------------------------------------------------
(* Recursive definitions over sequences.  The theorems of the library take *)
(* operators as parameters; these take the set of numbers, or the function *)
(* that makes a step, instead.                                             *)

LEMMA Induction ==
  ASSUME NEW T \in SUBSET Nat, 0 \in T, \A k \in T : k + 1 \in T
  PROVE  Nat \subseteq T
<1>. DEFINE Less == OpToRel(<, Nat)
            Rest == Nat \ T
<1>1. \A a, b \in Nat : a < b => <<a, b>> \in Less
  BY DEF OpToRel
<1>2. IsWellFoundedOn(Less, Nat)
  BY NatLessThanWellFounded
<1>. SUFFICES ASSUME Rest # {}  PROVE FALSE
  OBVIOUS
<1>3. Rest \subseteq Nat
  OBVIOUS
<1>. HIDE DEF Less
<1>4. PICK x \in Rest : \A y \in Rest : ~ (<<y, x>> \in Less)
  BY <1>2, <1>3, WFMin
<1>5. x \in Nat /\ x # 0 /\ x - 1 \in Nat /\ x - 1 < x /\ (x - 1) + 1 = x
  BY <1>4
<1>6. x - 1 \in T
  BY <1>1, <1>4, <1>5
<1>. QED  BY <1>4, <1>5, <1>6

LEMMA MaxOf ==
  ASSUME NEW n \in Nat, NEW s \in SUBSET (1..n), s # {}
  PROVE  Max(s) \in s /\ \A y \in s : y <= Max(s)
<1>. DEFINE T == {m \in Nat : \A q \in SUBSET (1..m) : q # {} => \E x \in q : \A y \in q : x >= y}
<1>1. 0 \in T
  <2>1. \A q \in SUBSET (1..0) : q = {}
    OBVIOUS
  <2>. QED  BY <2>1
<1>2. ASSUME NEW k \in T  PROVE k + 1 \in T
  <2>. SUFFICES ASSUME NEW q \in SUBSET (1..(k + 1)), q # {}  PROVE \E x \in q : \A y \in q : x >= y
    OBVIOUS
  <2>1. CASE k + 1 \in q
    BY <2>1
  <2>2. CASE k + 1 \notin q
    <3>1. q \in SUBSET (1..k)
      BY <2>2
    <3>. QED  BY <3>1
  <2>. QED  BY <2>1, <2>2
<1>. HIDE DEF T
<1>3. n \in T
  <2>1. T \in SUBSET Nat
    BY DEF T
  <2>. QED  BY <1>1, <1>2, <2>1, Induction
<1>4. \E x \in s : \A y \in s : x >= y
  BY <1>3 DEF T
<1>. QED  BY <1>4 DEF Max

LEMMA UpTo ==
  ASSUME NEW n \in Nat, NEW i \in 1..n
  PROVE  /\ 1..i \in SUBSET (1..n) /\ 1..i # {} /\ i \in 0..n /\ i - 1 \in 0..n /\ i \in Nat
         /\ Max(1..i) = i /\ (1..i) \ {i} = 1..(i - 1)
<1>1. 1..i \in SUBSET (1..n) /\ 1..i # {} /\ i \in 0..n /\ i - 1 \in 0..n /\ i \in Nat
  OBVIOUS
<1>2. PICK m : m = Max(1..i)
  OBVIOUS
<1>3. m \in 1..i /\ \A y \in 1..i : y <= m
  BY <1>1, <1>2, MaxOf
<1>4. m = i /\ (1..i) \ {i} = 1..(i - 1)
  BY <1>1, <1>3
<1>. QED  BY <1>1, <1>2, <1>4

\* g iterates h over the numbers of a set of 1..n, in ascending order.
Iterates(g, n, D, base, h) ==
  /\ g \in [SUBSET (1..n) -> D]
  /\ g[{}] = base
  /\ \A s \in SUBSET (1..n) : s # {} => g[s] = h[<<Max(s), g[s \ {Max(s)}]>>]

LEMMA IterationExists ==
  ASSUME NEW n \in Nat, NEW D, NEW base \in D, NEW h \in [(1..n) \X D -> D]
  PROVE  \E g : Iterates(g, n, D, base, h)
<1>. DEFINE T == {m \in Nat : m <= n => \E g : Iterates(g, m, D, base, h)}
<1>1. 0 \in T
  <2>. DEFINE g == [s \in SUBSET (1..0) |-> base]
  <2>1. \A s \in SUBSET (1..0) : s = {}
    OBVIOUS
  <2>2. Iterates(g, 0, D, base, h)
    BY <2>1 DEF Iterates
  <2>. QED  BY <2>2
<1>2. ASSUME NEW k \in T  PROVE k + 1 \in T
  <2>. SUFFICES ASSUME k + 1 <= n  PROVE \E g : Iterates(g, k + 1, D, base, h)
    OBVIOUS
  <2>0. k \in Nat /\ k + 1 \in Nat
    OBVIOUS
  <2>1. PICK f : Iterates(f, k, D, base, h)
    BY <1>2
  <2>. HIDE DEF T
  <2>. DEFINE g == [s \in SUBSET (1..(k + 1)) |->
                      IF k + 1 \in s THEN h[<<k + 1, f[s \ {k + 1}]>>] ELSE f[s]]
  <2>2. \A s \in SUBSET (1..(k + 1)) : s \ {k + 1} \in SUBSET (1..k) /\ (k + 1 \notin s => s \in SUBSET (1..k))
    BY <2>0
  <2>3. \A s \in SUBSET (1..k) : f[s] \in D /\ s \in SUBSET (1..(k + 1)) /\ g[s] = f[s]
    <3>. SUFFICES ASSUME NEW s \in SUBSET (1..k)  PROVE f[s] \in D /\ s \in SUBSET (1..(k + 1)) /\ g[s] = f[s]
      OBVIOUS
    <3>1. s \in SUBSET (1..(k + 1)) /\ k + 1 \notin s
      BY <2>0
    <3>. QED  BY <2>1, <3>1 DEF Iterates
  <2>4. g \in [SUBSET (1..(k + 1)) -> D]
    <3>1. \A s \in SUBSET (1..(k + 1)) : f[s \ {k + 1}] \in D /\ (k + 1 \notin s => f[s] \in D)
      BY <2>2, <2>3
    <3>2. k + 1 \in 1..n
      BY <2>0
    <3>. QED  BY <3>1, <3>2
  <2>5. g[{}] = base
    BY <2>1, <2>3 DEF Iterates
  <2>6. ASSUME NEW s \in SUBSET (1..(k + 1)), s # {}
        PROVE  g[s] = h[<<Max(s), g[s \ {Max(s)}]>>]
    <3>1. Max(s) \in s /\ \A y \in s : y <= Max(s)
      BY <2>0, <2>6, MaxOf
    <3>2. CASE k + 1 \in s
      <4>1. Max(s) = k + 1
        <5>1. PICK m : m = Max(s)
          OBVIOUS
        <5>2. m \in 1..(k + 1) /\ k + 1 <= m
          BY <3>1, <3>2, <5>1
        <5>. QED  BY <2>0, <5>1, <5>2
      <4>. QED  BY <2>2, <2>3, <3>2, <4>1
    <3>3. CASE k + 1 \notin s
      <4>1. s \in SUBSET (1..k) /\ s \ {Max(s)} \in SUBSET (1..k)
        BY <2>2, <3>3
      <4>2. f[s] = h[<<Max(s), f[s \ {Max(s)}]>>]
        BY <2>1, <2>6, <4>1 DEF Iterates
      <4>. QED  BY <2>3, <4>1, <4>2
    <3>. QED  BY <3>2, <3>3
  <2>. HIDE DEF g
  <2>7. Iterates(g, k + 1, D, base, h)
    BY <2>4, <2>5, <2>6 DEF Iterates
  <2>. QED  BY <2>7
<1>. HIDE DEF T
<1>3. T \in SUBSET Nat
  BY DEF T
<1>4. n \in T
  BY <1>1, <1>2, <1>3, Induction
<1>. QED  BY <1>4 DEF T

\* f[i] is what h makes of f[i - 1] and i.
Recurses(f, n, D, base, h) ==
  /\ f \in [0..n -> D]
  /\ f[0] = base
  /\ \A i \in 1..n : f[i] = h[<<i, f[i - 1]>>]

LEMMA RecursionExists ==
  ASSUME NEW n \in Nat, NEW D, NEW base \in D, NEW h \in [(1..n) \X D -> D]
  PROVE  \E f : Recurses(f, n, D, base, h)
<1>. PICK g : Iterates(g, n, D, base, h)
  BY IterationExists
<1>. DEFINE f == [i \in 0..n |-> g[1..i]]
<1>1. \A i \in 0..n : 1..i \in SUBSET (1..n)
  OBVIOUS
<1>2. f \in [0..n -> D]
  BY <1>1 DEF Iterates
<1>3. 1..0 = {}
  OBVIOUS
<1>4. f[0] = base
  BY <1>3 DEF Iterates
<1>5. ASSUME NEW i \in 1..n  PROVE f[i] = h[<<i, f[i - 1]>>]
  <2>1. g[1..i] = h[<<i, g[1..(i - 1)]>>]
    BY UpTo DEF Iterates
  <2>. QED  BY <2>1, UpTo
<1>. HIDE DEF f
<1>6. Recurses(f, n, D, base, h)
  BY <1>2, <1>4, <1>5 DEF Recurses
<1>. QED  BY <1>6

-----------------------------------------------------------------------------
(* FlattenSeq, by the last element. *)

\* The sequences that FlattenSeq goes through.
Flattens(f, u) == f[0] = <<>> /\ \A i \in 1..Len(u) : f[i] = f[i - 1] \o u[i]

LEMMA FlattensExists ==
  ASSUME NEW u \in Seq(Seq(Byte))
  PROVE  \E f : Flattens(f, u) /\ \A i \in 0..Len(u) : f[i] \in Seq(Byte)
<1>. PICK D : D = Seq(Byte)
  OBVIOUS
<1>. DEFINE n == Len(u)
            h == [x \in (1..n) \X D |-> x[2] \o u[x[1]]]
<1>1. n \in Nat /\ \A i \in 1..n : u[i] \in D
  BY LenProperties, ElementOfSeq
<1>2. h \in [(1..n) \X D -> D]
  <2>1. \A x \in (1..n) \X D : x[2] \o u[x[1]] \in D
    BY <1>1, ConcatProperties
  <2>. QED  BY <2>1
<1>3. \A i \in 1..n, v \in D : h[<<i, v>>] = v \o u[i]
  OBVIOUS
<1>4. <<>> \in D
  BY EmptySeq
<1>. HIDE DEF n, h
<1>5. PICK f : Recurses(f, n, D, <<>>, h)
  BY <1>1, <1>2, <1>4, RecursionExists
<1>6. f \in [0..n -> D] /\ f[0] = <<>> /\ \A i \in 1..n : f[i] = h[<<i, f[i - 1]>>]
  BY <1>5 DEF Recurses
<1>7. ASSUME NEW i \in 1..n  PROVE f[i] = f[i - 1] \o u[i]
  <2>1. i - 1 \in 0..n
    BY <1>1
  <2>2. f[i - 1] \in D
    BY <1>6, <2>1
  <2>. QED  BY <1>3, <1>6, <2>2
<1>8. Flattens(f, u)
  BY <1>6, <1>7 DEF Flattens, n
<1>9. \A i \in 0..Len(u) : f[i] \in Seq(Byte)
  BY <1>6 DEF n
<1>. QED  BY <1>8, <1>9

Agree(u, v, n) ==
  /\ n \in Nat /\ {Len(u), Len(v)} \subseteq Nat
  /\ n <= Len(u) /\ n <= Len(v)
  /\ \A i \in 1..n : u[i] = v[i]

LEMMA FlattensUnique ==
  ASSUME NEW u, NEW f, Flattens(f, u), NEW v, NEW g, Flattens(g, v), NEW n, Agree(u, v, n)
  PROVE  f[n] = g[n]
<1>. USE DEF Agree
<1>. DEFINE T == {m \in Nat : m <= n => f[m] = g[m]}
<1>1. 0 \in T
  BY DEF Flattens
<1>2. ASSUME NEW m \in T  PROVE m + 1 \in T
  <2>. SUFFICES ASSUME m + 1 <= n  PROVE f[m + 1] = g[m + 1]
    OBVIOUS
  <2>1. m + 1 \in 1..n /\ m + 1 \in 1..Len(u) /\ m + 1 \in 1..Len(v) /\ (m + 1) - 1 = m
    OBVIOUS
  <2>2. f[m] = g[m]
    OBVIOUS
  <2>. HIDE DEF T
  <2>3. f[m + 1] = f[m] \o u[m + 1]
    BY <2>1 DEF Flattens
  <2>4. g[m + 1] = g[m] \o v[m + 1]
    BY <2>1 DEF Flattens
  <2>. QED  BY <2>1, <2>2, <2>3, <2>4
<1>. HIDE DEF T
<1>3. T \in SUBSET Nat
  BY DEF T
<1>4. n \in T
  <2>1. n \in Nat
    OBVIOUS
  <2>. QED  BY <1>1, <1>2, <1>3, <2>1, Induction
<1>. QED  BY <1>4 DEF T

\* FlattenSeq is the last of them.
LEMMA FlattenIs ==
  ASSUME NEW u \in Seq(Seq(Byte)), NEW f, Flattens(f, u)
  PROVE  FlattenSeq(u) = f[Len(u)]
<1>1. Len(u) \in Nat
  BY LenProperties
<1>2. CASE Len(u) = 0
  <2>1. u = <<>>
    BY <1>2, EmptySeq
  <2>2. f[Len(u)] = <<>>
    BY <1>2 DEF Flattens
  <2>. QED  BY <1>2, <2>1, <2>2 DEF FlattenSeq
<1>3. CASE Len(u) # 0
  <2>. DEFINE Def(g) == [i \in 1..Len(u) |-> IF i = 1 THEN u[i] ELSE g[i - 1] \o u[i]]
              flatten == CHOOSE g : g = Def(g)
              r == [i \in 1..Len(u) |-> f[i]]
              e == [i \in 0..Len(u) |-> IF i = 0 THEN <<>> ELSE flatten[i]]
  <2>1. r = Def(r)
    <3>1. ASSUME NEW i \in 1..Len(u)  PROVE r[i] = IF i = 1 THEN u[i] ELSE r[i - 1] \o u[i]
      <4>1. f[i] = f[i - 1] \o u[i] /\ u[i] \in Seq(Byte) /\ f[0] = <<>>
        BY ElementOfSeq DEF Flattens
      <4>2. CASE i = 1
        <5>1. i - 1 = 0
          BY <4>2
        <5>2. f[i] = <<>> \o u[i]
          BY <4>1, <5>1
        <5>3. f[i] = u[i]
          BY <4>1, <5>2, ConcatEmptySeq
        <5>. QED  BY <4>2, <5>3
      <4>3. CASE i # 1
        <5>1. i - 1 \in 1..Len(u)
          BY <1>1, <4>3
        <5>. QED  BY <4>1, <4>3, <5>1
      <4>. QED  BY <4>2, <4>3
    <3>. QED  BY <3>1
  <2>2. flatten = Def(flatten)
    <3>. HIDE DEF Def, r
    <3>. QED  BY <2>1
  <2>3. FlattenSeq(u) = flatten[Len(u)]
    BY <1>3 DEF FlattenSeq
  <2>. HIDE DEF flatten
  <2>4. Flattens(e, u)
    <3>1. e[0] = <<>>
      BY <1>1
    <3>2. ASSUME NEW i \in 1..Len(u)  PROVE e[i] = e[i - 1] \o u[i]
      <4>1. i \in 0..Len(u) /\ i - 1 \in 0..Len(u) /\ u[i] \in Seq(Byte)
        BY <1>1, ElementOfSeq
      <4>2. flatten[i] = IF i = 1 THEN u[i] ELSE flatten[i - 1] \o u[i]
        BY <2>2
      <4>3. CASE i = 1
        BY <4>1, <4>2, <4>3, ConcatEmptySeq
      <4>4. CASE i # 1
        <5>1. i # 0 /\ i - 1 # 0
          BY <4>4
        <5>2. e[i] = flatten[i] /\ e[i - 1] = flatten[i - 1]
          BY <4>1, <5>1
        <5>. QED  BY <4>2, <4>4, <5>2
      <4>. QED  BY <4>3, <4>4
    <3>. HIDE DEF e
    <3>. QED  BY <3>1, <3>2 DEF Flattens
  <2>5. e[Len(u)] = flatten[Len(u)]
    BY <1>1, <1>3
  <2>. HIDE DEF e, Def
  <2>. PICK n : n = Len(u)
    OBVIOUS
  <2>6. Agree(u, u, n)
    BY <1>1 DEF Agree
  <2>7. f[n] = e[n]
    BY <2>4, <2>6, FlattensUnique
  <2>. QED  BY <2>3, <2>5, <2>7
<1>. QED  BY <1>2, <1>3

LEMMA FlattenAppend ==
  ASSUME NEW u \in Seq(Seq(Byte)), NEW x \in Seq(Byte)
  PROVE  FlattenSeq(u) \in Seq(Byte) /\ FlattenSeq(Append(u, x)) = FlattenSeq(u) \o x
<1>. PICK v : v = Append(u, x)
  OBVIOUS
<1>. PICK n : n = Len(u)
  OBVIOUS
<1>1. /\ v \in Seq(Seq(Byte)) /\ n \in Nat /\ Len(v) = n + 1 /\ v[n + 1] = x
      /\ \A i \in 1..n : v[i] = u[i]
  BY AppendProperties, LenProperties
<1>2. PICK f : Flattens(f, u) /\ \A i \in 0..Len(u) : f[i] \in Seq(Byte)
  BY FlattensExists
<1>3. PICK g : Flattens(g, v) /\ \A i \in 0..Len(v) : g[i] \in Seq(Byte)
  BY <1>1, FlattensExists
<1>4. FlattenSeq(u) = f[n]
  BY <1>2, FlattenIs
<1>5. FlattenSeq(v) = g[n + 1]
  BY <1>1, <1>3, FlattenIs
<1>6. f[n] = g[n]
  <2>1. Agree(u, v, n)
    BY <1>1 DEF Agree
  <2>2. Flattens(f, u) /\ Flattens(g, v)
    BY <1>2, <1>3
  <2>. QED  BY <2>1, <2>2, FlattensUnique
<1>7. n + 1 \in 1..Len(v) /\ (n + 1) - 1 = n
  BY <1>1
<1>8. g[n + 1] = g[n] \o x
  BY <1>1, <1>3, <1>7 DEF Flattens
<1>9. f[n] \in Seq(Byte)
  BY <1>1, <1>2
<1>. QED  BY <1>4, <1>5, <1>6, <1>8, <1>9

LEMMA FlattenNone == FlattenSeq(<<>>) = <<>>
  BY EmptySeq DEF FlattenSeq

-----------------------------------------------------------------------------
(* Filter, by the last byte. *)

Acc == [st : States, out : Seq(Printed)]
Fresh(st) == [st |-> st, out |-> <<>>]
\* One byte more.
Filtered(a, b) == [st |-> NextState(a.st, b), out |-> IF Emits(a.st, b) THEN Append(a.out, b) ELSE a.out]

LEMMA NextStateType == ASSUME NEW st \in States, NEW b  PROVE NextState(st, b) \in States
BY DEF NextState, States

LEMMA FilteredType == ASSUME NEW a \in Acc, NEW b  PROVE Filtered(a, b) \in Acc
<1>1. a.st \in States /\ a.out \in Seq(Printed)
  BY DEF Acc
<1>2. NextState(a.st, b) \in States
  BY <1>1, NextStateType
<1>3. (IF Emits(a.st, b) THEN Append(a.out, b) ELSE a.out) \in Seq(Printed)
  BY <1>1, AppendProperties DEF Emits
<1>. QED  BY <1>2, <1>3 DEF Filtered, Acc

\* What the filter has let through after each byte of u.
Filters(f, st, u) == f[0] = Fresh(st) /\ \A i \in 1..Len(u) : f[i] = Filtered(f[i - 1], u[i])

LEMMA FilterRuns ==
  ASSUME NEW st \in States, NEW u \in Seq(Classes)
  PROVE  \E f : Filters(f, st, u) /\ f[Len(u)] = Filter(st, u) /\ \A i \in 0..Len(u) : f[i] \in Acc
<1>. PICK n : n = Len(u)
  OBVIOUS
<1>. PICK C : C = Acc
  OBVIOUS
<1>. DEFINE h == [x \in (1..n) \X C |-> Filtered(x[2], u[x[1]])]
            base == Fresh(st)
            Def(g) == [s \in SUBSET (1..n) |->
                         IF s = {} THEN base ELSE Filtered(g[s \ {Max(s)}], u[Max(s)])]
            iter == CHOOSE g : g = Def(g)
<1>1. n \in Nat /\ DOMAIN u = 1..n
  BY LenProperties
<1>2. base \in C
  BY EmptySeq DEF Fresh, Acc
<1>3. h \in [(1..n) \X C -> C]
  <2>1. \A x \in (1..n) \X C : Filtered(x[2], u[x[1]]) \in C
    BY FilteredType
  <2>. QED  BY <2>1
<1>4. \A i \in 1..n, a \in C : h[<<i, a>>] = Filtered(a, u[i])
  OBVIOUS
<1>. HIDE DEF h, base
<1>5. PICK g : Iterates(g, n, C, base, h)
  BY <1>1, <1>2, <1>3, IterationExists
<1>6. g = Def(g)
  <2>1. g \in [SUBSET (1..n) -> C] /\ g[{}] = base
    BY <1>5 DEF Iterates
  <2>2. ASSUME NEW s \in SUBSET (1..n), s # {}
        PROVE  g[s] = Filtered(g[s \ {Max(s)}], u[Max(s)])
    <3>1. g[s] = h[<<Max(s), g[s \ {Max(s)}]>>]
      BY <1>5, <2>2 DEF Iterates
    <3>2. Max(s) \in 1..n /\ g[s \ {Max(s)}] \in C
      BY <1>1, <2>1, <2>2, MaxOf
    <3>. QED  BY <1>4, <3>1, <3>2
  <2>. QED  BY <2>1, <2>2
<1>7. iter = Def(iter)
  <2>. HIDE DEF Def
  <2>. QED  BY <1>6
<1>8. Filter(st, u) = iter[1..n]
  BY <1>1 DEF Filter, FoldLeft, MapThenFoldSet, Filtered, Fresh, base
<1>. HIDE DEF iter
<1>9. \A s \in SUBSET (1..n) : iter[s] = IF s = {} THEN base ELSE Filtered(iter[s \ {Max(s)}], u[Max(s)])
  BY <1>7
<1>. HIDE DEF Def
<1>. DEFINE f == [i \in 0..n |-> iter[1..i]]
<1>10. f[0] = base
  <2>1. 1..0 = {} /\ 0 \in 0..n /\ {} \in SUBSET (1..n)
    BY <1>1
  <2>2. iter[{}] = base
    BY <1>9, <2>1
  <2>. QED  BY <2>1, <2>2
<1>11. ASSUME NEW i \in 1..n  PROVE f[i] = Filtered(f[i - 1], u[i])
  <2>1. /\ 1..i \in SUBSET (1..n) /\ 1..i # {} /\ i \in 0..n /\ i - 1 \in 0..n
        /\ Max(1..i) = i /\ (1..i) \ {i} = 1..(i - 1)
    BY <1>1, UpTo
  <2>2. iter[1..i] = Filtered(iter[1..(i - 1)], u[i])
    BY <1>9, <2>1
  <2>. QED  BY <2>1, <2>2
<1>12. f[n] = Filter(st, u)
  BY <1>1, <1>8
<1>. HIDE DEF f
<1>13. Filters(f, st, u)
  BY <1>10, <1>11 DEF Filters, base
<1>14. \A i \in 0..n : f[i] \in Acc
  <2>. DEFINE T == {i \in Nat : i <= n => f[i] \in Acc}
  <2>1. 0 \in T
    BY <1>2, <1>10
  <2>2. ASSUME NEW i \in T  PROVE i + 1 \in T
    <3>. SUFFICES ASSUME i + 1 <= n  PROVE f[i + 1] \in Acc
      OBVIOUS
    <3>1. i + 1 \in 1..n /\ (i + 1) - 1 = i /\ i <= n
      BY <1>1
    <3>2. f[i + 1] = Filtered(f[i], u[i + 1])
      BY <1>11, <3>1
    <3>. QED  BY <3>1, <3>2, FilteredType
  <2>. HIDE DEF T
  <2>3. T \in SUBSET Nat
    BY DEF T
  <2>4. Nat \subseteq T
    BY <2>1, <2>2, <2>3, Induction
  <2>. QED  BY <1>1, <2>4 DEF T
<1>. QED  BY <1>12, <1>13, <1>14

LEMMA FiltersUnique ==
  ASSUME NEW st, NEW u, NEW f, Filters(f, st, u), NEW v, NEW g, Filters(g, st, v), NEW n, Agree(u, v, n)
  PROVE  f[n] = g[n]
<1>. USE DEF Agree
<1>. DEFINE T == {m \in Nat : m <= n => f[m] = g[m]}
<1>1. 0 \in T
  BY DEF Filters
<1>2. ASSUME NEW m \in T  PROVE m + 1 \in T
  <2>. SUFFICES ASSUME m + 1 <= n  PROVE f[m + 1] = g[m + 1]
    OBVIOUS
  <2>1. m + 1 \in 1..n /\ m + 1 \in 1..Len(u) /\ m + 1 \in 1..Len(v) /\ (m + 1) - 1 = m
    OBVIOUS
  <2>2. f[m] = g[m]
    OBVIOUS
  <2>. HIDE DEF T
  <2>3. f[m + 1] = Filtered(f[m], u[m + 1])
    BY <2>1 DEF Filters
  <2>4. g[m + 1] = Filtered(g[m], v[m + 1])
    BY <2>1 DEF Filters
  <2>. QED  BY <2>1, <2>2, <2>3, <2>4
<1>. HIDE DEF T
<1>3. T \in SUBSET Nat
  BY DEF T
<1>4. n \in T
  <2>1. n \in Nat
    OBVIOUS
  <2>. QED  BY <1>1, <1>2, <1>3, <2>1, Induction
<1>. QED  BY <1>4 DEF T

LEMMA FilterType == ASSUME NEW st \in States, NEW u \in Seq(Classes)  PROVE Filter(st, u) \in Acc
<1>1. PICK f : Filters(f, st, u) /\ f[Len(u)] = Filter(st, u) /\ \A i \in 0..Len(u) : f[i] \in Acc
  BY FilterRuns
<1>2. Len(u) \in 0..Len(u)
  BY LenProperties
<1>. QED  BY <1>1, <1>2

LEMMA FilterNone == ASSUME NEW st \in States  PROVE Filter(st, <<>>) = Fresh(st)
<1>. PICK u : u = <<>>
  OBVIOUS
<1>1. u \in Seq(Classes) /\ Len(u) = 0
  BY EmptySeq
<1>2. PICK f : Filters(f, st, u) /\ f[Len(u)] = Filter(st, u)
  BY <1>1, FilterRuns
<1>. QED  BY <1>1, <1>2 DEF Filters

LEMMA FilterAppend ==
  ASSUME NEW st \in States, NEW u \in Seq(Classes), NEW b \in Classes
  PROVE  Filter(st, Append(u, b)) = Filtered(Filter(st, u), b)
<1>. PICK v : v = Append(u, b)
  OBVIOUS
<1>. PICK n : n = Len(u)
  OBVIOUS
<1>1. /\ v \in Seq(Classes) /\ n \in Nat /\ Len(v) = n + 1 /\ v[n + 1] = b
      /\ \A i \in 1..n : v[i] = u[i]
  BY AppendProperties, LenProperties
<1>2. PICK f : Filters(f, st, u) /\ f[Len(u)] = Filter(st, u)
  BY FilterRuns
<1>3. PICK g : Filters(g, st, v) /\ g[Len(v)] = Filter(st, v)
  BY <1>1, FilterRuns
<1>4. Agree(u, v, n)
  BY <1>1 DEF Agree
<1>5. f[n] = g[n]
  <2>1. Filters(f, st, u) /\ Filters(g, st, v)
    BY <1>2, <1>3
  <2>. QED  BY <1>4, <2>1, FiltersUnique
<1>6. n + 1 \in 1..Len(v) /\ (n + 1) - 1 = n
  BY <1>1
<1>7. g[n + 1] = Filtered(g[n], b)
  BY <1>1, <1>3, <1>6 DEF Filters
<1>8. f[n] = Filter(st, u) /\ g[n + 1] = Filter(st, v)
  BY <1>1, <1>2, <1>3
<1>. QED  BY <1>5, <1>7, <1>8

-----------------------------------------------------------------------------
(* Sequences by their last element. *)

LEMMA ConcatAppend ==
  ASSUME NEW S, NEW u \in Seq(S), NEW v \in Seq(S), NEW b \in S
  PROVE  /\ u \o Append(v, b) = Append(u \o v, b)
         /\ u \o v \in Seq(S) /\ Append(v, b) \in Seq(S)
<1>1. <<b>> \in Seq(S) /\ Append(v, b) = v \o <<b>> /\ u \o v \in Seq(S)
  BY AppendIsConcat, ConcatProperties
<1>2. Append(u \o v, b) = (u \o v) \o <<b>>
  BY <1>1, AppendIsConcat
<1>3. u \o (v \o <<b>>) = (u \o v) \o <<b>>
  BY <1>1, ConcatAssociative
<1>4. Append(v, b) \in Seq(S)
  BY AppendProperties
<1>. QED  BY <1>1, <1>2, <1>3, <1>4

LEMMA LastAppended ==
  ASSUME NEW S, NEW n \in Nat, NEW w \in Seq(S), Len(w) = n + 1
  PROVE  /\ SubSeq(w, 1, n) \in Seq(S) /\ Len(SubSeq(w, 1, n)) = n /\ w[n + 1] \in S
         /\ Append(SubSeq(w, 1, n), w[n + 1]) = w
<1>1. \A i \in 1..(n + 1) : w[i] \in S
  BY ElementOfSeq
<1>2. n + 1 \in 1..(n + 1) /\ \A i \in 1..n : i \in 1..(n + 1)
  OBVIOUS
<1>3. SubSeq(w, 1, n) \in Seq(S) /\ Len(SubSeq(w, 1, n)) = n /\ \A i \in 1..n : SubSeq(w, 1, n)[i] = w[i]
  BY <1>1, <1>2, SubSeqProperties
<1>. PICK v : v = SubSeq(w, 1, n)
  OBVIOUS
<1>. PICK x : x = Append(v, w[n + 1])
  OBVIOUS
<1>4. x \in Seq(S) /\ Len(x) = n + 1 /\ x[n + 1] = w[n + 1] /\ \A i \in 1..n : x[i] = v[i]
  BY <1>1, <1>2, <1>3, AppendProperties
<1>5. \A i \in 1..(n + 1) : x[i] = w[i]
  BY <1>3, <1>4
<1>6. x = w
  BY <1>4, <1>5, SeqEqual
<1>. QED  BY <1>1, <1>2, <1>3, <1>6

LEMMA SeqInduction ==
  ASSUME NEW S, NEW T \in SUBSET Seq(S), <<>> \in T, \A w \in T : \A b \in S : Append(w, b) \in T
  PROVE  Seq(S) \subseteq T
<1>. DEFINE K == {n \in Nat : \A w \in Seq(S) : Len(w) = n => w \in T}
<1>1. 0 \in K
  <2>1. \A w \in Seq(S) : Len(w) = 0 => w = <<>>
    BY EmptySeq
  <2>. QED  BY <2>1
<1>2. ASSUME NEW n \in K  PROVE n + 1 \in K
  <2>. SUFFICES ASSUME NEW w \in Seq(S), Len(w) = n + 1  PROVE w \in T
    OBVIOUS
  <2>1. n \in Nat
    OBVIOUS
  <2>2. /\ SubSeq(w, 1, n) \in Seq(S) /\ Len(SubSeq(w, 1, n)) = n /\ w[n + 1] \in S
        /\ Append(SubSeq(w, 1, n), w[n + 1]) = w
    BY <2>1, LastAppended
  <2>3. SubSeq(w, 1, n) \in T
    BY <2>2
  <2>. QED  BY <2>2, <2>3
<1>. HIDE DEF K
<1>3. K \in SUBSET Nat
  BY DEF K
<1>4. Nat \subseteq K
  BY <1>1, <1>2, <1>3, Induction
<1>. SUFFICES ASSUME NEW w \in Seq(S)  PROVE w \in T
  OBVIOUS
<1>5. Len(w) \in Nat
  BY LenProperties
<1>. QED  BY <1>4, <1>5 DEF K

\* The filter goes on where it stopped.
LEMMA FilterConcat ==
  ASSUME NEW st \in States, NEW u \in Seq(Classes), NEW v \in Seq(Classes)
  PROVE  /\ Filter(st, u).st \in States /\ u \o v \in Seq(Classes)
         /\ Filter(st, u \o v).st = Filter(Filter(st, u).st, v).st
         /\ Filter(st, u \o v).out = Filter(st, u).out \o Filter(Filter(st, u).st, v).out
<1>. PICK a : a = Filter(st, u)
  OBVIOUS
<1>1. a \in Acc /\ a.st \in States /\ a.out \in Seq(Printed)
  BY FilterType DEF Acc
<1>. DEFINE Joins(w) == /\ Filter(st, u \o w).st = Filter(a.st, w).st
                        /\ Filter(st, u \o w).out = a.out \o Filter(a.st, w).out
            T == {w \in Seq(Classes) : Joins(w)}
<1>2. <<>> \in T
  <2>1. Filter(a.st, <<>>) = Fresh(a.st)
    BY <1>1, FilterNone
  <2>2. u \o <<>> = u /\ a.out \o <<>> = a.out /\ <<>> \in Seq(Classes)
    BY <1>1, ConcatEmptySeq, EmptySeq
  <2>3. Filter(a.st, <<>>).st = a.st /\ Filter(a.st, <<>>).out = <<>>
    BY <2>1 DEF Fresh
  <2>4. Joins(<<>>)
    BY <2>2, <2>3
  <2>. QED  BY <2>2, <2>4
<1>3. ASSUME NEW w \in T, NEW b \in Classes  PROVE Append(w, b) \in T
  <2>1. w \in Seq(Classes) /\ Joins(w)
    OBVIOUS
  <2>2. PICK x : x = Filter(a.st, w)
    OBVIOUS
  <2>3. PICK y : y = Filter(st, u \o w)
    OBVIOUS
  <2>4. x.st \in States /\ x.out \in Seq(Printed)
    BY <1>1, <2>1, <2>2, FilterType DEF Acc
  <2>5. y.st = x.st /\ y.out = a.out \o x.out
    BY <2>1, <2>2, <2>3
  <2>6. u \o Append(w, b) = Append(u \o w, b) /\ u \o w \in Seq(Classes) /\ Append(w, b) \in Seq(Classes)
    BY <2>1, ConcatAppend
  <2>7. Filter(st, u \o Append(w, b)) = Filtered(y, b)
    BY <2>3, <2>6, FilterAppend
  <2>8. Filter(a.st, Append(w, b)) = Filtered(x, b)
    BY <1>1, <2>1, <2>2, FilterAppend
  <2>9. Filtered(y, b).st = Filtered(x, b).st
    BY <2>5 DEF Filtered
  <2>10. Filtered(y, b).out = a.out \o Filtered(x, b).out
    <3>1. CASE Emits(x.st, b)
      <4>1. b \in Printed
        BY <3>1 DEF Emits
      <4>2. a.out \o Append(x.out, b) = Append(a.out \o x.out, b)
        <5>1. PICK r \in Seq(Printed) : r = a.out
          BY <1>1
        <5>2. PICK q \in Seq(Printed) : q = x.out
          BY <2>4
        <5>3. r \o Append(q, b) = Append(r \o q, b)
          BY <4>1, ConcatAppend
        <5>. QED  BY <5>1, <5>2, <5>3
      <4>. QED  BY <2>5, <3>1, <4>2 DEF Filtered
    <3>2. CASE ~Emits(x.st, b)
      BY <2>5, <3>2 DEF Filtered
    <3>. QED  BY <3>1, <3>2
  <2>. QED  BY <2>6, <2>7, <2>8, <2>9, <2>10
<1>. HIDE DEF T
<1>4. T \in SUBSET Seq(Classes)
  BY DEF T
<1>5. Seq(Classes) \subseteq T
  BY <1>2, <1>3, <1>4, SeqInduction
<1>6. Joins(v)
  BY <1>5 DEF T
<1>7. u \o v \in Seq(Classes)
  BY ConcatProperties
<1>. QED  BY <1>1, <1>6, <1>7

-----------------------------------------------------------------------------
(* What the command has printed has been read, and forgotten beyond the    *)
(* capacity, or is in the buffer, or still in the pipe (Arrived).          *)

Cut(s) == s = <<>> \/ \E p \in Pieces : \E n \in 0..(Len(p) - 1) : s = SubSeq(p, 1, n)

Arrived == \E l \in Seq(Byte) : Len(l) = total - size /\ Raw = (l \o Linear) \o unread

PhaseInv ==
  /\ phase \in {"idle", "running", "ended"} /\ strip \in BOOLEAN
  /\ broken \in Seq(Byte) /\ Cut(broken)
  /\ phase = "running" => broken = <<>>
  /\ phase = "idle" => unread = <<>>
  /\ filter \in States /\ (phase # "idle" => filter = "Ground")

OutInv == RingInv /\ PipeOfBytes /\ PhaseInv /\ Arrived

LEMMA LatestIsSuffix ==
  ASSUME NEW S, NEW l \in Seq(S), NEW t \in Seq(S)
  PROVE  IsSuffix(t, l \o t)
<1>. PICK u : u = l \o t
  OBVIOUS
<1>. PICK k : k = Len(l)
  OBVIOUS
<1>. PICK n : n = Len(t)
  OBVIOUS
<1>1. /\ k \in Nat /\ n \in Nat /\ u \in Seq(S) /\ Len(u) = k + n
      /\ \A i \in 1..(k + n) : u[i] = IF i <= k THEN l[i] ELSE t[i - k]
  BY LenProperties, ConcatProperties
<1>. PICK a : a = Reverse(t)
  OBVIOUS
<1>. PICK b : b = Reverse(u)
  OBVIOUS
<1>2. /\ a \in Seq(S) /\ Len(a) = n /\ \A i \in 1..n : a[i] = t[n - i + 1]
  <2>1. \A i \in 1..n : t[n - i + 1] \in S
    <3>1. \A i \in 1..n : n - i + 1 \in 1..n
      BY <1>1
    <3>. QED  BY <3>1, ElementOfSeq
  <2>2. a = [i \in 1..n |-> t[n - i + 1]]
    BY DEF Reverse
  <2>3. a \in Seq(S)
    BY <1>1, <2>1, <2>2, IsASeq
  <2>. QED  BY <1>1, <2>2, <2>3, LenProperties
<1>3. /\ b \in Seq(S) /\ Len(b) = k + n /\ \A i \in 1..(k + n) : b[i] = u[k + n - i + 1]
  <2>1. \A i \in 1..(k + n) : u[k + n - i + 1] \in S
    <3>1. \A i \in 1..(k + n) : k + n - i + 1 \in 1..(k + n)
      BY <1>1
    <3>. QED  BY <1>1, <3>1, ElementOfSeq
  <2>2. b = [i \in 1..(k + n) |-> u[k + n - i + 1]]
    BY <1>1 DEF Reverse
  <2>3. b \in Seq(S)
    BY <1>1, <2>1, <2>2, IsASeq
  <2>. QED  BY <1>1, <2>2, <2>3, LenProperties
<1>4. \A i \in 1..n : a[i] = b[i]
  <2>. TAKE i \in 1..n
  <2>1. i \in 1..(k + n) /\ k + n - i + 1 \in 1..(k + n) /\ k + n - i + 1 > k /\ k + n - i + 1 - k = n - i + 1
    BY <1>1
  <2>. QED  BY <1>1, <1>2, <1>3, <2>1
<1>5. SubSeq(a, 1, n) = SubSeq(b, 1, n)
  <2>1. \A i \in 1..n : a[i] \in S /\ b[i] \in S
    BY <1>2, <1>4, ElementOfSeq
  <2>. PICK x : x = SubSeq(a, 1, n)
    OBVIOUS
  <2>. PICK y : y = SubSeq(b, 1, n)
    OBVIOUS
  <2>2. x \in Seq(S) /\ Len(x) = n /\ \A i \in 1..n : x[i] = a[i]
    BY <1>1, <2>1, SubSeqProperties
  <2>3. y \in Seq(S) /\ Len(y) = n /\ \A i \in 1..n : y[i] = b[i]
    BY <1>1, <2>1, SubSeqProperties
  <2>4. x = y
    BY <1>4, <2>2, <2>3, SeqEqual
  <2>. QED  BY <2>4
<1>6. n <= k + n
  BY <1>1
<1>. QED  BY <1>2, <1>3, <1>5, <1>6 DEF IsSuffix, IsPrefix

LEMMA RawIsSeq ==
  ASSUME NEW ps \in Seq(Pieces)
  PROVE  /\ ps \in Seq(Seq(Byte)) /\ FlattenSeq(ps) \in Seq(Byte)
         /\ \A p \in Pieces : /\ p \in Seq(Byte) /\ Append(ps, p) \in Seq(Pieces)
                              /\ FlattenSeq(Append(ps, p)) = FlattenSeq(ps) \o p
<1>1. Pieces \subseteq Seq(Byte) /\ \A p \in Pieces : p \in Seq(Byte)
  BY PieceIsSeq
<1>2. ps \in Seq(Seq(Byte))
  BY <1>1, SeqMonotonic
<1>3. FlattenSeq(ps) \in Seq(Byte)
  <2>1. <<>> \in Seq(Byte)
    BY EmptySeq
  <2>. QED  BY <1>2, <2>1, FlattenAppend
<1>. QED  BY <1>1, <1>2, <1>3, FlattenAppend, AppendProperties

\* Concatenation as an operator that the provers do not look into.
Join(s, t) == s \o t

LEMMA Joins ==
  ASSUME NEW S, NEW s \in Seq(S), NEW t \in Seq(S)
  PROVE  /\ Join(s, t) \in Seq(S) /\ Join(s, <<>>) = s /\ Join(<<>>, s) = s
         /\ \A u \in Seq(S) : Join(Join(s, t), u) = Join(s, Join(t, u))
<1>1. s \o t \in Seq(S) /\ s \o <<>> = s /\ <<>> \o s = s
  BY ConcatProperties, ConcatEmptySeq
<1>2. \A u \in Seq(S) : (s \o t) \o u = s \o (t \o u)
  BY ConcatAssociative
<1>. QED  BY <1>1, <1>2 DEF Join

LEMMA Appends ==
  ASSUME NEW S, NEW s \in Seq(S), NEW b \in S
  PROVE  <<b>> \in Seq(S) /\ Append(s, b) = Join(s, <<b>>)
<1>1. Append(s, b) = s \o <<b>>
  BY AppendIsConcat
<1>2. <<b>> \in Seq(S)
  OBVIOUS
<1>. QED  BY <1>1, <1>2 DEF Join

LEMMA MovesOver ==
  ASSUME NEW S, NEW l \in Seq(S), NEW t \in Seq(S), NEW x \in Seq(S), NEW u \in Seq(S)
  PROVE  Join(Join(l, t), Join(x, u)) = Join(Join(l, Join(t, x)), u)
BY Joins

LEMMA PushesOut ==
  ASSUME NEW S, NEW l \in Seq(S), NEW h \in Seq(S), NEW t \in Seq(S), NEW x \in Seq(S), NEW u \in Seq(S)
  PROVE  Join(Join(l, Join(h, t)), Join(x, u)) = Join(Join(Join(l, h), Join(t, x)), u)
<1>1. Join(l, Join(h, t)) = Join(Join(l, h), t) /\ Join(l, h) \in Seq(S)
  BY Joins
<1>. QED  BY <1>1, MovesOver

LEMMA FirstAndRest ==
  ASSUME NEW S, NEW s \in Seq(S), s # <<>>
  PROVE  Head(s) \in S /\ Tail(s) \in Seq(S) /\ s = <<Head(s)>> \o Tail(s)
<1>1. Len(s) \in Nat /\ Len(s) # 0
  BY EmptySeq
<1>2. 1 \in 1..Len(s) /\ Len(s) \in 1..Len(s)
  BY <1>1
<1>3. SubSeq(s, 1, Len(s)) = <<s[1]>> \o SubSeq(s, 1 + 1, Len(s))
  BY <1>2, SubSeqRecursiveFirst
<1>4. SubSeq(s, 1, Len(s)) = s /\ Tail(s) = SubSeq(s, 2, Len(s)) /\ Head(s) = s[1]
  BY SubSeqFull, TailIsSubSeq
<1>5. 1 + 1 = 2
  OBVIOUS
<1>6. s = <<s[1]>> \o SubSeq(s, 2, Len(s))
  BY <1>3, <1>4, <1>5
<1>. QED  BY <1>4, <1>6, HeadTailProperties

LEMMA ReadArrives ==
  ASSUME OutInv, Drain
  PROVE  Arrived'
<1>. USE DEF OutInv, PipeOfBytes
<1>. PICK b : b = Head(unread)
  OBVIOUS
<1>1. PICK l \in Seq(Byte) : Len(l) = total - size /\ Raw = Join(Join(l, Linear), unread)
  BY DEF Arrived, Join
<1>2. b \in Byte /\ unread' \in Seq(Byte) /\ unread = Join(<<b>>, unread') /\ Push(b) /\ UNCHANGED <<pieces, broken>>
  <2>1. unread \in Seq(Byte) /\ unread # <<>> /\ unread' = Tail(unread) /\ Push(b)
    BY DEF Drain
  <2>. QED  BY <2>1, FirstAndRest DEF Drain, Join
<1>3. Raw' = Raw
  BY <1>2 DEF Raw
<1>4. Linear \in Seq(Byte) /\ Len(Linear) = size /\ Len(l) \in Nat
  BY LinearIsSeq, LenProperties
<1>5. /\ Capacity \in Nat /\ Capacity > 0 /\ size \in 0..Capacity /\ total \in Nat
      /\ total' = total + 1 /\ size' = IF size < Capacity THEN size + 1 ELSE size
  BY <1>2, RingAssumption DEF RingInv, RingTypeOK, Push
<1>6. SUFFICES \E m \in Seq(Byte) : Len(m) = total' - size' /\ Raw = Join(Join(m, Linear'), unread')
  BY <1>3 DEF Arrived, Join
<1>7. <<b>> \in Seq(Byte)
  BY <1>2, <1>4, Appends
<1>10. PICK u \in Seq(Byte) : u = unread'
  BY <1>2
<1>11. PICK x \in Seq(Byte) : x = <<b>>
  BY <1>7
<1>8. CASE size < Capacity
  <2>0. PICK t \in Seq(Byte) : t = Linear
    BY <1>4
  <2>1. Linear' = Join(t, x)
    <3>1. Linear' = Append(t, b)
      BY <1>2, <1>8, <2>0, PushAppends
    <3>2. Append(t, b) = Join(t, <<b>>)
      BY <1>2, Appends
    <3>. QED  BY <1>11, <3>1, <3>2
  <2>2. Raw = Join(Join(l, Linear'), unread')
    <3>1. Join(Join(l, t), Join(x, u)) = Join(Join(l, Join(t, x)), u)
      BY MovesOver
    <3>. QED  BY <1>1, <1>2, <1>10, <1>11, <2>0, <2>1, <3>1
  <2>3. Len(l) = total' - size'
    BY <1>1, <1>5, <1>8
  <2>. QED  BY <2>2, <2>3
<1>9. CASE size = Capacity
  <2>. PICK h : h = Head(Linear)
    OBVIOUS
  <2>0. PICK t : t = Tail(Linear)
    OBVIOUS
  <2>1. Linear # <<>>
    BY <1>4, <1>5, <1>9, EmptySeq
  <2>2. h \in Byte /\ t \in Seq(Byte) /\ Linear = Join(<<h>>, t)
    BY <1>4, <2>0, <2>1, FirstAndRest DEF Join
  <2>3. Linear' = Join(t, <<b>>)
    <3>1. Linear' = Append(t, b)
      BY <1>2, <1>9, <2>0, PushDrops
    <3>2. Append(t, b) = Join(t, <<b>>)
      BY <1>2, <2>2, Appends
    <3>. QED  BY <3>1, <3>2
  <2>4. Append(l, h) \in Seq(Byte) /\ Len(Append(l, h)) = Len(l) + 1
    BY <2>2, AppendProperties
  <2>5. <<h>> \in Seq(Byte) /\ Append(l, h) = Join(l, <<h>>)
    BY <2>2, Appends
  <2>6. Raw = Join(Join(Append(l, h), Linear'), unread')
    <3>1. PICK y \in Seq(Byte) : y = <<h>>
      BY <2>5
    <3>2. Join(Join(l, Join(y, t)), Join(x, u)) = Join(Join(Join(l, y), Join(t, x)), u)
      BY <2>2, PushesOut
    <3>. QED  BY <1>1, <1>2, <1>10, <1>11, <2>2, <2>3, <2>5, <3>1, <3>2
  <2>7. Len(Append(l, h)) = total' - size'
    BY <1>1, <1>5, <1>9, <2>4
  <2>. QED  BY <2>4, <2>6, <2>7
<1>. QED  BY <1>5, <1>8, <1>9

\* What is added to the pipe is added to the output.
LEMMA PrintedArrives ==
  ASSUME OutInv, NEW s \in Seq(Byte), Raw' = Raw \o s, unread' = unread \o s, UNCHANGED ringVars
  PROVE  Arrived'
<1>. USE DEF OutInv, PipeOfBytes
<1>1. PICK l \in Seq(Byte) : Len(l) = total - size /\ Raw = (l \o Linear) \o unread
  BY DEF Arrived
<1>2. Linear \in Seq(Byte) /\ l \o Linear \in Seq(Byte) /\ unread \in Seq(Byte)
  BY LinearIsSeq, ConcatProperties
<1>3. Linear' = Linear /\ total' - size' = total - size
  BY DEF ringVars, Linear
<1>4. ((l \o Linear) \o unread) \o s = (l \o Linear) \o (unread \o s)
  <2>. PICK t \in Seq(Byte) : t = l \o Linear
    BY <1>2
  <2>. PICK u \in Seq(Byte) : u = unread
    BY <1>2
  <2>1. (t \o u) \o s = t \o (u \o s)
    BY ConcatAssociative, SMTT(30)
  <2>. QED  BY <2>1
<1>. QED  BY <1>1, <1>3, <1>4 DEF Arrived

LEMMA OutInductive == OutInv /\ [Next]_vars => OutInv'
<1>. SUFFICES ASSUME OutInv, [Next]_vars PROVE OutInv'
  OBVIOUS
<1>. USE DEF OutInv
<1>1. PipeOfBytes'
  BY PipeInductive
<1>2. RingInv'
  <2>1. CASE Start
    BY <2>1, RingInductive DEF Start, RingNext
  <2>2. CASE Drain
    <3>1. Head(unread) \in Byte
      BY <2>2, HeadTailProperties DEF Drain, PipeOfBytes
    <3>. QED  BY <2>2, <3>1, RingInductive DEF Drain, RingNext
  <2>3. CASE UNCHANGED ringVars
    BY <2>3, RingInductive
  <2>4. CASE (\E p \in Pieces : Prints(p)) \/ Ends \/ Deliver \/ Finished \/ UNCHANGED vars
    BY <2>3, <2>4 DEF Prints, Ends, Deliver, Finished, vars
  <2>. QED  BY <2>1, <2>2, <2>4 DEF Next
<1>3. CASE Start
  <2>1. size' = 0 /\ total' = 0 /\ pieces' = <<>> /\ broken' = <<>> /\ unread' = <<>>
    BY <1>3 DEF Start, Clear
  <2>2. <<>> \in Seq(Byte) /\ <<>> \o <<>> = <<>> /\ Len(<<>>) = 0
    BY EmptySeq, ConcatEmptySeq
  <2>3. Linear' = <<>>
    BY <2>1 DEF Linear
  <2>4. Raw' = <<>>
    BY <2>1, <2>2, FlattenNone DEF Raw
  <2>5. Arrived'
    <3>1. Raw' = (<<>> \o Linear') \o unread' /\ Len(<<>>) = total' - size' /\ <<>> \in Seq(Byte)
      BY <2>1, <2>2, <2>3, <2>4
    <3>. QED  BY <3>1 DEF Arrived
  <2>6. PhaseInv'
    BY <1>3, <2>1, <2>2 DEF Start, Reset, PhaseInv, Cut, States
  <2>. QED  BY <1>1, <1>2, <2>5, <2>6
<1>4. ASSUME NEW p \in Pieces, Prints(p)  PROVE OutInv'
  <2>1. /\ broken = <<>> /\ broken' = broken /\ pieces' = Append(pieces, p) /\ unread' = unread \o p
        /\ UNCHANGED ringVars
    BY <1>4 DEF Prints, PhaseInv
  <2>2. pieces \in Seq(Pieces)
    BY DEF PipeOfBytes
  <2>3. /\ FlattenSeq(pieces) \in Seq(Byte) /\ p \in Seq(Byte)
        /\ FlattenSeq(pieces') = FlattenSeq(pieces) \o p
    BY <2>1, <2>2, RawIsSeq
  <2>4. FlattenSeq(pieces) \o p \in Seq(Byte)
    BY <2>3, ConcatProperties
  <2>5. Raw = FlattenSeq(pieces) /\ Raw' = Raw \o p
    BY <2>1, <2>3, <2>4, ConcatEmptySeq DEF Raw
  <2>6. Arrived'
    BY <2>1, <2>3, <2>5, PrintedArrives
  <2>7. PhaseInv'
    BY <1>4, <2>1 DEF Prints, PhaseInv, Cut
  <2>. QED  BY <1>1, <1>2, <2>6, <2>7
<1>5. CASE Ends
  <2>1. PICK p \in Pieces : \E n \in 0..(Len(p) - 1) : broken' = SubSeq(p, 1, n) /\ unread' = unread \o SubSeq(p, 1, n)
    BY <1>5 DEF Ends
  <2>2. PICK n \in 0..(Len(p) - 1) : broken' = SubSeq(p, 1, n) /\ unread' = unread \o SubSeq(p, 1, n)
    BY <2>1
  <2>3. broken' \in Seq(Byte)
    BY <2>2, PartOfPiece
  <2>4. broken = <<>> /\ pieces' = pieces /\ UNCHANGED ringVars
    BY <1>5 DEF Ends, PhaseInv
  <2>5. FlattenSeq(pieces) \in Seq(Byte)
    BY RawIsSeq DEF PipeOfBytes
  <2>6. Raw = FlattenSeq(pieces) /\ Raw' = Raw \o broken'
    BY <2>4, <2>5, ConcatEmptySeq DEF Raw
  <2>7. Arrived'
    BY <2>2, <2>3, <2>4, <2>6, PrintedArrives
  <2>8. Cut(broken)'
    BY <2>2 DEF Cut
  <2>9. PhaseInv'
    BY <1>5, <2>3, <2>8 DEF Ends, PhaseInv
  <2>. QED  BY <1>1, <1>2, <2>7, <2>9
<1>6. CASE Drain
  <2>1. Arrived'
    BY <1>6, ReadArrives
  <2>2. PhaseInv'
    BY <1>6 DEF Drain, PhaseInv, Cut
  <2>. QED  BY <1>1, <1>2, <2>1, <2>2
<1>7. ASSUME UNCHANGED <<pieces, broken, unread>>, UNCHANGED ringVars  PROVE Arrived'
  <2>1. Raw' = Raw /\ Linear' = Linear /\ total' - size' = total - size /\ unread' = unread
    BY <1>7 DEF Raw, ringVars, Linear
  <2>. QED  BY <2>1 DEF Arrived
<1>8. CASE Deliver
  <2>1. Arrived'
    BY <1>7, <1>8 DEF Deliver
  <2>2. Filter(filter, Linear).st \in States
    <3>1. Linear \in Seq(Classes) /\ filter \in States
      BY LinearIsSeq, PipelineAssumption DEF PhaseInv
    <3>. QED  BY <3>1, FilterType DEF Acc
  <2>3. filter' \in States
    BY <1>8, <2>2 DEF Deliver, PhaseInv
  <2>4. PhaseInv'
    BY <1>8, <2>3 DEF Deliver, PhaseInv, Cut
  <2>. QED  BY <1>1, <1>2, <2>1, <2>4
<1>9. CASE Finished \/ UNCHANGED vars
  <2>1. UNCHANGED vars
    BY <1>9 DEF Finished
  <2>2. Arrived'
    BY <1>7, <2>1 DEF vars, pipeVars
  <2>3. PhaseInv'
    BY <2>1 DEF vars, pipeVars, PhaseInv, Cut
  <2>. QED  BY <1>1, <1>2, <2>2, <2>3
<1>. QED  BY <1>3, <1>4, <1>5, <1>6, <1>8, <1>9 DEF Next

LEMMA OutInitially == Init => OutInv
<1>. SUFFICES ASSUME Init PROVE OutInv
  OBVIOUS
<1>1. RingInv
  BY RingAssumption, EmptySeq DEF Init, RingInit, RingInv, RingTypeOK, Wrapped, Index
<1>2. PipeOfBytes
  BY EmptySeq DEF Init, PipeOfBytes
<1>3. PhaseInv
  BY EmptySeq DEF Init, PhaseInv, Cut, States
<1>4. <<>> \in Seq(Byte) /\ <<>> \o <<>> = <<>> /\ Len(<<>>) = 0
  BY EmptySeq, ConcatEmptySeq
<1>5. Linear = <<>> /\ Raw = <<>> /\ unread = <<>> /\ total - size = 0
  BY <1>4, FlattenNone DEF Init, RingInit, Linear, Raw
<1>. QED  BY <1>1, <1>2, <1>3, <1>4, <1>5 DEF OutInv, Arrived

-----------------------------------------------------------------------------
(* The answer.                                                             *)

\* When the runner answers, all output has been through the buffer.
LEMMA AllArrived ==
  ASSUME OutInv, unread = <<>>
  PROVE  /\ \E l \in Seq(Byte) : Raw = l \o Linear
         /\ Raw \in Seq(Byte) /\ Linear \in Seq(Byte) /\ Len(Raw) = total
         /\ Len(Linear) = IF total > Capacity THEN Capacity ELSE total
         /\ total <= Capacity => Raw = Linear
<1>. USE DEF OutInv
<1>1. PICK l \in Seq(Byte) : Len(l) = total - size /\ Raw = (l \o Linear) \o unread
  BY DEF Arrived
<1>2. Linear \in Seq(Byte) /\ Len(Linear) = size /\ Len(l) \in Nat
  BY LinearIsSeq, LenProperties
<1>3. l \o Linear \in Seq(Byte) /\ Len(l \o Linear) = Len(l) + size
  BY <1>2, ConcatProperties
<1>4. Raw = l \o Linear
  BY <1>1, <1>3, ConcatEmptySeq
<1>5. /\ Capacity \in Nat /\ size \in Nat /\ total \in Nat
      /\ size = total \/ (size = Capacity /\ total >= Capacity)
      /\ size <= Capacity
  BY RingAssumption DEF RingInv, RingTypeOK, Wrapped
<1>6. Len(Raw) = total
  BY <1>1, <1>3, <1>4, <1>5
<1>7. size = IF total > Capacity THEN Capacity ELSE total
  BY <1>5
<1>8. ASSUME total <= Capacity  PROVE Raw = Linear
  <2>1. Len(l) = 0
    BY <1>1, <1>2, <1>5, <1>7, <1>8
  <2>2. l = <<>>
    BY <2>1, EmptySeq
  <2>. QED  BY <1>2, <1>4, <2>2, ConcatEmptySeq
<1>. QED  BY <1>2, <1>3, <1>4, <1>6, <1>7, <1>8

LEMMA Delivered ==
  ASSUME OutInv, Deliver
  PROVE  FlagsTheLoss'
<1>1. unread = <<>> /\ phase = "ended" /\ UNCHANGED <<pieces, broken, strip>>
  BY DEF Deliver
<1>2. /\ Raw' = Raw /\ strip' = strip /\ strip \in BOOLEAN
      /\ filter = "Ground" /\ filter \in States
  BY <1>1 DEF Raw, OutInv, PhaseInv
<1>3. PICK l \in Seq(Byte) : Raw = l \o Linear
  BY <1>1, AllArrived
<1>4. /\ Raw \in Seq(Byte) /\ Linear \in Seq(Byte) /\ Len(Raw) = total
      /\ Len(Linear) = IF total > Capacity THEN Capacity ELSE total
  BY <1>1, AllArrived
<1>5. answer'.truncated = (total > Capacity)
  BY DEF Deliver, Truncated, IsTruncated
<1>6. ~strip => answer'.out = Linear
  BY DEF Deliver
<1>8. IsSuffix(Linear, Raw)
  BY <1>3, <1>4, LatestIsSuffix
<1>9. FlagsTheLoss'
  BY <1>2, <1>4, <1>5, <1>6, <1>8 DEF FlagsTheLoss
<1>. QED  BY <1>9

\* Only Deliver makes an answer; Start forgets it.
LEMMA AnswerStays ==
  ASSUME OutInv, [Next]_vars, ~Deliver
  PROVE  \/ ~Answered'
         \/ Answered /\ UNCHANGED <<phase, runs, answer, pieces, broken, strip>>
<1>1. CASE Start \/ (\E p \in Pieces : Prints(p)) \/ Ends
  BY <1>1 DEF Start, Prints, Ends, Answered
<1>2. CASE Drain
  BY <1>2 DEF Drain, Answered, OutInv, PhaseInv
<1>3. CASE Finished \/ UNCHANGED vars
  BY <1>3 DEF Finished, vars, pipeVars, Answered
<1>. QED  BY <1>1, <1>2, <1>3 DEF Next

\* An answer says whether output was lost, and is then the latest of it that the buffer
\* holds, byte for byte, for every command, however it ended.
THEOREM FlagsLoss == Spec => []FlagsTheLoss
<1>1. Init => FlagsTheLoss
  BY DEF Init, FlagsTheLoss, Answered
<1>2. OutInv /\ FlagsTheLoss /\ [Next]_vars => FlagsTheLoss'
  <2>. SUFFICES ASSUME OutInv, FlagsTheLoss, [Next]_vars PROVE FlagsTheLoss'
    OBVIOUS
  <2>1. CASE Deliver
    BY <2>1, Delivered
  <2>2. CASE ~Deliver
    <3>1. ~Answered' => FlagsTheLoss'
      BY DEF FlagsTheLoss
    <3>2. Answered /\ UNCHANGED <<phase, runs, answer, pieces, broken, strip>> => FlagsTheLoss'
      BY DEF FlagsTheLoss, Raw
    <3>. QED  BY <2>2, <3>1, <3>2, AnswerStays
  <2>. QED  BY <2>1, <2>2
<1>. QED  BY <1>1, <1>2, OutInitially, OutInductive, PTL DEF Spec

\* The runner, its pipe, buffer and filter stay what their types say, and an answer is
\* classes of bytes and a flag.
THEOREM OutputTypes == Spec => []TypeOK
<1>. DEFINE AnswerType == /\ answer \in [out : Seq(Classes), truncated : BOOLEAN]
                          /\ runs \in 0..MaxRuns
<1>1. Init => AnswerType
  BY EmptySeq, PipelineAssumption DEF Init
<1>2. OutInv /\ AnswerType /\ [Next]_vars => AnswerType'
  <2>. SUFFICES ASSUME OutInv, AnswerType, [Next]_vars PROVE AnswerType'
    OBVIOUS
  <2>1. CASE Start
    BY <2>1, PipelineAssumption DEF Start
  <2>2. CASE Deliver
    <3>1. UNCHANGED runs /\ filter \in States
      BY <2>2 DEF Deliver, OutInv, PhaseInv
    <3>2. Linear \in Seq(Classes)
      BY LinearIsSeq, PipelineAssumption DEF OutInv
    <3>3. Filter(filter, Linear) \in Acc
      BY <3>1, <3>2, FilterType
    <3>4. Printed \subseteq Classes
      BY DEF Printed, Finals, Classes
    <3>5. Filter(filter, Linear).out \in Seq(Classes)
      BY <3>3, <3>4, SeqMonotonic DEF Acc
    <3>6. Truncated \in BOOLEAN
      BY DEF Truncated, IsTruncated
    <3>7. /\ answer'.out = IF strip THEN Filter(filter, Linear).out ELSE Linear
          /\ answer' = [out |-> answer'.out, truncated |-> Truncated]
      BY <2>2 DEF Deliver
    <3>8. answer'.out \in Seq(Classes)
      BY <3>2, <3>5, <3>7
    <3>. QED  BY <3>1, <3>6, <3>7, <3>8
  <2>3. CASE (\E p \in Pieces : Prints(p)) \/ Ends \/ Drain \/ Finished \/ UNCHANGED vars
    BY <2>3 DEF Prints, Ends, Drain, Finished, vars, pipeVars
  <2>. QED  BY <2>1, <2>2, <2>3 DEF Next
<1>3. OutInv /\ AnswerType => TypeOK
  BY PipelineAssumption DEF OutInv, RingInv, PipeOfBytes, PhaseInv, TypeOK
<1>. QED  BY <1>1, <1>2, <1>3, OutInitially, OutInductive, PTL DEF Spec

-----------------------------------------------------------------------------
(* What the filter makes of the pieces of ECMA-48 that it knows: text      *)
(* passes, and a sequence is read without a byte let through, also when    *)
(* it is cut short.                                                        *)

LEMMA TextPasses ==
  ASSUME NEW u \in Seq(Printed)
  PROVE  Filter("Ground", u) = [st |-> "Ground", out |-> u]
<1>. DEFINE T == {w \in Seq(Printed) : Filter("Ground", w) = [st |-> "Ground", out |-> w]}
<1>1. Printed \subseteq Classes /\ "Ground" \in States
  BY DEF Printed, Classes, Finals, States
<1>2. <<>> \in T
  BY <1>1, FilterNone, EmptySeq DEF Fresh
<1>3. ASSUME NEW w \in T, NEW b \in Printed  PROVE Append(w, b) \in T
  <2>1. w \in Seq(Printed) /\ w \in Seq(Classes) /\ b \in Classes
    BY <1>1, SeqMonotonic
  <2>2. Filter("Ground", Append(w, b)) = Filtered(Filter("Ground", w), b)
    BY <1>1, <2>1, FilterAppend
  <2>3. NextState("Ground", b) = "Ground" /\ Emits("Ground", b)
    BY DEF NextState, Emits, Printed, Finals
  <2>4. Filter("Ground", w) = [st |-> "Ground", out |-> w]
    OBVIOUS
  <2>5. Filtered([st |-> "Ground", out |-> w], b) = [st |-> "Ground", out |-> Append(w, b)]
    BY <2>3 DEF Filtered
  <2>6. Append(w, b) \in Seq(Printed)
    BY <2>1, AppendProperties
  <2>. HIDE DEF T
  <2>7. Filter("Ground", Append(w, b)) = [st |-> "Ground", out |-> Append(w, b)]
    BY <2>2, <2>4, <2>5
  <2>. QED  BY <2>6, <2>7 DEF T
<1>. HIDE DEF T
<1>4. T \in SUBSET Seq(Printed)
  BY DEF T
<1>5. Seq(Printed) \subseteq T
  BY <1>2, <1>3, <1>4, SeqInduction
<1>. QED  BY <1>5 DEF T

\* The states q that the filter goes through in p, letting nothing through.
Silent(p, q) ==
  /\ q[0] = "Ground" /\ q[Len(p)] = "Ground" /\ \A i \in 0..Len(p) : q[i] \in States
  /\ \A i \in 1..Len(p) : q[i] = NextState(q[i - 1], p[i]) /\ ~Emits(q[i - 1], p[i])

LEMMA SilentPasses ==
  ASSUME NEW p \in Seq(Classes), NEW q, Silent(p, q), NEW n \in 0..Len(p)
  PROVE  SubSeq(p, 1, n) \in Seq(Classes) /\ Filter("Ground", SubSeq(p, 1, n)) = Fresh(q[n])
<1>. PICK k : k = Len(p)
  OBVIOUS
<1>1. k \in Nat /\ n \in Nat /\ n <= k /\ \A i \in 1..n : p[i] \in Classes
  BY LenProperties, ElementOfSeq
<1>2. PICK u : u = SubSeq(p, 1, n)
  OBVIOUS
<1>3. u \in Seq(Classes) /\ Len(u) = n /\ \A i \in 1..n : u[i] = p[i]
  BY <1>1, <1>2, SubSeqProperties
<1>4. "Ground" \in States
  BY DEF States
<1>5. PICK f : Filters(f, "Ground", u) /\ f[Len(u)] = Filter("Ground", u)
  BY <1>3, <1>4, FilterRuns
<1>6. f[0] = Fresh("Ground") /\ \A i \in 1..n : f[i] = Filtered(f[i - 1], p[i])
  BY <1>3, <1>5 DEF Filters
<1>. DEFINE T == {m \in Nat : m <= n => f[m] = Fresh(q[m])}
<1>7. 0 \in T
  BY <1>6 DEF Silent
<1>8. ASSUME NEW m \in T  PROVE m + 1 \in T
  <2>. SUFFICES ASSUME m + 1 <= n  PROVE f[m + 1] = Fresh(q[m + 1])
    OBVIOUS
  <2>1. m + 1 \in 1..n /\ m + 1 \in 1..Len(p) /\ (m + 1) - 1 = m
    BY <1>1
  <2>2. f[m] = Fresh(q[m])
    BY <1>1, <2>1
  <2>. HIDE DEF T
  <2>3. f[m + 1] = Filtered(f[m], p[m + 1])
    BY <1>6, <2>1
  <2>4. q[m + 1] = NextState(q[m], p[m + 1]) /\ ~Emits(q[m], p[m + 1])
    BY <2>1 DEF Silent
  <2>. QED  BY <2>2, <2>3, <2>4 DEF Filtered, Fresh
<1>. HIDE DEF T
<1>9. T \in SUBSET Nat
  BY DEF T
<1>10. n \in T
  BY <1>1, <1>7, <1>8, <1>9, Induction
<1>11. f[n] = Fresh(q[n])
  BY <1>1, <1>10 DEF T
<1>. QED  BY <1>2, <1>3, <1>5, <1>11

\* The transitions of a known sequence.
LEMMA Transitions ==
  /\ NextState("Ground", "esc") = "Escape"
  /\ \A b \in {"cr", "bel", "ctl"} : NextState("Ground", b) = "Ground"
  /\ NextState("Escape", "[") = "CsiParam" /\ NextState("Escape", "]") = "Osc"
  /\ NextState("Escape", "interm") = "EscInterm"
  /\ \A b \in (Finals \cup {"param"}) \ {"[", "]"} : NextState("Escape", b) = "Ground"
  /\ \A b : NextState("EscInterm", b) = "Ground"
  /\ NextState("CsiParam", "param") = "CsiParam"
  /\ \A st \in {"CsiParam", "CsiInterm"} : /\ NextState(st, "interm") = "CsiInterm"
                                           /\ \A b \in Finals : NextState(st, b) = "Ground"
  /\ NextState("Osc", "bel") = "Ground" /\ NextState("Osc", "esc") = "OscEsc"
  /\ \A b : b \notin {"bel", "esc"} => NextState("Osc", b) = "Osc"
  /\ NextState("OscEsc", "\\") = "Ground"
  /\ \A b \in {"esc", "cr", "bel", "ctl"} : ~Emits("Ground", b) /\ b \notin Printed
  /\ \A st \in States : st # "Ground" => \A b : ~Emits(st, b)
BY DEF NextState, Emits, Printed, Finals, States

LEMMA ControlSilent ==
  ASSUME NEW p \in Seq(Classes), Control(p)
  PROVE  \E q : Silent(p, q)
<1>. DEFINE q == [i \in 0..1 |-> "Ground"]
<1>1. Len(p) = 1 /\ p[1] \in {"cr", "bel", "ctl"}
  BY DEF Control
<1>2. Silent(p, q)
  BY <1>1, Transitions DEF Silent, States
<1>. QED  BY <1>2

LEMMA ShortSilent ==
  ASSUME NEW p \in Seq(Classes), TwoByte(p) \/ ThreeByte(p)
  PROVE  \E q : Silent(p, q)
<1>1. CASE TwoByte(p)
  <2>. DEFINE q == [i \in 0..2 |-> IF i = 1 THEN "Escape" ELSE "Ground"]
  <2>1. Len(p) = 2 /\ p[1] = "esc" /\ p[2] \in (Finals \cup {"param"}) \ {"[", "]"}
    BY <1>1 DEF TwoByte
  <2>2. q[0] = "Ground" /\ q[1] = "Escape" /\ q[2] = "Ground" /\ 0..2 = {0, 1, 2} /\ 1..2 = {1, 2}
    OBVIOUS
  <2>. HIDE DEF q
  <2>3. Silent(p, q)
    BY <2>1, <2>2, Transitions DEF Silent, States
  <2>. QED  BY <2>3
<1>2. CASE ThreeByte(p)
  <2>. DEFINE q == [i \in 0..3 |-> IF i = 1 THEN "Escape" ELSE IF i = 2 THEN "EscInterm" ELSE "Ground"]
  <2>1. Len(p) = 3 /\ p[1] = "esc" /\ p[2] = "interm"
    BY <1>2 DEF ThreeByte, Opens
  <2>2. /\ q[0] = "Ground" /\ q[1] = "Escape" /\ q[2] = "EscInterm" /\ q[3] = "Ground"
        /\ 0..3 = {0, 1, 2, 3} /\ 1..3 = {1, 2, 3}
    OBVIOUS
  <2>. HIDE DEF q
  <2>3. Silent(p, q)
    BY <2>1, <2>2, Transitions DEF Silent, States
  <2>. QED  BY <2>3
<1>. QED  BY <1>1, <1>2

LEMMA CsiSilent ==
  ASSUME NEW p \in Seq(Classes), Csi(p)
  PROVE  \E q : Silent(p, q)
<1>. PICK k : k = Len(p)
  OBVIOUS
<1>1. k \in Nat /\ k > 2 /\ p[1] = "esc" /\ p[2] = "[" /\ p[k] \in Finals
  BY LenProperties DEF Csi, Opens
<1>2. PICK m \in 2..(k - 1) : /\ \A i \in 3..m : p[i] = "param"
                              /\ \A i \in (m + 1)..(k - 1) : p[i] = "interm"
  BY DEF Csi
<1>. DEFINE q == [i \in 0..k |-> IF i = 0 \/ i = k THEN "Ground" ELSE IF i = 1 THEN "Escape"
                                 ELSE IF i <= m THEN "CsiParam" ELSE "CsiInterm"]
<1>3. /\ q[0] = "Ground" /\ q[1] = "Escape" /\ q[k] = "Ground"
      /\ \A i \in 2..m : q[i] = "CsiParam"
      /\ \A i \in (m + 1)..(k - 1) : q[i] = "CsiInterm"
  BY <1>1
<1>4. \A i \in 0..k : q[i] \in States
  BY DEF States
<1>. HIDE DEF q
<1>5. ASSUME NEW i \in 1..k  PROVE q[i] = NextState(q[i - 1], p[i]) /\ ~Emits(q[i - 1], p[i])
  <2>0. q[i - 1] \in States
    BY <1>1, <1>4
  <2>1. CASE i = 1
    <3>1. i - 1 = 0
      BY <2>1
    <3>. QED  BY <1>1, <1>3, <2>1, <3>1, Transitions
  <2>2. CASE i = 2
    <3>1. i - 1 = 1 /\ i \in 2..m
      BY <2>2
    <3>2. q[i - 1] = "Escape" /\ q[i] = "CsiParam" /\ p[i] = "["
      BY <1>1, <1>3, <2>2, <3>1
    <3>. QED  BY <2>0, <3>2, Transitions
  <2>3. CASE i \in 3..m
    <3>1. i - 1 \in 2..m /\ i \in 2..m
      BY <2>3
    <3>2. q[i - 1] = "CsiParam" /\ q[i] = "CsiParam" /\ p[i] = "param"
      BY <1>2, <1>3, <2>3, <3>1
    <3>. QED  BY <2>0, <3>2, Transitions
  <2>4. CASE i \in (m + 1)..(k - 1)
    <3>1. i - 1 \in 2..m \/ i - 1 \in (m + 1)..(k - 1)
      BY <2>4
    <3>2. q[i - 1] \in {"CsiParam", "CsiInterm"} /\ q[i] = "CsiInterm" /\ p[i] = "interm"
      BY <1>2, <1>3, <2>4, <3>1
    <3>. QED  BY <2>0, <3>2, Transitions
  <2>5. CASE i = k
    <3>1. i - 1 \in 2..m \/ i - 1 \in (m + 1)..(k - 1)
      BY <1>1, <2>5
    <3>2. q[i - 1] \in {"CsiParam", "CsiInterm"} /\ q[i] = "Ground" /\ p[i] \in Finals
      BY <1>1, <1>3, <2>5, <3>1
    <3>. QED  BY <2>0, <3>2, Transitions
  <2>6. i = 1 \/ i = 2 \/ i \in 3..m \/ i \in (m + 1)..(k - 1) \/ i = k
    BY <1>1
  <2>. QED  BY <2>1, <2>2, <2>3, <2>4, <2>5, <2>6
<1>6. Silent(p, q)
  BY <1>3, <1>4, <1>5 DEF Silent
<1>. QED  BY <1>6

LEMMA OscSilent ==
  ASSUME NEW p \in Seq(Classes), Osc(p)
  PROVE  \E q : Silent(p, q)
<1>. PICK k : k = Len(p)
  OBVIOUS
<1>1. k \in Nat /\ k > 2 /\ p[1] = "esc" /\ p[2] = "]"
  BY LenProperties DEF Osc, Opens
<1>2. PICK m \in 2..(k - 1) :
        /\ \A i \in 3..m : p[i] \notin {"bel", "esc"}
        /\ \/ m = k - 1 /\ p[m + 1] = "bel"
           \/ m = k - 2 /\ p[m + 1] = "esc" /\ p[m + 2] = "\\"
  BY DEF Osc
<1>. DEFINE q == [i \in 0..k |-> IF i = 0 \/ i = k THEN "Ground" ELSE IF i = 1 THEN "Escape"
                                 ELSE IF i <= m THEN "Osc" ELSE "OscEsc"]
<1>3. /\ q[0] = "Ground" /\ q[1] = "Escape" /\ q[k] = "Ground"
      /\ \A i \in 2..m : q[i] = "Osc"
      /\ \A i \in (m + 1)..(k - 1) : q[i] = "OscEsc"
  BY <1>1
<1>4. \A i \in 0..k : q[i] \in States
  BY DEF States
<1>. HIDE DEF q
<1>5. ASSUME NEW i \in 1..k  PROVE q[i] = NextState(q[i - 1], p[i]) /\ ~Emits(q[i - 1], p[i])
  <2>0. q[i - 1] \in States
    BY <1>1, <1>4
  <2>1. CASE i = 1
    <3>1. i - 1 = 0
      BY <2>1
    <3>. QED  BY <1>1, <1>3, <2>1, <3>1, Transitions
  <2>2. CASE i = 2
    <3>1. i - 1 = 1 /\ i \in 2..m
      BY <2>2
    <3>2. q[i - 1] = "Escape" /\ q[i] = "Osc" /\ p[i] = "]"
      BY <1>1, <1>3, <2>2, <3>1
    <3>. QED  BY <2>0, <3>2, Transitions
  <2>3. CASE i \in 3..m
    <3>1. i - 1 \in 2..m /\ i \in 2..m
      BY <2>3
    <3>2. q[i - 1] = "Osc" /\ q[i] = "Osc" /\ p[i] \notin {"bel", "esc"}
      BY <1>2, <1>3, <2>3, <3>1
    <3>. QED  BY <2>0, <3>2, Transitions
  <2>4. CASE i = m + 1 /\ m = k - 1
    <3>1. i - 1 \in 2..m /\ i = k
      BY <1>1, <2>4
    <3>2. q[i - 1] = "Osc" /\ q[i] = "Ground" /\ p[i] = "bel"
      <4>1. p[m + 1] = "bel"
        BY <1>1, <1>2, <2>4
      <4>. QED  BY <1>3, <2>4, <3>1, <4>1
    <3>. QED  BY <2>0, <3>2, Transitions
  <2>5. CASE i = m + 1 /\ m = k - 2
    <3>1. i - 1 \in 2..m /\ i \in (m + 1)..(k - 1)
      BY <1>1, <2>5
    <3>2. q[i - 1] = "Osc" /\ q[i] = "OscEsc" /\ p[i] = "esc"
      <4>1. p[m + 1] = "esc"
        BY <1>1, <1>2, <2>5
      <4>. QED  BY <1>3, <2>5, <3>1, <4>1
    <3>. QED  BY <2>0, <3>2, Transitions
  <2>6. CASE i = m + 2 /\ m = k - 2
    <3>1. i - 1 \in (m + 1)..(k - 1) /\ i = k
      BY <1>1, <2>6
    <3>2. q[i - 1] = "OscEsc" /\ q[i] = "Ground" /\ p[i] = "\\"
      <4>1. p[m + 2] = "\\"
        BY <1>1, <1>2, <2>6
      <4>. QED  BY <1>3, <2>6, <3>1, <4>1
    <3>. QED  BY <2>0, <3>2, Transitions
  <2>7. \/ i = 1 \/ i = 2 \/ i \in 3..m \/ (i = m + 1 /\ m = k - 1) \/ (i = m + 1 /\ m = k - 2)
        \/ (i = m + 2 /\ m = k - 2)
    <3>1. m = k - 1 \/ m = k - 2
      BY <1>2
    <3>. QED  BY <1>1, <3>1
  <2>. QED  BY <2>1, <2>2, <2>3, <2>4, <2>5, <2>6, <2>7
<1>6. Silent(p, q)
  BY <1>3, <1>4, <1>5 DEF Silent
<1>. QED  BY <1>6

LEMMA KnownIsSilent ==
  ASSUME NEW p \in Seq(Classes), Known(p), ~Printable(p)
  PROVE  (\E q : Silent(p, q)) /\ Len(p) > 0 /\ p[1] \notin Printed
<1>1. \E q : Silent(p, q)
  BY ControlSilent, ShortSilent, CsiSilent, OscSilent DEF Known
<1>2. p[1] \in {"esc", "cr", "bel", "ctl"} /\ Len(p) > 0
  BY DEF Known, Control, Csi, Osc, TwoByte, ThreeByte, Opens
<1>. QED  BY <1>1, <1>2, Transitions

KnownPieces == \A p \in Pieces : Known(p)

LEMMA PrintableIsText ==
  ASSUME NEW p \in Seq(Classes), Printable(p)
  PROVE  Filter("Ground", p).st = "Ground" /\ Filter("Ground", p).out = Shown(p) /\ Shown(p) = p
<1>1. Len(p) \in Nat /\ p = [i \in 1..Len(p) |-> p[i]] /\ \A i \in 1..Len(p) : p[i] \in Printed
  BY LenProperties DEF Printable
<1>2. [i \in 1..Len(p) |-> p[i]] \in Seq(Printed)
  BY <1>1, IsASeq
<1>3. p \in Seq(Printed)
  BY <1>1, <1>2
<1>4. Filter("Ground", p) = [st |-> "Ground", out |-> p]
  BY <1>3, TextPasses
<1>. QED  BY <1>4 DEF Shown

\* A known piece, whole or cut short, shows as its text, and only a whole one is read to
\* its end.
LEMMA PieceShown ==
  ASSUME NEW p \in Seq(Classes), Known(p), NEW n \in 0..Len(p)
  PROVE  /\ SubSeq(p, 1, n) \in Seq(Classes)
         /\ Filter("Ground", SubSeq(p, 1, n)).out = Shown(SubSeq(p, 1, n))
         /\ n = Len(p) => Filter("Ground", SubSeq(p, 1, n)).st = "Ground"
<1>. PICK s : s = SubSeq(p, 1, n)
  OBVIOUS
<1>. PICK k : k = Len(p)
  OBVIOUS
<1>1. k \in Nat /\ n \in Nat /\ n <= k /\ \A i \in 1..n : p[i] \in Classes
  BY LenProperties, ElementOfSeq
<1>2. s \in Seq(Classes) /\ Len(s) = n /\ \A i \in 1..n : s[i] = p[i]
  BY <1>1, SubSeqProperties
<1>3. CASE Printable(p)
  <2>1. \A i \in 1..n : i \in 1..k
    BY <1>1
  <2>2. Printable(s)
    BY <1>2, <1>3, <2>1 DEF Printable
  <2>3. Filter("Ground", s).st = "Ground" /\ Filter("Ground", s).out = Shown(s)
    BY <1>2, <2>2, PrintableIsText
  <2>. QED  BY <1>2, <2>3
<1>4. CASE ~Printable(p)
  <2>1. PICK q : Silent(p, q)
    BY <1>4, KnownIsSilent
  <2>2. Filter("Ground", s) = Fresh(q[n])
    BY <2>1, SilentPasses
  <2>3. q[k] = "Ground"
    BY <2>1 DEF Silent
  <2>4. Filter("Ground", s).out = <<>> /\ Filter("Ground", s).st = q[n]
    BY <2>2 DEF Fresh
  <2>5. Shown(s) = <<>>
    <3>1. CASE n = 0
      <4>1. s = <<>>
        BY <1>2, <3>1, EmptySeq
      <4>. QED  BY <4>1 DEF Shown
    <3>2. CASE n # 0
      <4>1. p[1] \notin Printed
        BY <1>4, KnownIsSilent
      <4>2. 1 \in 1..n /\ s[1] = p[1]
        BY <1>1, <1>2, <3>2
      <4>3. ~Printable(s)
        BY <1>2, <4>1, <4>2 DEF Printable
      <4>. QED  BY <4>3 DEF Shown
    <3>. QED  BY <3>1, <3>2
  <2>. QED  BY <1>2, <2>3, <2>4, <2>5
<1>. QED  BY <1>3, <1>4

LEMMA TextAppend ==
  ASSUME NEW ps \in Seq(Seq(Byte)), NEW x \in Seq(Byte)
  PROVE  TextOf(Append(ps, x)) = TextOf(ps) \o Shown(x)
<1>. PICK k : k = Len(ps)
  OBVIOUS
<1>. PICK v : v = Append(ps, x)
  OBVIOUS
<1>. DEFINE w == [i \in 1..k |-> Shown(ps[i])]
            z == [i \in 1..(k + 1) |-> Shown(v[i])]
<1>1. \A p \in Seq(Byte) : Shown(p) \in Seq(Byte)
  BY EmptySeq DEF Shown
<1>2. /\ v \in Seq(Seq(Byte)) /\ k \in Nat /\ Len(v) = k + 1 /\ v[k + 1] = x
      /\ \A i \in 1..k : v[i] = ps[i] /\ ps[i] \in Seq(Byte)
      /\ DOMAIN ps = 1..k /\ DOMAIN v = 1..(k + 1)
  <2>1. /\ v \in Seq(Seq(Byte)) /\ k \in Nat /\ Len(v) = k + 1 /\ v[k + 1] = x
        /\ \A i \in 1..k : v[i] = ps[i]
    BY AppendProperties, LenProperties
  <2>2. \A i \in 1..k : ps[i] \in Seq(Byte)
    BY ElementOfSeq
  <2>3. DOMAIN ps = 1..k /\ DOMAIN v = 1..(k + 1)
    BY <2>1, LenProperties
  <2>. QED  BY <2>1, <2>2, <2>3
<1>3. \A i \in 1..(k + 1) : v[i] \in Seq(Byte)
  BY <1>2, ElementOfSeq
<1>4. w \in Seq(Seq(Byte)) /\ Len(w) = k /\ \A i \in 1..k : w[i] = Shown(ps[i])
  <2>1. \A i \in 1..k : Shown(ps[i]) \in Seq(Byte)
    BY <1>1, <1>2
  <2>2. w \in Seq(Seq(Byte))
    BY <1>2, <2>1, IsASeq
  <2>. QED  BY <1>2, <2>2, LenProperties
<1>5. z \in Seq(Seq(Byte)) /\ Len(z) = k + 1 /\ \A i \in 1..(k + 1) : z[i] = Shown(v[i])
  <2>1. \A i \in 1..(k + 1) : Shown(v[i]) \in Seq(Byte)
    BY <1>1, <1>3
  <2>2. k + 1 \in Nat
    BY <1>2
  <2>3. z \in Seq(Seq(Byte))
    BY <2>1, <2>2, IsASeq, SMTT(30)
  <2>. QED  BY <2>2, <2>3, LenProperties
<1>6. TextOf(ps) = FlattenSeq(w) /\ TextOf(v) = FlattenSeq(z)
  BY <1>2 DEF TextOf
<1>. HIDE DEF w, z
<1>7. z = Append(w, Shown(x))
  <2>. PICK y : y = Append(w, Shown(x))
    OBVIOUS
  <2>1. Shown(x) \in Seq(Byte)
    BY <1>1
  <2>2. /\ y \in Seq(Seq(Byte)) /\ Len(y) = k + 1 /\ y[k + 1] = Shown(x)
        /\ \A i \in 1..k : y[i] = w[i]
    BY <1>4, <2>1, AppendProperties
  <2>3. \A i \in 1..(k + 1) : y[i] = z[i]
    <3>. TAKE i \in 1..(k + 1)
    <3>1. CASE i = k + 1
      BY <1>2, <1>5, <2>2, <3>1
    <3>2. CASE i # k + 1
      <4>1. i \in 1..k
        BY <1>2, <3>2
      <4>. QED  BY <1>2, <1>4, <1>5, <2>2, <4>1
    <3>. QED  BY <3>1, <3>2
  <2>4. y = z
    BY <1>5, <2>2, <2>3, SeqEqual
  <2>. QED  BY <2>4
<1>8. FlattenSeq(Append(w, Shown(x))) = FlattenSeq(w) \o Shown(x)
  BY <1>1, <1>4, FlattenAppend
<1>. QED  BY <1>6, <1>7, <1>8

\* The text of whole pieces, and the filter is where it began.
LEMMA PiecesShown ==
  ASSUME KnownPieces, NEW ps \in Seq(Pieces)
  PROVE  Filter("Ground", FlattenSeq(ps)).st = "Ground" /\ Filter("Ground", FlattenSeq(ps)).out = TextOf(ps)
<1>. DEFINE Right(w) == /\ Filter("Ground", FlattenSeq(w)).st = "Ground"
                        /\ Filter("Ground", FlattenSeq(w)).out = TextOf(w)
            T == {w \in Seq(Pieces) : Right(w)}
<1>1. Byte = Classes /\ "Ground" \in States
  BY PipelineAssumption DEF States
<1>2. <<>> \in T
  <2>1. Filter("Ground", <<>>) = Fresh("Ground") /\ <<>> \in Seq(Pieces)
    BY <1>1, FilterNone, EmptySeq
  <2>2. TextOf(<<>>) = <<>>
    <3>1. [i \in DOMAIN <<>> |-> Shown(<<>>[i])] = <<>>
      OBVIOUS
    <3>. QED  BY <3>1, FlattenNone DEF TextOf
  <2>3. Filter("Ground", <<>>).st = "Ground" /\ Filter("Ground", <<>>).out = <<>>
    BY <2>1 DEF Fresh
  <2>4. Right(<<>>)
    BY <2>2, <2>3, FlattenNone
  <2>. QED  BY <2>1, <2>4
<1>3. ASSUME NEW w \in T, NEW p \in Pieces  PROVE Append(w, p) \in T
  <2>1. w \in Seq(Pieces) /\ Right(w)
    OBVIOUS
  <2>2. /\ w \in Seq(Seq(Byte)) /\ FlattenSeq(w) \in Seq(Byte) /\ p \in Seq(Byte)
        /\ Append(w, p) \in Seq(Pieces) /\ FlattenSeq(Append(w, p)) = FlattenSeq(w) \o p
    BY <2>1, RawIsSeq
  <2>. PICK u : u = FlattenSeq(w)
    OBVIOUS
  <2>3. /\ Filter("Ground", u \o p).st = Filter(Filter("Ground", u).st, p).st
        /\ Filter("Ground", u \o p).out = Filter("Ground", u).out \o Filter(Filter("Ground", u).st, p).out
    BY <1>1, <2>2, FilterConcat
  <2>4. Filter("Ground", p).st = "Ground" /\ Filter("Ground", p).out = Shown(p)
    <3>1. p \in Seq(Classes) /\ Known(p) /\ Len(p) \in 0..Len(p) /\ SubSeq(p, 1, Len(p)) = p
      BY <1>1, <2>2, LenProperties, SubSeqFull DEF KnownPieces
    <3>. QED  BY <3>1, PieceShown
  <2>5. TextOf(Append(w, p)) = TextOf(w) \o Shown(p)
    BY <2>2, TextAppend
  <2>6. Right(Append(w, p))
    BY <2>1, <2>2, <2>3, <2>4, <2>5
  <2>. QED  BY <2>2, <2>6
<1>. HIDE DEF T
<1>4. T \in SUBSET Seq(Pieces)
  BY DEF T
<1>5. Seq(Pieces) \subseteq T
  BY <1>2, <1>3, <1>4, SeqInduction
<1>. QED  BY <1>5 DEF T

\* Pieces, the last one cut short.
LEMMA RestShown ==
  ASSUME KnownPieces, NEW ps \in Seq(Pieces), NEW r \in Seq(Byte), Cut(r)
  PROVE  /\ FlattenSeq(ps \o <<r>>) = FlattenSeq(ps) \o r /\ FlattenSeq(ps \o <<r>>) \in Seq(Classes)
         /\ Filter("Ground", FlattenSeq(ps \o <<r>>)).out = TextOf(ps \o <<r>>)
<1>1. Byte = Classes /\ "Ground" \in States
  BY PipelineAssumption DEF States
<1>. PICK u : u = FlattenSeq(ps)
  OBVIOUS
<1>2. ps \in Seq(Seq(Byte)) /\ u \in Seq(Byte)
  BY RawIsSeq
<1>3. Filter("Ground", u).st = "Ground" /\ Filter("Ground", u).out = TextOf(ps)
  BY PiecesShown
<1>4. /\ Filter("Ground", u \o r).out = Filter("Ground", u).out \o Filter(Filter("Ground", u).st, r).out
      /\ u \o r \in Seq(Classes)
  BY <1>1, <1>2, FilterConcat
<1>5. Filter("Ground", r).out = Shown(r)
  <2>1. CASE r = <<>>
    <3>1. Filter("Ground", <<>>) = Fresh("Ground")
      BY <1>1, FilterNone
    <3>. QED  BY <2>1, <3>1 DEF Fresh, Shown
  <2>2. ASSUME NEW p \in Pieces, NEW n \in 0..(Len(p) - 1), r = SubSeq(p, 1, n)
        PROVE  Filter("Ground", r).out = Shown(r)
    <3>1. p \in Seq(Classes) /\ Known(p) /\ Len(p) \in Nat
      BY <1>1, PieceIsSeq, LenProperties DEF KnownPieces
    <3>2. n \in 0..Len(p)
      BY <3>1
    <3>. QED  BY <2>2, <3>1, <3>2, PieceShown
  <2>. QED  BY <2>1, <2>2 DEF Cut
<1>6. TextOf(Append(ps, r)) = TextOf(ps) \o Shown(r) /\ FlattenSeq(Append(ps, r)) = u \o r
  BY <1>2, TextAppend, FlattenAppend
<1>7. Append(ps, r) = ps \o <<r>>
  BY <1>2, AppendIsConcat
<1>. QED  BY <1>3, <1>4, <1>5, <1>6, <1>7

LEMMA RawShown ==
  ASSUME KnownPieces, OutInv
  PROVE  Filter("Ground", Raw).out = TextOf(pieces \o <<broken>>)
<1>1. pieces \in Seq(Pieces) /\ broken \in Seq(Byte) /\ Cut(broken)
  BY DEF OutInv, PipeOfBytes, PhaseInv
<1>2. FlattenSeq(pieces \o <<broken>>) = Raw
  BY <1>1, RestShown DEF Raw
<1>. QED  BY <1>1, <1>2, RestShown

\* Output that fits the buffer is answered as its text, or byte for byte when the request
\* does not strip it: for every sequence of text and of the escape sequences that the
\* filter knows, also cut short in one, whatever commands came before.
THEOREM StripsText ==
  ASSUME KnownPieces
  PROVE  Spec => []StripsToText
<1>1. Init => StripsToText
  BY DEF Init, StripsToText, Answered
<1>2. OutInv /\ StripsToText /\ [Next]_vars => StripsToText'
  <2>. SUFFICES ASSUME OutInv, StripsToText, [Next]_vars PROVE StripsToText'
    OBVIOUS
  <2>1. CASE Deliver
    <3>1. unread = <<>> /\ phase = "ended" /\ UNCHANGED <<pieces, broken, strip>>
      BY <2>1 DEF Deliver
    <3>2. /\ Raw' = Raw /\ pieces' = pieces /\ broken' = broken /\ strip' = strip
          /\ strip \in BOOLEAN /\ filter = "Ground"
      BY <3>1 DEF Raw, OutInv, PhaseInv
    <3>3. Len(Raw) = total /\ (total <= Capacity => Raw = Linear)
      BY <3>1, AllArrived
    <3>4. answer'.truncated = (total > Capacity)
      BY <2>1 DEF Deliver, Truncated, IsTruncated
    <3>5. answer'.out = IF strip THEN Filter("Ground", Linear).out ELSE Linear
      BY <2>1, <3>2 DEF Deliver
    <3>6. Filter("Ground", Raw).out = TextOf(pieces \o <<broken>>)
      BY RawShown
    <3>7. total \in Nat /\ Capacity \in Nat
      BY RingAssumption DEF OutInv, RingInv, RingTypeOK
    <3>8. ASSUME total <= Capacity
          PROVE  /\ ~answer'.truncated
                 /\ answer'.out = IF strip THEN TextOf(pieces \o <<broken>>) ELSE Raw
      <4>1. (total > Capacity) = FALSE
        BY <3>7, <3>8
      <4>2. ~answer'.truncated
        BY <3>4, <4>1, Zenon
      <4>3. Raw = Linear
        BY <3>3, <3>8, Zenon
      <4>4. answer'.out = IF strip THEN Filter("Ground", Raw).out ELSE Raw
        BY <3>5, <4>3, Zenon
      <4>5. answer'.out = IF strip THEN TextOf(pieces \o <<broken>>) ELSE Raw
        BY <3>6, <4>4, Zenon
      <4>. QED  BY <4>2, <4>5
    <3>. QED  BY <3>2, <3>3, <3>8 DEF StripsToText
  <2>2. CASE ~Deliver
    <3>1. ~Answered' => StripsToText'
      BY DEF StripsToText
    <3>2. Answered /\ UNCHANGED <<phase, runs, answer, pieces, broken, strip>> => StripsToText'
      BY DEF StripsToText, Raw
    <3>. QED  BY <2>2, <3>1, <3>2, AnswerStays
  <2>. QED  BY <2>1, <2>2
<1>. QED  BY <1>1, <1>2, OutInitially, OutInductive, PTL DEF Spec

-----------------------------------------------------------------------------
(* Output that does not fit: the filter begins in the middle of a piece.   *)

\* In a known piece that is not its first byte, ESC begins a string terminator only.
LEMMA InnerEscape ==
  ASSUME NEW p \in Seq(Classes), Known(p), NEW i \in 2..Len(p), p[i] = "esc"
  PROVE  i = Len(p) - 1 /\ p[Len(p)] = "\\"
<1>. PICK k : k = Len(p)
  OBVIOUS
<1>1. k \in Nat /\ i \in Int /\ 2 <= i /\ i <= k
  BY LenProperties
<1>2. "esc" \notin Finals /\ "esc" \notin Printed
  BY DEF Finals, Printed
<1>3. ~Printable(p)
  <2>1. i \in 1..k
    BY <1>1
  <2>. QED  BY <1>2, <2>1 DEF Printable
<1>4. ~Control(p)
  BY <1>1 DEF Control
<1>5. ~TwoByte(p)
  <2>1. k = 2 => i = 2
    BY <1>1
  <2>. QED  BY <1>2, <2>1 DEF TwoByte
<1>6. ~ThreeByte(p)
  <2>1. k = 3 => i = 2 \/ i = 3
    BY <1>1
  <2>. QED  BY <1>2, <2>1 DEF ThreeByte, Opens
<1>7. ~Csi(p)
  <2>. SUFFICES ASSUME Csi(p) PROVE FALSE
    OBVIOUS
  <2>1. p[2] = "[" /\ p[k] \in Finals
    BY DEF Csi, Opens
  <2>2. PICK m \in 2..(k - 1) : /\ \A j \in 3..m : p[j] = "param"
                                /\ \A j \in (m + 1)..(k - 1) : p[j] = "interm"
    BY DEF Csi
  <2>3. i = 2 \/ i \in 3..m \/ i \in (m + 1)..(k - 1) \/ i = k
    BY <1>1
  <2>. QED  BY <1>2, <2>1, <2>2, <2>3
<1>8. Osc(p)
  BY <1>3, <1>4, <1>5, <1>6, <1>7 DEF Known
<1>9. p[2] = "]"
  BY <1>8 DEF Osc, Opens
<1>10. PICK m \in 2..(k - 1) :
         /\ \A j \in 3..m : p[j] \notin {"bel", "esc"}
         /\ \/ m = k - 1 /\ p[m + 1] = "bel"
            \/ m = k - 2 /\ p[m + 1] = "esc" /\ p[m + 2] = "\\"
  BY <1>8 DEF Osc
<1>11. i # 2 /\ i \notin 3..m
  BY <1>9, <1>10
<1>12. CASE m = k - 1
  <2>1. i = k /\ m + 1 = k
    BY <1>1, <1>11, <1>12
  <2>2. p[k] = "bel" \/ p[k] = "\\"
    <3>1. m # k - 2
      BY <1>1, <1>12
    <3>. QED  BY <1>10, <2>1, <3>1
  <2>. QED  BY <2>1, <2>2
<1>13. CASE m = k - 2
  <2>1. m + 2 = k /\ (i = k - 1 \/ i = k)
    BY <1>1, <1>11, <1>13
  <2>2. p[k] = "\\"
    <3>1. m # k - 1
      BY <1>1, <1>13
    <3>. QED  BY <1>10, <2>1, <3>1
  <2>. QED  BY <2>1, <2>2
<1>. QED  BY <1>10, <1>12, <1>13

\* Wherever the buffer has cut a known piece, the filter is on the ground at its end.
LEMMA BackInStep ==
  ASSUME NEW p \in Seq(Classes), Known(p), NEW n \in 0..Len(p)
  PROVE  /\ SubSeq(p, n + 1, Len(p)) \in Seq(Classes)
         /\ Len(SubSeq(p, n + 1, Len(p))) = Len(p) - n
         /\ Filter("Ground", SubSeq(p, n + 1, Len(p))).st = "Ground"
<1>. PICK k : k = Len(p)
  OBVIOUS
<1>. PICK u : u = SubSeq(p, n + 1, k)
  OBVIOUS
<1>1. k \in Nat /\ n \in Nat /\ n <= k /\ \A i \in (n + 1)..k : p[i] \in Classes
  <2>1. k \in Nat /\ n \in Nat /\ n <= k
    BY LenProperties
  <2>2. \A i \in (n + 1)..k : i \in 1..k
    BY <2>1
  <2>. QED  BY <2>1, <2>2, ElementOfSeq
<1>2. u \in Seq(Classes) /\ Len(u) = k - n /\ \A i \in 1..(k - n) : u[i] = p[n + i]
  <2>1. n + 1 \in Int /\ k \in Int
    BY <1>1
  <2>2. /\ u \in Seq(Classes) /\ Len(u) = IF n + 1 <= k THEN k - (n + 1) + 1 ELSE 0
        /\ \A i \in 1..(k - (n + 1) + 1) : u[i] = p[(n + 1) + i - 1]
    BY <1>1, <2>1, SubSeqProperties
  <2>3. k - (n + 1) + 1 = k - n /\ \A i \in 1..(k - n) : (n + 1) + i - 1 = n + i
    BY <1>1
  <2>4. (IF n + 1 <= k THEN k - (n + 1) + 1 ELSE 0) = k - n
    BY <1>1
  <2>. QED  BY <2>2, <2>3, <2>4
<1>3. CASE n = 0
  <2>1. u = SubSeq(p, 1, k) /\ k \in 0..k
    BY <1>1, <1>3
  <2>. QED  BY <1>2, <1>3, <2>1, PieceShown
<1>4. CASE n # 0
  <2>1. ASSUME NEW i \in 1..(k - n), u[i] = "esc"
        PROVE  i = k - n - 1 /\ u[k - n] = "\\"
    <3>1. n + i \in 2..k /\ k - n \in 1..(k - n) /\ n + (k - n) = k
      BY <1>1, <1>4
    <3>2. p[n + i] = "esc" /\ u[k - n] = p[k]
      BY <1>2, <2>1, <3>1
    <3>3. n + i = k - 1 /\ p[k] = "\\"
      BY <3>1, <3>2, InnerEscape
    <3>. QED  BY <1>1, <3>2, <3>3
  <2>2. PICK f : Filters(f, "Ground", u) /\ f[Len(u)] = Filter("Ground", u)
    <3>1. "Ground" \in States
      BY DEF States
    <3>. QED  BY <1>2, <3>1, FilterRuns
  <2>3. /\ f[0] = Fresh("Ground")
        /\ \A i \in 1..(k - n) : f[i] = Filtered(f[i - 1], u[i])
    BY <1>2, <2>2 DEF Filters
  <2>. DEFINE Q(i) == f[i].st = "Ground" \/ (i = k - n - 1 /\ f[i].st = "Escape" /\ u[k - n] = "\\")
              T == {i \in Nat : i <= k - n => Q(i)}
  <2>4. 0 \in T
    BY <2>3 DEF Fresh
  <2>5. ASSUME NEW i \in T  PROVE i + 1 \in T
    <3>. SUFFICES ASSUME i + 1 <= k - n  PROVE Q(i + 1)
      OBVIOUS
    <3>1. i \in Nat /\ i + 1 \in 1..(k - n) /\ (i + 1) - 1 = i /\ Q(i)
      BY <1>1
    <3>. HIDE DEF T
    <3>2. f[i + 1] = Filtered(f[i], u[i + 1])
      BY <2>3, <3>1
    <3>3. f[i + 1].st = NextState(f[i].st, u[i + 1])
      <4>1. \A a, b : Filtered(a, b).st = NextState(a.st, b)
        BY DEF Filtered
      <4>. QED  BY <3>2, <4>1
    <3>4. CASE f[i].st = "Ground" /\ u[i + 1] # "esc"
      <4>1. NextState("Ground", u[i + 1]) = "Ground"
        BY <3>4 DEF NextState
      <4>. QED  BY <3>3, <3>4, <4>1
    <3>5. CASE f[i].st = "Ground" /\ u[i + 1] = "esc"
      <4>1. f[i + 1].st = "Escape"
        BY <3>3, <3>5, Transitions
      <4>. QED  BY <2>1, <3>1, <3>5, <4>1
    <3>6. CASE i = k - n - 1 /\ f[i].st = "Escape" /\ u[k - n] = "\\"
      <4>1. i + 1 = k - n
        BY <1>1, <3>6
      <4>2. "\\" \in (Finals \cup {"param"}) \ {"[", "]"}
        BY DEF Finals
      <4>3. NextState("Escape", "\\") = "Ground"
        BY <4>2, Transitions
      <4>4. f[i + 1].st = "Ground"
        BY <3>3, <3>6, <4>1, <4>3
      <4>. QED  BY <4>4
    <3>. QED  BY <3>1, <3>4, <3>5, <3>6
  <2>. HIDE DEF T, Q
  <2>6. T \in SUBSET Nat
    BY DEF T
  <2>7. k - n \in Nat
    BY <1>1
  <2>8. k - n \in T
    BY <2>4, <2>5, <2>6, <2>7, Induction
  <2>9. Q(k - n)
    BY <2>7, <2>8 DEF T
  <2>10. f[k - n].st = "Ground"
    BY <1>1, <2>9 DEF Q
  <2>. QED  BY <1>2, <2>2, <2>10
<1>. QED  BY <1>3, <1>4

\* The filter adds nothing.
LEMMA FilterShortens ==
  ASSUME NEW st \in States, NEW u \in Seq(Classes)
  PROVE  Len(Filter(st, u).out) \in Nat /\ Len(Filter(st, u).out) <= Len(u)
<1>. DEFINE T == {w \in Seq(Classes) : Len(Filter(st, w).out) <= Len(w)}
<1>1. <<>> \in T
  <2>1. Filter(st, <<>>).out = <<>> /\ <<>> \in Seq(Classes) /\ Len(<<>>) <= Len(<<>>)
    BY FilterNone, EmptySeq DEF Fresh
  <2>. QED  BY <2>1
<1>2. ASSUME NEW w \in T, NEW b \in Classes  PROVE Append(w, b) \in T
  <2>1. w \in Seq(Classes) /\ Len(w) \in Nat /\ Len(Filter(st, w).out) <= Len(w)
    BY LenProperties
  <2>. HIDE DEF T
  <2>. PICK a : a = Filter(st, w)
    OBVIOUS
  <2>2. a.out \in Seq(Printed)
    BY <2>1, FilterType DEF Acc
  <2>3. Len(a.out) \in Nat /\ \A c \in Printed : Len(Append(a.out, c)) = Len(a.out) + 1
    BY <2>2, AppendProperties, LenProperties
  <2>4. Filter(st, Append(w, b)) = Filtered(a, b)
    BY <2>1, FilterAppend
  <2>5. Filtered(a, b).out = IF Emits(a.st, b) THEN Append(a.out, b) ELSE a.out
    BY DEF Filtered
  <2>6. Len(Filtered(a, b).out) <= Len(w) + 1
    <3>1. Emits(a.st, b) => b \in Printed
      BY DEF Emits
    <3>2. CASE Emits(a.st, b)
      BY <2>1, <2>3, <2>5, <3>1, <3>2
    <3>3. CASE ~Emits(a.st, b)
      BY <2>1, <2>3, <2>5, <3>3
    <3>. QED  BY <3>2, <3>3
  <2>7. Append(w, b) \in Seq(Classes) /\ Len(Append(w, b)) = Len(w) + 1
    BY <2>1, AppendProperties
  <2>. QED  BY <2>4, <2>6, <2>7 DEF T
<1>. HIDE DEF T
<1>3. T \in SUBSET Seq(Classes)
  BY DEF T
<1>4. u \in T
  BY <1>1, <1>2, <1>3, SeqInduction
<1>5. Filter(st, u).out \in Seq(Printed)
  BY FilterType DEF Acc
<1>. QED  BY <1>4, <1>5, LenProperties DEF T

LEMMA FlattenConcat ==
  ASSUME NEW v \in Seq(Pieces), NEW u \in Seq(Pieces)
  PROVE  u \o v \in Seq(Pieces) /\ FlattenSeq(u \o v) = FlattenSeq(u) \o FlattenSeq(v)
<1>. DEFINE T == {w \in Seq(Pieces) : FlattenSeq(u \o w) = FlattenSeq(u) \o FlattenSeq(w)}
<1>1. <<>> \in T
  <2>1. FlattenSeq(u) \in Seq(Byte)
    BY RawIsSeq
  <2>2. u \o <<>> = u /\ FlattenSeq(u) \o <<>> = FlattenSeq(u) /\ <<>> \in Seq(Pieces)
    BY <2>1, ConcatEmptySeq, EmptySeq
  <2>. QED  BY <2>2, FlattenNone
<1>2. ASSUME NEW w \in T, NEW p \in Pieces  PROVE Append(w, p) \in T
  <2>1. w \in Seq(Pieces) /\ FlattenSeq(u \o w) = FlattenSeq(u) \o FlattenSeq(w)
    OBVIOUS
  <2>. HIDE DEF T
  <2>2. /\ u \o Append(w, p) = Append(u \o w, p) /\ u \o w \in Seq(Pieces) /\ Append(w, p) \in Seq(Pieces)
    BY <2>1, ConcatAppend
  <2>3. /\ FlattenSeq(Append(u \o w, p)) = FlattenSeq(u \o w) \o p
        /\ FlattenSeq(Append(w, p)) = FlattenSeq(w) \o p
        /\ p \in Seq(Byte) /\ FlattenSeq(u) \in Seq(Byte) /\ FlattenSeq(w) \in Seq(Byte)
    BY <2>1, <2>2, RawIsSeq
  <2>4. (FlattenSeq(u) \o FlattenSeq(w)) \o p = FlattenSeq(u) \o (FlattenSeq(w) \o p)
    BY <2>3, ConcatAssociative
  <2>5. FlattenSeq(u \o Append(w, p)) = FlattenSeq(u) \o FlattenSeq(Append(w, p))
    BY <2>1, <2>2, <2>3, <2>4
  <2>. QED  BY <2>2, <2>5 DEF T
<1>. HIDE DEF T
<1>3. T \in SUBSET Seq(Pieces)
  BY DEF T
<1>4. v \in T
  BY <1>1, <1>2, <1>3, SeqInduction
<1>. QED  BY <1>4, ConcatProperties DEF T

\* The elements of a concatenation.
LEMMA Joined ==
  ASSUME NEW S, NEW x \in Seq(S), NEW y \in Seq(S), NEW w, w = x \o y
  PROVE  /\ w \in Seq(S) /\ Len(x) \in Nat /\ Len(y) \in Nat /\ Len(w) = Len(x) + Len(y)
         /\ \A i \in 1..Len(x) : w[i] = x[i]
         /\ \A i \in 1..Len(y) : w[Len(x) + i] = y[i]
<1>1. /\ x \o y \in Seq(S) /\ Len(x \o y) = Len(x) + Len(y)
      /\ \A i \in 1..(Len(x) + Len(y)) : (x \o y)[i] = IF i <= Len(x) THEN x[i] ELSE y[i - Len(x)]
  BY ConcatProperties
<1>2. Len(x) \in Nat /\ Len(y) \in Nat
  BY LenProperties
<1>3. ASSUME NEW i \in 1..Len(x)  PROVE w[i] = x[i]
  <2>1. i \in 1..(Len(x) + Len(y)) /\ i <= Len(x)
    BY ONLY <1>2, i \in 1..Len(x)
  <2>. QED  BY ONLY <1>1, <2>1, w = x \o y
<1>4. ASSUME NEW i \in 1..Len(y)  PROVE w[Len(x) + i] = y[i]
  <2>1. Len(x) + i \in 1..(Len(x) + Len(y)) /\ ~(Len(x) + i <= Len(x)) /\ (Len(x) + i) - Len(x) = i
    BY ONLY <1>2, i \in 1..Len(y)
  <2>2. (x \o y)[Len(x) + i] = y[(Len(x) + i) - Len(x)]
    BY ONLY <1>1, <2>1
  <2>. QED  BY ONLY <2>1, <2>2, w = x \o y
<1>5. w \in Seq(S) /\ Len(w) = Len(x) + Len(y)
  BY ONLY <1>1, w = x \o y
<1>. QED  BY ONLY <1>2, <1>3, <1>4, <1>5

\* A sequence around its i-th element.
LEMMA SplitAt ==
  ASSUME NEW S, NEW w \in Seq(S), NEW i \in 1..Len(w)
  PROVE  /\ w[i] \in S /\ SubSeq(w, 1, i - 1) \in Seq(S) /\ SubSeq(w, i + 1, Len(w)) \in Seq(S)
         /\ w = Append(SubSeq(w, 1, i - 1), w[i]) \o SubSeq(w, i + 1, Len(w))
<1>. PICK k : k = Len(w)
  OBVIOUS
<1>1. k \in Nat /\ i \in 1..k /\ \A j \in 1..k : w[j] \in S
  BY LenProperties, ElementOfSeq
<1>. PICK u : u = SubSeq(w, 1, i - 1)
  OBVIOUS
<1>. PICK v : v = SubSeq(w, i + 1, k)
  OBVIOUS
<1>2. u \in Seq(S) /\ Len(u) = i - 1 /\ \A j \in 1..(i - 1) : u[j] = w[j]
  <2>1. i - 1 \in Int /\ \A j \in 1..(i - 1) : w[j] \in S
    BY <1>1
  <2>2. /\ u \in Seq(S) /\ Len(u) = IF 1 <= i - 1 THEN (i - 1) - 1 + 1 ELSE 0
        /\ \A j \in 1..((i - 1) - 1 + 1) : u[j] = w[1 + j - 1]
    BY <2>1, SubSeqProperties
  <2>. QED  BY <1>1, <2>2
<1>3. v \in Seq(S) /\ Len(v) = k - i /\ \A j \in 1..(k - i) : v[j] = w[i + j]
  <2>1. i + 1 \in Int /\ k \in Int /\ \A j \in (i + 1)..k : w[j] \in S
    BY <1>1
  <2>2. /\ v \in Seq(S) /\ Len(v) = IF i + 1 <= k THEN k - (i + 1) + 1 ELSE 0
        /\ \A j \in 1..(k - (i + 1) + 1) : v[j] = w[(i + 1) + j - 1]
    BY <2>1, SubSeqProperties
  <2>3. k - (i + 1) + 1 = k - i /\ \A j \in 1..(k - i) : (i + 1) + j - 1 = i + j
    BY <1>1
  <2>4. (IF i + 1 <= k THEN k - (i + 1) + 1 ELSE 0) = k - i
    BY <1>1
  <2>. QED  BY <2>2, <2>3, <2>4
<1>. PICK x : x = Append(u, w[i])
  OBVIOUS
<1>4. x \in Seq(S) /\ Len(x) = i /\ \A j \in 1..(i - 1) : x[j] = w[j]
  <2>1. x \in Seq(S) /\ Len(x) = Len(u) + 1 /\ \A j \in 1..Len(u) : x[j] = u[j]
    BY <1>1, <1>2, AppendProperties
  <2>2. (i - 1) + 1 = i
    BY <1>1
  <2>. QED  BY <1>2, <2>1, <2>2
<1>5. x[i] = w[i]
  <2>1. x[Len(u) + 1] = w[i]
    BY <1>1, <1>2, AppendProperties
  <2>2. Len(u) + 1 = i
    BY <1>1, <1>2
  <2>. QED  BY <2>1, <2>2
<1>. PICK z : z = x \o v
  OBVIOUS
<1>6. z \in Seq(S) /\ Len(z) = k /\ \A j \in 1..k : z[j] = IF j <= i THEN x[j] ELSE v[j - i]
  <2>. PICK m : m = k - i
    OBVIOUS
  <2>1. Len(v) = m
    BY <1>3
  <2>2. z \in Seq(S) /\ Len(z) = i + m /\ \A j \in 1..(i + m) : z[j] = IF j <= i THEN x[j] ELSE v[j - i]
    <3>1. x \in Seq(S) /\ v \in Seq(S) /\ Len(x) = i
      BY <1>3, <1>4
    <3>2. /\ x \o v \in Seq(S) /\ Len(x \o v) = i + m
          /\ \A j \in 1..(i + m) : (x \o v)[j] = IF j <= i THEN x[j] ELSE v[j - i]
      <4>1. /\ x \o v \in Seq(S) /\ Len(x \o v) = Len(x) + Len(v)
            /\ \A j \in 1..(Len(x) + Len(v)) : (x \o v)[j] = IF j <= Len(x) THEN x[j] ELSE v[j - Len(x)]
        BY ONLY x \in Seq(S), v \in Seq(S), ConcatProperties
      <4>. QED  BY ONLY <2>1, <3>1, <4>1
    <3>. QED  BY <3>2
  <2>3. i + m = k
    BY <1>1
  <2>. QED  BY <2>2, <2>3
<1>7. ASSUME NEW j \in 1..k  PROVE z[j] = w[j]
  <2>1. j \in 1..(i - 1) \/ j = i \/ (j > i /\ j - i \in 1..(k - i) /\ i + (j - i) = j)
    BY <1>1
  <2>2. (j \in 1..(i - 1) => j <= i) /\ (j = i => j <= i) /\ (j > i => ~(j <= i))
    BY <1>1
  <2>. QED  BY <1>3, <1>4, <1>5, <1>6, <2>1, <2>2
<1>8. z = w
  BY <1>6, <1>7, SeqEqual
<1>. QED  BY <1>1, <1>2, <1>3, <1>8

\* t is an end of p, and b.
EndsIn(S, t, p, b) ==
  \E n \in 0..Len(p) : SubSeq(p, n + 1, Len(p)) \in Seq(S) /\ t = SubSeq(p, n + 1, Len(p)) \o b

\* The end of a sequence of three parts that reaches into the second.
LEMMA EndOfParts ==
  ASSUME NEW S, NEW l \in Seq(S), NEW t \in Seq(S), NEW a \in Seq(S), NEW p \in Seq(S), NEW b \in Seq(S),
         l \o t = (a \o p) \o b, Len(b) <= Len(t), Len(t) <= Len(p) + Len(b)
  PROVE  EndsIn(S, t, p, b)
<1>. DEFINE L == Len(l)
            T == Len(t)
            A == Len(a)
            P == Len(p)
            B == Len(b)
            n == (P + B) - T
            s == SubSeq(p, n + 1, P)
<1>1. PICK u : u = l \o t
  OBVIOUS
<1>2. PICK c : c = a \o p
  OBVIOUS
<1>3. /\ L \in Nat /\ T \in Nat /\ Len(u) = L + T
      /\ \A i \in 1..T : u[L + i] = t[i]
  BY ONLY <1>1, l \in Seq(S), t \in Seq(S), Joined
<1>4. /\ c \in Seq(S) /\ A \in Nat /\ P \in Nat /\ Len(c) = A + P
      /\ \A i \in 1..P : c[A + i] = p[i]
  BY ONLY <1>2, a \in Seq(S), p \in Seq(S), Joined
<1>5. u = c \o b
  BY <1>1, <1>2
<1>6. /\ B \in Nat /\ Len(u) = Len(c) + B
      /\ \A i \in 1..Len(c) : u[i] = c[i]
      /\ \A i \in 1..B : u[Len(c) + i] = b[i]
  <2>1. c \in Seq(S)
    BY <1>4
  <2>. QED  BY ONLY <1>5, <2>1, b \in Seq(S), Joined
<1>7. B <= T /\ T <= P + B
  OBVIOUS
<1>8. n \in 0..P /\ n \in Nat /\ n <= P /\ L = A + n /\ T = (P - n) + B
  <2>1. L \in Nat /\ T \in Nat /\ A \in Nat /\ P \in Nat /\ B \in Nat
    BY ONLY <1>3, <1>4, <1>6
  <2>2. L + T = (A + P) + B
    BY ONLY <1>3, <1>4, <1>6
  <2>. HIDE DEF L, T, A, P, B
  <2>. QED  BY ONLY <1>7, <2>1, <2>2
<1>9. s \in Seq(S) /\ Len(s) = P - n /\ \A i \in 1..(P - n) : s[i] = p[n + i]
  <2>1. p \in Seq(S) /\ P \in Nat /\ P = Len(p)
    BY <1>4
  <2>. HIDE DEF L, T, A, P, B, n
  <2>2. \A i \in (n + 1)..P : i \in 1..Len(p)
    BY ONLY <1>8, <2>1
  <2>3. \A i \in (n + 1)..P : p[i] \in S
    BY ONLY <2>1, <2>2, ElementOfSeq
  <2>4. n + 1 \in Int /\ P \in Int
    BY ONLY <1>8, <2>1
  <2>5. /\ s \in Seq(S) /\ Len(s) = IF n + 1 <= P THEN P - (n + 1) + 1 ELSE 0
        /\ \A i \in 1..(P - (n + 1) + 1) : s[i] = p[(n + 1) + i - 1]
    BY ONLY <2>3, <2>4, SubSeqProperties
  <2>. HIDE DEF s
  <2>6. P - (n + 1) + 1 = P - n /\ (IF n + 1 <= P THEN P - (n + 1) + 1 ELSE 0) = P - n
    BY ONLY <1>8, <2>1
  <2>7. \A i \in 1..(P - n) : (n + 1) + i - 1 = n + i
    BY ONLY <1>8, <2>1
  <2>. QED  BY ONLY <2>5, <2>6, <2>7
<1>10. PICK w : w = s \o b
  OBVIOUS
<1>. HIDE DEF L, T, A, P, B, n, s
<1>11. /\ w \in Seq(S) /\ Len(w) = Len(s) + Len(b)
       /\ \A i \in 1..Len(s) : w[i] = s[i]
       /\ \A i \in 1..Len(b) : w[Len(s) + i] = b[i]
  <2>1. s \in Seq(S)
    BY ONLY <1>9
  <2>. QED  BY ONLY <1>10, <2>1, b \in Seq(S), Joined
<1>12. \A i \in 1..P : u[A + i] = p[i]
  <2>1. \A i \in 1..P : A + i \in 1..Len(c)
    BY ONLY <1>4
  <2>. QED  BY ONLY <1>4, <1>6, <2>1
<1>13. t = w
  <2>1. /\ Len(t) = T /\ Len(w) = (P - n) + B
        /\ \A i \in 1..(P - n) : w[i] = s[i]
        /\ \A i \in 1..B : w[(P - n) + i] = b[i]
    BY ONLY <1>9, <1>11 DEF T, B
  <2>2. /\ \A i \in 1..T : u[(A + n) + i] = t[i]
        /\ \A i \in 1..B : u[(A + P) + i] = b[i]
    BY ONLY <1>3, <1>4, <1>6, <1>8
  <2>3. A \in Nat /\ T \in Nat /\ P \in Nat /\ B \in Nat
    BY <1>3, <1>4, <1>6
  <2>4. /\ n \in Nat /\ n <= P /\ T = (P - n) + B
        /\ s \in Seq(S) /\ w \in Seq(S) /\ \A i \in 1..(P - n) : s[i] = p[n + i]
    BY ONLY <1>8, <1>9, <1>11
  <2>5. ASSUME NEW i \in 1..T, i <= P - n  PROVE t[i] = w[i]
    <3>1. i \in 1..(P - n) /\ n + i \in 1..P /\ (A + n) + i = A + (n + i)
      BY ONLY <2>3, <2>4, <2>5
    <3>2. t[i] = u[A + (n + i)]
      BY ONLY <2>2, <2>5, <3>1
    <3>3. u[A + (n + i)] = p[n + i]
      BY ONLY <1>12, <3>1
    <3>4. w[i] = p[n + i]
      BY ONLY <2>1, <2>4, <3>1
    <3>. QED  BY ONLY <3>2, <3>3, <3>4
  <2>6. ASSUME NEW i \in 1..T, ~(i <= P - n)  PROVE t[i] = w[i]
    <3>1. PICK j : j = i - (P - n)
      OBVIOUS
    <3>2. j \in 1..B /\ (P - n) + j = i /\ (A + n) + i = (A + P) + j
      BY ONLY <2>3, <2>4, <2>6, <3>1
    <3>3. t[i] = u[(A + P) + j]
      BY ONLY <2>2, <2>6, <3>2
    <3>4. u[(A + P) + j] = b[j]
      BY ONLY <2>2, <3>2
    <3>5. w[i] = b[j]
      BY ONLY <2>1, <3>2
    <3>. QED  BY ONLY <3>3, <3>4, <3>5
  <2>7. \A i \in 1..T : t[i] = w[i]
    BY ONLY <2>5, <2>6
  <2>8. Len(t) = Len(w) /\ \A i \in 1..Len(t) : t[i] = w[i]
    BY ONLY <2>1, <2>4, <2>7
  <2>9. w \in Seq(S)
    BY ONLY <2>4
  <2>. QED  BY ONLY <2>8, <2>9, t \in Seq(S), SeqEqual
<1>14. n \in 0..Len(p) /\ SubSeq(p, n + 1, Len(p)) \in Seq(S) /\ t = SubSeq(p, n + 1, Len(p)) \o b
  BY ONLY <1>8, <1>9, <1>10, <1>13 DEF s, P
<1>. QED  BY ONLY <1>14 DEF EndsIn

\* The buffer has cut the piece p, and ps and r are what was printed after it.
LEMMA CutConfined ==
  ASSUME KnownPieces, NEW l \in Seq(Byte), NEW t \in Seq(Byte), NEW a \in Seq(Byte), NEW p \in Pieces,
         NEW ps \in Seq(Pieces), NEW r \in Seq(Byte), Cut(r),
         l \o t = (a \o p) \o FlattenSeq(ps \o <<r>>),
         Len(FlattenSeq(ps \o <<r>>)) <= Len(t), Len(t) <= Len(p) + Len(FlattenSeq(ps \o <<r>>))
  PROVE  /\ IsSuffix(TextOf(ps \o <<r>>), Filter("Ground", t).out)
         /\ Len(Filter("Ground", t).out) - Len(TextOf(ps \o <<r>>)) <= Len(t) - Len(FlattenSeq(ps \o <<r>>))
<1>1. Byte = Classes /\ "Ground" \in States /\ p \in Seq(Classes) /\ Known(p)
  BY PipelineAssumption, PieceIsSeq DEF States, KnownPieces
<1>. PICK b : b = FlattenSeq(ps \o <<r>>)
  OBVIOUS
<1>2. b \in Seq(Classes) /\ Filter("Ground", b).out = TextOf(ps \o <<r>>)
  BY <1>1, RestShown
<1>3. PICK n \in 0..Len(p) : /\ SubSeq(p, n + 1, Len(p)) \in Seq(Classes)
                             /\ t = SubSeq(p, n + 1, Len(p)) \o b
  <2>. PICK C : C = Classes
    OBVIOUS
  <2>1. l \in Seq(C) /\ t \in Seq(C) /\ a \in Seq(C) /\ p \in Seq(C) /\ b \in Seq(C)
    BY <1>1, <1>2
  <2>2. l \o t = (a \o p) \o b /\ Len(b) <= Len(t) /\ Len(t) <= Len(p) + Len(b)
    OBVIOUS
  <2>3. EndsIn(C, t, p, b)
    BY ONLY <2>1, <2>2, EndOfParts
  <2>. QED  BY <2>3 DEF EndsIn
<1>. PICK s : s = SubSeq(p, n + 1, Len(p))
  OBVIOUS
<1>4. s \in Seq(Classes) /\ Filter("Ground", s).st = "Ground"
  BY <1>1, BackInStep
<1>5. Filter("Ground", t).out = Filter("Ground", s).out \o TextOf(ps \o <<r>>)
  <2>1. Filter("Ground", s \o b).out = Filter("Ground", s).out \o Filter(Filter("Ground", s).st, b).out
    BY <1>1, <1>2, <1>4, FilterConcat
  <2>. QED  BY <1>2, <1>3, <1>4, <2>1
<1>6. Filter("Ground", s).out \in Seq(Printed) /\ TextOf(ps \o <<r>>) \in Seq(Printed)
  BY <1>1, <1>2, <1>4, FilterType DEF Acc
<1>. PICK x : x = Filter("Ground", s).out
  OBVIOUS
<1>. PICK y : y = TextOf(ps \o <<r>>)
  OBVIOUS
<1>7. IsSuffix(y, x \o y) /\ Len(x \o y) = Len(x) + Len(y) /\ Len(x) \in Nat /\ Len(y) \in Nat
  BY <1>6, LatestIsSuffix, ConcatProperties, LenProperties
<1>8. Len(x) <= Len(s)
  BY <1>1, <1>4, FilterShortens
<1>9. Len(t) = Len(s) + Len(b) /\ Len(s) \in Nat /\ Len(b) \in Nat
  BY <1>2, <1>3, <1>4, ConcatProperties, LenProperties
<1>10. Len(x \o y) - Len(y) <= Len(t) - Len(b)
  BY <1>7, <1>8, <1>9
<1>. QED  BY <1>5, <1>7, <1>10

LEMMA OverflowConfined ==
  ASSUME KnownPieces, OutInv, unread = <<>>, NEW i \in 1..Len(pieces),
         Len(FlattenSeq(After(i))) <= Capacity, Len(FlattenSeq(After(i))) + Len(pieces[i]) > Capacity
  PROVE  /\ IsSuffix(TextOf(After(i)), Filter("Ground", Linear).out)
         /\ Len(Filter("Ground", Linear).out) - Len(TextOf(After(i))) <= Capacity - Len(FlattenSeq(After(i)))
<1>. PICK m : m = Len(pieces)
  OBVIOUS
<1>1. pieces \in Seq(Pieces) /\ broken \in Seq(Byte) /\ Cut(broken) /\ m \in Nat /\ i \in 1..m
  BY LenProperties DEF OutInv, PipeOfBytes, PhaseInv
<1>. PICK p : p = pieces[i]
  OBVIOUS
<1>. PICK us : us = SubSeq(pieces, 1, i - 1)
  OBVIOUS
<1>. PICK ps : ps = SubSeq(pieces, i + 1, m)
  OBVIOUS
<1>2. p \in Pieces /\ us \in Seq(Pieces) /\ ps \in Seq(Pieces) /\ pieces = Append(us, p) \o ps
  BY <1>1, SplitAt
<1>3. /\ FlattenSeq(us) \in Seq(Byte) /\ FlattenSeq(ps) \in Seq(Byte) /\ p \in Seq(Byte)
      /\ Append(us, p) \in Seq(Pieces) /\ FlattenSeq(Append(us, p)) = FlattenSeq(us) \o p
  BY <1>2, RawIsSeq
<1>4. FlattenSeq(pieces) = (FlattenSeq(us) \o p) \o FlattenSeq(ps)
  <2>1. FlattenSeq(Append(us, p) \o ps) = FlattenSeq(Append(us, p)) \o FlattenSeq(ps)
    BY <1>2, <1>3, FlattenConcat
  <2>. QED  BY <1>2, <1>3, <2>1
<1>5. FlattenSeq(ps \o <<broken>>) = FlattenSeq(ps) \o broken /\ FlattenSeq(ps \o <<broken>>) \in Seq(Byte)
  BY <1>1, <1>2, RestShown, PipelineAssumption
<1>6. FlattenSeq(us) \o p \in Seq(Byte)
  BY <1>3, ConcatProperties
<1>7. Raw = (FlattenSeq(us) \o p) \o FlattenSeq(ps \o <<broken>>)
  <2>1. ((FlattenSeq(us) \o p) \o FlattenSeq(ps)) \o broken = (FlattenSeq(us) \o p) \o (FlattenSeq(ps) \o broken)
    <3>. PICK x \in Seq(Byte) : x = FlattenSeq(us) \o p
      BY <1>6
    <3>. PICK y \in Seq(Byte) : y = FlattenSeq(ps)
      BY <1>3
    <3>. PICK z \in Seq(Byte) : z = broken
      BY <1>1
    <3>1. (x \o y) \o z = x \o (y \o z)
      BY ONLY x \in Seq(Byte), y \in Seq(Byte), z \in Seq(Byte), ConcatAssociative
    <3>. QED  BY <3>1
  <2>. QED  BY <1>4, <1>5, <2>1 DEF Raw
<1>8. PICK l \in Seq(Byte) : Raw = l \o Linear
  BY AllArrived
<1>9. /\ Linear \in Seq(Byte) /\ Len(Raw) = total
      /\ Len(Linear) = IF total > Capacity THEN Capacity ELSE total
  BY AllArrived
<1>. PICK b : b = FlattenSeq(ps \o <<broken>>)
  OBVIOUS
<1>10. After(i) = ps \o <<broken>>
  BY DEF After
<1>11. Len(b) \in Nat /\ Len(p) \in Nat /\ Len(FlattenSeq(us)) \in Nat /\ total = Len(FlattenSeq(us)) + Len(p) + Len(b)
  <2>1. Len(Raw) = Len(FlattenSeq(us) \o p) + Len(b) /\ Len(FlattenSeq(us) \o p) = Len(FlattenSeq(us)) + Len(p)
    BY <1>3, <1>5, <1>6, <1>7, ConcatProperties
  <2>2. Len(b) \in Nat /\ Len(p) \in Nat /\ Len(FlattenSeq(us)) \in Nat
    BY <1>3, <1>5, LenProperties
  <2>. QED  BY <1>9, <2>1, <2>2
<1>12. Capacity \in Nat /\ Len(b) <= Capacity /\ Len(b) + Len(p) > Capacity
  BY <1>10, RingAssumption
<1>13. Len(Linear) = Capacity /\ Len(b) <= Len(Linear) /\ Len(Linear) <= Len(p) + Len(b)
  <2>. PICK x \in Nat : x = Len(FlattenSeq(us))
    BY <1>11
  <2>. PICK y \in Nat : y = Len(p)
    BY <1>11
  <2>. PICK z \in Nat : z = Len(b)
    BY <1>11
  <2>. PICK c \in Nat : c = Capacity
    BY <1>12
  <2>1. total = x + y + z /\ z <= c /\ z + y > c
    BY <1>11, <1>12
  <2>2. total > c /\ c <= y + z
    BY ONLY <2>1, x \in Nat, y \in Nat, z \in Nat, c \in Nat
  <2>3. Len(Linear) = c
    BY <1>9, <2>2
  <2>. QED  BY <2>1, <2>2, <2>3
<1>14. l \o Linear = (FlattenSeq(us) \o p) \o FlattenSeq(ps \o <<broken>>)
  BY <1>7, <1>8
<1>15. /\ IsSuffix(TextOf(ps \o <<broken>>), Filter("Ground", Linear).out)
       /\ Len(Filter("Ground", Linear).out) - Len(TextOf(ps \o <<broken>>)) <= Len(Linear) - Len(b)
  <2>. PICK t \in Seq(Byte) : t = Linear
    BY <1>9
  <2>. PICK a \in Seq(Byte) : a = FlattenSeq(us)
    BY <1>3
  <2>1. /\ l \o t = (a \o p) \o FlattenSeq(ps \o <<broken>>)
        /\ Len(FlattenSeq(ps \o <<broken>>)) <= Len(t) /\ Len(t) <= Len(p) + Len(FlattenSeq(ps \o <<broken>>))
    BY <1>13, <1>14
  <2>2. /\ IsSuffix(TextOf(ps \o <<broken>>), Filter("Ground", t).out)
        /\ Len(Filter("Ground", t).out) - Len(TextOf(ps \o <<broken>>)) <= Len(t) - Len(FlattenSeq(ps \o <<broken>>))
    BY <1>1, <1>2, <2>1, CutConfined
  <2>. QED  BY <2>2
<1>. QED  BY <1>10, <1>13, <1>15

\* Of output that does not fit, the escape sequences after the point where the buffer cut
\* it are stripped like any others: what reaches the agent ends with the text of the
\* pieces after the cut one, and begins with no more than was kept of that one, for every
\* sequence of text and of the escape sequences that the filter knows.
THEOREM DamageOfOverflow ==
  ASSUME KnownPieces
  PROVE  Spec => []DamageConfined
<1>1. Init => DamageConfined
  BY DEF Init, DamageConfined, Answered
<1>2. OutInv /\ DamageConfined /\ [Next]_vars => DamageConfined'
  <2>. SUFFICES ASSUME OutInv, DamageConfined, [Next]_vars PROVE DamageConfined'
    OBVIOUS
  <2>1. CASE Deliver
    <3>1. unread = <<>> /\ phase = "ended" /\ UNCHANGED <<pieces, broken, strip>>
      BY <2>1 DEF Deliver
    <3>2. filter = "Ground"
      BY <3>1 DEF OutInv, PhaseInv
    <3>3. strip => answer'.out = Filter("Ground", Linear).out
      BY <2>1, <3>2 DEF Deliver
    <3>. DEFINE Confined(j, out) ==
                  LET n == Len(FlattenSeq(After(j))) IN
                  n <= Capacity /\ n + Len(pieces[j]) > Capacity =>
                    /\ IsSuffix(TextOf(After(j)), out)
                    /\ Len(out) - Len(TextOf(After(j))) <= Capacity - n
    <3>4. \A j \in 1..Len(pieces) : Confined(j, Filter("Ground", Linear).out)
      BY <3>1, OverflowConfined
    <3>5. strip => \A j \in 1..Len(pieces) : Confined(j, answer'.out)
      BY <3>3, <3>4
    <3>. QED  BY <3>1, <3>5 DEF DamageConfined, After
  <2>2. CASE ~Deliver
    <3>1. ~Answered' => DamageConfined'
      BY DEF DamageConfined
    <3>2. Answered /\ UNCHANGED <<phase, runs, answer, pieces, broken, strip>> => DamageConfined'
      BY DEF DamageConfined, After
    <3>. QED  BY <2>2, <3>1, <3>2, AnswerStays
  <2>. QED  BY <2>1, <2>2
<1>. QED  BY <1>1, <1>2, OutInitially, OutInductive, PTL DEF Spec

=============================================================================
