----------------------------- MODULE RingBuffer -----------------------------
(***************************************************************************)
(* The circular buffer that holds a command's output (RingBuffer in        *)
(* include/axiom/ring_buffer.hpp): write pushes byte after byte, the oldest *)
(* ones are overwritten once it is full, linearize reads it back in order. *)
(***************************************************************************)
EXTENDS Integers, Sequences

CONSTANTS Byte,      \* values of a byte
          Zero,      \* what the storage is filled with at the start
          Capacity   \* RING_BUFFER_CAPACITY

ASSUME RingAssumption ==
  /\ Zero \in Byte
  /\ Capacity \in Nat \ {0}

VARIABLES storage,   \* storage_, indexed from 0
          head,      \* head_: index of the oldest byte
          tail,      \* tail_: index the next byte goes to
          size,      \* size_
          total      \* total_written_

ringVars == <<storage, head, tail, size, total>>

Index == 0..(Capacity - 1)

Step(i) == (i + 1) % Capacity

RingInit ==
  /\ storage = [i \in Index |-> Zero]
  /\ head = 0 /\ tail = 0 /\ size = 0 /\ total = 0

PushKeepingHead(b) ==   \* mutant: the head does not move when full
  /\ storage' = [storage EXCEPT ![tail] = b]
  /\ tail' = Step(tail)
  /\ IF size < Capacity THEN size' = size + 1 ELSE size' = size
  /\ head' = head
  /\ total' = total + 1

\* push_byte.
Push(b) ==
  /\ storage' = [storage EXCEPT ![tail] = b]
  /\ tail' = Step(tail)
  /\ IF size < Capacity
     THEN size' = size + 1 /\ head' = head
     ELSE size' = size /\ head' = Step(head)
  /\ total' = total + 1

\* clear: the indices are reset, the bytes stay in the storage.
Clear ==
  /\ head' = 0 /\ tail' = 0 /\ size' = 0 /\ total' = 0
  /\ storage' = storage

\* linearize into a destination at least as large as the buffer.
Linear == [i \in 1..size |-> storage[(head + i - 1) % Capacity]]

IsTruncated == total > Capacity
DroppedBytes == IF IsTruncated THEN total - Capacity ELSE 0

RingNext == Clear \/ \E b \in Byte : Push(b)

RingSpec == RingInit /\ [][RingNext]_ringVars

-----------------------------------------------------------------------------
RingTypeOK ==
  /\ storage \in [Index -> Byte]
  /\ head \in Index /\ tail \in Index
  /\ size \in 0..Capacity
  /\ total \in Nat

Promise == INSTANCE OutputTail WITH kept <- Linear, dropped <- DroppedBytes

\* What can be read back is at any time the latest Capacity bytes written since
\* the last clear, in order, and the count of lost bytes is exact: the indices
\* wrapping around an array behave as the queue of OutputTail.
ImplementsTail == Promise!Spec

=============================================================================
