----------------------------- MODULE OutputTail -----------------------------
(***************************************************************************)
(* What a process's output buffer promises: it keeps the latest Capacity   *)
(* bytes in the order they were written and counts the ones it dropped.    *)
(***************************************************************************)
EXTENDS Naturals, Sequences

CONSTANTS Byte, Capacity

VARIABLES kept, dropped

Init == kept = <<>> /\ dropped = 0

Keep(b) ==
  /\ Len(kept) < Capacity
  /\ kept' = Append(kept, b)
  /\ dropped' = dropped

DropOldest(b) ==
  /\ Len(kept) = Capacity
  /\ kept' = Append(Tail(kept), b)
  /\ dropped' = dropped + 1

Clear == kept' = <<>> /\ dropped' = 0

Next == Clear \/ \E b \in Byte : Keep(b) \/ DropOldest(b)

Spec == Init /\ [][Next]_<<kept, dropped>>

=============================================================================
