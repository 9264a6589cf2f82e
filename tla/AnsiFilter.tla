----------------------------- MODULE AnsiFilter -----------------------------
(***************************************************************************)
(* The finite-state machine that strips terminal escape sequences          *)
(* (include/axiom/ansi.hpp).  Bytes are abstracted to the classes its       *)
(* transitions tell apart.                                                 *)
(***************************************************************************)
EXTENDS Sequences, SequencesExt

\* "text" stands for the other bytes of 0x40..0x7E, letters among them; "high"
\* for 0x7F and above; "line" for newline and tab.
Classes == {"esc", "cr", "line", "bel", "ctl", "interm", "param",
            "[", "]", "\\", "text", "high"}

Finals == {"[", "]", "\\", "text"}
Printed == {"line", "interm", "param", "high"} \cup Finals
States == {"Ground", "Escape", "CsiParam", "CsiInterm", "Osc", "OscEsc", "EscInterm"}

\* process_byte: the state after byte b.
NextState(st, b) ==
  CASE st = "Ground" -> IF b = "esc" THEN "Escape" ELSE "Ground"
    [] st = "Escape" ->
         CASE b = "[" -> "CsiParam"
           [] b = "]" -> "Osc"
           [] b = "interm" -> "EscInterm"
           [] OTHER -> "Ground"
    [] st \in {"CsiParam", "CsiInterm"} ->
         CASE b = "param" /\ st = "CsiParam" -> "CsiParam"
           [] b = "interm" -> "CsiInterm"
           [] b = "esc" -> "Escape"
           [] OTHER -> "Ground"
    [] st = "Osc" ->
         CASE b = "bel" -> "Ground"
           [] b = "esc" -> "OscEsc"
           [] OTHER -> "Osc"
    [] st = "OscEsc" ->
         CASE b = "\\" -> "Ground"
           [] b = "[" -> "CsiParam"
           [] b = "esc" -> "OscEsc"
           [] OTHER -> "Escape"
    [] st = "EscInterm" -> "Ground"

EmitsControls(st, b) == st = "Ground" /\ b # "esc"   \* mutant: CR and controls pass
\* process_byte: whether byte b is copied to the output.
Emits(st, b) == st = "Ground" /\ b \in Printed

\* filter from state st: the state it ends in and the bytes it let through.
Filter(st, input) ==
  FoldLeft(LAMBDA acc, b : [st  |-> NextState(acc.st, b),
                            out |-> IF Emits(acc.st, b) THEN Append(acc.out, b) ELSE acc.out],
           [st |-> st, out |-> <<>>], input)

=============================================================================
