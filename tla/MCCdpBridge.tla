----------------------------- MODULE MCCdpBridge -----------------------------
(***************************************************************************)
(* Documents for CdpBridge.  The first has a layout node, a text that      *)
(* repeats a name, and one listed node more than fit the list, which gets  *)
(* a handle all the same.  The second uses the same backend ids in another *)
(* order, and is longer than an answer may be: its last node is cut, and   *)
(* the beginning of its id, in base 2, is the id of a node without handle. *)
(***************************************************************************)
EXTENDS CdpBridge

Button(i) == [kind |-> "action", id |-> i, name |-> "go"]
Text(s) == [kind |-> "text", id |-> 9, name |-> s]
Layout == [kind |-> "layout", id |-> 9, name |-> ""]
Heading == [kind |-> "other", id |-> 9, name |-> "title"]

TwoPages ==
  << <<Layout, Heading, Button(1), Text("go"), Button(2)>>,
     <<Button(2), Layout, [Layout EXCEPT !.id = 1], Text(""), Layout, Button(3)>> >>
CutPage == <<TwoPages[2]>>

\* What the trees of both documents hold; TLC works the filter out once, here.
ASSUME TreesOfPages ==
  /\ Trees \in [DOMAIN Docs -> [Handles -> 0 .. 9]]
  /\ Maps \in [DOMAIN Docs -> SUBSET [Handles -> 0 .. 9]]
=============================================================================
