---------------------------- MODULE FrameService ----------------------------
(***************************************************************************)
(* What the appliance server promises to each connection, whatever slots,  *)
(* descriptors, buffers and events it uses to do so: the frames a client   *)
(* sends form a queue, the server serves only the one at its head, each    *)
(* once, and a connection that is closed is never served again.            *)
(***************************************************************************)
EXTENDS Sequences

CONSTANTS Conns,   \* connections
          Frames   \* what may be sent on one

VARIABLES queue,   \* sent and not served yet
          served,  \* served, in order
          open     \* not closed by the server

vars == <<queue, served, open>>

Init ==
  /\ queue = [c \in Conns |-> <<>>]
  /\ served = [c \in Conns |-> <<>>]
  /\ open = [c \in Conns |-> TRUE]

Send(c) ==
  /\ open[c]
  /\ \E f \in Frames : queue' = [queue EXCEPT ![c] = Append(@, f)]
  /\ UNCHANGED <<served, open>>

Serve(c) ==
  /\ open[c] /\ queue[c] # <<>>
  /\ served' = [served EXCEPT ![c] = Append(@, Head(queue[c]))]
  /\ queue' = [queue EXCEPT ![c] = Tail(@)]
  /\ UNCHANGED open

\* The server closes some of the connections; one that is closed stays so.
Refuse ==
  /\ open' # open
  /\ \A c \in Conns : open'[c] => open[c]
  /\ DOMAIN open' = Conns
  /\ UNCHANGED <<queue, served>>

Next == Refuse \/ \E c \in Conns : Send(c) \/ Serve(c)

Spec == Init /\ [][Next]_vars
=============================================================================
