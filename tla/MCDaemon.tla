------------------------------ MODULE MCDaemon ------------------------------
(* Small instances of Daemon for TLC. *)
EXTENDS Daemon, TLC

\* Short requests, one that stops the server.
SharingMenu == {[kind |-> k, plen |-> 0] : k \in {"Ping", "Shutdown"}}
\* For the liveness run: the request with the longest answer, whose handler need not
\* return, and the one that stops the server.
ServiceMenu == {[kind |-> "Exec", plen |-> 1], [kind |-> "Shutdown", plen |-> 0]}

ConnSymmetry == Permutations(Conns)
=============================================================================
