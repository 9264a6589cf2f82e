-------------------------- MODULE MCApplianceServer --------------------------
(* A small instance of ApplianceServer for TLC. *)
EXTENDS ApplianceServer

F(k, p) == [kind |-> k, plen |-> p]

\* One slot, one connection, every kind of frame the parser tells apart: one as
\* long as the buffer, the last longer.
FramingMenu == {F("Ping", 0), F("Exec", 4), F("Short", 1), F("BadMagic", 0), F("Status", 5)}
=============================================================================
