-------------------------------- MODULE Daemon --------------------------------
(***************************************************************************)
(* PID 1 of the guest from its start to the end of the machine: main of    *)
(* guest/axiom-initd/src/main.cpp around the reactor of ApplianceServer.   *)
(* It mounts what it can (bootstrap.hpp), masks its signals (signalfd.hpp),*)
(* listens (vsock.hpp), hands both to ApplianceServer::init and runs it.   *)
(* The kernel panics when PID 1 returns from main.                         *)
(*                                                                         *)
(* Until stage is "run" the variables of the server stand for the state    *)
(* that init gives them.                                                   *)
(***************************************************************************)
EXTENDS ApplianceServer

CONSTANTS MainFaults,   \* what may fail of main, of "boot", "reboot"
          Mounts        \* file systems to mount, from /proc to /run

ASSUME DaemonAssumption == MainFaults \subseteq {"boot", "reboot"} /\ Mounts \in Nat \ {0}

VARIABLES
  stage,     \* what main does next; "off" and "panic" are the two ends
  mounted    \* file systems mounted

main == <<stage, mounted>>
daemonVars == <<main, vars>>

DaemonInit == Init /\ stage = "mount" /\ mounted = 0

-----------------------------------------------------------------------------
\* One directory made, or there already, and its file system mounted on it.
Mount ==
  /\ stage = "mount" /\ mounted < Mounts
  /\ mounted' = mounted + 1
  /\ stage' = IF mounted' = Mounts THEN "mask" ELSE "mount"
  /\ UNCHANGED vars

\* The first failure skips the mounts that are left; main warns and goes on.
MountFails ==
  /\ "boot" \in MainFaults /\ stage = "mount"
  /\ stage' = "mask"
  /\ UNCHANGED <<mounted, vars>>

\* SignalFd::create: from here on SIGCHLD, SIGTERM and SIGINT stay pending.
Mask ==
  /\ stage = "mask"
  /\ stage' = "listen"
  /\ UNCHANGED <<mounted, vars>>

\* create_listener: from here on connections are queued.
Listen ==
  /\ stage = "listen"
  /\ stage' = "init"
  /\ UNCHANGED <<mounted, vars>>

InitServer ==
  /\ stage = "init"
  /\ stage' = "run"
  /\ UNCHANGED <<mounted, vars>>

\* close of the listener: connections that nobody has accepted are reset.
CloseListener ==
  /\ why' = [c \in Conns |-> IF c \in Range(backlog) THEN "stop" ELSE why[c]]
  /\ inq' = [c \in Conns |-> IF c \in Range(backlog) THEN <<>> ELSE inq[c]]
  /\ backlog' = <<>>
  /\ UNCHANGED <<clientVars, peer, unread, sigs, living, zombies, slotVars, loopVars, done, resp>>

\* The other steps of the start are fatal.
BootFails ==
  /\ "boot" \in MainFaults /\ stage \in {"mask", "listen", "init"}
  /\ stage' = "panic"
  /\ CloseListener
  /\ UNCHANGED mounted

AfterFailedRun == IF pc = "failed" THEN "panic" ELSE "reboot"   \* mutant: main returns run's error
AfterRun == "reboot"

\* Whatever run returned, main goes on and closes the listener.
RunEnds ==
  /\ stage = "run" /\ pc \in {"stopped", "failed"}
  /\ stage' = AfterRun
  /\ CloseListener
  /\ UNCHANGED mounted

\* sync and RB_POWER_OFF.
PowerOff ==
  /\ stage = "reboot"
  /\ stage' = "off"
  /\ UNCHANGED <<mounted, vars>>

\* A reboot that is refused returns, and so does main.
RebootFails ==
  /\ "reboot" \in MainFaults /\ stage = "reboot"
  /\ stage' = "panic"
  /\ UNCHANGED <<mounted, vars>>

Run == stage = "run" /\ Server /\ UNCHANGED main

Main == Mount \/ MountFails \/ Mask \/ Listen \/ InitServer \/ BootFails
  \/ Run \/ RunEnds \/ PowerOff \/ RebootFails

\* Signals that come before they are masked are ignored: PID 1 has no handlers.  What
\* clients do between the end of run and that of the machine is left out.
World ==
  /\ \/ stage \in {"init", "run"} /\ pc \notin {"stopped", "failed"} /\ Environment
     \/ stage = "listen" /\ Terminate
  /\ UNCHANGED main

Ended == stage \in {"off", "panic"}
Halts == Ended /\ UNCHANGED daemonVars

DaemonNext == Main \/ World \/ Halts

DaemonSpec == DaemonInit /\ [][DaemonNext]_daemonVars

\* main is a thread that is scheduled, and each of its system calls returns; of the
\* handlers that it runs two need not (ApplianceServer).
FairDaemon == DaemonSpec /\ WF_daemonVars(~InHandler /\ Main)

-----------------------------------------------------------------------------
\* The kernel panics only over a start that failed, before a request was served, or over
\* a reboot that was refused, when none is served any more: no fault of the reactor ends
\* PID 1 (ARCHITECTURE.md, "Deterministic Failure Modes"; the end of main).
NoPanicInService ==
  [][stage' = "panic" => stage \in {"panic", "reboot"} \/ \A c \in Conns : done'[c] = <<>>]_daemonVars

\* No fault at all ends in a kernel panic.
NeverPanics == stage # "panic"

\* A SIGTERM that is pending, at whatever point of the start or of the loop, and a
\* Shutdown request end the run with every connection closed, and then the machine,
\* whatever the clients are doing and whatever could not be mounted; unless the start
\* itself fails, epoll_wait fails first, which ends the machine without cleanup, or the
\* server is stuck in a handler, after which it looks at no signal.
ShutdownPowersOff ==
  Stuck \/ (("TERM" \in sigs \/ ~running) ~>
              \/ Ended /\ Stopped /\ StoppedClean
              \/ Ended /\ pc = "failed"
              \/ stage = "panic" /\ running)
=============================================================================
