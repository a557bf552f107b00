---------------------------- MODULE MCLifecycle ----------------------------
(* Small instances of ContainerLifecycle for TLC: c1 has a network and      *)
(* published ports, c2 has neither, and in some runs its program ignores    *)
(* SIGTERM; two clients race for the lock; one pid more than there are      *)
(* containers lets a container start again, one pid per container forces    *)
(* the host to reuse them.                                                  *)
EXTENDS ContainerLifecycle, TLC

CONSTANTS c1, c2, t1, t2, p1, p2, p3

TwoContainers == {c1, c2}
OneContainer == {c1}
OnlyC1 == {c1}
OnlyC2 == {c2}
NoContainer == {}
TwoClients == {t1, t2}
OneClient == {t1}
ThreePids == {p1, p2, p3}
TwoPids == {p1, p2}

NoFaults == {}
AllFaults == FaultKinds
WorkerOnly == {"worker"}
TermOnly == {"term"}
(* Failed starts the worker reports to the server.                          *)
Reported == {"jid", "create"}

(* Threads are alike and so are pids.  (The containers differ: c1 alone has *)
(* a network.)  Used in the run without liveness properties only.           *)
MCSymmetry == Permutations(TwoClients) \cup Permutations(ThreePids)
=============================================================================
