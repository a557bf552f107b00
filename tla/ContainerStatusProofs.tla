------------------------ MODULE ContainerStatusProofs ------------------------
(***************************************************************************)
(* Theorems about what ContainerLifecycle promises about rows, jails and   *)
(* processes.  They do not survive every failure: the hypothesis of each   *)
(* names the failures it survives.                                         *)
(***************************************************************************)
EXTENDS ContainerLifecycleProofs

(* A pid of JAIL_DICT is a process, dead or alive, except between the wait  *)
(* for it and the end of destroy_jail.  So rfork never returns a pid that   *)
(* JAIL_DICT still has.                                                     *)
Collecting == {"destroy", "cleandestroy"}
Reaped == \A p \in jailDict \cap Pids :
            proc[p] = "none" <=> wpc \in Collecting /\ wpid = p

(* A server that is never killed nor told to end, and its worker.           *)
Serving == /\ server = "up" /\ ForkError \notin jailDict
           /\ wpc \notin {"clean", "cleandestroy", "atexit", "dead"}

-----------------------------------------------------------------------------
(* What the steps of others than the worker do to the host.                *)

LEMMA RemovedJail ==
  ASSUME TypeInv, NEW c, RemoveJail(c)
  PROVE  /\ \A d \in Containers : jail'[d] <=> jail[d] /\ d # c
         /\ \A p \in Pids : proc'[p] = IF proc[p] = "inside" /\ owner[p] = c
                                       THEN AfterExit(p) ELSE proc[p]
         /\ \A p \in Pids : proc'[p] # proc[p] =>
              owner[p] = c /\ Alive(p) /\ proc'[p] = AfterExit(p)
  BY DEF RemoveJail, TypeInv, TypeOK, Alive

LEMMA ThreadsAndHost ==
  ASSUME TypeInv, NEW t \in Clients, ThreadStep(t)
  PROVE  /\ UNCHANGED <<server, owner, workerVars>>
         /\ UNCHANGED <<jail, proc>> \/ \E c \in Containers : RemoveJail(c)
<1>1. UNCHANGED <<server, owner, workerVars>> BY ThreadsKeepWorker
<1>2. UNCHANGED <<jail, proc>> \/ RemoveJail(ctarget[t])
  BY DEF ThreadStep, StopSignal, StartCheck, StartSend, StartSendFails, StartCommit, StopCheck,
     StopNoPidFile, StopOpenFails, ReadsPidFile, StopEmptyPidFile, StopKill, StopTruncate,
     StopPoll, StopRemove, hostVars
<1>3. cpc[t] # "idle"
  BY DEF ThreadStep, StopSignal, StartCheck, StartSend, StartSendFails, StartCommit, StopCheck,
     StopNoPidFile, StopOpenFails, ReadsPidFile, StopEmptyPidFile, StopKill, StopTruncate,
     StopPoll, StopRemove
<1> QED BY <1>1, <1>2, <1>3 DEF TypeInv, Targets

(* A child's step, or the end of a process.                                 *)
LEMMA ChildrenAndHost ==
  ASSUME TypeInv, NEW p \in Pids, ChildStep(p) \/ Exit(p)
  PROVE  /\ UNCHANGED <<status, server, sock, clientVars, workerVars, jail, owner>>
         /\ Alive(p) /\ \A q \in Pids \ {p} : proc'[q] = proc[q]
         /\ proc'[p] \in {"wrote", "inside", AfterExit(p)}
  BY DEF ChildStep, WritePid, Attach, Exit, Alive, TypeInv, TypeOK, clientVars, workerVars

LEMMA InitReaped == Init => Reaped
  BY DEF Init, Reaped

LEMMA WorkerKeepsReaped ==
  ASSUME TypeInv, Hands, Reaped, WorkerStep
  PROVE  Reaped'
<1> USE DEF TypeInv, TypeOK, Reaped, Collecting, WorkerAt, WorkerGoes, OnlyWorkerMoves,
        hostVars, Serve, Unreachable
<1>1. ASSUME NEW p \in Pids, ExitEvent(p) PROVE Reaped'  BY <1>1 DEF ExitEvent
<1>2. ASSUME NEW p \in Pids, Fork(p) PROVE Reaped'       BY <1>2 DEF Fork
<1>3. ASSUME NEW p \in Pids, CleanEvent(p) PROVE Reaped' BY <1>3 DEF CleanEvent
<1>4. CASE Reap BY <1>4 DEF Reap
<1>5. ASSUME NEW c, DestroyJail(c)
      PROVE  \A p \in jailDict \cap Pids : proc'[p] = "none" <=> proc[p] = "none"
  BY <1>5, RemovedJail DEF DestroyJail, AfterExit
<1>6. CASE Destroy \/ CleanDestroy
  BY <1>5, <1>6 DEF Destroy, CleanDestroy, DestroyAnd, ForgetPid
<1>7. CASE RefusalRaises \/ CreateRaises BY <1>5, <1>7 DEF RefusalRaises, CreateRaises
<1>8. CASE Receive \/ TakeName \/ BufferDone BY <1>8 DEF Receive, TakeName, BufferDone
<1>9. CASE GetConnect \/ PortsConnect \/ NotifyConnect
  BY <1>9 DEF GetConnect, PortsConnect, NotifyConnect, Connect
<1>10. CASE GetContainer \/ GetRaises \/ RegisterNetwork \/ RegisterPorts
  BY <1>10 DEF GetContainer, GetRaises, RegisterNetwork, RegisterPorts
<1>11. CASE CreateJail \/ CreateRefused BY <1>11 DEF CreateJail, CreateRefused
<1>12. CASE Track \/ Notify \/ NotifyRaises
  BY <1>12 DEF Track, Notify, RecordExit, NotifyRaises
<1>13. CASE EndOfFile BY <1>13 DEF EndOfFile
<1>14. CASE CleanDone \/ WorkerAtExit BY <1>14 DEF CleanDone, WorkerAtExit, WorkerEnds
<1> QED BY <1>1, <1>2, <1>3, <1>4, <1>6, <1>7, <1>8, <1>9, <1>10, <1>11, <1>12, <1>13, <1>14
        DEF WorkerStep

LEMMA NextReaped == TypeInv /\ Hands /\ Reaped /\ [Next]_vars => Reaped'
<1> SUFFICES ASSUME TypeInv, Hands, Reaped, [Next]_vars PROVE Reaped'
  OBVIOUS
<1> USE DEF Reaped
<1>1. ASSUME UNCHANGED <<jailDict, proc, wpc, wpid>> PROVE Reaped' BY <1>1
<1>2. CASE Users BY <1>1, <1>2 DEF Users, Request, workerVars, hostVars
<1>3. ASSUME NEW t \in Clients, ThreadStep(t) PROVE Reaped'
  BY <1>1, <1>3, ThreadsAndHost, RemovedJail DEF workerVars, AfterExit, Alive
<1>4. CASE WorkerStep BY <1>4, WorkerKeepsReaped
<1>5. CASE GetFails \/ ForkFails
  BY <1>5, LifecycleAssumption
     DEF GetFails, ForkFails, OnlyWorkerMoves, WorkerAt, hostVars, Collecting, Serve
<1>6. CASE WorkerKilled BY <1>6 DEF WorkerKilled, WorkerEnds
<1>7. ASSUME NEW p \in Pids, ChildStep(p) \/ Exit(p) PROVE Reaped'
  BY <1>7, ChildrenAndHost DEF workerVars, AfterExit, Alive
<1>8. CASE Crash \/ WaitWorker \/ Sigterm \/ CloseSocket \/ MarkExited
  BY <1>1, <1>8 DEF Crash, WaitWorker, Sigterm, CloseSocket, MarkExited, workerVars, hostVars
<1>9. CASE Boot BY <1>9 DEF Boot, WorkerAt, Hands, BufferInv
<1>10. CASE UNCHANGED vars BY <1>1, <1>10 DEF vars, workerVars, hostVars
<1> QED BY <1>2, <1>3, <1>4, <1>5, <1>6, <1>7, <1>8, <1>9, <1>10 DEF Next, Failure, ServerStep

LEMMA InitServing == Init => Serving
  BY LifecycleAssumption DEF Init, Serving

LEMMA NextServing ==
  ASSUME Faults \cap {"fork", "worker", "crash", "term"} = {}, TypeInv, Serving, [Next]_vars
  PROVE  Serving'
<1> USE LifecycleAssumption DEF Serving
<1>1. ASSUME UNCHANGED <<server, jailDict, wpc>> PROVE Serving' BY <1>1
<1>2. CASE Users BY <1>1, <1>2 DEF Users, Request, workerVars
<1>3. ASSUME NEW t \in Clients, ThreadStep(t) PROVE Serving'
  BY <1>1, <1>3, ThreadsKeepWorker DEF workerVars
<1>4. CASE WorkerStep
  <2> USE DEF WorkerAt, WorkerGoes, OnlyWorkerMoves, Serve, Unreachable
  <2>1. ASSUME NEW p \in Pids, ExitEvent(p) \/ Fork(p) \/ CleanEvent(p) PROVE Serving'
    BY <2>1 DEF ExitEvent, Fork, CleanEvent
  <2>2. CASE Reap \/ Destroy \/ Receive \/ TakeName \/ BufferDone
    BY <2>2 DEF Reap, Destroy, DestroyAnd, ForgetPid, Receive, TakeName, BufferDone
  <2>3. CASE GetConnect \/ PortsConnect \/ NotifyConnect
    BY <2>3 DEF GetConnect, PortsConnect, NotifyConnect, Connect
  <2>4. CASE GetContainer \/ GetRaises \/ RegisterNetwork \/ RegisterPorts
    BY <2>4 DEF GetContainer, GetRaises, RegisterNetwork, RegisterPorts
  <2>5. CASE CreateJail \/ CreateRefused \/ RefusalRaises \/ CreateRaises
    BY <2>5 DEF CreateJail, CreateRefused, RefusalRaises, CreateRaises
  <2>6. CASE Track \/ Notify \/ NotifyRaises
    BY <2>6 DEF Track, Notify, RecordExit, NotifyRaises
  <2>7. CASE EndOfFile \/ CleanDestroy \/ CleanDone \/ WorkerAtExit
    BY <2>7 DEF EndOfFile, ParentEnd, CleanDestroy, CleanDone, WorkerAtExit
  <2> QED BY <1>4, <2>1, <2>2, <2>3, <2>4, <2>5, <2>6, <2>7 DEF WorkerStep
<1>5. CASE Failure
  BY <1>5 DEF Failure, GetFails, ForkFails, WorkerKilled, Crash, OnlyWorkerMoves, WorkerAt
<1>6. ASSUME NEW p \in Pids, ChildStep(p) \/ Exit(p) PROVE Serving'
  BY <1>1, <1>6, ChildrenAndHost DEF workerVars
<1>7. CASE Sigterm \/ ServerStep
  BY <1>7 DEF Sigterm, ServerStep, CloseSocket, MarkExited, WaitWorker, Boot
<1>8. CASE UNCHANGED vars BY <1>1, <1>8 DEF vars, workerVars
<1> QED BY <1>2, <1>3, <1>4, <1>5, <1>6, <1>7, <1>8 DEF Next

-----------------------------------------------------------------------------
(* Jails and processes: while the worker runs, it knows of all of them.     *)

Made == {"register", "ports", "portswait", "fork"}
Accounted(c) == InDict(c) # {} \/ (wcont = c /\ wpc \in Made) \/ ForkError \in jailDict
Known ==
  wpc \notin {"atexit", "dead"} =>
    /\ \A p \in Pids : owner[p] # None => p \in jailDict
    /\ \A p \in Pids : proc[p] # "none" => p \in jailDict
    /\ \A c \in Containers : jail[c] => Accounted(c)

LEMMA InitKnown == Init => Known
  BY DEF Init, Known

(* The worker and the kernel's jails when no new jail appears.              *)
LEMMA KnownFrame ==
  ASSUME Known, UNCHANGED <<jailDict, owner>>,
         wpc' \notin {"atexit", "dead"} => wpc \notin {"atexit", "dead"},
         \A c \in Containers : jail'[c] => jail[c],
         \A p \in Pids : proc'[p] # "none" => proc[p] # "none",
         \A c \in Containers : wcont = c /\ wpc \in Made /\ jail'[c] =>
                                 wcont' = c /\ wpc' \in Made
  PROVE  Known'
  BY DEF Known, Accounted, InDict

LEMMA DestroyKeepsKnown ==
  ASSUME TypeInv, Hands, Reaped, Known, "destroy" \notin Faults,
         wpc \in Collecting, NEW pc \in {"exit", "clean"}, DestroyAnd(pc)
  PROVE  Known'
<1> USE DEF TypeInv, TypeOK, Hands, HandInv, Collecting
<1>1. /\ wpid \in jailDict \cap Pids /\ owner[wpid] = wcont /\ proc[wpid] = "none"
      /\ jailDict' = jailDict \ {wpid} /\ owner' = [owner EXCEPT ![wpid] = None]
      /\ wpc' = pc /\ RemoveJail(wcont)
  BY DEF DestroyAnd, DestroyJail, ForgetPid, WorkerAt, Reaped
<1>2. \A c \in Containers \ {wcont} : InDict(c)' = InDict(c)
  BY <1>1 DEF InDict
<1>3. \A c \in Containers : jail'[c] => Accounted(c)'
  <2> SUFFICES ASSUME NEW c \in Containers, jail'[c] PROVE Accounted(c)'
    OBVIOUS
  <2>1. jail[c] /\ c # wcont BY <1>1, RemovedJail
  <2>2. InDict(c) # {} \/ ForkError \in jailDict
    BY <2>1 DEF Known, Accounted, Made
  <2>3. ForkError # wpid BY <1>1, LifecycleAssumption
  <2> QED BY <1>1, <1>2, <2>1, <2>2, <2>3 DEF Accounted
<1>4. \A p \in Pids : owner'[p] # None => p \in jailDict'
  BY <1>1 DEF Known
<1>5. \A p \in Pids : proc'[p] # "none" => p \in jailDict'
  BY <1>1, RemovedJail DEF Known, Alive
<1> QED BY <1>3, <1>4, <1>5 DEF Known

LEMMA ForkKeepsKnown ==
  ASSUME TypeInv, Hands, Reaped, Known, NEW p \in Pids, Fork(p)
  PROVE  Known'
<1>1. /\ wpc = "fork" /\ proc[p] = "none" /\ jailDict' = jailDict \cup {p}
      /\ owner' = [owner EXCEPT ![p] = wcont] /\ proc' = [proc EXCEPT ![p] = "forked"]
      /\ UNCHANGED jail /\ wcont \in Containers
  BY DEF Fork, Hands, HandInv, Holding
<1>2. p \notin jailDict BY <1>1 DEF Reaped, Collecting
<1>3. /\ p \in jailDict' \cap Pids /\ owner'[p] = wcont
      /\ \A q \in jailDict \cap Pids : q \in jailDict' \cap Pids /\ owner'[q] = owner[q]
  BY <1>1, <1>2 DEF TypeInv, TypeOK
<1>4. \A c \in Containers : Accounted(c) => Accounted(c)'
  <2> SUFFICES ASSUME NEW c \in Containers, Accounted(c) PROVE Accounted(c)'
    OBVIOUS
  <2>1. CASE c = wcont BY <1>3, <2>1 DEF Accounted, InDict
  <2>2. CASE c # wcont /\ InDict(c) # {} BY <1>3, <2>2 DEF Accounted, InDict
  <2>3. CASE c # wcont /\ ForkError \in jailDict BY <1>1, <2>3 DEF Accounted
  <2> QED BY <2>1, <2>2, <2>3 DEF Accounted
<1>5. \A c \in Containers : jail'[c] => Accounted(c)'
  BY <1>1, <1>4 DEF Known
<1>6. /\ \A q \in Pids : owner'[q] # None => q \in jailDict'
      /\ \A q \in Pids : proc'[q] # "none" => q \in jailDict'
  BY <1>1 DEF Known, TypeInv, TypeOK
<1> QED BY <1>5, <1>6 DEF Known

LEMMA WorkerKeepsKnown ==
  ASSUME TypeInv, Hands, Reaped, Known, "destroy" \notin Faults, WorkerStep
  PROVE  Known'
<1> USE DEF TypeInv, TypeOK, Hands, HandInv, Holding, Made, WorkerAt, WorkerGoes,
            OnlyWorkerMoves, hostVars, Serve, Unreachable
<1>1. ASSUME NEW p \in Pids, ExitEvent(p) PROVE Known'
  BY <1>1, KnownFrame DEF ExitEvent
<1>2. ASSUME NEW p \in Pids, Fork(p) PROVE Known' BY <1>2, ForkKeepsKnown
<1>3. ASSUME NEW p \in Pids, CleanEvent(p) PROVE Known'
  BY <1>3, KnownFrame DEF CleanEvent
<1>4. CASE Reap BY <1>4, KnownFrame DEF Reap
<1>5. CASE Destroy BY <1>5, DestroyKeepsKnown DEF Destroy, Collecting
<1>6. CASE CleanDestroy BY <1>6, DestroyKeepsKnown DEF CleanDestroy, Collecting
<1>7. CASE RefusalRaises \/ CreateRaises
  <2>1. RemoveJail(wcont) /\ wpc' = "fail" /\ UNCHANGED <<jailDict, owner>>
        /\ wpc \in {"refuse", "refusewait", "create", "register"}
    BY <1>7 DEF RefusalRaises, CreateRaises, DestroyJail
  <2>2. \A c \in Containers : jail'[c] => jail[c] /\ c # wcont BY <2>1, RemovedJail
  <2>3. \A p \in Pids : proc'[p] # "none" => proc[p] # "none"
    BY <2>1, RemovedJail DEF Alive
  <2> QED BY <2>1, <2>2, <2>3, KnownFrame
<1>8. CASE CreateJail
  <2>1. /\ jail' = [jail EXCEPT ![wcont] = TRUE] /\ wpc' = "register" /\ wpc = "create"
        /\ UNCHANGED <<wcont, jailDict, owner, proc>>
    BY <1>8 DEF CreateJail
  <2>2. \A c \in Containers : jail'[c] => c = wcont \/ jail[c]
    BY <2>1
  <2>3. \A c \in Containers : jail'[c] => Accounted(c)'
    BY <2>1, <2>2 DEF Known, Accounted, InDict
  <2> QED BY <2>1, <2>3 DEF Known
<1>9. CASE Receive \/ TakeName \/ BufferDone
  BY <1>9, KnownFrame DEF Receive, TakeName, BufferDone
<1>10. CASE GetConnect \/ PortsConnect \/ NotifyConnect
  BY <1>10, KnownFrame DEF GetConnect, PortsConnect, NotifyConnect, Connect
<1>11. CASE GetContainer \/ GetRaises \/ RegisterNetwork \/ RegisterPorts
  BY <1>11, KnownFrame DEF GetContainer, GetRaises, RegisterNetwork, RegisterPorts
<1>12. CASE CreateRefused \/ Track
  BY <1>12, KnownFrame DEF CreateRefused, Track
<1>13. CASE Notify \/ NotifyRaises
  BY <1>13, KnownFrame DEF Notify, RecordExit, NotifyRaises
<1>14. CASE EndOfFile BY <1>14, KnownFrame DEF EndOfFile
<1>15. CASE CleanDone \/ WorkerAtExit
  BY <1>15 DEF CleanDone, WorkerAtExit, WorkerEnds, Known
<1> QED BY <1>1, <1>2, <1>3, <1>4, <1>5, <1>6, <1>7, <1>8, <1>9, <1>10, <1>11, <1>12, <1>13,
           <1>14, <1>15 DEF WorkerStep

LEMMA NextKnown ==
  ASSUME Faults \cap {"destroy", "worker", "boot"} = {},
         TypeInv, Hands, Reaped, Known, [Next]_vars
  PROVE  Known'
<1>1. ASSUME UNCHANGED <<jailDict, owner, wpc, wcont, jail, proc>> PROVE Known'
  BY <1>1, KnownFrame
<1>2. CASE Users BY <1>1, <1>2 DEF Users, Request, workerVars, hostVars
<1>3. ASSUME NEW t \in Clients, ThreadStep(t) PROVE Known'
  <2>1. UNCHANGED <<jailDict, owner, wpc, wcont>>
    BY <1>3, ThreadsAndHost DEF workerVars
  <2>2. ASSUME NEW c \in Containers, RemoveJail(c) PROVE Known'
    BY <2>1, <2>2, RemovedJail, KnownFrame DEF Alive
  <2> QED BY <1>1, <1>3, <2>1, <2>2, ThreadsAndHost
<1>4. CASE WorkerStep BY <1>4, WorkerKeepsKnown
<1>5. CASE GetFails
  BY <1>5, KnownFrame DEF GetFails, OnlyWorkerMoves, WorkerAt, hostVars, Serve, Made
<1>6. CASE ForkFails
  BY <1>6 DEF ForkFails, WorkerAt, hostVars, Known, Accounted
<1>7. CASE WorkerKilled \/ Boot BY <1>7 DEF WorkerKilled, Boot
<1>8. ASSUME NEW p \in Pids, ChildStep(p) \/ Exit(p) PROVE Known'
  BY <1>8, ChildrenAndHost, KnownFrame DEF workerVars, Alive
<1>9. CASE Crash \/ WaitWorker \/ Sigterm \/ CloseSocket \/ MarkExited
  BY <1>1, <1>9 DEF Crash, WaitWorker, Sigterm, CloseSocket, MarkExited, workerVars, hostVars
<1>10. CASE UNCHANGED vars BY <1>1, <1>10 DEF vars, workerVars, hostVars
<1> QED BY <1>2, <1>3, <1>4, <1>5, <1>6, <1>7, <1>8, <1>9, <1>10 DEF Next, Failure, ServerStep

(* Whatever else fails, the server crashes or is shut down: a worker that   *)
(* leaves its clean-up loop leaves no jail and no process.                  *)
THEOREM CleanExit ==
  ASSUME Faults \cap {"destroy", "worker", "boot"} = {}
  PROVE  Spec => OrderlyExitLeavesNothing
<1>1. ASSUME TypeInv, Known, [Next]_vars
      PROVE  wpc = "clean" /\ wpc' = "dead" =>
               /\ \A c \in Containers : ~jail[c]
               /\ \A p \in Pids : proc[p] = "none"
  <2> SUFFICES ASSUME wpc = "clean", wpc' = "dead"
               PROVE  /\ \A c \in Containers : ~jail[c]
                      /\ \A p \in Pids : proc[p] = "none"
    OBVIOUS
  <2>1. jailDict = {}
    <3>1. CASE WorkerStep
      BY <3>1 DEF WorkerStep, ExitEvent, Fork, CleanEvent, Reap, Destroy, Receive, TakeName,
         BufferDone, GetConnect, GetContainer, GetRaises, CreateJail, CreateRefused,
         RefusalRaises, CreateRaises,
         RegisterNetwork, PortsConnect, RegisterPorts, Track, NotifyConnect, Notify, NotifyRaises,
         EndOfFile, CleanDestroy, CleanDone, WorkerAtExit, Connect, RecordExit, Serve,
         Unreachable, WorkerAt, WorkerGoes
    <3>2. ASSUME NEW t \in Clients, ThreadStep(t) PROVE FALSE
      BY <3>2, ThreadsKeepWorker DEF workerVars
    <3>3. ASSUME NEW p \in Pids, ChildStep(p) \/ Exit(p) PROVE FALSE
      BY <1>1, <3>3, ChildrenAndHost DEF workerVars
    <3> QED BY <1>1, <3>1, <3>2, <3>3
        DEF Next, vars, Users, Request, Failure, GetFails, ForkFails, WorkerKilled, Crash,
            Serve, Sigterm, ServerStep, CloseSocket, MarkExited, WaitWorker, Boot, workerVars
  <2> QED BY <1>1, <2>1 DEF Known, Accounted, InDict, Made
<1> QED BY <1>1, InitType, NextType, InitHands, NextHands, InitReaped, NextReaped,
           InitKnown, NextKnown, PTL DEF Spec, OrderlyExitLeavesNothing

(* While the server serves, every jail belongs to a container the worker is *)
(* starting or has in JAIL_DICT, also when starts fail.                     *)
THEOREM JailsAccounted ==
  ASSUME Faults \subseteq {"http", "jid", "create", "track"}
  PROVE  Spec => []JailsAccountedFor
<1>1. Serving /\ Known => JailsAccountedFor
  BY DEF Serving, Known, Accounted, JailsAccountedFor, Made
<1>2. Faults \cap {"destroy", "worker", "boot"} = {} /\ Faults \cap {"fork", "worker", "crash", "term"} = {}
  OBVIOUS
<1> QED BY <1>1, <1>2, InitType, NextType, InitHands, NextHands, InitReaped, NextReaped,
           InitKnown, NextKnown, InitServing, NextServing, PTL DEF Spec

(* A row becomes 'exited' only when no jail and no process of the container *)
(* is left: the worker notifies after the teardown, and meanwhile nothing   *)
(* can have started the container again.                                    *)
THEOREM TornDownFirst ==
  ASSUME Faults \subseteq {"http", "jid", "create", "track"}
  PROVE  Spec => ExitedAfterTeardown
<1> DEFINE Inv == TypeInv /\ Hands /\ Pipeline /\ Known /\ Serving
           Exits(c) == status[c] = "running" /\ status'[c] = "exited"
           Gone(c) == ~jail[c] /\ \A p \in Pids : owner[p] = c => ~Alive(p)
<1>1. ASSUME Inv, [Next]_vars PROVE \A c \in Containers : Exits(c) => Gone(c)
  <2> SUFFICES ASSUME NEW c \in Containers, Exits(c) PROVE Gone(c)
    OBVIOUS
  <2>1. c = wcont /\ wpc \in {"refusewait", "failwait", "exitwait"}
    <3>1. CASE WorkerStep
      BY <1>1, <3>1
      DEF WorkerStep, ExitEvent, Fork, CleanEvent, Reap, Destroy, DestroyAnd, Receive, TakeName,
          BufferDone, GetConnect, GetContainer, GetRaises, CreateJail, CreateRefused,
          RefusalRaises, CreateRaises,
          RegisterNetwork, PortsConnect, RegisterPorts, Track, NotifyConnect, Notify, NotifyRaises,
          EndOfFile, CleanDestroy, CleanDone, WorkerAtExit, Connect, RecordExit, Serve,
          OnlyWorkerMoves, Serving, TypeInv, TypeOK
    <3>2. ASSUME NEW t \in Clients, ThreadStep(t) PROVE FALSE
      BY <1>1, <3>2
      DEF ThreadStep, StopSignal, StartCheck, StartSend, StartSendFails, StartCommit, StopCheck,
          StopNoPidFile, StopOpenFails, ReadsPidFile, StopEmptyPidFile, StopKill, StopTruncate,
          StopPoll, StopRemove, TypeInv, TypeOK
    <3>3. ASSUME NEW p \in Pids, ChildStep(p) \/ Exit(p) PROVE FALSE
      BY <1>1, <3>3, ChildrenAndHost
    <3> QED BY <1>1, <3>1, <3>2, <3>3
        DEF Next, vars, Users, Request, Failure, GetFails, ForkFails, WorkerKilled, Crash, WorkerEnds,
            Serve, Sigterm, ServerStep, CloseSocket, MarkExited, WaitWorker, Boot, Serving,
            OnlyWorkerMoves
  <2>2. \A p \in jailDict \cap Pids : owner[p] # c
    BY <1>1, <2>1 DEF Pipeline, Once, Holding
  <2>3. \A p \in Pids : owner[p] # c
    BY <1>1, <2>2, LifecycleAssumption DEF Known, Serving
  <2>4. ~jail[c]
    BY <1>1, <2>1, <2>2 DEF Known, Serving, Accounted, InDict, Made
  <2> QED BY <2>3, <2>4
<1>2. Faults \cap {"destroy", "worker", "boot"} = {} /\ Faults \cap {"fork", "worker", "crash", "term"} = {}
  OBVIOUS
<1> QED BY <1>1, <1>2, InitType, NextType, InitControl, NextControl, InitHands, NextHands,
           InitPipeline, NextPipeline, InitReaped, NextReaped, InitKnown, NextKnown, InitServing,
           NextServing, PTL DEF Spec, ExitedAfterTeardown

-----------------------------------------------------------------------------
(* Rows and runs.  Once the worker has the answer to its GET, the row it    *)
(* works for says 'running', and so do the rows of JAIL_DICT; a row about   *)
(* to be committed does not; and what says 'running' is in flight.          *)

Answered == Holding \ {"get", "getwait"}
Rows ==
  /\ wpc \in Answered => status[wcont] = "running"
  /\ \A p \in jailDict \cap Pids : status[owner[p]] = "running"
  /\ \A t \in Clients : cpc[t] = "commit" => status[ctarget[t]] # "running"
  /\ \A c \in Containers : status[c] = "running" \/ Committing(c) => InFlight(c)

LEMMA InitRows == Init => Rows
  BY DEF Init, Rows, Committing, Answered, Holding

(* The worker goes on with the container it has, if it has one.             *)
LEMMA WorkerGoesOn ==
  ASSUME Rows, UNCHANGED <<status, cpc, ctarget, sock, buffer, owner, jailDict>>,
         wpc' \in Holding <=> wpc \in Holding, wpc \in Holding => wcont' = wcont,
         wpc' \in Answered => wpc \in Answered
  PROVE  Rows'
<1>1. \A c : InFlight(c) => InFlight(c)'
  BY DEF InFlight, Queued, InHands
<1>2. \A c : Committing(c)' <=> Committing(c)
  BY DEF Committing
<1> QED BY <1>1, <1>2 DEF Rows, Answered

(* Nothing leaves the pipeline and no row changes.                          *)
LEMMA RowsFrame ==
  ASSUME Rows, UNCHANGED <<status, cpc, ctarget>>,
         \A c \in Containers : InFlight(c) => InFlight(c)',
         wpc' \in Answered => status[wcont'] = "running",
         \A p \in jailDict' \cap Pids : status[owner'[p]] = "running"
  PROVE  Rows'
<1>1. \A c : Committing(c)' <=> Committing(c)
  BY DEF Committing
<1> QED BY <1>1 DEF Rows

LEMMA ForkRows ==
  ASSUME TypeInv, Hands, Reaped, Rows, NEW p \in Pids, Fork(p)
  PROVE  Rows'
<1>1. /\ wpc = "fork" /\ proc[p] = "none" /\ wpc' = "track"
      /\ jailDict' = jailDict \cup {p} /\ owner' = [owner EXCEPT ![p] = wcont]
      /\ UNCHANGED <<status, cpc, ctarget, sock, buffer>>
  BY DEF Fork, WorkerAt, clientVars
<1>2. p \notin jailDict BY <1>1 DEF Reaped, Collecting
<1>3. /\ p \in jailDict' \cap Pids /\ owner'[p] = wcont
      /\ \A q \in jailDict \cap Pids : q \in jailDict' \cap Pids /\ owner'[q] = owner[q]
  BY <1>1, <1>2 DEF TypeInv, TypeOK
<1>4. \A c \in Containers : InFlight(c) => InFlight(c)'
  BY <1>1, <1>3 DEF InFlight, Queued, InHands
<1>5. status[wcont] = "running" BY <1>1 DEF Rows, Answered, Holding
<1>6. \A q \in jailDict' \cap Pids : status[owner'[q]] = "running"
  BY <1>1, <1>3, <1>5 DEF Rows
<1> QED BY <1>1, <1>4, <1>6, RowsFrame DEF Answered, Holding

LEMMA DestroyRows ==
  ASSUME TypeInv, Hands, Rows, Destroy
  PROVE  Rows'
<1>1. /\ wpc = "destroy" /\ wpc' = "exit" /\ wcont' = wcont /\ owner[wpid] = wcont
      /\ wpid \in jailDict \cap Pids /\ jailDict' = jailDict \ {wpid}
      /\ owner' = [owner EXCEPT ![wpid] = None]
      /\ UNCHANGED <<status, cpc, ctarget, sock, buffer>>
  BY DEF Destroy, DestroyAnd, ForgetPid, WorkerAt, clientVars, Hands, HandInv
<1>2. \A q \in (jailDict \cap Pids) \ {wpid} : q \in jailDict' \cap Pids /\ owner'[q] = owner[q]
  BY <1>1 DEF TypeInv, TypeOK
<1>3. \A c \in Containers : InFlight(c) => InFlight(c)'
  BY <1>1, <1>2 DEF InFlight, Queued, InHands, Holding
<1>4. status[wcont'] = "running" BY <1>1 DEF Rows
<1>5. \A q \in jailDict' \cap Pids : status[owner'[q]] = "running"
  BY <1>1, <1>2 DEF Rows
<1> QED BY <1>1, <1>3, <1>4, <1>5, RowsFrame

(* Names are not lost on their way from the socket to the worker's hands.   *)
LEMMA ReceiveRows ==
  ASSUME TypeInv, Hands, Rows, Receive
  PROVE  /\ Rows' /\ \A c : Queued(c)' <=> Queued(c)
<1>1. PICK n \in 1..Len(sock) : /\ buffer' = buffer \o SubSeq(sock, 1, n)
                                /\ sock' = SubSeq(sock, n + 1, Len(sock))
  BY DEF Receive
<1>2. /\ wpc = "idle" /\ wpc' = "next" /\ buffer = <<>>
      /\ UNCHANGED <<status, cpc, ctarget, jailDict, owner>>
  BY DEF Receive, Hands, BufferInv, WorkerGoes, clientVars, hostVars
<1>3. sock \in Seq(Containers) /\ n \in Nat /\ n <= Len(sock)
  BY <1>1 DEF TypeInv, TypeOK
<1>4. buffer' = SubSeq(sock, 1, n)
  BY <1>1, <1>2, <1>3, SeqTypes
<1>5. Len(buffer') = n /\ \A j \in 1..n : buffer'[j] = sock[j]
  BY <1>1, <1>3, <1>4
<1>6. Len(sock') = Len(sock) - n /\ \A i \in 1..Len(sock') : sock'[i] = sock[n + i]
  BY <1>1, <1>3
<1>7. \A c : Queued(c) => Queued(c)'
  <2> SUFFICES ASSUME NEW c, NEW i \in 1..Len(sock), sock[i] = c PROVE Queued(c)'
    BY <1>2 DEF Queued
  <2>1. CASE i <= n BY <1>3, <1>5, <2>1 DEF Queued
  <2>2. CASE i > n
    <3>1. i - n \in 1..Len(sock') /\ sock'[i - n] = sock[i] BY <1>3, <1>6, <2>2
    <3> QED BY <3>1 DEF Queued
  <2> QED BY <1>3, <2>1, <2>2
<1>8. \A c : Queued(c)' => Queued(c)
  <2> SUFFICES ASSUME NEW c, Queued(c)' PROVE \E i \in 1..Len(sock) : sock[i] = c
    BY DEF Queued
  <2>1. ASSUME NEW i \in 1..Len(sock'), sock'[i] = c PROVE \E k \in 1..Len(sock) : sock[k] = c
    <3>1. n + i \in 1..Len(sock) /\ sock[n + i] = c BY <1>3, <1>6, <2>1
    <3> QED BY <3>1
  <2>2. ASSUME NEW j \in 1..Len(buffer'), buffer'[j] = c
        PROVE  \E k \in 1..Len(sock) : sock[k] = c
    BY <1>3, <1>5, <2>2
  <2> QED BY <2>1, <2>2 DEF Queued
<1>9. Rows'
  <2>1. \A c \in Containers : InFlight(c) => InFlight(c)'
    BY <1>2, <1>7 DEF InFlight, InHands, Holding
  <2> QED BY <1>2, <2>1, RowsFrame DEF Rows, Answered, Holding
<1> QED BY <1>7, <1>8, <1>9

LEMMA TakeNameRows ==
  ASSUME TypeInv, Rows, TakeName
  PROVE  /\ Rows' /\ wpc' = "get"
         /\ \A c : Queued(c) => Queued(c)' \/ c = wcont'
         /\ \A c : Queued(c)' \/ c = wcont' => Queued(c)
<1>1. /\ wpc = "next" /\ buffer # <<>> /\ wpc' = "get" /\ wcont' = Head(buffer)
      /\ buffer' = Tail(buffer)
      /\ UNCHANGED <<status, cpc, ctarget, sock, jailDict, owner>>
  BY DEF TakeName, WorkerAt, clientVars, hostVars
<1>2. /\ Len(buffer) \in Nat /\ Len(buffer) > 0 /\ buffer[1] = wcont'
      /\ Len(buffer') = Len(buffer) - 1
      /\ \A i \in 1..Len(buffer') : buffer'[i] = buffer[i + 1]
  BY <1>1 DEF TypeInv, TypeOK
<1>3. ASSUME NEW c, Queued(c) PROVE Queued(c)' \/ c = wcont'
  <2>1. CASE \E i \in 1..Len(sock) : sock[i] = c BY <1>1, <2>1 DEF Queued
  <2>2. CASE \E i \in 1..Len(buffer) : buffer[i] = c
    <3>1. PICK i \in 1..Len(buffer) : buffer[i] = c BY <2>2
    <3>2. CASE i = 1 BY <1>2, <3>1, <3>2
    <3>3. CASE i # 1
      <4>1. i - 1 \in 1..Len(buffer') /\ buffer'[i - 1] = c BY <1>2, <3>1, <3>3
      <4> QED BY <4>1 DEF Queued
    <3> QED BY <3>2, <3>3
  <2> QED BY <1>3, <2>1, <2>2 DEF Queued
<1>4. ASSUME NEW c, Queued(c)' \/ c = wcont' PROVE Queued(c)
  <2>1. CASE \E i \in 1..Len(sock') : sock'[i] = c BY <1>1, <2>1 DEF Queued
  <2>2. CASE \E i \in 1..Len(buffer') : buffer'[i] = c
    <3>1. PICK i \in 1..Len(buffer') : buffer'[i] = c BY <2>2
    <3>2. i + 1 \in 1..Len(buffer) /\ buffer[i + 1] = c BY <1>2, <3>1
    <3> QED BY <3>2 DEF Queued
  <2>3. CASE c = wcont' BY <1>2, <2>3 DEF Queued
  <2> QED BY <1>4, <2>1, <2>2, <2>3 DEF Queued
<1>5. Rows'
  <2>1. \A c \in Containers : InFlight(c) => InFlight(c)'
    BY <1>1, <1>3 DEF InFlight, InHands, Holding
  <2> QED BY <1>1, <2>1, RowsFrame DEF Rows, Answered, Holding
<1> QED BY <1>1, <1>3, <1>4, <1>5

(* The worker's GET is served when no thread holds the lock, so the thread  *)
(* that sent this name has committed its row.                               *)
LEMMA GetRows ==
  ASSUME TypeInv, Control, Hands, Pipeline, Serving, Rows, GetContainer
  PROVE  Rows'
<1>1. /\ wpc = "getwait" /\ lock = None /\ wpc' = "create" /\ wcont' = wcont
      /\ UNCHANGED <<status, cpc, ctarget, sock, buffer, jailDict, owner>>
  BY DEF GetContainer, Serve, WorkerGoes, OnlyWorkerMoves, clientVars, hostVars
<1>2. wcont \in Containers /\ InFlight(wcont)
  BY <1>1 DEF Hands, HandInv, Holding, InFlight, InHands
<1>3. ~Committing(wcont)
  BY <1>1, LifecycleAssumption DEF Committing, Control, LockInv, Critical
<1>4. status[wcont] = "running"
  BY <1>2, <1>3 DEF Pipeline, RowKnows, SockOpen, ParentEnd, Serving
<1>5. \A c \in Containers : InFlight(c) => InFlight(c)'
  BY <1>1 DEF InFlight, Queued, InHands, Holding
<1> QED BY <1>1, <1>4, <1>5, RowsFrame DEF Rows

LEMMA NotifyRows ==
  ASSUME TypeInv, Control, Hands, Pipeline, Rows, Notify
  PROVE  Rows'
<1>1. /\ wpc \in {"refusewait", "failwait", "exitwait"} /\ lock = None /\ wpc' \in {"next", "idle"}
      /\ status' = [status EXCEPT ![wcont] = "exited"] /\ wcont \in Containers
      /\ UNCHANGED <<cpc, ctarget, sock, buffer, jailDict, owner>>
  BY DEF Notify, RecordExit, Serve, WorkerAt, clientVars, hostVars, Hands, HandInv, Holding
<1>2. \A c : ~Committing(c) /\ ~Committing(c)'
  BY <1>1, LifecycleAssumption DEF Committing, Control, LockInv, Critical
<1>3. \A c \in Containers : status'[c] = "running" => c # wcont /\ status[c] = "running"
  BY <1>1 DEF TypeInv, TypeOK
<1>4. \A c \in Containers \ {wcont} : InFlight(c) => InFlight(c)'
  BY <1>1 DEF InFlight, Queued, InHands
<1>5. \A p \in jailDict' \cap Pids : status'[owner'[p]] = "running"
  BY <1>1 DEF Pipeline, Once, Rows, Holding, TypeInv, TypeOK, Hands, DictInv
<1>6. \A t \in Clients : cpc[t] # "commit" BY <1>1, LifecycleAssumption DEF Control, LockInv, Critical
<1> QED BY <1>1, <1>2, <1>3, <1>4, <1>5, <1>6 DEF Rows, Answered, Holding

(* A thread's step sends, commits, or does neither.                         *)
LEMMA ThreadAndRow ==
  ASSUME TypeInv, NEW t \in Clients, ThreadStep(t), ~StartSend(t), ~StartCommit(t)
  PROVE  /\ UNCHANGED <<sock, status>>
         /\ cpc[t] # "commit" /\ cpc'[t] # "commit"
         /\ \A u \in Clients \ {t} : cpc'[u] = cpc[u] /\ ctarget'[u] = ctarget[u]
<1> USE DEF TypeInv, TypeOK
<1>1. CASE StartCheck(t) BY <1>1 DEF StartCheck, Release
<1>2. CASE StartSendFails(t) BY <1>2 DEF StartSendFails, Release
<1>3. CASE StopCheck(t) BY <1>3 DEF StopCheck, Release
<1>4. CASE StopNoPidFile(t) \/ StopOpenFails(t) \/ StopEmptyPidFile(t)
  BY <1>4 DEF StopNoPidFile, StopOpenFails, StopEmptyPidFile, ReadsPidFile, Release, Advance
<1>5. CASE StopKill(t) BY <1>5 DEF StopKill, ReadsPidFile, Advance
<1>6. CASE StopTruncate(t) BY <1>6 DEF StopTruncate, Release, Advance
<1>7. CASE StopPoll(t) BY <1>7 DEF StopPoll, Release
<1>8. CASE StopRemove(t) BY <1>8 DEF StopRemove, Release
<1> QED BY <1>1, <1>2, <1>3, <1>4, <1>5, <1>6, <1>7, <1>8 DEF ThreadStep, StopSignal

(* What start_jail does to the socket and to the row.                       *)
LEMMA Sends ==
  ASSUME TypeInv, NEW t \in Clients, StartSend(t)
  PROVE  /\ cpc[t] = "send" /\ SockOpen /\ ctarget[t] \in Containers
         /\ cpc' = [cpc EXCEPT ![t] = "commit"]
         /\ UNCHANGED <<ctarget, status, workerVars, hostVars>>
         /\ \A c : Queued(c)' <=> Queued(c) \/ c = ctarget[t]
<1>1. /\ cpc[t] = "send" /\ SockOpen /\ ctarget[t] \in Containers
      /\ cpc' = [cpc EXCEPT ![t] = "commit"] /\ sock' = Append(sock, ctarget[t])
      /\ UNCHANGED <<ctarget, status, workerVars, hostVars>>
  BY DEF StartSend, Advance, TypeInv, Targets
<1>2. /\ Len(sock) \in Nat /\ Len(sock') = Len(sock) + 1 /\ sock'[Len(sock) + 1] = ctarget[t]
      /\ \A i \in 1..Len(sock) : sock'[i] = sock[i]
  BY <1>1 DEF TypeInv, TypeOK
<1>3. \A c : (\E i \in 1..Len(sock') : sock'[i] = c) <=>
             (\E i \in 1..Len(sock) : sock[i] = c) \/ c = ctarget[t]
  BY <1>2
<1>4. UNCHANGED buffer BY <1>1 DEF workerVars
<1>5. \A c : Queued(c)' <=> Queued(c) \/ c = ctarget[t]
  BY <1>3, <1>4 DEF Queued
<1> QED BY <1>1, <1>5

LEMMA ThreadRows ==
  ASSUME TypeInv, Control, Pipeline, Rows, NEW t \in Clients, ThreadStep(t)
  PROVE  Rows'
<1> USE LifecycleAssumption DEF TypeInv, TypeOK
<1>1. UNCHANGED <<wpc, wcont, jailDict, owner, buffer>>
  BY ThreadsKeepWorker DEF workerVars
<1>2. CASE StartSend(t)
  <2> DEFINE c == ctarget[t]
  <2>1. /\ cpc[t] = "send" /\ SockOpen /\ cpc' = [cpc EXCEPT ![t] = "commit"]
        /\ UNCHANGED <<ctarget, status>> /\ \A d : Queued(d)' <=> Queued(d) \/ d = c
    BY <1>2, Sends
  <2>2. \A d : InFlight(d)' <=> InFlight(d) \/ d = c
    BY <1>1, <2>1 DEF InFlight, InHands
  <2>3. \A d : Committing(d)' => Committing(d) \/ d = c
    BY <2>1 DEF Committing
  <2>4. status[c] # "running" BY <2>1 DEF Pipeline, SendFresh
  <2> QED BY <1>1, <2>1, <2>2, <2>3, <2>4 DEF Rows
<1>3. CASE StartCommit(t)
  <2> DEFINE c == ctarget[t]
  <2>1. /\ cpc[t] = "commit" /\ c \in Containers /\ UNCHANGED sock
        /\ status' = [status EXCEPT ![c] = "running"] /\ Release(t)
    BY <1>3 DEF StartCommit, Targets
  <2>2. \A d : InFlight(d)' <=> InFlight(d)
    BY <1>1, <2>1, PipeFrame DEF pipe
  <2>3. Committing(c) /\ \A d : ~Committing(d)'
    BY <2>1 DEF Committing, Release, Control, LockInv, Critical
  <2>4. \A u \in Clients : cpc'[u] # "commit"
    BY <2>1 DEF Release, Control, LockInv, Critical
  <2>5. \A d \in Containers : status[d] = "running" => status'[d] = "running"
    BY <2>1
  <2>6. \A d \in Containers : status'[d] = "running" => status[d] = "running" \/ d = c
    BY <2>1
  <2>7. wpc' \in Answered => status'[wcont'] = "running"
    BY <1>1, <2>1 DEF Rows
  <2>8. \A p \in jailDict' \cap Pids : status'[owner'[p]] = "running"
    BY <1>1, <2>1 DEF Rows
  <2> QED BY <2>2, <2>3, <2>4, <2>6, <2>7, <2>8 DEF Rows
<1>4. CASE ~StartSend(t) /\ ~StartCommit(t)
  <2>1. /\ UNCHANGED <<sock, status>> /\ cpc[t] # "commit" /\ cpc'[t] # "commit"
        /\ \A u \in Clients \ {t} : cpc'[u] = cpc[u] /\ ctarget'[u] = ctarget[u]
    BY <1>4, ThreadAndRow
  <2>2. \A d : InFlight(d)' <=> InFlight(d)
    BY <1>1, <2>1, PipeFrame DEF pipe
  <2>3. \A d : Committing(d)' <=> Committing(d)
    BY <2>1 DEF Committing
  <2> QED BY <1>1, <2>1, <2>2, <2>3 DEF Rows
<1> QED BY <1>2, <1>3, <1>4

LEMMA WorkerRows ==
  ASSUME TypeInv, Control, Hands, Pipeline, Reaped, Serving, Serving', Rows, WorkerStep
  PROVE  Rows'
<1> USE DEF WorkerAt, WorkerGoes, OnlyWorkerMoves, clientVars, hostVars, Holding, Answered
<1>1. ASSUME NEW p \in Pids, ExitEvent(p) PROVE Rows' BY <1>1, WorkerGoesOn DEF ExitEvent
<1>2. ASSUME NEW p \in Pids, Fork(p) PROVE Rows' BY <1>2, ForkRows
<1>3. CASE Reap BY <1>3, WorkerGoesOn DEF Reap
<1>4. CASE Destroy BY <1>4, DestroyRows
<1>5. CASE Receive \/ TakeName BY <1>5, ReceiveRows, TakeNameRows
<1>6. CASE BufferDone \/ Track BY <1>6, WorkerGoesOn DEF BufferDone, Track
<1>7. CASE GetConnect \/ PortsConnect \/ NotifyConnect
  BY <1>7, WorkerGoesOn DEF GetConnect, PortsConnect, NotifyConnect, Connect
<1>8. CASE GetContainer BY <1>8, GetRows
<1>9. CASE CreateJail \/ CreateRefused \/ CreateRaises
  BY <1>9, WorkerGoesOn DEF CreateJail, CreateRefused, CreateRaises
<1>10. CASE RegisterNetwork \/ RegisterPorts
  BY <1>10, WorkerGoesOn DEF RegisterNetwork, RegisterPorts, Serve, Unreachable
<1>11. CASE Notify BY <1>11, NotifyRows
<1>12. ASSUME NEW p \in Pids, CleanEvent(p) PROVE FALSE BY <1>12 DEF CleanEvent, Serving
<1>13. ~(GetRaises \/ RefusalRaises \/ NotifyRaises \/ EndOfFile \/ CleanDestroy \/ CleanDone \/ WorkerAtExit)
  BY DEF GetRaises, RefusalRaises, NotifyRaises, EndOfFile, CleanDestroy, CleanDone, WorkerAtExit, Serving,
         Unreachable, ParentEnd
<1> QED BY <1>1, <1>2, <1>3, <1>4, <1>5, <1>6, <1>7, <1>8, <1>9, <1>10, <1>11, <1>12, <1>13
        DEF WorkerStep

Calm == Faults \subseteq {"jid", "create", "track", "destroy"}

LEMMA CalmSteps ==
  ASSUME Calm, Serving
  PROVE  ~(Failure \/ Sigterm \/ ServerStep)
  BY DEF Calm, Serving, Failure, GetFails, ForkFails, WorkerKilled, Crash, Sigterm, ServerStep,
         CloseSocket, MarkExited, WaitWorker, Boot

LEMMA NextRows ==
  ASSUME Calm, TypeInv, Control, Hands, Pipeline, Reaped, Serving, Serving', Rows, [Next]_vars
  PROVE  Rows'
<1>1. ASSUME UNCHANGED <<pipe, status, cpc, ctarget>> PROVE Rows'
  BY <1>1, RowsFrame, PipeFrame DEF pipe, Rows
<1>2. CASE Users
  <2>1. PICK t \in Clients, c \in Containers, op \in {"start", "stop"} : Request(t, c, op)
    BY <1>2 DEF Users
  <2>2. /\ UNCHANGED <<sock, status, wpc, wcont, jailDict, owner, buffer>>
        /\ cpc[t] # "commit" /\ cpc'[t] # "commit"
        /\ \A u \in Clients \ {t} : cpc'[u] = cpc[u] /\ ctarget'[u] = ctarget[u]
    BY <2>1 DEF Request, workerVars, hostVars, TypeInv, TypeOK
  <2>3. \A d : InFlight(d)' <=> InFlight(d)
    BY <2>2, PipeFrame DEF pipe
  <2>4. \A d : Committing(d)' <=> Committing(d)
    BY <2>2 DEF Committing
  <2> QED BY <2>2, <2>3, <2>4 DEF Rows
<1>3. ASSUME NEW t \in Clients, ThreadStep(t) PROVE Rows' BY <1>3, ThreadRows
<1>4. CASE WorkerStep BY <1>4, WorkerRows
<1>5. ASSUME NEW p \in Pids, ChildStep(p) \/ Exit(p) PROVE Rows'
  BY <1>1, <1>5, ChildrenAndHost DEF workerVars, clientVars, pipe
<1>6. CASE UNCHANGED vars BY <1>1, <1>6 DEF vars, clientVars, workerVars, hostVars, pipe
<1> QED BY <1>2, <1>3, <1>4, <1>5, <1>6, CalmSteps DEF Next

LEMMA Tagged ==
  ASSUME NEW S, NEW s
  PROVE  S \X {s} # {} <=> S # {}
<1>1. ASSUME NEW x \in S PROVE <<x, s>> \in S \X {s} OBVIOUS
<1>2. ASSUME NEW y \in S \X {s} PROVE y[1] \in S OBVIOUS
<1> QED BY <1>1, <1>2

(* The rows that say 'running' and the containers in the pipeline are the   *)
(* same, but for the one whose start has been sent and not yet committed.   *)
THEOREM RowsAgree ==
  ASSUME Faults \subseteq {"jid", "create", "track", "destroy"}
  PROVE  Spec => []RunningIffInFlight
<1>1. ASSUME TypeInv, Pipeline, Serving, Rows PROVE RunningIffInFlight
  <2> SUFFICES ASSUME NEW c \in Containers
               PROVE  status[c] = "running" \/ Committing(c) <=> Places(c) # {}
    BY DEF RunningIffInFlight
  <2>1. status[c] = "running" \/ Committing(c) <=> InFlight(c)
    BY <1>1 DEF Rows, Pipeline, RowKnows, SockOpen, ParentEnd, Serving
  <2>2. DOMAIN sock = 1..Len(sock) /\ DOMAIN buffer = 1..Len(buffer)
    BY <1>1 DEF TypeInv, TypeOK
  <2>3. InFlight(c) <=> InSocket(c) # {} \/ InBuffer(c) # {} \/ InHands(c) \/ InDict(c) # {}
    BY <2>2 DEF InFlight, Queued, InSocket, InBuffer, InDict
  <2>4. Places(c) # {} <=> InSocket(c) # {} \/ InBuffer(c) # {} \/ InHands(c) \/ InDict(c) # {}
    <3> DEFINE H == IF InHands(c) THEN {<<wcont, "hands">>} ELSE {}
    <3>1. /\ InSocket(c) \X {"socket"} # {} <=> InSocket(c) # {}
          /\ InBuffer(c) \X {"buffer"} # {} <=> InBuffer(c) # {}
          /\ InDict(c) \X {"dict"} # {} <=> InDict(c) # {}
      BY Tagged
    <3>2. H # {} <=> InHands(c)
      <4>1. CASE InHands(c) BY <4>1
      <4>2. CASE ~InHands(c) BY <4>2
      <4> QED BY <4>1, <4>2
    <3>3. Places(c) = (InSocket(c) \X {"socket"}) \cup (InBuffer(c) \X {"buffer"})
                      \cup H \cup (InDict(c) \X {"dict"})
      BY DEF Places
    <3> HIDE DEF H
    <3> QED BY <3>1, <3>2, <3>3
  <2> QED BY <2>1, <2>3, <2>4
<1>2. Calm /\ Faults \cap {"fork", "worker", "crash", "term"} = {} BY DEF Calm
<1> QED BY <1>1, <1>2, InitType, NextType, InitControl, NextControl, InitHands, NextHands,
           InitPipeline, NextPipeline, InitReaped, NextReaped, InitServing, NextServing,
           InitRows, NextRows, PTL DEF Spec

-----------------------------------------------------------------------------
(* The refinement of ContainerStatus, step by step.                         *)

LEMMA PhaseMoves ==
  ASSUME NEW c \in Containers, NEW from, NEW to, Phase(c) = from, Phase(c)' = to,
         \A d \in Containers \ {c} : Phase(d)' = Phase(d)
  PROVE  Promise!Moves(c, from, to)
  BY DEF phase, Promise!Moves

LEMMA PhaseStays ==
  ASSUME \A d \in Containers : Phase(d)' = Phase(d)
  PROVE  UNCHANGED phase
  BY DEF phase

LEMMA StartingIs ==
  /\ TypeInv => \A c : Starting(c) <=> InHands(c) \/ Queued(c)
  /\ TypeInv' => \A c : Starting(c)' <=> InHands(c)' \/ Queued(c)'
<1>1. TypeInv => DOMAIN sock = 1..Len(sock) /\ DOMAIN buffer = 1..Len(buffer)
  BY DEF TypeInv, TypeOK
<1>2. TypeInv' => DOMAIN sock' = 1..Len(sock') /\ DOMAIN buffer' = 1..Len(buffer')
  BY DEF TypeInv, TypeOK
<1> QED BY <1>1, <1>2 DEF Starting, Queued, InSocket, InBuffer

(* A container whose place and processes stay keeps its phase.              *)
LEMMA PhaseFrame ==
  ASSUME TypeInv, TypeInv', NEW c, InDict(c)' = InDict(c), Queued(c)' <=> Queued(c),
         \A p \in InDict(c) : Alive(p)' <=> Alive(p),
         InHands(c)' <=> InHands(c), InHands(c) => (wpc' \in Late <=> wpc \in Late)
  PROVE  Phase(c)' = Phase(c)
<1>1. Up(c)' <=> Up(c) BY DEF Up
<1>2. Over(c)' <=> Over(c) BY DEF Over
<1>3. Starting(c)' <=> Starting(c) BY StartingIs
<1> QED BY <1>1, <1>2, <1>3 DEF Phase

Kept == Promise!Next \/ UNCHANGED <<status, phase>>

(* Everything stays in its place; processes of one container may end.       *)
LEMMA RunGoesOn ==
  ASSUME TypeInv, TypeInv', UNCHANGED <<status, sock, buffer, jailDict, owner>>,
         wpc' \in Holding <=> wpc \in Holding, wpc \in Holding => wcont' = wcont,
         wpc' \in Late <=> wpc \in Late, NEW c,
         \A p \in Pids : /\ Alive(p)' => Alive(p)
                         /\ Alive(p) => Alive(p)' \/ owner[p] = c
  PROVE  Kept
<1>1. \A d : /\ InDict(d)' = InDict(d) /\ (Queued(d)' <=> Queued(d))
             /\ InHands(d)' <=> InHands(d)
  BY DEF InDict, Queued, InHands
<1>2. \A d \in Containers \ {c} : Phase(d)' = Phase(d)
  <2> TAKE d \in Containers \ {c}
  <2>1. \A p \in InDict(d) : Alive(p)' <=> Alive(p) BY DEF InDict
  <2> QED BY <1>1, <2>1, PhaseFrame
<1>3. CASE c \in Containers /\ Up(c) /\ ~Up(c)'
  <2>1. Phase(c) = "up" BY <1>3 DEF Phase
  <2>2. Phase(c)' = "ended" BY <1>1, <1>3 DEF Phase, Over, Up
  <2>3. Promise!Moves(c, "up", "ended") BY <1>2, <1>3, <2>1, <2>2, PhaseMoves
  <2> QED BY <1>3, <2>3 DEF Kept, Promise!Next, Promise!End
<1>4. CASE c \in Containers /\ ~(Up(c) /\ ~Up(c)')
  <2>1. Up(c)' <=> Up(c) BY <1>1, <1>4 DEF Up, InDict
  <2>2. Over(c)' <=> Over(c) BY <1>1 DEF Over
  <2>3. Starting(c)' <=> Starting(c) BY <1>1, StartingIs
  <2>4. Phase(c)' = Phase(c) BY <2>1, <2>2, <2>3 DEF Phase
  <2> QED BY <1>2, <2>4, PhaseStays DEF Kept
<1>5. CASE c \notin Containers BY <1>2, <1>5, PhaseStays DEF Kept
<1> QED BY <1>3, <1>4, <1>5

LEMMA SendKept ==
  ASSUME TypeInv, TypeInv', Control, Pipeline, NEW t \in Clients, StartSend(t)
  PROVE  Kept
<1> PICK c \in Containers : c = ctarget[t] BY Sends
<1>1. /\ cpc[t] = "send" /\ SockOpen /\ ctarget[t] = c
      /\ UNCHANGED <<status, wpc, wcont, jailDict, owner, proc>>
      /\ \A d : Queued(d)' <=> Queued(d) \/ d = c
  BY Sends DEF workerVars, hostVars
<1>2. status[c] # "running" BY <1>1 DEF Pipeline, SendFresh
<1>3. ~Committing(c)
  BY <1>1 DEF Committing, Control, LockInv, Critical
<1>4. ~InFlight(c)
  BY <1>1, <1>2, <1>3 DEF Pipeline, RowKnows
<1>5. \A d : /\ InDict(d)' = InDict(d) /\ (InHands(d)' <=> InHands(d))
             /\ \A p \in InDict(d) : Alive(p)' <=> Alive(p)
  BY <1>1 DEF InDict, InHands, Alive
<1>6. \A d \in Containers \ {c} : Phase(d)' = Phase(d)
  BY <1>1, <1>5, PhaseFrame
<1>7. InDict(c) = {} /\ ~InHands(c) /\ ~Queued(c) /\ Queued(c)'
  BY <1>1, <1>4 DEF InFlight, InDict
<1>8. /\ ~Up(c) /\ ~Over(c) /\ ~Starting(c)
      /\ ~Up(c)' /\ ~Over(c)' /\ Starting(c)'
  BY <1>5, <1>7, StartingIs DEF Up, Over
<1>9. Phase(c) = "idle" /\ Phase(c)' = "starting"
  BY <1>8 DEF Phase
<1>10. Promise!Moves(c, "idle", "starting") BY <1>1, <1>6, <1>9, PhaseMoves
<1> QED BY <1>1, <1>2, <1>10 DEF Kept, Promise!Next, Promise!Accept

LEMMA CommitKept ==
  ASSUME TypeInv, TypeInv', Rows, NEW t \in Clients, StartCommit(t)
  PROVE  Kept
<1> DEFINE c == ctarget[t]
<1>1. /\ cpc[t] = "commit" /\ c \in Containers /\ status' = [status EXCEPT ![c] = "running"]
      /\ UNCHANGED <<sock, buffer, wpc, wcont, jailDict, owner, proc>>
  BY DEF StartCommit, TypeInv, Targets, workerVars, hostVars
<1>2. \A d : Phase(d)' = Phase(d)
  BY <1>1, PhaseFrame DEF InDict, Queued, InHands, Alive
<1>3. status[c] # "running" /\ InFlight(c)
  BY <1>1 DEF Rows, Committing
<1>4. InDict(c) = {} /\ ~(InHands(c) /\ wpc \in Late)
  BY <1>3 DEF Rows, InDict, InHands, Late, Answered, Holding
<1>5. InHands(c) \/ Queued(c) BY <1>3, <1>4 DEF InFlight, InDict
<1>6. Phase(c) = "starting" BY <1>4, <1>5, StartingIs DEF Phase, Up, Over
<1>7. phase[c] = "starting" /\ UNCHANGED phase BY <1>1, <1>2, <1>6, PhaseStays DEF phase
<1> QED BY <1>1, <1>3, <1>7 DEF Kept, Promise!Next, Promise!Announce

LEMMA ThreadKept ==
  ASSUME TypeInv, TypeInv', Control, Pipeline, Rows, NEW t \in Clients, ThreadStep(t)
  PROVE  Kept
<1>1. UNCHANGED <<buffer, wpc, wcont, jailDict, owner>>
  BY ThreadsAndHost DEF workerVars
<1>2. CASE ~StartSend(t) /\ ~StartCommit(t)
  <2>1. UNCHANGED <<sock, status>> BY <1>2, ThreadAndRow
  <2>2. CASE UNCHANGED <<jail, proc>> BY <1>1, <2>1, <2>2, RunGoesOn DEF Alive
  <2>3. ASSUME NEW c \in Containers, RemoveJail(c) PROVE Kept
    <3>1. \A p \in Pids : /\ Alive(p)' => Alive(p)
                          /\ Alive(p) => Alive(p)' \/ owner[p] = c
      BY <2>3, RemovedJail DEF Alive, AfterExit
    <3> QED BY <1>1, <2>1, <3>1, RunGoesOn
  <2> QED BY <2>2, <2>3, ThreadsAndHost
<1> QED BY <1>2, SendKept, CommitKept

LEMMA ChildKept ==
  ASSUME TypeInv, TypeInv', NEW p \in Pids, ChildStep(p) \/ Exit(p)
  PROVE  Kept
<1>1. /\ UNCHANGED <<status, sock, buffer, wpc, wcont, jailDict, owner>>
      /\ Alive(p) /\ \A q \in Pids \ {p} : proc'[q] = proc[q]
  BY ChildrenAndHost DEF workerVars
<1>2. \A q \in Pids : /\ Alive(q)' => Alive(q)
                      /\ Alive(q) => Alive(q)' \/ owner[q] = owner[p]
  BY <1>1 DEF Alive
<1> QED BY <1>1, <1>2, RunGoesOn

(* The start of a container fails: the run is over before it began.         *)
LEMMA AbandonKept ==
  ASSUME TypeInv, TypeInv', Hands, Pipeline, Rows, CreateRefused \/ CreateRaises
  PROVE  Kept
<1> PICK c \in Containers : c = wcont
  BY DEF CreateRefused, CreateRaises, Hands, HandInv, Holding
<1>1. /\ wpc \in {"create", "register"} /\ wpc' \in {"refuse", "fail"} /\ wcont = c /\ wcont' = c
      /\ UNCHANGED <<status, sock, buffer, jailDict, owner>>
      /\ \A p \in Pids : Alive(p)' # Alive(p) => owner[p] = c
  <2>1. CASE CreateRefused
    BY <2>1 DEF CreateRefused, OnlyWorkerMoves, WorkerGoes, Alive, hostVars
  <2>2. CASE CreateRaises
    BY <2>2, RemovedJail DEF CreateRaises, DestroyJail, WorkerGoes, Alive
  <2> QED BY <2>1, <2>2
<1>2. \A d : InDict(d)' = InDict(d) /\ (Queued(d)' <=> Queued(d))
  BY <1>1 DEF InDict, Queued
<1>3. \A d \in Containers \ {c} : Phase(d)' = Phase(d)
  <2> TAKE d \in Containers \ {c}
  <2>1. \A p \in InDict(d) : Alive(p)' <=> Alive(p) BY <1>1 DEF InDict, Alive
  <2>2. ~InHands(d) /\ ~InHands(d)' BY <1>1 DEF InHands
  <2> QED BY <1>2, <2>1, <2>2, PhaseFrame
<1>4. InDict(c) = {} BY <1>1 DEF Pipeline, Once, InDict, Holding
<1>5. ~Up(c) /\ ~Over(c) /\ Starting(c) /\ ~Up(c)' /\ Over(c)'
  BY <1>1, <1>2, <1>4, StartingIs DEF Up, Over, InHands, Late, Holding
<1>6. Phase(c) = "starting" /\ Phase(c)' = "ended" BY <1>5 DEF Phase
<1>7. Promise!Moves(c, "starting", "ended") BY <1>3, <1>6, PhaseMoves
<1>8. status[c] = "running" BY <1>1 DEF Rows, Answered, Holding
<1> QED BY <1>1, <1>7, <1>8 DEF Kept, Promise!Next, Promise!Abandon

LEMMA ForkKept ==
  ASSUME TypeInv, TypeInv', Hands, Pipeline, Reaped, Rows, NEW p \in Pids, Fork(p)
  PROVE  Kept
<1> PICK c \in Containers : c = wcont
  BY DEF Fork, Hands, HandInv, Holding
<1>1. /\ wpc = "fork" /\ wpc' = "track" /\ wcont = c /\ proc[p] = "none"
      /\ jailDict' = jailDict \cup {p} /\ owner' = [owner EXCEPT ![p] = c]
      /\ proc' = [proc EXCEPT ![p] = "forked"] /\ UNCHANGED <<status, sock, buffer>>
  BY DEF Fork, WorkerAt
<1>2. p \notin jailDict BY <1>1 DEF Reaped, Collecting
<1>3. /\ p \in jailDict' \cap Pids /\ owner'[p] = c /\ Alive(p)'
      /\ \A q \in Pids \ {p} : owner'[q] = owner[q] /\ proc'[q] = proc[q]
  BY <1>1 DEF TypeInv, TypeOK, Alive
<1>4. \A d \in Containers \ {c} : Phase(d)' = Phase(d)
  <2> TAKE d \in Containers \ {c}
  <2>1. InDict(d)' = InDict(d) BY <1>1, <1>2, <1>3 DEF InDict
  <2>2. \A q \in InDict(d) : Alive(q)' <=> Alive(q) BY <1>2, <1>3 DEF InDict, Alive
  <2>3. ~InHands(d) /\ ~InHands(d)' BY <1>1 DEF InHands, Holding
  <2>4. Queued(d)' <=> Queued(d) BY <1>1 DEF Queued
  <2> QED BY <2>1, <2>2, <2>3, <2>4, PhaseFrame
<1>5. InDict(c) = {} BY <1>1 DEF Pipeline, Once, InDict, Holding
<1>6. ~Up(c) /\ ~Over(c) /\ Starting(c)
  BY <1>1, <1>5, StartingIs DEF Up, Over, InHands, Late, Holding
<1>7. Up(c)' BY <1>3 DEF Up, InDict
<1>8. Phase(c) = "starting" /\ Phase(c)' = "up" BY <1>6, <1>7 DEF Phase
<1>9. Promise!Moves(c, "starting", "up") BY <1>4, <1>8, PhaseMoves
<1>10. status[c] = "running" BY <1>1 DEF Rows, Answered, Holding
<1> QED BY <1>1, <1>9, <1>10 DEF Kept, Promise!Next, Promise!Launch

(* The process has been waited for, and the container goes from JAIL_DICT   *)
(* to the hands: its run is over before and after.                          *)
LEMMA DestroyKept ==
  ASSUME TypeInv, TypeInv', Hands, Pipeline, Reaped, Destroy
  PROVE  Kept
<1>1. /\ wpc = "destroy" /\ wpc' = "exit" /\ wcont' = wcont /\ owner[wpid] = wcont
      /\ wpid \in jailDict \cap Pids /\ jailDict' = jailDict \ {wpid}
      /\ owner' = [owner EXCEPT ![wpid] = None] /\ proc[wpid] = "none"
      /\ DestroyJail(wcont) /\ UNCHANGED <<status, sock, buffer>>
  BY DEF Destroy, DestroyAnd, ForgetPid, WorkerAt, Hands, HandInv, Reaped, Collecting
<1>2. \A q \in Pids \ {wpid} : owner'[q] = owner[q] /\ (Alive(q)' # Alive(q) => owner[q] = wcont)
  BY <1>1, RemovedJail DEF TypeInv, TypeOK, DestroyJail, Alive
<1>3. \A d : Queued(d)' <=> Queued(d) BY <1>1 DEF Queued
<1>4. ASSUME NEW d \in Containers, d # wcont PROVE Phase(d)' = Phase(d)
  <2>1. InDict(d)' = InDict(d) BY <1>1, <1>2, <1>4 DEF InDict
  <2>2. \A q \in InDict(d) : Alive(q)' <=> Alive(q) BY <1>1, <1>2, <1>4 DEF InDict, Alive
  <2>3. ~InHands(d) /\ ~InHands(d)' BY <1>1, <1>4 DEF InHands
  <2> QED BY <1>3, <2>1, <2>2, <2>3, PhaseFrame
<1>5. ASSUME NEW d \in Containers, d = wcont PROVE Phase(d)' = Phase(d)
  <2>1. InDict(d) = {wpid}
    BY <1>1, <1>5 DEF Pipeline, Once, InDict
  <2>2. ~Up(d) /\ Over(d) BY <1>1, <2>1 DEF Up, Over, Alive
  <2>3. InDict(d)' = {}
    BY <1>1, <1>2, <1>5, <2>1 DEF InDict
  <2>4. ~Up(d)' /\ Over(d)'
    BY <1>1, <1>5, <2>3 DEF Up, Over, InHands, Holding, Late
  <2> QED BY <2>2, <2>4 DEF Phase
<1> QED BY <1>1, <1>4, <1>5, PhaseStays DEF Kept

LEMMA NotifyKept ==
  ASSUME TypeInv, TypeInv', Hands, Pipeline, Notify
  PROVE  Kept
<1> PICK c \in Containers : c = wcont
  BY DEF Notify, RecordExit, Serve, Hands, HandInv, Holding
<1>1. /\ wpc \in {"refusewait", "failwait", "exitwait"} /\ wpc' \in {"next", "idle"} /\ wcont = c
      /\ status' = [status EXCEPT ![c] = "exited"]
      /\ UNCHANGED <<sock, buffer, jailDict, owner, proc>>
  BY DEF Notify, RecordExit, Serve, WorkerAt, hostVars
<1>2. \A d : /\ InDict(d)' = InDict(d) /\ (Queued(d)' <=> Queued(d)) /\ ~InHands(d)'
             /\ \A p \in InDict(d) : Alive(p)' <=> Alive(p)
  BY <1>1 DEF InDict, Queued, InHands, Holding, Alive
<1>3. \A d \in Containers \ {c} : Phase(d)' = Phase(d)
  <2> TAKE d \in Containers \ {c}
  <2>1. ~InHands(d) BY <1>1 DEF InHands
  <2> QED BY <1>2, <2>1, PhaseFrame
<1>4. InHands(c) /\ wpc \in Late /\ InDict(c) = {} /\ ~Queued(c)
  BY <1>1 DEF InHands, Holding, Late, Pipeline, Once, InDict
<1>5. ~Up(c) /\ Over(c) /\ ~Up(c)' /\ ~Over(c)' /\ ~Starting(c)'
  BY <1>2, <1>4, StartingIs DEF Up, Over
<1>6. Phase(c) = "ended" /\ Phase(c)' = "idle" BY <1>5 DEF Phase
<1>7. Promise!Moves(c, "ended", "idle") BY <1>3, <1>6, PhaseMoves
<1> QED BY <1>1, <1>7 DEF Kept, Promise!Next, Promise!Record

(* A name in the socket, the buffer or the hands: a run that is starting.   *)
LEMMA QueueKept ==
  ASSUME TypeInv, TypeInv', Hands, Rows, Receive \/ TakeName
  PROVE  Kept
<1>1. /\ wpc \in {"idle", "next"} /\ wpc' \in {"next", "get"}
      /\ UNCHANGED <<status, jailDict, owner, proc>>
  BY DEF Receive, TakeName, WorkerGoes, WorkerAt, hostVars
<1>2. \A d : Queued(d)' \/ InHands(d)' <=> Queued(d)
  BY <1>1, ReceiveRows, TakeNameRows DEF Receive, TakeName, WorkerGoes, WorkerAt, InHands, Holding
<1>3. \A d : /\ Starting(d)' <=> Starting(d)
             /\ Over(d)' <=> Over(d)
             /\ Up(d)' <=> Up(d)
  BY <1>1, <1>2, StartingIs DEF Up, Over, InDict, InHands, Holding, Late, Alive
<1> QED BY <1>1, <1>3, PhaseStays DEF Kept, Phase

LEMMA WorkerKept ==
  ASSUME TypeInv, TypeInv', Hands, Pipeline, Reaped, Serving, Serving', Rows, WorkerStep
  PROVE  Kept
<1> USE DEF WorkerAt, WorkerGoes, OnlyWorkerMoves, hostVars, Holding, Late
<1>1. ASSUME UNCHANGED <<status, sock, buffer, jailDict, owner, proc>>,
             wpc' \in Holding <=> wpc \in Holding, wpc \in Holding => wcont' = wcont,
             wpc' \in Late <=> wpc \in Late
      PROVE  Kept
  BY <1>1, RunGoesOn DEF Alive
<1>2. ASSUME NEW p \in Pids, ExitEvent(p) PROVE Kept BY <1>1, <1>2 DEF ExitEvent
<1>3. ASSUME NEW p \in Pids, Fork(p) PROVE Kept BY <1>3, ForkKept
<1>4. CASE Reap
  <2>1. \A p \in Pids : (Alive(p)' => Alive(p)) /\ (Alive(p) => Alive(p)' \/ owner[p] = wcont)
    BY <1>4 DEF Reap, Alive, TypeInv, TypeOK, Hands, HandInv
  <2> QED BY <1>4, <2>1, RunGoesOn DEF Reap
<1>5. CASE Destroy BY <1>5, DestroyKept
<1>6. CASE Receive \/ TakeName BY <1>6, QueueKept
<1>7. CASE BufferDone \/ Track BY <1>1, <1>7 DEF BufferDone, Track
<1>8. CASE GetConnect \/ PortsConnect \/ NotifyConnect
  BY <1>1, <1>8 DEF GetConnect, PortsConnect, NotifyConnect, Connect
<1>9. CASE GetContainer \/ CreateJail BY <1>1, <1>9 DEF GetContainer, CreateJail, Serve
<1>10. CASE CreateRefused \/ CreateRaises BY <1>10, AbandonKept
<1>11. CASE RegisterNetwork \/ RegisterPorts
  BY <1>1, <1>11 DEF RegisterNetwork, RegisterPorts, Serve, Unreachable
<1>12. CASE Notify BY <1>12, NotifyKept
<1>13. ASSUME NEW p \in Pids, CleanEvent(p) PROVE FALSE BY <1>13 DEF CleanEvent, Serving
<1>14. ~(GetRaises \/ RefusalRaises \/ NotifyRaises \/ EndOfFile \/ CleanDestroy \/ CleanDone \/ WorkerAtExit)
  BY DEF GetRaises, RefusalRaises, NotifyRaises, EndOfFile, CleanDestroy, CleanDone, WorkerAtExit, Serving,
         Unreachable, ParentEnd
<1> QED BY <1>2, <1>3, <1>4, <1>5, <1>6, <1>7, <1>8, <1>9, <1>10, <1>11, <1>12, <1>13, <1>14
        DEF WorkerStep

(* The server, the worker and the host implement the life of a row that     *)
(* ContainerStatus states, while they are there: a run is announced before  *)
(* it begins, there is one at a time, and 'exited' is written when it is    *)
(* over.                                                                    *)
THEOREM Refines ==
  ASSUME Faults \subseteq {"jid", "create", "track", "destroy"}
  PROVE  Spec => ImplementsContainerStatus
<1> DEFINE Inv == TypeInv /\ Control /\ Hands /\ Pipeline /\ Reaped /\ Serving /\ Rows
<1>1. Init => Promise!Init
  BY DEF Init, Promise!Init, phase, Phase, Up, Over, Starting, InDict, InHands, InSocket,
         InBuffer, Holding
<1>2. Inv /\ Inv' /\ [Next]_vars => [Promise!Next]_(Promise!vars)
  <2> SUFFICES ASSUME Inv, Inv', [Next]_vars PROVE Kept
    BY DEF Kept, Promise!vars
  <2>1. CASE Users
    BY <2>1, RunGoesOn DEF Users, Request, workerVars, hostVars, Alive
  <2>2. ASSUME NEW t \in Clients, ThreadStep(t) PROVE Kept BY <2>2, ThreadKept
  <2>3. CASE WorkerStep BY <2>3, WorkerKept
  <2>4. ASSUME NEW p \in Pids, ChildStep(p) \/ Exit(p) PROVE Kept BY <2>4, ChildKept
  <2>5. CASE UNCHANGED vars
    BY <2>5, RunGoesOn DEF vars, workerVars, hostVars, Alive
  <2> QED BY <2>1, <2>2, <2>3, <2>4, <2>5, CalmSteps DEF Next, Calm
<1>3. Calm /\ Faults \cap {"fork", "worker", "crash", "term"} = {} BY DEF Calm
<1>4. Init => Inv
  BY InitType, InitControl, InitHands, InitPipeline, InitReaped, InitServing, InitRows
<1>5. Inv /\ [Next]_vars => Inv'
  BY <1>3, NextType, NextControl, NextHands, NextPipeline, NextReaped, NextServing, NextRows
<1> QED BY <1>1, <1>2, <1>4, <1>5, PTL DEF Spec, ImplementsContainerStatus, Promise!Spec
=============================================================================
