----------------------- MODULE ContainerLifecycleProofs -----------------------
(***************************************************************************)
(* Theorems about ContainerLifecycle, for every set of containers, clients *)
(* and pids, every socket capacity and every set of faults.                *)
(***************************************************************************)
EXTENDS ContainerLifecycle, FiniteSetTheorems, TLAPS

(* A busy request thread has a container; part of what makes TypeOK         *)
(* inductive, since its step may append the container to the socket.        *)
Targets == \A t \in Clients : cpc[t] # "idle" => ctarget[t] \in Containers

(* The worker registers the pid it has just forked with kqueue.             *)
PidInHand == wpc = "track" => wpid \in Pids

TypeInv == TypeOK /\ Targets /\ PidInHand

(* The lock belongs to the one thread inside its critical section, and a    *)
(* server that is gone has no threads.                                      *)
LockInv == \A t \in Clients : cpc[t] \in Critical <=> lock = t
DownInv == server \in {"crashed", "down"} => \A t \in Clients : cpc[t] = "idle"
Control == LockInv /\ DownInv

(* What the worker holds while it is at work: the container of its current  *)
(* step, the pid it forked or collects, and an empty buffer whenever it is  *)
(* not working the buffer off.                                              *)
HandInv ==
  /\ wpc \in Holding => wcont \in Containers
  /\ wpc \in {"track", "reap", "destroy", "cleandestroy"} => wpid \in jailDict \cap Pids
  /\ wpc \in {"reap", "destroy", "cleandestroy"} =>
       wpid \notin tracked /\ owner[wpid] = wcont
DictInv ==
  /\ tracked \subseteq jailDict
  /\ \A p \in jailDict \cap Pids : owner[p] \in Containers
BufferInv ==
  /\ wpc \in {"idle", "reap", "destroy", "exit", "exitwait", "dead"} => buffer = <<>>
  /\ wpc = "dead" => jailDict = {}
Hands == HandInv /\ DictInv /\ BufferInv

(* OneRunPerContainer, place by place.                                      *)
Queued(c) == \/ \E i \in 1..Len(sock) : sock[i] = c
             \/ \E i \in 1..Len(buffer) : buffer[i] = c
Once ==
  /\ \A i, j \in 1..Len(sock) : sock[i] = sock[j] => i = j
  /\ \A i, j \in 1..Len(buffer) : buffer[i] = buffer[j] => i = j
  /\ \A i \in 1..Len(sock), j \in 1..Len(buffer) : sock[i] # buffer[j]
  /\ wpc \in Holding => ~Queued(wcont)
  /\ \A p \in jailDict \cap Pids :
       ~Queued(owner[p]) /\ (wpc \in Holding => owner[p] # wcont)
  /\ \A p, q \in jailDict \cap Pids : owner[p] = owner[q] => p = q

(* While a name can still be sent, the row of whatever is in flight says so *)
(* (or is about to), and a thread about to send has a row that does not:    *)
(* this is what keeps a second copy out.  Shutdown marks rows 'exited' only *)
(* after it has closed the socket.                                          *)
InFlight(c) == Queued(c) \/ InHands(c) \/ \E p \in jailDict \cap Pids : owner[p] = c
RowKnows == SockOpen => \A c \in Containers :
                          InFlight(c) => status[c] = "running" \/ Committing(c)
SendFresh == \A t \in Clients : cpc[t] = "send" /\ SockOpen => status[ctarget[t]] # "running"

Pipeline == Once /\ RowKnows /\ SendFresh

(* Sequences: the facts about Append, SubSeq, \o and Tail the steps use.    *)
LEMMA SeqTypes ==
  ASSUME NEW S, NEW s \in Seq(S), NEW u \in Seq(S), NEW e \in S, NEW n \in 1..Len(s)
  PROVE  /\ Append(s, e) \in Seq(S)
         /\ s \o u \in Seq(S)
         /\ SubSeq(s, 1, n) \in Seq(S)
         /\ SubSeq(s, n + 1, Len(s)) \in Seq(S)
  OBVIOUS

LEMMA InitType == Init => TypeInv
  BY LifecycleAssumption DEF Init, TypeInv, TypeOK, Targets, PidInHand, Statuses, ServerStates, ClientPcs,
     Critical, WorkerPcs, ProcStates

LEMMA ThreadStepType ==
  ASSUME TypeInv, NEW t \in Clients, ThreadStep(t)
  PROVE  TypeInv'
<1> USE LifecycleAssumption DEF TypeInv, TypeOK, Targets, PidInHand, ClientPcs, Critical,
        ProcStates, Statuses, workerVars, hostVars, Release, Advance, RemoveJail, AfterExit, Signalled,
        Heeds
<1>1. CASE StartCheck(t)  BY <1>1 DEF StartCheck
<1>2. CASE StartSend(t)   BY <1>2, SeqTypes DEF StartSend
<1>3. CASE StartSendFails(t) BY <1>3 DEF StartSendFails
<1>4. CASE StartCommit(t) BY <1>4 DEF StartCommit
<1>5. CASE StopCheck(t)   BY <1>5 DEF StopCheck
<1>6. CASE StopNoPidFile(t)  BY <1>6 DEF StopNoPidFile
<1>7. CASE StopOpenFails(t)  BY <1>7 DEF StopOpenFails
<1>8. CASE StopEmptyPidFile(t) BY <1>8 DEF StopEmptyPidFile, ReadsPidFile
<1>9. CASE StopKill(t)
  <2> DEFINE p == pidfile[ctarget[t]]
  <2>1. CASE proc[p] = "none" BY <1>9, <2>1 DEF StopKill, ReadsPidFile
  <2>2. CASE proc[p] # "none" BY <1>9, <2>2 DEF StopKill, ReadsPidFile
  <2> QED BY <2>1, <2>2
<1>10. CASE StopTruncate(t)
  <2>1. CASE cpc[t] = "raise"
    <3>1. Release(t) /\ UNCHANGED wpc /\ UNCHANGED wpid
      BY <1>10, <2>1 DEF StopTruncate
    <3>2. Targets' /\ PidInHand' BY <3>1
    <3>3. TypeOK' BY <1>10, <3>1 DEF StopTruncate
    <3> QED BY <3>2, <3>3
  <2>2. CASE cpc[t] # "raise"
    <3>1. cpc[t] = "truncate" /\ Advance(t, "poll")
      BY <1>10, <2>2 DEF StopTruncate
    <3>2. Targets' BY <3>1
    <3>3. TypeOK' BY <1>10, <3>1 DEF StopTruncate
    <3>4. PidInHand' BY <1>10 DEF StopTruncate
    <3> QED BY <3>2, <3>3, <3>4
  <2> QED BY <2>1, <2>2
<1>11. CASE StopPoll(t)
  <2>1. CASE jail[ctarget[t]]
    <3>1. polls' \in 0..PollLimit /\ UNCHANGED <<lock, cpc, ctarget>>
      BY <1>11, <2>1 DEF StopPoll
    <3> QED BY <1>11, <3>1 DEF StopPoll
  <2>2. CASE ~jail[ctarget[t]]
    <3>1. Release(t) /\ UNCHANGED <<wpc, wpid>>
      BY <1>11, <2>2 DEF StopPoll
    <3>2. Targets' /\ PidInHand' BY <3>1
    <3>3. TypeOK' BY <1>11, <3>1 DEF StopPoll
    <3> QED BY <3>2, <3>3
  <2> QED BY <2>1, <2>2
<1>12. CASE StopRemove(t)    BY <1>12 DEF StopRemove
<1> QED BY <1>1, <1>2, <1>3, <1>4, <1>5, <1>6, <1>7, <1>8, <1>9, <1>10, <1>11, <1>12
        DEF ThreadStep, StopSignal

LEMMA WorkerStepType ==
  ASSUME TypeInv, WorkerStep
  PROVE  TypeInv'
<1> USE LifecycleAssumption DEF TypeInv, TypeOK, Targets, PidInHand, ProcStates, Statuses, WorkerPcs,
        clientVars, hostVars, OnlyWorkerMoves, WorkerAt, WorkerGoes, RemoveJail, AfterExit,
        Signalled, Heeds, Serve
<1>1. ASSUME NEW p \in Pids, ExitEvent(p) PROVE TypeInv'  BY <1>1 DEF ExitEvent
<1>2. ASSUME NEW p \in Pids, Fork(p) PROVE TypeInv'       BY <1>2 DEF Fork
<1>3. ASSUME NEW p \in Pids, CleanEvent(p) PROVE TypeInv' BY <1>3 DEF CleanEvent
<1>4. CASE Reap    BY <1>4 DEF Reap
<1>5. ASSUME NEW pc \in {"exit", "clean"}, DestroyAnd(pc) PROVE TypeInv'
  BY <1>5 DEF DestroyAnd, DestroyJail, ForgetPid
<1>6. CASE Receive
  <2>1. PICK n \in 1..Len(sock) : /\ buffer' = buffer \o SubSeq(sock, 1, n)
                                  /\ sock' = SubSeq(sock, n + 1, Len(sock))
    BY <1>6 DEF Receive
  <2>2. sock' \in Seq(Containers)
    BY <2>1, SeqTypes
  <2>3. SubSeq(sock, 1, n) \in Seq(Containers)
    BY <2>1, SeqTypes
  <2>4. buffer' \in Seq(Containers)
    BY <2>1, <2>3
  <2> QED BY <1>6, <2>2, <2>4 DEF Receive
<1>7. CASE TakeName
  <2>1. Head(buffer) \in Containers /\ buffer' \in Seq(Containers)
    BY <1>7 DEF TakeName
  <2> QED BY <1>7, <2>1 DEF TakeName
<1>8. CASE BufferDone BY <1>8 DEF BufferDone
<1>9. CASE GetConnect \/ PortsConnect \/ NotifyConnect
  BY <1>9 DEF GetConnect, PortsConnect, NotifyConnect, Connect
<1>10. CASE GetContainer \/ GetRaises BY <1>10 DEF GetContainer, GetRaises
<1>11. CASE CreateJail BY <1>11 DEF CreateJail
<1>12. CASE CreateRefused BY <1>12 DEF CreateRefused
<1>13. CASE RefusalRaises \/ CreateRaises BY <1>13 DEF RefusalRaises, CreateRaises, DestroyJail
<1>14. CASE RegisterNetwork \/ RegisterPorts BY <1>14 DEF RegisterNetwork, RegisterPorts
<1>15. CASE Track BY <1>15 DEF Track
<1>16. CASE Notify BY <1>16 DEF Notify, RecordExit
<1>17. CASE NotifyRaises BY <1>17 DEF NotifyRaises
<1>18. CASE EndOfFile
  <2>1. termed' \subseteq Pids
    <3>1. CASE ForkError \in jailDict BY <1>18, <3>1 DEF EndOfFile
    <3>2. CASE ForkError \notin jailDict BY <1>18, <3>2 DEF EndOfFile
    <3> QED BY <3>1, <3>2
  <2> QED BY <1>18, <2>1 DEF EndOfFile
<1>19. ASSUME WorkerEnds, status' \in [Containers -> Statuses] PROVE TypeInv'
  BY <1>19 DEF WorkerEnds
<1>20. CASE CleanDone \/ WorkerAtExit
  BY <1>19, <1>20 DEF CleanDone, WorkerAtExit, MarkAllExited
<1> QED BY <1>1, <1>2, <1>3, <1>4, <1>5, <1>6, <1>7, <1>8, <1>9, <1>10, <1>11, <1>12,
           <1>13, <1>14, <1>15, <1>16, <1>17, <1>18, <1>20
        DEF WorkerStep, Destroy, CleanDestroy

LEMMA NextType == TypeInv /\ [Next]_vars => TypeInv'
<1> SUFFICES ASSUME TypeInv, [Next]_vars PROVE TypeInv'
  OBVIOUS
<1> USE LifecycleAssumption DEF TypeInv, TypeOK, Targets, PidInHand, clientVars, workerVars, hostVars
<1>1. CASE Users
  <2>1. PICK t \in Clients, c \in Containers, op \in {"start", "stop"} : Request(t, c, op)
    BY <1>1 DEF Users
  <2> QED BY <2>1 DEF Request, ClientPcs
<1>2. ASSUME NEW t \in Clients, ThreadStep(t) PROVE TypeInv'
  BY <1>2, ThreadStepType
<1>3. CASE WorkerStep BY <1>3, WorkerStepType
<1>4. ASSUME NEW p \in Pids, WritePid(p) PROVE TypeInv'
  BY <1>4 DEF WritePid, ProcStates
<1>5. ASSUME NEW p \in Pids, Attach(p) PROVE TypeInv'
  BY <1>5 DEF Attach, AfterExit, ProcStates
<1>6. ASSUME NEW p \in Pids, Exit(p) PROVE TypeInv'
  BY <1>6 DEF Exit, AfterExit, ProcStates
<1>7. CASE GetFails \/ ForkFails
  BY <1>7 DEF GetFails, ForkFails, OnlyWorkerMoves, WorkerAt, WorkerPcs
<1>8. CASE WorkerKilled
  BY <1>8 DEF WorkerKilled, WorkerEnds, WorkerAt, WorkerPcs, ProcStates
<1>9. CASE Crash \/ WaitWorker
  BY <1>9 DEF Crash, WaitWorker, ThreadsEnd, ServerStates, ClientPcs
<1>10. CASE Sigterm \/ CloseSocket BY <1>10 DEF Sigterm, CloseSocket, ServerStates
<1>11. CASE MarkExited BY <1>11 DEF MarkExited, MarkAllExited, ServerStates, Statuses
<1>12. CASE Boot BY <1>12 DEF Boot, WorkerAt, ServerStates, WorkerPcs
<1>13. CASE UNCHANGED vars BY <1>13 DEF vars
<1> QED BY <1>1, <1>2, <1>3, <1>4, <1>5, <1>6, <1>7, <1>8, <1>9, <1>10, <1>11, <1>12, <1>13
        DEF Next, ChildStep, Failure, ServerStep

(* Every variable keeps its type: the thread, worker and host steps hand    *)
(* each other containers, pids and queues of the right kind.                *)
THEOREM TypeCorrect == Spec => []TypeOK
<1>1. TypeInv => TypeOK BY DEF TypeInv
<1> QED BY InitType, NextType, <1>1, PTL DEF Spec

-----------------------------------------------------------------------------
(* Control: who holds the lock.                                            *)

LEMMA InitControl == Init => Control
  BY LifecycleAssumption DEF Init, Control, LockInv, DownInv, Critical

LEMMA ThreadStepControl ==
  ASSUME TypeInv, Control, NEW t \in Clients, ThreadStep(t)
  PROVE  Control'
<1>0. cpc[t] # "idle"
  BY DEF ThreadStep, StopSignal, StartCheck, StartSend, StartSendFails, StartCommit, StopCheck,
     StopNoPidFile, StopOpenFails, ReadsPidFile, StopEmptyPidFile, StopKill, StopTruncate,
     StopPoll, StopRemove
<1>1. UNCHANGED server
  BY DEF ThreadStep, StopSignal, StartCheck, StartSend, StartSendFails, StartCommit, StopCheck,
     StopNoPidFile, StopOpenFails, ReadsPidFile, StopEmptyPidFile, StopKill, StopTruncate,
     StopPoll, StopRemove
<1>2. DownInv'
  BY <1>0, <1>1 DEF Control, DownInv
<1>3. \/ cpc[t] \in Critical /\ Release(t)
      \/ lock = None /\ Release(t)
      \/ \E pc \in Critical : cpc[t] \in Critical /\ Advance(t, pc)
      \/ \E pc \in Critical : lock = None /\ lock' = t /\ cpc' = [cpc EXCEPT ![t] = pc]
      \/ UNCHANGED <<lock, cpc>>
  <2> USE DEF Critical
  <2>1. CASE StartCheck(t) BY <2>1 DEF StartCheck
  <2>2. CASE StartSend(t) \/ StartSendFails(t) \/ StartCommit(t)
    BY <2>2 DEF StartSend, StartSendFails, StartCommit
  <2>3. CASE StopCheck(t) BY <2>3 DEF StopCheck
  <2>4. CASE StopNoPidFile(t) \/ StopOpenFails(t) \/ StopEmptyPidFile(t)
    BY <2>4 DEF StopNoPidFile, StopOpenFails, StopEmptyPidFile, ReadsPidFile
  <2>5. CASE StopKill(t)
    BY <2>5 DEF StopKill, ReadsPidFile
  <2>6. CASE StopTruncate(t) BY <2>6 DEF StopTruncate
  <2>7. CASE StopPoll(t) \/ StopRemove(t) BY <2>7 DEF StopPoll, StopRemove
  <2> QED BY <2>1, <2>2, <2>3, <2>4, <2>5, <2>6, <2>7 DEF ThreadStep, StopSignal
<1>4. LockInv'
  <2> USE LifecycleAssumption DEF TypeInv, TypeOK, Control, LockInv
  <2>1. CASE cpc[t] \in Critical /\ Release(t) BY <2>1 DEF Release, Critical
  <2>2. CASE lock = None /\ Release(t) BY <2>2 DEF Release, Critical
  <2>3. ASSUME NEW pc \in Critical, cpc[t] \in Critical, Advance(t, pc) PROVE LockInv'
    BY <2>3 DEF Advance
  <2>4. ASSUME NEW pc \in Critical, lock = None, lock' = t, cpc' = [cpc EXCEPT ![t] = pc]
        PROVE LockInv'
    BY <2>4
  <2>5. CASE UNCHANGED <<lock, cpc>> BY <2>5
  <2> QED BY <1>3, <2>1, <2>2, <2>3, <2>4, <2>5
<1> QED BY <1>2, <1>4 DEF Control

(* Steps of the worker and of the processes leave the threads alone.        *)
LEMMA WorkerKeepsThreads == WorkerStep => UNCHANGED <<server, lock, cpc, ctarget, polls>>
  BY DEF WorkerStep, ExitEvent, Fork, CleanEvent, Reap, Destroy, Receive, TakeName, BufferDone,
     GetConnect, GetContainer, GetRaises, CreateJail, CreateRefused,
     RefusalRaises, CreateRaises,
     RegisterNetwork, PortsConnect, RegisterPorts, Track, NotifyConnect, Notify, NotifyRaises,
     EndOfFile, CleanDestroy, CleanDone, WorkerAtExit, Connect, RecordExit, DestroyAnd,
     WorkerEnds, OnlyWorkerMoves, clientVars

LEMMA NextControl == TypeInv /\ Control /\ [Next]_vars => Control'
<1> SUFFICES ASSUME TypeInv, Control, [Next]_vars PROVE Control'
  OBVIOUS
<1>1. ASSUME UNCHANGED <<server, lock, cpc>> PROVE Control'
  BY <1>1 DEF Control, LockInv, DownInv
<1>2. CASE Users
  <2>1. PICK t \in Clients, c \in Containers, op \in {"start", "stop"} : Request(t, c, op)
    BY <1>2 DEF Users
  <2> QED BY <2>1 DEF Request, Control, LockInv, DownInv, TypeInv, TypeOK, Critical
<1>3. ASSUME NEW t \in Clients, ThreadStep(t) PROVE Control'
  BY <1>3, ThreadStepControl
<1>4. CASE WorkerStep \/ WorkerKilled \/ GetFails \/ ForkFails
  BY <1>4, <1>1, WorkerKeepsThreads
     DEF WorkerKilled, WorkerEnds, GetFails, ForkFails, OnlyWorkerMoves, clientVars
<1>5. ASSUME NEW p \in Pids, ChildStep(p) \/ Exit(p) PROVE Control'
  BY <1>5, <1>1 DEF ChildStep, WritePid, Attach, Exit, clientVars
<1>6. CASE Crash \/ WaitWorker
  BY <1>6, LifecycleAssumption
     DEF Crash, WaitWorker, ThreadsEnd, Control, LockInv, DownInv, Critical
<1>7. CASE Sigterm \/ CloseSocket \/ MarkExited \/ Boot
  BY <1>7 DEF Sigterm, CloseSocket, MarkExited, Boot, clientVars, Control, LockInv, DownInv
<1>8. CASE UNCHANGED vars BY <1>8, <1>1 DEF vars, clientVars
<1> QED BY <1>2, <1>3, <1>4, <1>5, <1>6, <1>7, <1>8 DEF Next, Failure, ServerStep

-----------------------------------------------------------------------------
(* Hands: what the worker holds.                                           *)

LEMMA InitHands == Init => Hands
  BY LifecycleAssumption DEF Init, Hands, HandInv, DictInv, BufferInv, Holding

LEMMA WorkerStepHands ==
  ASSUME TypeInv, Hands, WorkerStep
  PROVE  Hands'
<1> USE LifecycleAssumption DEF TypeInv, TypeOK, Hands, HandInv, DictInv, BufferInv, Holding,
        hostVars, OnlyWorkerMoves, WorkerAt, WorkerGoes, Serve, Unreachable
<1>1. ASSUME NEW p \in Pids, ExitEvent(p) PROVE Hands'  BY <1>1 DEF ExitEvent
<1>2. ASSUME NEW p \in Pids, Fork(p) PROVE Hands'       BY <1>2 DEF Fork
<1>3. ASSUME NEW p \in Pids, CleanEvent(p) PROVE Hands' BY <1>3 DEF CleanEvent
<1>4. CASE Reap    BY <1>4 DEF Reap
<1>5. CASE Destroy
  BY <1>5 DEF Destroy, DestroyAnd, DestroyJail, ForgetPid
<1>6. CASE CleanDestroy
  BY <1>6 DEF CleanDestroy, DestroyAnd, DestroyJail, ForgetPid
<1>7. CASE Receive BY <1>7 DEF Receive
<1>8. CASE TakeName BY <1>8 DEF TakeName
<1>9. CASE BufferDone BY <1>9 DEF BufferDone
<1>10. CASE GetConnect \/ PortsConnect \/ NotifyConnect
  BY <1>10 DEF GetConnect, PortsConnect, NotifyConnect, Connect
<1>11. CASE GetContainer \/ GetRaises BY <1>11 DEF GetContainer, GetRaises
<1>12. CASE CreateJail \/ CreateRefused BY <1>12 DEF CreateJail, CreateRefused
<1>13. CASE RefusalRaises \/ CreateRaises BY <1>13 DEF RefusalRaises, CreateRaises
<1>14. CASE RegisterNetwork \/ RegisterPorts BY <1>14 DEF RegisterNetwork, RegisterPorts
<1>15. CASE Track BY <1>15 DEF Track
<1>16. CASE Notify BY <1>16 DEF Notify, RecordExit
<1>17. CASE NotifyRaises BY <1>17 DEF NotifyRaises
<1>18. CASE EndOfFile BY <1>18 DEF EndOfFile
<1>19. CASE CleanDone \/ WorkerAtExit
  BY <1>19 DEF CleanDone, WorkerAtExit, WorkerEnds
<1> QED BY <1>1, <1>2, <1>3, <1>4, <1>5, <1>6, <1>7, <1>8, <1>9, <1>10, <1>11, <1>12,
           <1>13, <1>14, <1>15, <1>16, <1>17, <1>18, <1>19
        DEF WorkerStep

LEMMA ThreadsKeepWorker ==
  ASSUME NEW t \in Clients, ThreadStep(t)
  PROVE  UNCHANGED <<workerVars, owner, server>>
  BY DEF ThreadStep, StopSignal, StartCheck, StartSend, StartSendFails, StartCommit, StopCheck,
     StopNoPidFile, StopOpenFails, ReadsPidFile, StopEmptyPidFile, StopKill, StopTruncate,
     StopPoll, StopRemove, hostVars

LEMMA NextHands == TypeInv /\ Hands /\ [Next]_vars => Hands'
<1> SUFFICES ASSUME TypeInv, Hands, [Next]_vars PROVE Hands'
  OBVIOUS
<1>1. ASSUME UNCHANGED <<workerVars, owner>> PROVE Hands'
  BY <1>1 DEF workerVars, Hands, HandInv, DictInv, BufferInv
<1>2. CASE Users BY <1>2, <1>1 DEF Users, Request, hostVars
<1>3. ASSUME NEW t \in Clients, ThreadStep(t) PROVE Hands'
  BY <1>3, <1>1, ThreadsKeepWorker
<1>4. CASE WorkerStep BY <1>4, WorkerStepHands
<1>5. CASE GetFails \/ ForkFails
  BY <1>5, LifecycleAssumption
     DEF GetFails, ForkFails, Serve, OnlyWorkerMoves, WorkerAt, hostVars, Hands, HandInv,
         DictInv, BufferInv, Holding
<1>6. CASE WorkerKilled
  BY <1>6 DEF WorkerKilled, WorkerEnds, WorkerAt, Hands, HandInv, DictInv, BufferInv, Holding
<1>7. ASSUME NEW p \in Pids, ChildStep(p) \/ Exit(p) PROVE Hands'
  BY <1>7, <1>1 DEF ChildStep, WritePid, Attach, Exit
<1>8. CASE Crash \/ WaitWorker \/ Sigterm \/ CloseSocket \/ MarkExited
  BY <1>8, <1>1 DEF Crash, WaitWorker, Sigterm, CloseSocket, MarkExited, hostVars
<1>9. CASE Boot
  BY <1>9 DEF Boot, WorkerAt, hostVars, Hands, HandInv, DictInv, BufferInv, Holding
<1>10. CASE UNCHANGED vars BY <1>10, <1>1 DEF vars, hostVars
<1> QED BY <1>2, <1>3, <1>4, <1>5, <1>6, <1>7, <1>8, <1>9, <1>10 DEF Next, Failure, ServerStep

-----------------------------------------------------------------------------
(* The pipeline.                                                           *)

LEMMA InitPipeline == Init => Pipeline
  BY LifecycleAssumption DEF Init, Pipeline, Once, Queued, RowKnows, SendFresh, InFlight,
     InHands, Holding

(* Steps that leave the pipeline where it is.                               *)
pipe == <<sock, buffer, wpc, wcont, jailDict, owner>>

LEMMA PipeFrame ==
  ASSUME UNCHANGED pipe
  PROVE  /\ \A c : Queued(c)' <=> Queued(c)
         /\ \A c : InFlight(c)' <=> InFlight(c)
         /\ Once => Once'
<1>1. \A c : Queued(c)' <=> Queued(c)
  BY DEF Queued, pipe
<1>2. \A c : InFlight(c)' <=> InFlight(c)
  BY <1>1 DEF InFlight, InHands, pipe
<1>3. ASSUME Once PROVE Once'
  <2>1. UNCHANGED <<sock, buffer, wpc, wcont, jailDict, owner>> BY DEF pipe
  <2>2. \A i, j \in 1..Len(sock') : sock'[i] = sock'[j] => i = j
    BY <1>3, <2>1 DEF Once
  <2>3. /\ \A i, j \in 1..Len(buffer') : buffer'[i] = buffer'[j] => i = j
        /\ \A i \in 1..Len(sock'), j \in 1..Len(buffer') : sock'[i] # buffer'[j]
    BY <1>3, <2>1 DEF Once
  <2>4. wpc' \in Holding => ~Queued(wcont)'
    BY <1>3, <1>1, <2>1 DEF Once, Queued
  <2>5. /\ \A p \in jailDict' \cap Pids :
             ~Queued(owner[p])' /\ (wpc' \in Holding => owner'[p] # wcont')
        /\ \A p, q \in jailDict' \cap Pids : owner'[p] = owner'[q] => p = q
    BY <1>3, <1>1, <2>1 DEF Once, Queued
  <2> QED BY <2>2, <2>3, <2>4, <2>5 DEF Once
<1> QED BY <1>1, <1>2, <1>3

LEMMA RowFrame ==
  ASSUME RowKnows, SockOpen' => SockOpen,
         \A c \in Containers : InFlight(c)' => InFlight(c),
         \A c \in Containers : (status[c] = "running" \/ Committing(c)) =>
                                (status'[c] = "running" \/ Committing(c)')
  PROVE  RowKnows'
  BY DEF RowKnows

(* What a thread's step may do to the pipeline: nothing, add the name it    *)
(* found idle, or commit the row of the name it sent.                       *)
LEMMA ThreadStepPipeline ==
  ASSUME TypeInv, Control, Hands, Pipeline, NEW t \in Clients, ThreadStep(t)
  PROVE  Pipeline'
<1> USE LifecycleAssumption DEF TypeInv, TypeOK, Targets, Control, LockInv, Critical
<1>1. UNCHANGED <<workerVars, owner, server>>
  BY ThreadsKeepWorker
<1>2. CASE StartSend(t)
  <2> DEFINE c == ctarget[t]
  <2>1. /\ cpc[t] = "send" /\ SockOpen /\ sock' = Append(sock, c) /\ c \in Containers
        /\ cpc' = [cpc EXCEPT ![t] = "commit"] /\ UNCHANGED <<ctarget, lock, status>>
    BY <1>2 DEF StartSend, Advance
  <2>2. ~Committing(c)
    BY <2>1 DEF Committing
  <2>3. ~InFlight(c)
    BY <2>1, <2>2 DEF Pipeline, RowKnows, SendFresh
  <2>4. /\ Len(sock') = Len(sock) + 1 /\ sock'[Len(sock) + 1] = c
        /\ \A i \in 1..Len(sock) : sock'[i] = sock[i] /\ sock[i] # c
    BY <2>1, <2>3 DEF InFlight, Queued
  <2>5. \A d : Queued(d)' => Queued(d) \/ d = c
    BY <1>1, <2>4 DEF Queued, workerVars
  <2>6. Once'
    <3>1. UNCHANGED <<buffer, wpc, wcont, jailDict, owner>> BY <1>1 DEF workerVars
    <3>2. Once BY DEF Pipeline
    <3>3. \A i, j \in 1..Len(sock') : sock'[i] = sock'[j] => i = j
      <4> SUFFICES ASSUME NEW i \in 1..Len(sock'), NEW j \in 1..Len(sock'), sock'[i] = sock'[j]
                   PROVE  i = j
        OBVIOUS
      <4>1. i \in 1..Len(sock) \/ i = Len(sock) + 1 BY <2>4
      <4>2. j \in 1..Len(sock) \/ j = Len(sock) + 1 BY <2>4
      <4> QED BY <4>1, <4>2, <2>4, <3>2 DEF Once
    <3>6. \A i \in 1..Len(sock'), j \in 1..Len(buffer) : sock'[i] # buffer[j]
      <4> SUFFICES ASSUME NEW i \in 1..Len(sock'), NEW j \in 1..Len(buffer)
                   PROVE  sock'[i] # buffer[j]
        OBVIOUS
      <4>1. i \in 1..Len(sock) \/ i = Len(sock) + 1 BY <2>4
      <4>2. buffer[j] # c BY <2>3 DEF InFlight, Queued
      <4> QED BY <4>1, <4>2, <2>4, <3>2 DEF Once
    <3>4. wpc \in Holding => ~Queued(wcont)'
      BY <2>3, <2>5, <3>1, <3>2 DEF Once, InFlight, InHands
    <3>5. \A p \in jailDict \cap Pids : ~Queued(owner[p])'
      BY <2>3, <2>5, <3>1, <3>2 DEF Once, InFlight
    <3> QED BY <3>1, <3>2, <3>3, <3>4, <3>5, <3>6 DEF Once, Queued
  <2>7. Committing(c)' /\ \A d \in Containers : InFlight(d)' => InFlight(d) \/ d = c
    BY <1>1, <2>1, <2>5 DEF InFlight, InHands, workerVars, Committing
  <2>8. RowKnows'
    BY <1>1, <2>1, <2>7 DEF RowKnows, Pipeline, SockOpen, ParentEnd, Committing, workerVars
  <2>9. SendFresh'
    BY <1>1, <2>1 DEF SendFresh, Pipeline, SockOpen, ParentEnd, workerVars
  <2> QED BY <2>6, <2>8, <2>9 DEF Pipeline
<1>3. CASE StartCommit(t)
  <2> DEFINE c == ctarget[t]
  <2>1. /\ cpc[t] = "commit" /\ UNCHANGED <<sock, workerVars, owner, server>>
        /\ status' = [status EXCEPT ![c] = "running"] /\ Release(t) /\ c \in Containers
    BY <1>1, <1>3 DEF StartCommit
  <2>2. Once'
    BY ZenonT(40), <2>1 DEF Once, Queued, Pipeline, workerVars
  <2>3. \A d \in Containers : InFlight(d)' => InFlight(d)
    BY <2>1 DEF InFlight, Queued, InHands, workerVars
  <2>4. \A d \in Containers : Committing(d) => d = c
    BY <2>1 DEF Committing
  <2>5. RowKnows'
    BY <2>1, <2>3, <2>4 DEF RowKnows, Pipeline, SockOpen, ParentEnd, workerVars
  <2>6. SendFresh'
    BY <2>1 DEF SendFresh, Pipeline, SockOpen, ParentEnd, workerVars, Release
  <2> QED BY <2>2, <2>5, <2>6 DEF Pipeline
<1>4. CASE StartCheck(t)
  <2>1. Once'
    BY <1>1, <1>4, PipeFrame DEF StartCheck, Pipeline, pipe, workerVars
  <2>2. \A d \in Containers : InFlight(d)' => InFlight(d)
    BY <1>1, <1>4 DEF StartCheck, InFlight, Queued, InHands, workerVars
  <2>5. \A d \in Containers : Committing(d) => Committing(d)'
    BY <1>4 DEF StartCheck, Release, Committing
  <2>3. RowKnows'
    <3>1. SockOpen' => SockOpen BY <1>1 DEF SockOpen, ParentEnd, workerVars
    <3>2. RowKnows /\ UNCHANGED status BY <1>4 DEF StartCheck, Pipeline
    <3>4. \A d \in Containers : (status[d] = "running" \/ Committing(d)) =>
                                 (status'[d] = "running" \/ Committing(d)')
      BY <2>5, <3>2
    <3> QED BY <2>2, <3>1, <3>2, <3>4, RowFrame
  <2>4. SendFresh'
    <3>1. CASE AlreadyStarted(ctarget[t])
      BY <1>1, <1>4, <3>1 DEF StartCheck, SendFresh, Pipeline, SockOpen, ParentEnd, workerVars, Release
    <3>2. CASE ~AlreadyStarted(ctarget[t])
      BY <1>1, <1>4, <3>2
         DEF StartCheck, AlreadyStarted, SendFresh, Pipeline, SockOpen, ParentEnd, workerVars
    <3> QED BY <3>1, <3>2
  <2> QED BY <2>1, <2>3, <2>4 DEF Pipeline
<1>5. CASE StartSendFails(t) \/ StopCheck(t) \/ StopSignal(t) \/ StopPoll(t) \/ StopRemove(t)
  <2>1. /\ UNCHANGED <<sock, status>>
        /\ cpc[t] # "commit" /\ cpc'[t] \notin {"send", "commit"}
        /\ \A u \in Clients \ {t} : cpc'[u] = cpc[u] /\ ctarget'[u] = ctarget[u]
    <3>1. CASE StartSendFails(t) BY <3>1 DEF StartSendFails, Release
    <3>2. CASE StopCheck(t) BY <3>2 DEF StopCheck, Release
    <3>3. CASE StopNoPidFile(t) \/ StopOpenFails(t) \/ StopEmptyPidFile(t)
      BY <3>3 DEF StopNoPidFile, StopOpenFails, StopEmptyPidFile, ReadsPidFile, Release, Advance
    <3>4. CASE StopKill(t) BY <3>4 DEF StopKill, ReadsPidFile, Advance
    <3>5. CASE StopTruncate(t) BY <3>5 DEF StopTruncate, Release, Advance
    <3>6. CASE StopPoll(t) BY <3>6 DEF StopPoll, Release
    <3>7. CASE StopRemove(t) BY <3>7 DEF StopRemove, Release
    <3> QED BY <1>5, <3>1, <3>2, <3>3, <3>4, <3>5, <3>6, <3>7 DEF StopSignal
  <2>2. Once'
    BY <1>1, <2>1, PipeFrame DEF Pipeline, pipe, workerVars
  <2>3. \A d \in Containers : InFlight(d)' => InFlight(d)
    BY <1>1, <2>1 DEF InFlight, Queued, InHands, workerVars
  <2>6. \A d \in Containers : Committing(d) => Committing(d)'
    BY <2>1 DEF Committing
  <2>4. RowKnows'
    <3>1. SockOpen' => SockOpen BY <1>1 DEF SockOpen, ParentEnd, workerVars
    <3>2. RowKnows BY DEF Pipeline
    <3>4. \A d \in Containers : (status[d] = "running" \/ Committing(d)) =>
                                 (status'[d] = "running" \/ Committing(d)')
      BY <2>1, <2>6
    <3> QED BY <2>3, <3>1, <3>2, <3>4, RowFrame
  <2>5. SendFresh'
    BY <1>1, <2>1 DEF SendFresh, Pipeline, SockOpen, ParentEnd, workerVars
  <2> QED BY <2>2, <2>4, <2>5 DEF Pipeline
<1> QED BY <1>2, <1>3, <1>4, <1>5 DEF ThreadStep

(* Steps that leave the threads and the rows alone, and put nothing new in  *)
(* flight.                                                                  *)
LEMMA QuietRows ==
  ASSUME RowKnows, SendFresh, UNCHANGED <<status, cpc, ctarget>>, SockOpen' => SockOpen,
         \A c \in Containers : InFlight(c)' => InFlight(c)
  PROVE  RowKnows' /\ SendFresh'
<1>1. \A c \in Containers : (status[c] = "running" \/ Committing(c)) =>
                             (status'[c] = "running" \/ Committing(c)')
  BY DEF Committing
<1>2. RowKnows' BY <1>1, RowFrame
<1>3. SendFresh' BY DEF SendFresh
<1> QED BY <1>2, <1>3

(* The worker goes on with the container it has, or lets go of it.          *)
LEMMA WorkerMovesOn ==
  ASSUME Pipeline, UNCHANGED <<status, server, cpc, ctarget, sock, buffer, owner>>,
         jailDict' \cap Pids = jailDict \cap Pids,
         wpc' \in Holding => wpc \in Holding /\ wcont' = wcont,
         wpc \notin {"atexit", "dead"}
  PROVE  Pipeline'
<1>1. \A c : Queued(c)' <=> Queued(c)
  BY DEF Queued
<1>2. \A c \in Containers : InFlight(c)' => InFlight(c)
  BY <1>1 DEF InFlight, InHands
<1>3. SockOpen' => SockOpen
  BY DEF SockOpen, ParentEnd
<1>4. RowKnows' /\ SendFresh'
  BY <1>2, <1>3, QuietRows DEF Pipeline
<1>5. Once'
  <2>1. Once BY DEF Pipeline
  <2>2. wpc' \in Holding => ~Queued(wcont)' BY <1>1, <2>1 DEF Once, Queued
  <2>3. \A p \in jailDict' \cap Pids :
           ~Queued(owner[p])' /\ (wpc' \in Holding => owner'[p] # wcont')
    BY <1>1, <2>1 DEF Once, Queued
  <2>4. /\ \A i, j \in 1..Len(sock') : sock'[i] = sock'[j] => i = j
        /\ \A i, j \in 1..Len(buffer') : buffer'[i] = buffer'[j] => i = j
        /\ \A i \in 1..Len(sock'), j \in 1..Len(buffer') : sock'[i] # buffer'[j]
        /\ \A p, q \in jailDict' \cap Pids : owner'[p] = owner'[q] => p = q
    BY <2>1 DEF Once
  <2> QED BY <2>2, <2>3, <2>4 DEF Once
<1> QED BY <1>4, <1>5 DEF Pipeline

(* The worker dies: what was in its memory is gone, and the socket with it. *)
LEMMA WorkerEndsPipeline ==
  ASSUME Pipeline, WorkerEnds
  PROVE  Pipeline'
<1>1. /\ wpc' = "dead" /\ buffer' = <<>> /\ jailDict' = {} /\ UNCHANGED sock
      /\ ~SockOpen'
  BY DEF WorkerEnds, WorkerAt, SockOpen
<1>2. RowKnows' /\ SendFresh' BY <1>1 DEF RowKnows, SendFresh
<1>3. Once'
  <2>1. Len(buffer') = 0 /\ 1..Len(buffer') = {} BY <1>1
  <2>2. wpc' \notin Holding BY <1>1 DEF Holding
  <2>3. \A i, j \in 1..Len(sock') : sock'[i] = sock'[j] => i = j
    BY <1>1 DEF Pipeline, Once
  <2> QED BY <1>1, <2>1, <2>2, <2>3 DEF Once
<1> QED BY <1>2, <1>3 DEF Pipeline

(* Names move from the socket to the buffer, and from there to its hands.   *)
LEMMA ReceivePipeline ==
  ASSUME TypeInv, Hands, Pipeline, Receive
  PROVE  Pipeline'
<1>1. PICK n \in 1..Len(sock) : /\ buffer' = buffer \o SubSeq(sock, 1, n)
                                /\ sock' = SubSeq(sock, n + 1, Len(sock))
  BY DEF Receive
<1>2. /\ wpc = "idle" /\ wpc' = "next" /\ buffer = <<>>
      /\ UNCHANGED <<status, server, cpc, ctarget, wcont, jailDict, owner>>
  BY DEF Receive, Hands, BufferInv, WorkerGoes, clientVars, hostVars
<1>3. sock \in Seq(Containers) /\ n \in Nat /\ n <= Len(sock)
  BY <1>1 DEF TypeInv, TypeOK
<1>4. buffer' = SubSeq(sock, 1, n)
  BY <1>1, <1>2, <1>3, SeqTypes
<1>5. Len(buffer') = n /\ \A j \in 1..n : buffer'[j] = sock[j]
  BY <1>1, <1>3, <1>4
<1>6. Len(sock') = Len(sock) - n /\ \A i \in 1..Len(sock') : sock'[i] = sock[n + i]
  BY <1>1, <1>3
<1>7. \A c : Queued(c)' => Queued(c)
  <2> SUFFICES ASSUME NEW c, Queued(c)' PROVE \E i \in 1..Len(sock) : sock[i] = c
    BY DEF Queued
  <2>1. CASE \E i \in 1..Len(sock') : sock'[i] = c
    <3>1. PICK i \in 1..Len(sock') : sock'[i] = c BY <2>1
    <3>2. n + i \in 1..Len(sock) /\ sock[n + i] = c BY <1>3, <1>6, <3>1
    <3> QED BY <3>2
  <2>2. CASE \E j \in 1..Len(buffer') : buffer'[j] = c
    <3>1. PICK j \in 1..Len(buffer') : buffer'[j] = c BY <2>2
    <3>2. j \in 1..Len(sock) /\ sock[j] = c BY <1>3, <1>5, <3>1
    <3> QED BY <3>2
  <2> QED BY <2>1, <2>2 DEF Queued
<1>8. \A c \in Containers : InFlight(c)' => InFlight(c)
  BY <1>2, <1>7 DEF InFlight, InHands, Holding
<1>9. RowKnows' /\ SendFresh'
  BY <1>2, <1>8, QuietRows DEF Pipeline, SockOpen, ParentEnd
<1>10. Once'
  <2>1. Once BY DEF Pipeline
  <2>2. \A i, j \in 1..Len(sock') : sock'[i] = sock'[j] => i = j
    <3> SUFFICES ASSUME NEW i \in 1..Len(sock'), NEW j \in 1..Len(sock'), sock'[i] = sock'[j]
                 PROVE  i = j
      OBVIOUS
    <3>1. n + i \in 1..Len(sock) /\ n + j \in 1..Len(sock) BY <1>3, <1>6
    <3>2. n + i = n + j BY <1>6, <2>1, <3>1 DEF Once
    <3> QED BY <1>3, <1>6, <3>2
  <2>3. \A i, j \in 1..Len(buffer') : buffer'[i] = buffer'[j] => i = j
    BY <1>3, <1>5, <2>1 DEF Once
  <2>4. \A i \in 1..Len(sock'), j \in 1..Len(buffer') : sock'[i] # buffer'[j]
    <3> SUFFICES ASSUME NEW i \in 1..Len(sock'), NEW j \in 1..Len(buffer'), sock'[i] = buffer'[j]
                 PROVE  FALSE
      OBVIOUS
    <3>1. n + i \in 1..Len(sock) /\ j \in 1..Len(sock) /\ sock[n + i] = sock[j]
      BY <1>3, <1>5, <1>6
    <3>2. n + i = j BY <2>1, <3>1 DEF Once
    <3> QED BY <1>3, <1>5, <1>6, <3>2
  <2>5. \A p \in jailDict \cap Pids : ~Queued(owner[p])'
    BY <1>2, <1>7, <2>1 DEF Once
  <2> QED BY <1>2, <2>1, <2>2, <2>3, <2>4, <2>5 DEF Once, Holding
<1> QED BY <1>9, <1>10 DEF Pipeline

LEMMA TakeNamePipeline ==
  ASSUME TypeInv, Hands, Pipeline, TakeName
  PROVE  Pipeline'
<1>1. /\ wpc = "next" /\ buffer # <<>> /\ wpc' = "get" /\ wcont' = Head(buffer)
      /\ buffer' = Tail(buffer)
      /\ UNCHANGED <<status, server, cpc, ctarget, sock, jailDict, owner>>
  BY DEF TakeName, WorkerAt, clientVars, hostVars
<1>2. /\ buffer \in Seq(Containers) /\ wcont' = buffer[1] /\ 1 \in 1..Len(buffer)
      /\ Len(buffer') = Len(buffer) - 1
      /\ \A i \in 1..Len(buffer') : buffer'[i] = buffer[i + 1] /\ i + 1 \in 1..Len(buffer)
  BY <1>1 DEF TypeInv, TypeOK
<1>3. \A c : Queued(c)' => Queued(c)
  <2> SUFFICES ASSUME NEW c, Queued(c)' PROVE Queued(c)
    OBVIOUS
  <2>1. CASE \E i \in 1..Len(sock') : sock'[i] = c BY <1>1, <2>1 DEF Queued
  <2>2. CASE \E j \in 1..Len(buffer') : buffer'[j] = c BY <1>2, <2>2 DEF Queued
  <2> QED BY <2>1, <2>2 DEF Queued
<1>4. \A c \in Containers : InFlight(c)' => InFlight(c)
  BY <1>1, <1>2, <1>3 DEF InFlight, InHands, Queued
<1>5. RowKnows' /\ SendFresh'
  BY <1>1, <1>4, QuietRows DEF Pipeline, SockOpen, ParentEnd
<1>6. Once'
  <2>1. Once BY DEF Pipeline
  <2>2. \A i, j \in 1..Len(buffer') : buffer'[i] = buffer'[j] => i = j
    <3> SUFFICES ASSUME NEW i \in 1..Len(buffer'), NEW j \in 1..Len(buffer'),
                        buffer'[i] = buffer'[j]
                 PROVE  i = j
      OBVIOUS
    <3>1. i + 1 = j + 1 BY <1>2, <2>1 DEF Once
    <3> QED BY <3>1
  <2>3. \A i \in 1..Len(sock'), j \in 1..Len(buffer') : sock'[i] # buffer'[j]
    BY <1>1, <1>2, <2>1 DEF Once
  <2>4. ~Queued(wcont)'
    <3>1. \A i \in 1..Len(sock') : sock'[i] # wcont' BY <1>1, <1>2, <2>1 DEF Once
    <3>2. \A j \in 1..Len(buffer') : buffer'[j] # wcont'
      <4> SUFFICES ASSUME NEW j \in 1..Len(buffer'), buffer'[j] = wcont' PROVE FALSE
        OBVIOUS
      <4>1. j + 1 = 1 BY <1>2, <2>1 DEF Once
      <4> QED BY <4>1
    <3> QED BY <3>1, <3>2 DEF Queued
  <2>5. \A p \in jailDict \cap Pids : ~Queued(owner[p])' /\ owner[p] # wcont'
    <3>1. Queued(wcont') BY <1>2 DEF Queued
    <3>2. \A p \in jailDict \cap Pids : ~Queued(owner[p]) BY <2>1 DEF Once
    <3>3. \A p \in jailDict \cap Pids : owner[p] # wcont' BY <3>1, <3>2
    <3>4. \A p \in jailDict \cap Pids : ~Queued(owner[p])' BY <1>1, <1>3, <3>2 DEF Queued
    <3> QED BY <3>3, <3>4
  <2> QED BY <1>1, <2>1, <2>2, <2>3, <2>4, <2>5 DEF Once, Queued
<1> QED BY <1>5, <1>6 DEF Pipeline

(* ... from its hands into JAIL_DICT, under the pid rfork returns ...       *)
LEMMA ForkPipeline ==
  ASSUME TypeInv, Hands, Pipeline, NEW p \in Pids, Fork(p)
  PROVE  Pipeline'
<1>1. /\ wpc = "fork" /\ wpc' = "track" /\ wcont \in Containers
      /\ jailDict' = jailDict \cup {p} /\ owner' = [owner EXCEPT ![p] = wcont]
      /\ UNCHANGED <<status, server, cpc, ctarget, sock, buffer>>
  BY DEF Fork, WorkerAt, clientVars, Hands, HandInv, Holding
<1>2. wpc \in Holding /\ wpc' \notin Holding BY <1>1 DEF Holding
<1>3. /\ owner'[p] = wcont /\ \A q \in Pids \ {p} : owner'[q] = owner[q]
      /\ \A q \in jailDict' \cap Pids : q # p => q \in jailDict
  BY <1>1 DEF TypeInv, TypeOK
<1>4. \A c : Queued(c)' <=> Queued(c) BY <1>1 DEF Queued
<1>5. \A c \in Containers : InFlight(c)' => InFlight(c)
  BY <1>1, <1>2, <1>3, <1>4 DEF InFlight, InHands
<1>6. RowKnows' /\ SendFresh'
  BY <1>1, <1>5, QuietRows DEF Pipeline, SockOpen, ParentEnd
<1>7. Once'
  <2>1. Once BY DEF Pipeline
  <2>2. \A q \in jailDict' \cap Pids : ~Queued(owner[q])'
    <3>1. \A q \in jailDict' \cap Pids : ~Queued(owner'[q])
      <4> TAKE q \in jailDict' \cap Pids
      <4>1. CASE q = p BY <1>2, <1>3, <2>1, <4>1 DEF Once
      <4>2. CASE q # p BY <1>3, <2>1, <4>2 DEF Once
      <4> QED BY <4>1, <4>2
    <3> QED BY <1>1, <3>1 DEF Queued
  <2>3. \A q, r \in jailDict' \cap Pids : owner'[q] = owner'[r] => q = r
    BY <1>2, <1>3, <2>1 DEF Once
  <2> QED BY <1>1, <1>2, <2>1, <2>2, <2>3 DEF Once
<1> QED BY <1>6, <1>7 DEF Pipeline

(* ... and back into its hands when the process has ended.                  *)
LEMMA DestroyPipeline ==
  ASSUME TypeInv, Hands, Pipeline, NEW pc \in {"exit", "clean"}, DestroyAnd(pc),
         wpc \in {"destroy", "cleandestroy"}
  PROVE  Pipeline'
<1>1. /\ wpc' = pc /\ wcont' = wcont /\ wpid \in jailDict \cap Pids /\ owner[wpid] = wcont
      /\ jailDict' = jailDict \ {wpid} /\ owner' = [owner EXCEPT ![wpid] = None]
      /\ UNCHANGED <<status, server, cpc, ctarget, sock, buffer>>
  BY DEF DestroyAnd, ForgetPid, WorkerAt, clientVars, Hands, HandInv
<1>2. \A q \in jailDict' \cap Pids : q \in jailDict \cap Pids /\ q # wpid /\ owner'[q] = owner[q]
  BY <1>1 DEF TypeInv, TypeOK
<1>3. \A c : Queued(c)' <=> Queued(c) BY <1>1 DEF Queued
<1>4. \A c \in Containers : InFlight(c)' => InFlight(c)
  <2> SUFFICES ASSUME NEW c \in Containers, InFlight(c)' PROVE InFlight(c)
    OBVIOUS
  <2>1. CASE Queued(c)' BY <1>3, <2>1 DEF InFlight
  <2>2. CASE InHands(c)' BY <1>1, <2>2 DEF InFlight, InHands
  <2>3. CASE \E q \in jailDict' \cap Pids : owner'[q] = c BY <1>2, <2>3 DEF InFlight
  <2> QED BY <2>1, <2>2, <2>3 DEF InFlight
<1>5. RowKnows' /\ SendFresh'
  BY <1>1, <1>4, QuietRows DEF Pipeline, SockOpen, ParentEnd
<1>6. Once'
  <2>1. Once BY DEF Pipeline
  <2>2. ~Queued(wcont)' BY <1>1, <2>1 DEF Once, Queued
  <2>3. \A q \in jailDict' \cap Pids : ~Queued(owner'[q])
    BY <1>2, <2>1 DEF Once
  <2>4. \A q \in jailDict' \cap Pids : owner'[q] # wcont
    BY <1>1, <1>2, <2>1 DEF Once
  <2>5. \A q, r \in jailDict' \cap Pids : owner'[q] = owner'[r] => q = r
    BY <1>2, <2>1 DEF Once
  <2> QED BY <1>1, <2>1, <2>2, <2>3, <2>4, <2>5 DEF Once, Queued
<1> QED BY <1>5, <1>6 DEF Pipeline

(* POST exit_code: the hands let go of the container and its row says so.   *)
(* Nothing else of it is in flight, and no thread is between its send and   *)
(* its commit, as that thread would hold the lock.                          *)
LEMMA RecordExitPipeline ==
  ASSUME TypeInv, Control, Hands, Pipeline,
         NEW waiting \in {"refusewait", "failwait", "exitwait"}, NEW next \in {"next", "idle"},
         RecordExit(waiting, next)
  PROVE  Pipeline'
<1>1. /\ wpc = waiting /\ lock = None /\ wcont \in Containers /\ wpc' = next
      /\ status' = [status EXCEPT ![wcont] = "exited"]
      /\ UNCHANGED <<server, cpc, ctarget, sock, buffer, jailDict, owner>>
  BY DEF RecordExit, Serve, WorkerAt, clientVars, hostVars, Hands, HandInv, Holding
<1>2. wpc \in Holding /\ wpc' \notin Holding BY <1>1 DEF Holding
<1>3. Once BY DEF Pipeline
<1>4. \A c : Queued(c)' <=> Queued(c) BY <1>1 DEF Queued
<1>5. \A c \in Containers : InFlight(c)' => InFlight(c) /\ c # wcont
  <2> SUFFICES ASSUME NEW c \in Containers, InFlight(c)' PROVE InFlight(c) /\ c # wcont
    OBVIOUS
  <2>1. CASE Queued(c)' BY <1>2, <1>3, <1>4, <2>1 DEF InFlight, Once
  <2>2. CASE \E p \in jailDict' \cap Pids : owner'[p] = c
    BY <1>1, <1>2, <1>3, <2>2 DEF InFlight, Once
  <2> QED BY <1>2, <2>1, <2>2 DEF InFlight, InHands
<1>6. \A c \in Containers : c # wcont => status'[c] = status[c]
  BY <1>1 DEF TypeInv, TypeOK
<1>7. \A c \in Containers : status'[c] = "running" => status[c] = "running"
  BY <1>1 DEF TypeInv, TypeOK
<1>8. \A c \in Containers : Committing(c)' <=> Committing(c)
  BY <1>1 DEF Committing
<1>9. SockOpen' <=> SockOpen
  BY <1>1 DEF SockOpen, ParentEnd
<1>10. RowKnows'
  BY <1>5, <1>6, <1>8, <1>9 DEF Pipeline, RowKnows
<1>11. SendFresh'
  BY <1>1, <1>7, <1>9 DEF Pipeline, SendFresh, TypeInv, TypeOK, Targets
<1>12. Once'
  BY <1>1, <1>2, <1>3, <1>4 DEF Once, Queued
<1> QED BY <1>10, <1>11, <1>12 DEF Pipeline

LEMMA WorkerStepPipeline ==
  ASSUME TypeInv, Control, Hands, Pipeline, WorkerStep
  PROVE  Pipeline'
<1> USE LifecycleAssumption DEF Holding, OnlyWorkerMoves, WorkerAt, WorkerGoes, Serve,
        Unreachable, clientVars, hostVars
<1>1. ASSUME NEW p \in Pids, ExitEvent(p) PROVE Pipeline'
  BY <1>1, WorkerMovesOn DEF ExitEvent
<1>2. ASSUME NEW p \in Pids, Fork(p) PROVE Pipeline'
  BY <1>2, ForkPipeline
<1>3. ASSUME NEW p \in Pids, CleanEvent(p) PROVE Pipeline'
  BY <1>3, WorkerMovesOn DEF CleanEvent
<1>4. CASE Reap BY <1>4, WorkerMovesOn DEF Reap
<1>5. CASE Destroy BY <1>5, DestroyPipeline DEF Destroy
<1>6. CASE CleanDestroy BY <1>6, DestroyPipeline DEF CleanDestroy
<1>7. CASE Receive BY <1>7, ReceivePipeline
<1>8. CASE TakeName BY <1>8, TakeNamePipeline
<1>9. CASE BufferDone BY <1>9, WorkerMovesOn DEF BufferDone
<1>10. CASE GetConnect \/ PortsConnect \/ NotifyConnect
  BY <1>10, WorkerMovesOn DEF GetConnect, PortsConnect, NotifyConnect, Connect
<1>11. CASE GetContainer \/ GetRaises
  BY <1>11, WorkerMovesOn DEF GetContainer, GetRaises
<1>12. CASE CreateJail \/ CreateRefused
  BY <1>12, WorkerMovesOn DEF CreateJail, CreateRefused
<1>13. CASE RefusalRaises \/ CreateRaises
  BY <1>13, WorkerMovesOn DEF RefusalRaises, CreateRaises
<1>14. CASE RegisterNetwork \/ RegisterPorts
  BY <1>14, WorkerMovesOn DEF RegisterNetwork, RegisterPorts
<1>15. CASE Track BY <1>15, WorkerMovesOn DEF Track
<1>16. CASE Notify BY <1>16, RecordExitPipeline DEF Notify
<1>17. CASE NotifyRaises BY <1>17, WorkerMovesOn DEF NotifyRaises
<1>18. CASE EndOfFile BY <1>18, WorkerMovesOn DEF EndOfFile
<1>19. CASE CleanDone \/ WorkerAtExit
  BY <1>19, WorkerEndsPipeline DEF CleanDone, WorkerAtExit
<1> QED BY <1>1, <1>2, <1>3, <1>4, <1>5, <1>6, <1>7, <1>8, <1>9, <1>10, <1>11, <1>12,
           <1>13, <1>14, <1>15, <1>16, <1>17, <1>18, <1>19
        DEF WorkerStep

LEMMA NextPipeline ==
  TypeInv /\ Control /\ Hands /\ Pipeline /\ [Next]_vars => Pipeline'
<1> SUFFICES ASSUME TypeInv, Control, Hands, Pipeline, [Next]_vars PROVE Pipeline'
  OBVIOUS
<1>1. ASSUME UNCHANGED <<pipe, status, cpc, ctarget>>, SockOpen' => SockOpen
      PROVE  Pipeline'
  BY <1>1, PipeFrame, QuietRows DEF Pipeline
<1>2. CASE Users
  <2>1. PICK t \in Clients, c \in Containers, op \in {"start", "stop"} : Request(t, c, op)
    BY <1>2 DEF Users
  <2>2. /\ UNCHANGED pipe /\ UNCHANGED <<status, server>>
        /\ \A u \in Clients : cpc'[u] \in {"send", "commit"} <=> cpc[u] \in {"send", "commit"}
        /\ \A u \in Clients : cpc[u] \in {"send", "commit"} =>
                               cpc'[u] = cpc[u] /\ ctarget'[u] = ctarget[u]
    BY <2>1 DEF Request, pipe, workerVars, hostVars, TypeInv, TypeOK
  <2>3. SockOpen' => SockOpen BY <2>2 DEF SockOpen, ParentEnd, pipe
  <2>4. Once' /\ \A d \in Containers : InFlight(d)' => InFlight(d)
    BY <2>2, PipeFrame DEF Pipeline
  <2>5. \A d \in Containers : (status[d] = "running" \/ Committing(d)) =>
                               (status'[d] = "running" \/ Committing(d)')
    BY <2>2 DEF Committing
  <2>6. RowKnows' BY <2>3, <2>4, <2>5, RowFrame DEF Pipeline
  <2>7. SendFresh' BY <2>2, <2>3 DEF Pipeline, SendFresh
  <2> QED BY <2>4, <2>6, <2>7 DEF Pipeline
<1>3. ASSUME NEW t \in Clients, ThreadStep(t) PROVE Pipeline'
  BY <1>3, ThreadStepPipeline
<1>4. CASE WorkerStep BY <1>4, WorkerStepPipeline
<1>5. CASE GetFails
  BY <1>5, WorkerMovesOn
     DEF GetFails, Serve, OnlyWorkerMoves, WorkerAt, Holding, clientVars, hostVars
<1>6. CASE ForkFails
  <2>1. jailDict' \cap Pids = jailDict \cap Pids
    BY <1>6, LifecycleAssumption DEF ForkFails
  <2> QED BY <1>6, <2>1, WorkerMovesOn
          DEF ForkFails, WorkerAt, Holding, clientVars, hostVars
<1>7. CASE WorkerKilled BY <1>7, WorkerEndsPipeline DEF WorkerKilled
<1>8. ASSUME NEW p \in Pids, ChildStep(p) \/ Exit(p) PROVE Pipeline'
  BY <1>8, <1>1
     DEF ChildStep, WritePid, Attach, Exit, pipe, clientVars, workerVars, SockOpen, ParentEnd
<1>9. ASSUME ~SockOpen', UNCHANGED pipe PROVE Pipeline'
  BY <1>9, PipeFrame DEF Pipeline, RowKnows, SendFresh
<1>10. CASE Crash \/ WaitWorker \/ CloseSocket \/ MarkExited
  BY <1>10, <1>9
     DEF Crash, WaitWorker, CloseSocket, MarkExited, SockOpen, ParentEnd, pipe, workerVars, hostVars
<1>11. CASE Sigterm
  BY <1>11, <1>1
     DEF Sigterm, SockOpen, ParentEnd, pipe, clientVars, workerVars, hostVars
<1>12. CASE Boot
  <2>1. /\ buffer' = <<>> /\ jailDict' = {} /\ sock' = <<>> /\ wpc' = "idle"
        /\ \A t \in Clients : cpc'[t] = "idle"
    BY <1>12 DEF Boot, WorkerAt, clientVars, Hands, BufferInv, Control, DownInv
  <2>2. 1..Len(sock') = {} /\ 1..Len(buffer') = {} /\ jailDict' \cap Pids = {} /\ wpc' \notin Holding
    BY <2>1 DEF Holding
  <2>3. \A c : ~InFlight(c)' BY <2>2 DEF InFlight, Queued, InHands
  <2>4. RowKnows' /\ SendFresh' BY <2>1, <2>3 DEF RowKnows, SendFresh
  <2>5. Once' BY <2>2 DEF Once
  <2> QED BY <2>4, <2>5 DEF Pipeline
<1>13. CASE UNCHANGED vars
  BY <1>13, <1>1 DEF vars, pipe, clientVars, workerVars, hostVars, SockOpen, ParentEnd
<1> QED BY <1>2, <1>3, <1>4, <1>5, <1>6, <1>7, <1>8, <1>10, <1>11, <1>12, <1>13
        DEF Next, Failure, ServerStep

(* However requests, crashes and restarts interleave, the request to run a  *)
(* container is never queued twice, queued while the container runs, or     *)
(* run twice.                                                               *)
THEOREM OneRun == Spec => []OneRunPerContainer
<1>1. ASSUME TypeInv, Once PROVE OneRunPerContainer
  <2> SUFFICES ASSUME NEW c \in Containers, NEW x \in Places(c), NEW y \in Places(c)
               PROVE  x = y
    BY DEF OneRunPerContainer
  <2>1. \/ x \in InSocket(c) \X {"socket"} \/ x \in InBuffer(c) \X {"buffer"}
        \/ InHands(c) /\ x = <<wcont, "hands">>
        \/ x \in InDict(c) \X {"dict"}
    BY DEF Places
  <2>2. \/ y \in InSocket(c) \X {"socket"} \/ y \in InBuffer(c) \X {"buffer"}
        \/ InHands(c) /\ y = <<wcont, "hands">>
        \/ y \in InDict(c) \X {"dict"}
    BY DEF Places
  <2>3. DOMAIN sock = 1..Len(sock) /\ DOMAIN buffer = 1..Len(buffer)
    BY <1>1 DEF TypeInv, TypeOK
  <2>4. /\ \A i, j \in InSocket(c) : i = j
        /\ \A i, j \in InBuffer(c) : i = j
        /\ \A i, j \in InDict(c) : i = j
    BY <1>1, <2>3 DEF Once, InSocket, InBuffer, InDict
  <2>5. /\ InSocket(c) # {} => InBuffer(c) = {} /\ ~InHands(c) /\ InDict(c) = {}
        /\ InBuffer(c) # {} => ~InHands(c) /\ InDict(c) = {}
        /\ InHands(c) => InDict(c) = {}
    BY <1>1, <2>3 DEF Once, Queued, InSocket, InBuffer, InDict, InHands
  <2> QED BY <2>1, <2>2, <2>4, <2>5
<1>2. Pipeline => Once BY DEF Pipeline
<1> QED BY <1>1, <1>2, InitType, NextType, InitControl, NextControl, InitHands, NextHands,
           InitPipeline, NextPipeline, PTL DEF Spec

(* The thread that sends while it holds server.lock is never the one that   *)
(* fills the socketpair: as many names as there are containers are enough   *)
(* room, since no name is queued twice and its own is not queued at all.    *)
THEOREM SendFindsRoom ==
  ASSUME Cardinality(Containers) <= SockCap
  PROVE  Spec => []SendNeverBlocks
<1>1. ASSUME TypeInv, Control, Pipeline PROVE SendNeverBlocks
  <2> SUFFICES ASSUME NEW t \in Clients, cpc[t] = "send", SockOpen, Len(sock) >= SockCap
               PROVE  FALSE
    BY <1>1, LifecycleAssumption DEF SendNeverBlocks, TypeInv, TypeOK
  <2> DEFINE c == ctarget[t]
             Others == Containers \ {c}
  <2>1. c \in Containers /\ sock \in Seq(Containers) /\ Len(sock) \in Nat
    BY <1>1 DEF TypeInv, TypeOK, Targets
  <2>2. ~Committing(c)
    BY <1>1 DEF Control, LockInv, Critical, Committing, TypeInv, TypeOK
  <2>3. ~Queued(c)
    BY <1>1, <2>1, <2>2 DEF Pipeline, RowKnows, SendFresh, InFlight
  <2>4. sock \in [1..Len(sock) -> Others]
    <3>1. sock \in [1..Len(sock) -> Containers] BY <2>1
    <3>2. \A i \in 1..Len(sock) : sock[i] # c BY <2>3 DEF Queued
    <3> QED BY <3>1, <3>2
  <2>5. IsFiniteSet(Others) /\ Cardinality(Others) = Cardinality(Containers) - 1
    BY <2>1, LifecycleAssumption, FS_RemoveElement
  <2>6. IsFiniteSet(1..Len(sock)) /\ Cardinality(1..Len(sock)) = Len(sock)
    BY <2>1, FS_Interval
  <2>7. Cardinality(Containers) \in Nat
    BY LifecycleAssumption, FS_CardinalityType
  <2>8. Cardinality(Others) < Cardinality(1..Len(sock))
    BY <2>1, <2>5, <2>6, <2>7, LifecycleAssumption
  <2>9. \E i, j \in 1..Len(sock) : i # j /\ sock[i] = sock[j]
    <3> HIDE DEF Others
    <3> QED BY <2>4, <2>5, <2>6, <2>8, FS_PigeonHole
  <2> QED BY <1>1, <2>9 DEF Pipeline, Once
<1> QED BY <1>1, InitType, NextType, InitControl, NextControl, InitHands, NextHands,
           InitPipeline, NextPipeline, PTL DEF Spec
=============================================================================
