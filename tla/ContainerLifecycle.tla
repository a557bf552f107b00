------------------------- MODULE ContainerLifecycle -------------------------
(***************************************************************************)
(* The life of a container across the three parties that share it:         *)
(*                                                                         *)
(*   - the Flask server (server.py, app2/JailManager_.py): one thread per  *)
(*     HTTP request, all of them serialised by one lock, and the status    *)
(*     column of the containers table;                                     *)
(*   - the worker process (kqueue_parent.py): reads container names from a *)
(*     socket, builds the jail, forks its first process, and is told by    *)
(*     kqueue when that process exits.  It calls back into the server over *)
(*     HTTP, so it competes for the same lock;                             *)
(*   - the host: jails (looked up by name), processes (by pid, and pids    *)
(*     are reused) and the jail.pid file of each container.                *)
(*                                                                         *)
(* Data is abstracted to what the properties tell apart: a container is    *)
(* its name, a message is a name, a jail either exists or does not.        *)
(* Networks, mounts and packet filter rules are other modules' business.   *)
(***************************************************************************)
EXTENDS Naturals, Sequences, FiniteSets

CONSTANTS
  Containers,   \* rows of the containers table
  Networked,    \* those with a network and published ports
  Deaf,         \* those whose program catches or ignores SIGTERM
  Clients,      \* concurrent HTTP clients, each with a server thread
  Pids,         \* process ids the host may hand out
  SockCap,      \* names the socketpair holds before a send blocks
  PollLimit,    \* rounds stop_jail polls for the jail (10 in the code)
  Faults,       \* the failures the environment may inject, see FaultKinds
  Absent, Empty,  \* jail.pid does not exist / holds no number
  ForkError,    \* the -1 that rfork returns
  None

(* "http": GET container answers an error; "jid": jail_set returns -1;      *)
(* "create": create_jail or the registration raises; "fork": rfork fails;   *)
(* "track": kevent fails; "destroy": the jail survives destroy_jail;        *)
(* "worker": the worker is killed; "crash": the server is killed;           *)
(* "term": SIGTERM is delivered to the server; "boot": it is started again. *)
FaultKinds == {"http", "jid", "create", "fork", "track", "destroy",
               "worker", "crash", "term", "boot"}

ASSUME LifecycleAssumption ==
  /\ Networked \subseteq Containers /\ Deaf \subseteq Containers
  /\ IsFiniteSet(Containers)
  /\ SockCap \in Nat \ {0}
  /\ PollLimit \in Nat
  /\ Faults \subseteq FaultKinds
  /\ {Absent, Empty, ForkError, None} \cap Pids = {}
  /\ Absent # Empty
  /\ None \notin Containers \cup Clients

VARIABLES
  status,    \* containers.status
  server,    \* "up", the stages of shutdown, or "down"
  lock,      \* the thread that holds server.lock
  cpc, ctarget, polls,     \* where each request thread is, and for whom
  sock,      \* names sent by the server and not yet received
  buffer,    \* names received by the worker and not yet processed
  wpc, wcont, wpid,        \* where the worker is, and for whom
  jailDict,  \* the pids that JAIL_DICT has a Jail for
  tracked,   \* the pids registered with kqueue
  jail,      \* does the kernel know a jail of this name?
  proc,      \* the state of each pid
  owner,     \* the container a pid was forked for
  pidfile,   \* the contents of <container>/jail.pid
  termed     \* processes that got a SIGTERM and will end of it

clientVars == <<lock, cpc, ctarget, polls>>
workerVars == <<buffer, wpc, wcont, wpid, jailDict, tracked>>
hostVars   == <<jail, proc, owner, pidfile, termed>>
vars == <<status, server, sock, clientVars, workerVars, hostVars>>

-----------------------------------------------------------------------------
(* Value sets.                                                             *)

Statuses == {"created", "running", "exited"}
ServerStates == {"up", "closing", "closed", "marked", "crashed", "down"}
Critical == {"send", "commit", "signal", "open", "truncate", "raise", "poll"}
ClientPcs == {"idle", "start", "stop"} \cup Critical
WorkerPcs == {"idle", "next", "get", "getwait", "create", "register", "ports",
              "portswait", "fork", "track", "refuse", "refusewait", "fail",
              "failwait", "reap", "destroy", "exit", "exitwait", "clean", "cleandestroy",
              "atexit", "dead"}
ProcStates == {"none", "forked", "wrote", "inside", "zombie"}

TypeOK ==
  /\ status \in [Containers -> Statuses]
  /\ server \in ServerStates
  /\ lock \in Clients \cup {None}
  /\ cpc \in [Clients -> ClientPcs]
  /\ ctarget \in [Clients -> Containers \cup {None}]
  /\ polls \in 0..PollLimit
  /\ sock \in Seq(Containers)
  /\ buffer \in Seq(Containers)
  /\ wpc \in WorkerPcs
  /\ wcont \in Containers \cup {None}
  /\ wpid \in Pids \cup {None}
  /\ jailDict \subseteq Pids \cup {ForkError}
  /\ tracked \subseteq Pids
  /\ jail \in [Containers -> BOOLEAN]
  /\ proc \in [Pids -> ProcStates]
  /\ owner \in [Pids -> Containers \cup {None}]
  /\ pidfile \in [Containers -> Pids \cup {Absent, Empty}]
  /\ termed \subseteq Pids

Init ==
  /\ status = [c \in Containers |-> "created"]
  /\ server = "up"
  /\ lock = None
  /\ cpc = [t \in Clients |-> "idle"]
  /\ ctarget = [t \in Clients |-> None]
  /\ polls = 0
  /\ sock = <<>> /\ buffer = <<>>
  /\ wpc = "idle" /\ wcont = None /\ wpid = None
  /\ jailDict = {} /\ tracked = {}
  /\ jail = [c \in Containers |-> FALSE]
  /\ proc = [p \in Pids |-> "none"]
  /\ owner = [p \in Pids |-> None]
  /\ pidfile = [c \in Containers |-> Absent]
  /\ termed = {}

-----------------------------------------------------------------------------
(* The host.                                                               *)

Alive(p) == proc[p] \in {"forked", "wrote", "inside"}

(* A process that exits is a zombie while the worker that forked it lives;  *)
(* init reaps the others.                                                   *)
AfterExit(p) == IF p \in jailDict THEN "zombie" ELSE "none"

(* jail_remove(2) and jail(8) -r: the jail goes, and with it every process  *)
(* attached to it.  Removing a jail that does not exist changes nothing.    *)
RemoveJail(c) ==
  /\ jail' = [jail EXCEPT ![c] = FALSE]
  /\ proc' = [p \in Pids |-> IF proc[p] = "inside" /\ owner[p] = c
                             THEN AfterExit(p) ELSE proc[p]]

(* kill(2) with SIGTERM.  Until the child restores SIG_DFL it ignores the   *)
(* signal like the worker it was forked from, so the signal is lost; in the *)
(* jail it is lost on a program that catches or ignores it.                 *)
Heeds(p) == proc[p] = "wrote" \/ (proc[p] = "inside" /\ owner[p] \notin Deaf)
Signalled(P) == termed \cup {p \in P : Heeds(p)}

(* The child of rfork: restores its signals and writes jail.pid ...         *)
WritePid(p) ==
  /\ proc[p] = "forked"
  /\ proc' = [proc EXCEPT ![p] = "wrote"]
  /\ pidfile' = [pidfile EXCEPT ![owner[p]] = p]
  /\ UNCHANGED <<status, server, sock, clientVars, workerVars, jail, owner, termed>>

(* ... then enters the jail of its name, or exits if there is none.         *)
Attach(p) ==
  /\ proc[p] = "wrote"
  /\ proc' = [proc EXCEPT ![p] = IF jail[owner[p]] THEN "inside" ELSE AfterExit(p)]
  /\ UNCHANGED <<status, server, sock, clientVars, workerVars, jail, owner, pidfile, termed>>

(* A container's process may exit at any time, on its own or of a SIGTERM.  *)
Exit(p) ==
  /\ Alive(p)
  /\ proc' = [proc EXCEPT ![p] = AfterExit(p)]
  /\ UNCHANGED <<status, server, sock, clientVars, workerVars, jail, owner, pidfile, termed>>

-----------------------------------------------------------------------------
(* The server's request threads.                                           *)

(* A client's request reaches a thread, which then waits for server.lock.   *)
Request(t, c, op) ==
  /\ server = "up"
  /\ cpc[t] = "idle"
  /\ cpc' = [cpc EXCEPT ![t] = op]
  /\ ctarget' = [ctarget EXCEPT ![t] = c]
  /\ UNCHANGED <<status, server, sock, lock, polls, workerVars, hostVars>>

(* The thread's `with lock` ends, normally or by an exception, and it       *)
(* answers.                                                                 *)
Release(t) ==
  /\ lock' = None
  /\ cpc' = [cpc EXCEPT ![t] = "idle"]
  /\ ctarget' = [ctarget EXCEPT ![t] = None]
  /\ polls' = 0

Advance(t, pc) ==
  /\ cpc' = [cpc EXCEPT ![t] = pc]
  /\ UNCHANGED <<ctarget, lock, polls>>

(* Both ends of the socketpair are open.                                    *)
ParentEnd == server \in {"up", "closing"}
SockOpen == ParentEnd /\ wpc \notin {"atexit", "dead"}

(* A definition whose name starts with Bug is what a slip in the code would *)
(* make of the definition that follows it; no action uses it.  The runs     *)
(* show that the properties tell the two apart.                             *)
BugNeverStarted(c) == FALSE

AlreadyStarted(c) == status[c] = "running"

(* start_jail up to its guard: a container that runs is left alone.         *)
StartCheck(t) ==
  /\ cpc[t] = "start" /\ lock = None
  /\ IF AlreadyStarted(ctarget[t])
       THEN Release(t)
       ELSE /\ lock' = t
            /\ cpc' = [cpc EXCEPT ![t] = "send"]
            /\ UNCHANGED <<ctarget, polls>>
  /\ UNCHANGED <<status, server, sock, workerVars, hostVars>>

(* worker.send blocks while the socketpair is full.                         *)
StartSend(t) ==
  /\ cpc[t] = "send"
  /\ SockOpen
  /\ Len(sock) < SockCap
  /\ sock' = Append(sock, ctarget[t])
  /\ Advance(t, "commit")
  /\ UNCHANGED <<status, server, workerVars, hostVars>>

(* The worker is gone, or shutdown has closed this end: send raises and     *)
(* Flask answers 500.                                                       *)
StartSendFails(t) ==
  /\ cpc[t] = "send"
  /\ ~SockOpen
  /\ Release(t)
  /\ UNCHANGED <<status, server, sock, workerVars, hostVars>>

BugCommitForgotten(t) ==
  /\ cpc[t] = "commit"
  /\ Release(t)
  /\ UNCHANGED <<status, server, sock, workerVars, hostVars>>

StartCommit(t) ==
  /\ cpc[t] = "commit"
  /\ status' = [status EXCEPT ![ctarget[t]] = "running"]
  /\ Release(t)
  /\ UNCHANGED <<server, sock, workerVars, hostVars>>

(* stop_jail up to its guard: only a running container is stopped.          *)
StopCheck(t) ==
  /\ cpc[t] = "stop" /\ lock = None
  /\ IF status[ctarget[t]] # "running"
       THEN Release(t)
       ELSE /\ lock' = t
            /\ cpc' = [cpc EXCEPT ![t] = "signal"]
            /\ UNCHANGED <<ctarget, polls>>
  /\ UNCHANGED <<status, server, sock, workerVars, hostVars>>

(* jail.pid is missing: `jail -r`; then open() raises, unless the child has *)
(* written the file meanwhile.                                              *)
StopNoPidFile(t) ==
  /\ cpc[t] = "signal" /\ pidfile[ctarget[t]] = Absent
  /\ RemoveJail(ctarget[t])
  /\ Advance(t, "open")
  /\ UNCHANGED <<status, server, sock, workerVars, owner, pidfile, termed>>

StopOpenFails(t) ==
  /\ cpc[t] = "open" /\ pidfile[ctarget[t]] = Absent
  /\ Release(t)
  /\ UNCHANGED <<status, server, sock, workerVars, hostVars>>

ReadsPidFile(t) == cpc[t] \in {"signal", "open"} /\ pidfile[ctarget[t]] # Absent

(* jail.pid holds no number: `jail -r`.                                     *)
StopEmptyPidFile(t) ==
  /\ ReadsPidFile(t) /\ pidfile[ctarget[t]] = Empty
  /\ RemoveJail(ctarget[t])
  /\ Advance(t, "truncate")
  /\ UNCHANGED <<status, server, sock, workerVars, owner, pidfile, termed>>

(* SIGTERM to whatever process the file names now; ProcessLookupError if    *)
(* there is none.                                                           *)
StopKill(t) ==
  /\ ReadsPidFile(t)
  /\ LET p == pidfile[ctarget[t]] IN
       /\ p \in Pids
       /\ termed' = Signalled({p})
       /\ Advance(t, IF proc[p] = "none" THEN "raise" ELSE "truncate")
  /\ UNCHANGED <<status, server, sock, workerVars, jail, proc, owner, pidfile>>

(* `finally` empties the file, whatever it holds by now.                    *)
StopTruncate(t) ==
  /\ cpc[t] \in {"truncate", "raise"}
  /\ pidfile' = [pidfile EXCEPT ![ctarget[t]] = Empty]
  /\ IF cpc[t] = "raise" THEN Release(t) ELSE Advance(t, "poll")
  /\ UNCHANGED <<status, server, sock, workerVars, jail, proc, owner, termed>>

BugPollsTooOften(t) ==
  /\ cpc[t] = "poll" /\ polls <= PollLimit
  /\ IF jail[ctarget[t]]
       THEN polls' = polls + 1 /\ UNCHANGED <<lock, cpc, ctarget>>
       ELSE Release(t)
  /\ UNCHANGED <<status, server, sock, workerVars, hostVars>>

BugPollsForever(t) ==
  /\ cpc[t] = "poll"
  /\ IF jail[ctarget[t]]
       THEN polls' = (polls + 1) % (PollLimit + 1) /\ UNCHANGED <<lock, cpc, ctarget>>
       ELSE Release(t)
  /\ UNCHANGED <<status, server, sock, workerVars, hostVars>>

(* Once a second, is the jail gone?  (The worker removes it.)               *)
StopPoll(t) ==
  /\ cpc[t] = "poll" /\ polls < PollLimit
  /\ IF jail[ctarget[t]]
       THEN polls' = polls + 1 /\ UNCHANGED <<lock, cpc, ctarget>>
       ELSE Release(t)
  /\ UNCHANGED <<status, server, sock, workerVars, hostVars>>

BugStopWritesRow(t) ==
  /\ cpc[t] = "poll" /\ polls = PollLimit
  /\ RemoveJail(ctarget[t])
  /\ status' = [status EXCEPT ![ctarget[t]] = "exited"]
  /\ Release(t)
  /\ UNCHANGED <<server, sock, workerVars, owner, pidfile, termed>>

(* It is not: remove_jail_from_name.                                        *)
StopRemove(t) ==
  /\ cpc[t] = "poll" /\ polls = PollLimit
  /\ RemoveJail(ctarget[t])
  /\ Release(t)
  /\ UNCHANGED <<status, server, sock, workerVars, owner, pidfile, termed>>

StopSignal(t) == \/ StopNoPidFile(t) \/ StopOpenFails(t) \/ StopEmptyPidFile(t)
                 \/ StopKill(t) \/ StopTruncate(t)

ThreadStep(t) ==
  \/ StartCheck(t) \/ StartSend(t) \/ StartSendFails(t) \/ StartCommit(t)
  \/ StopCheck(t) \/ StopSignal(t) \/ StopPoll(t) \/ StopRemove(t)

-----------------------------------------------------------------------------
(* The worker.  One kqueue event at a time; every step below is a step of   *)
(* its single thread.                                                       *)

WorkerAt(pc, c, p) == wpc' = pc /\ wcont' = c /\ wpid' = p
WorkerGoes(pc) == wpc' = pc /\ UNCHANGED <<wcont, wpid>>
OnlyWorkerMoves == UNCHANGED <<status, server, sock, clientVars, buffer,
                               jailDict, tracked, hostVars>>

(* kq.control reports the end of a registered process, once (EV_ONESHOT);   *)
(* remove_container looks its Jail up ...                                   *)
ExitEvent(p) ==
  /\ wpc = "idle"
  /\ p \in tracked /\ proc[p] = "zombie"
  /\ tracked' = tracked \ {p}
  /\ WorkerAt("reap", owner[p], p)
  /\ UNCHANGED <<status, server, sock, clientVars, buffer, jailDict, hostVars>>

BugNotifyFirst ==
  /\ wpc = "reap"
  /\ proc' = [proc EXCEPT ![wpid] = "none"]
  /\ termed' = termed \ {wpid}
  /\ jailDict' = jailDict \ {wpid}
  /\ WorkerGoes("exit")
  /\ UNCHANGED <<status, server, sock, clientVars, buffer, tracked,
                 jail, owner, pidfile>>

(* ... waits for it ...                                                     *)
Reap ==
  /\ wpc = "reap"
  /\ proc' = [proc EXCEPT ![wpid] = "none"]
  /\ termed' = termed \ {wpid}
  /\ WorkerGoes("destroy")
  /\ UNCHANGED <<status, server, sock, clientVars, buffer, jailDict, tracked,
                 jail, owner, pidfile>>

(* ... destroys the jail and forgets the pid.  destroy_jail logs its errors *)
(* and returns, so the jail may survive it.                                 *)
ForgetPid == /\ jailDict' = jailDict \ {wpid}
             /\ owner' = [owner EXCEPT ![wpid] = None]

BugJailSurvives(c) == UNCHANGED <<jail, proc>>

DestroyJail(c) ==
  \/ RemoveJail(c)
  \/ "destroy" \in Faults /\ UNCHANGED <<jail, proc>>

DestroyAnd(pc) ==
  /\ DestroyJail(wcont)
  /\ ForgetPid
  /\ WorkerAt(pc, wcont, None)
  /\ UNCHANGED <<status, server, sock, clientVars, buffer, tracked, pidfile, termed>>

Destroy == wpc = "destroy" /\ DestroyAnd("exit")

(* The socket is readable: recv(4096) takes the names that are there, and   *)
(* perhaps not all of them.                                                 *)
Receive ==
  /\ wpc = "idle" /\ sock # <<>>
  /\ \E n \in 1..Len(sock) :
       /\ buffer' = buffer \o SubSeq(sock, 1, n)
       /\ sock' = SubSeq(sock, n + 1, Len(sock))
  /\ WorkerGoes("next")
  /\ UNCHANGED <<status, server, clientVars, jailDict, tracked, hostVars>>

(* The next name of the buffer, or back to kqueue.                          *)
TakeName ==
  /\ wpc = "next" /\ buffer # <<>>
  /\ WorkerAt("get", Head(buffer), None)
  /\ buffer' = Tail(buffer)
  /\ UNCHANGED <<status, server, sock, clientVars, jailDict, tracked, hostVars>>

BufferDone ==
  /\ wpc = "next" /\ buffer = <<>>
  /\ WorkerGoes("idle")
  /\ OnlyWorkerMoves

(* An HTTP call of the worker.  The connection is accepted while the server *)
(* listens, and a server thread serves it once it holds the lock; the       *)
(* worker waits.  ConnectionError is raised when nobody listens any more,   *)
(* or when the server dies with the call pending.                           *)
Connect(pc, waiting) ==
  /\ wpc = pc /\ server = "up"
  /\ WorkerGoes(waiting)
  /\ OnlyWorkerMoves

Serve(waiting) == wpc = waiting /\ lock = None /\ server # "crashed"

Unreachable(pc, waiting) ==
  \/ wpc = pc /\ server # "up"
  \/ wpc = waiting /\ server = "crashed"

(* GET /api/container/<name>.                                               *)
GetConnect == Connect("get", "getwait")

GetContainer ==
  /\ Serve("getwait")
  /\ WorkerGoes("create")
  /\ OnlyWorkerMoves

(* An error answer is logged and the name dropped; nobody is told.          *)
GetFails ==
  /\ "http" \in Faults
  /\ Serve("getwait")
  /\ WorkerAt("next", None, None)
  /\ OnlyWorkerMoves

(* ConnectionError is not caught: run() ends and the interpreter exits.     *)
GetRaises ==
  /\ Unreachable("get", "getwait")
  /\ WorkerAt("atexit", None, None)
  /\ OnlyWorkerMoves

(* jail_set(JAIL_CREATE).                                                   *)
CreateJail ==
  /\ wpc = "create" /\ ~jail[wcont]
  /\ jail' = [jail EXCEPT ![wcont] = TRUE]
  /\ WorkerGoes("register")
  /\ UNCHANGED <<status, server, sock, clientVars, buffer, jailDict, tracked,
                 proc, owner, pidfile, termed>>

BugRefusedInSilence ==
  /\ wpc = "create"
  /\ jail[wcont] \/ "jid" \in Faults
  /\ WorkerAt("next", None, None)
  /\ OnlyWorkerMoves

(* jid < 0, among other reasons because a jail of this name is still there: *)
(* nothing is destroyed ...                                                 *)
CreateRefused ==
  /\ wpc = "create"
  /\ jail[wcont] \/ "jid" \in Faults
  /\ WorkerGoes("refuse")
  /\ OnlyWorkerMoves

(* ... unless the notify raises, for it is made inside the try: destroy_jail *)
(* removes whatever has the name, and a second notify follows.              *)
RefusalRaises ==
  /\ Unreachable("refuse", "refusewait")
  /\ DestroyJail(wcont)
  /\ WorkerGoes("fail")
  /\ UNCHANGED <<status, server, sock, clientVars, buffer, jailDict, tracked,
                 owner, pidfile, termed>>

(* create_jail or register_jail_network raises, before or after the jail    *)
(* exists: destroy_jail, by name.                                           *)
CreateRaises ==
  /\ \/ wpc \in {"create", "register"} /\ "create" \in Faults
     \/ wpc = "register" /\ wcont \in Networked /\ server # "up"
  /\ DestroyJail(wcont)
  /\ WorkerGoes("fail")
  /\ UNCHANGED <<status, server, sock, clientVars, buffer, jailDict, tracked,
                 owner, pidfile, termed>>

(* POST /subnet and /dns take no lock.  Without a network there is nothing  *)
(* to register.                                                             *)
RegisterNetwork ==
  /\ wpc = "register"
  /\ \/ wcont \in Networked /\ server = "up" /\ WorkerGoes("ports")
     \/ wcont \notin Networked /\ WorkerGoes("fork")
  /\ OnlyWorkerMoves

(* POST /api/ports does; its failure is swallowed.                          *)
PortsConnect == Connect("ports", "portswait")

RegisterPorts ==
  /\ Serve("portswait") \/ Unreachable("ports", "portswait")
  /\ WorkerGoes("fork")
  /\ OnlyWorkerMoves

(* rfork with a pid no process has.                                         *)
Fork(p) ==
  /\ wpc = "fork" /\ proc[p] = "none"
  /\ proc' = [proc EXCEPT ![p] = "forked"]
  /\ owner' = [owner EXCEPT ![p] = wcont]
  /\ termed' = termed \ {p}
  /\ jailDict' = jailDict \cup {p}
  /\ WorkerAt("track", wcont, p)
  /\ UNCHANGED <<status, server, sock, clientVars, buffer, tracked, jail, pidfile>>

(* rfork returns -1, which becomes a key of JAIL_DICT like any pid.         *)
ForkFails ==
  /\ wpc = "fork" /\ "fork" \in Faults
  /\ jailDict' = jailDict \cup {ForkError}
  /\ WorkerAt("next", None, None)
  /\ UNCHANGED <<status, server, sock, clientVars, buffer, tracked, hostVars>>

BugUntracked ==
  /\ wpc = "track"
  /\ WorkerAt("next", None, None)
  /\ OnlyWorkerMoves

Track ==
  /\ wpc = "track"
  /\ \/ tracked' = tracked \cup {wpid}
     \/ "track" \in Faults /\ UNCHANGED tracked
  /\ WorkerAt("next", None, None)
  /\ UNCHANGED <<status, server, sock, clientVars, buffer, jailDict, hostVars>>

(* POST exit_code: update_exit_code writes 'exited' whatever the row says.  *)
(* "refuse" and "fail" end a start that failed, "exit" the life of a         *)
(* container.                                                               *)
NotifyConnect == \/ Connect("refuse", "refusewait")
                 \/ Connect("fail", "failwait")
                 \/ Connect("exit", "exitwait")

RecordExit(waiting, next) ==
  /\ Serve(waiting)
  /\ status' = [status EXCEPT ![wcont] = "exited"]
  /\ WorkerAt(next, None, None)
  /\ UNCHANGED <<server, sock, clientVars, buffer, jailDict, tracked, hostVars>>

Notify == \/ RecordExit("refusewait", "next") \/ RecordExit("failwait", "next")
          \/ RecordExit("exitwait", "idle")

(* remove_container catches the ConnectionError, the `except' of            *)
(* start_container does not.                                                *)
NotifyRaises ==
  /\ \/ Unreachable("exit", "exitwait") /\ WorkerAt("idle", None, None)
     \/ Unreachable("fail", "failwait") /\ WorkerAt("atexit", None, None)
  /\ OnlyWorkerMoves

-----------------------------------------------------------------------------
(* Shutdown, crash and restart.                                            *)

(* mark_all_exited                                                          *)
MarkAllExited ==
  status' = [c \in Containers |->
               IF status[c] = "running" THEN "exited" ELSE status[c]]

(* The socket is drained and the server's end closed: recv returns nothing, *)
(* and clean_all_jails signals every pid it knows, once.  The -1 of a       *)
(* failed rfork stands for every process there is.                          *)
EndOfFile ==
  /\ wpc = "idle" /\ sock = <<>> /\ ~ParentEnd
  /\ termed' = Signalled(IF ForkError \in jailDict THEN Pids ELSE jailDict)
  /\ WorkerAt("clean", None, None)
  /\ UNCHANGED <<status, server, sock, clientVars, buffer, jailDict, tracked,
                 jail, proc, owner, pidfile>>

(* remove_container(notify=False) on each exit event.                       *)
CleanEvent(p) ==
  /\ wpc = "clean"
  /\ p \in tracked /\ proc[p] = "zombie"
  /\ tracked' = tracked \ {p}
  /\ proc' = [proc EXCEPT ![p] = "none"]
  /\ termed' = termed \ {p}
  /\ WorkerAt("cleandestroy", owner[p], p)
  /\ UNCHANGED <<status, server, sock, clientVars, buffer, jailDict,
                 jail, owner, pidfile>>

CleanDestroy == wpc = "cleandestroy" /\ DestroyAnd("clean")

(* The worker is gone; init reaps what it left unreaped.                    *)
WorkerEnds ==
  /\ WorkerAt("dead", None, None)
  /\ buffer' = <<>> /\ jailDict' = {} /\ tracked' = {}
  /\ proc' = [p \in Pids |-> IF proc[p] = "zombie" THEN "none" ELSE proc[p]]
  /\ UNCHANGED <<server, sock, clientVars, jail, owner, pidfile, termed>>

(* JAIL_DICT is empty: os._exit(0), which runs no exit handler.             *)
CleanDone ==
  /\ wpc = "clean" /\ jailDict = {}
  /\ WorkerEnds
  /\ UNCHANGED status

(* An exception took the worker out of run(): the handle_close it inherited *)
(* from the server runs in it, with child_pid 0.  (It also clears the pf    *)
(* anchors, see PacketFilter.)                                              *)
WorkerAtExit ==
  /\ wpc = "atexit"
  /\ MarkAllExited
  /\ WorkerEnds

WorkerKilled ==
  /\ "worker" \in Faults /\ wpc # "dead"
  /\ WorkerEnds
  /\ UNCHANGED status

(* SIGTERM: app.run returns, the listening socket is closed.  The request   *)
(* threads live on while the exit handler runs.                             *)
Sigterm ==
  /\ "term" \in Faults /\ server = "up"
  /\ server' = "closing"
  /\ UNCHANGED <<status, sock, clientVars, workerVars, hostVars>>

(* shutdown(): parent_sock.close(), mark_all_exited(), waitpid().           *)
CloseSocket ==
  /\ server = "closing"
  /\ server' = "closed"
  /\ UNCHANGED <<status, sock, clientVars, workerVars, hostVars>>

MarkExited ==
  /\ server = "closed"
  /\ server' = "marked"
  /\ MarkAllExited
  /\ UNCHANGED <<sock, clientVars, workerVars, hostVars>>

(* Request threads die with the server, and so does its lock.               *)
ThreadsEnd ==
  /\ lock' = None /\ polls' = 0
  /\ cpc' = [t \in Clients |-> "idle"]
  /\ ctarget' = [t \in Clients |-> None]

WaitWorker ==
  /\ server = "marked" /\ wpc = "dead"
  /\ server' = "down"
  /\ ThreadsEnd
  /\ UNCHANGED <<status, sock, workerVars, hostVars>>

Crash ==
  /\ "crash" \in Faults /\ server \notin {"crashed", "down"}
  /\ server' = "crashed"
  /\ ThreadsEnd
  /\ UNCHANGED <<status, sock, workerVars, hostVars>>

BugSocketKept ==
  /\ "boot" \in Faults
  /\ server \in {"crashed", "down"} /\ wpc = "dead"
  /\ server' = "up"
  /\ WorkerAt("idle", None, None)
  /\ UNCHANGED <<status, sock, clientVars, buffer, jailDict, tracked, hostVars>>

(* `python server.py` again: a new socketpair and a new worker.  The        *)
(* database and the host are as they were left.                             *)
Boot ==
  /\ "boot" \in Faults
  /\ server \in {"crashed", "down"} /\ wpc = "dead"
  /\ server' = "up"
  /\ sock' = <<>>
  /\ WorkerAt("idle", None, None)
  /\ UNCHANGED <<status, clientVars, buffer, jailDict, tracked, hostVars>>

-----------------------------------------------------------------------------
Users == \E t \in Clients, c \in Containers, op \in {"start", "stop"} : Request(t, c, op)

ChildStep(p) == WritePid(p) \/ Attach(p)

WorkerStep ==
  \/ \E p \in Pids : ExitEvent(p) \/ Fork(p) \/ CleanEvent(p)
  \/ Reap \/ Destroy \/ Receive \/ TakeName \/ BufferDone
  \/ GetConnect \/ GetContainer \/ GetRaises \/ CreateJail \/ CreateRefused
  \/ RefusalRaises \/ CreateRaises \/ RegisterNetwork \/ PortsConnect
  \/ RegisterPorts \/ Track
  \/ NotifyConnect \/ Notify \/ NotifyRaises
  \/ EndOfFile \/ CleanDestroy \/ CleanDone \/ WorkerAtExit

Failure == GetFails \/ ForkFails \/ WorkerKilled \/ Crash

ServerStep == CloseSocket \/ MarkExited \/ WaitWorker \/ Boot

Next ==
  \/ Users
  \/ \E t \in Clients : ThreadStep(t)
  \/ WorkerStep
  \/ \E p \in Pids : ChildStep(p) \/ Exit(p)
  \/ Failure
  \/ Sigterm
  \/ ServerStep

Spec == Init /\ [][Next]_vars

(* FAIRNESS.  A request thread and the worker go on while they can, and so  *)
(* does the child until it is in the jail; a process that heeds a SIGTERM   *)
(* it got exits.  server.lock is not a fair lock, so the liveness           *)
(* properties are about executions whose clients fall silent at last: then  *)
(* no thread can be overtaken for ever.  Nothing makes a container exit on  *)
(* its own, and no failure has to happen.                                   *)
Fairness ==
  /\ \A t \in Clients : WF_vars(ThreadStep(t))
  /\ WF_vars(WorkerStep)
  /\ WF_vars(CloseSocket \/ MarkExited \/ WaitWorker)
  /\ \A p \in Pids : WF_vars(ChildStep(p)) /\ WF_vars(p \in termed /\ Exit(p))

ClientsFallSilent == <>[][~Users]_vars

LiveSpec == Spec /\ Fairness /\ ClientsFallSilent

-----------------------------------------------------------------------------
(* Where the request to run a container may be: in the socket, in the      *)
(* worker's buffer, in its hands, or in JAIL_DICT under the pid it became.  *)

Holding == {"get", "getwait", "create", "register", "ports", "portswait",
            "fork", "refuse", "refusewait", "fail", "failwait", "exit",
            "exitwait"}

InSocket(c) == {i \in DOMAIN sock : sock[i] = c}
InBuffer(c) == {i \in DOMAIN buffer : buffer[i] = c}
InHands(c)  == wpc \in Holding /\ wcont = c
InDict(c)   == {p \in jailDict \cap Pids : owner[p] = c}

Places(c) == (InSocket(c) \X {"socket"}) \cup (InBuffer(c) \X {"buffer"})
             \cup (IF InHands(c) THEN {<<wcont, "hands">>} ELSE {})
             \cup (InDict(c) \X {"dict"})

Committing(c) == \E t \in Clients : cpc[t] = "commit" /\ ctarget[t] = c

(* SAFETY.  However requests interleave, the request to run a container is  *)
(* in one place at a time: it is never queued twice, queued while it runs,  *)
(* or run twice.                                                            *)
OneRunPerContainer ==
  \A c \in Containers : \A x, y \in Places(c) : x = y

(* SAFETY.  The database and the pipeline agree: a row says 'running'       *)
(* exactly while the container is somewhere in the pipeline, except between *)
(* the send and the commit of start_jail.                                   *)
RunningIffInFlight ==
  \A c \in Containers : (status[c] = "running" \/ Committing(c)) <=> Places(c) # {}

(* SAFETY.  start_jail holds server.lock while it sends, and the worker     *)
(* needs that lock to make progress: the send must find room.               *)
SendNeverBlocks ==
  \A t \in Clients : cpc[t] = "send" /\ SockOpen => Len(sock) < SockCap

(* SAFETY.  Every jail in the kernel belongs to a container the worker is   *)
(* starting or has in JAIL_DICT, so that something will remove it.          *)
JailsAccountedFor ==
  \A c \in Containers : jail[c] =>
    \/ InDict(c) # {}
    \/ wcont = c /\ wpc \in {"register", "ports", "portswait", "fork"}

(* ACTION.  A row becomes 'exited' only when nothing is left to run: no     *)
(* jail of that name and no live process forked for it.                     *)
ExitedAfterTeardown ==
  [][\A c \in Containers :
       status[c] = "running" /\ status'[c] = "exited" =>
         ~jail[c] /\ \A p \in Pids : owner[p] = c => ~Alive(p)]_vars

-----------------------------------------------------------------------------
(* The abstract view of ContainerStatus: what a row promises.              *)

Late == {"refuse", "refusewait", "fail", "failwait", "exit", "exitwait"}
Up(c)       == \E p \in InDict(c) : Alive(p)
Over(c)     == InDict(c) # {} \/ (InHands(c) /\ wpc \in Late)
Starting(c) == InHands(c) \/ InSocket(c) \cup InBuffer(c) # {}

Phase(c) == IF Up(c) THEN "up" ELSE IF Over(c) THEN "ended"
            ELSE IF Starting(c) THEN "starting" ELSE "idle"
phase == [c \in Containers |-> Phase(c)]

Promise == INSTANCE ContainerStatus WITH row <- status, phase <- phase

(* REFINEMENT.  The server, the worker and the host together implement the  *)
(* life of a row: one run at a time, launched only after the row says       *)
(* 'running', and 'exited' only after the run ended.                        *)
ImplementsContainerStatus == Promise!Spec

(* LIVENESS.  ... and every step the abstract life owes is taken at last.   *)
ImplementsFairly == Promise!FairSpec

(* LIVENESS.  Every request thread answers: the lock is released, the poll  *)
(* of stop_jail ends, the send finds room.                                  *)
RequestsAnswered == \A t \in Clients : cpc[t] # "idle" ~> cpc[t] = "idle"

(* LIVENESS.  A row that says 'running' has, sooner or later, a process in  *)
(* the jail, or stops saying it.                                            *)
StartSettles ==
  \A c \in Containers :
    status[c] = "running" ~> \/ status[c] # "running"
                             \/ \E p \in Pids : owner[p] = c /\ proc[p] = "inside"

(* LIVENESS.  "SIGTERM received. Shutting down gracefully": the server ends.*)
ShutdownEnds == server = "closing" ~> server = "down"

(* LIVENESS.  The one thing shutdown may wait for without end is a process  *)
(* of JAIL_DICT that no SIGTERM ends: it was still to restore SIG_DFL when  *)
(* clean_all_jails signalled it, once, or its program catches or ignores    *)
(* the signal.  No jail is removed for it, as stop_jail would.              *)
ShutdownEndsOrUnheard ==
  server = "closing" ~> \/ server = "down"
                        \/ wpc = "clean" /\ \E p \in jailDict : Alive(p) /\ p \notin termed

(* ACTION.  "All containers cleaned up": a worker that leaves the clean-up  *)
(* loop leaves no jail and no process of a container behind.                *)
OrderlyExitLeavesNothing ==
  [][wpc = "clean" /\ wpc' = "dead" =>
       /\ \A c \in Containers : ~jail[c]
       /\ \A p \in Pids : proc[p] = "none"]_vars

(* SAFETY.  "Store jail object and use it for cleaning": when shutdown is   *)
(* over, no jail is left in the kernel.                                     *)
ShutdownCleansJails == server = "down" => \A c \in Containers : ~jail[c]

=============================================================================
