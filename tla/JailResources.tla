--------------------------- MODULE JailResources ---------------------------
(***************************************************************************)
(* What a container occupies on the host: its jail, its epairs and its     *)
(* mounts (app2/Jail_.py and the calls below it).                          *)
(*                                                                         *)
(* The worker makes and destroys one container at a time, call by call, and *)
(* any call may fail: some failures raise, most are logged and passed over. *)
(* Meanwhile the child of an earlier run configures its network and        *)
(* executes the program, and a stop request removes a jail by its name.    *)
(*                                                                         *)
(* A run is one start of a container.  Epair <<r, i>> is the i-th run r     *)
(* makes; its b end joins a bridge, its a end (`at') a jail.  The jail of c is    *)
(* known by the run that made it.  Mounts are stacked in their order.      *)
(***************************************************************************)
EXTENDS Naturals, Sequences, FiniteSets, Functions, SequencesExt

CONSTANTS
  Containers, Networks,
  NetsOf,     \* the list of networks of each container; none: the host's
  Driver,     \* the driver of each network: "bridge", "host" or another
  MountsOf,   \* where it mounts directories of the host, in order
  Inside,     \* pairs of mount points: the first lies below the second
  MaxRuns,    \* bound of the model: starts
  Faults,     \* the calls that may fail
  Host, Dying \* places of an interface: the host, a jail that is dying

(* "jail", "epair", "bridge", "attach", "mount", "mkdir", "register",      *)
(* "notify", "fork", "address", "route" fail while a container is made,    *)
(* "deattach", "jexec", "remove", "destroy", "unmount" while it is         *)
(* destroyed; "dying" is a removed jail that keeps its interfaces for a    *)
(* while; "kill" ends the worker.                                          *)
ASSUME ResourceAssumption ==
  /\ \A c \in Containers : NetsOf[c] \in Seq(Networks) /\ MountsOf[c] \in Seq(STRING)
  /\ Driver \in [Networks -> STRING] /\ MaxRuns \in Nat
  /\ Host \notin Containers \cup Networks
  /\ Dying \notin Containers \cup {Host}

VARIABLES
  jail,     \* jail[c]: the run whose jail has the name of c, or 0
  iface,    \* the epairs: [at, bridge, addr, up], `up' the ends that are up
  mounts,   \* mounts[c]: what is mounted below the root of c, in order
  obj,      \* the Jail object of each run: [cont, jid, epair, devfs]
  dict,     \* JAIL_DICT: runs whose child was forked
  w,        \* where the worker is: [pc, run, i]
  child,    \* the process of each run: [pc, i, routes]; Host: by default
  spoilt,   \* a call failed while it was made, or it was stopped (history)
  dirty     \* containers of which something may be left (history)

vars == <<jail, iface, mounts, obj, dict, w, child, spoilt, dirty>>
host == <<jail, iface, mounts>>

Runs == 1..MaxRuns
Started == {r \in Runs : obj[r].cont # Host}
Cont(r) == obj[r].cont

(* The networks create_jail makes epairs for, by their positions in the    *)
(* list: the bridges among them, and none when the first is the host's.    *)
Bridges(c) ==
  {i \in DOMAIN NetsOf[c] : /\ Driver[NetsOf[c][i]] = "bridge"
                            /\ Driver[NetsOf[c][1]] # "host"}

(* setup_network takes the position in the whole list for the position of   *)
(* the epair: right as long as no other network comes before a bridge.     *)
Aligned(c) == Bridges(c) = 1..Cardinality(Bridges(c))

(* transform_json: the file systems every jail gets.                       *)
FsMounts == <<"dev", "tmp">>
Dests(c) == Range(FsMounts) \cup Range(MountsOf[c])
Nested(c) == {d \in Dests(c) : \E e \in Dests(c) :
                                 {<<d, e>>, <<e, d>>} \cap Inside # {}}
Active(c) == \E r \in dict \cup ({w.run} \cap Runs) : Cont(r) = c

NoObj == [cont |-> Host, jid |-> "none", epair |-> <<>>, devfs |-> FALSE]
Idle == [pc |-> "idle", run |-> 0, i |-> 0]
Making == {"create", "epair", "bridge", "attach", "devfs", "tmpfs", "mount",
           "register", "fork"}
Destroying == {"deattach", "remove", "ifdestroy", "undevfs", "untmpfs",
               "unmount"}

Living == {"born", "config", "route", "ready", "running"}
Process(pc, i) == [pc |-> pc, i |-> i, routes |-> {}]

TypeOK ==
  /\ jail \in [Containers -> 0..MaxRuns]
  /\ DOMAIN iface \subseteq Runs \X Nat
  /\ \A e \in DOMAIN iface :
       /\ iface[e].at \in Containers \cup {Host, Dying}
       /\ {iface[e].bridge, iface[e].addr} \subseteq Networks \cup {Host}
       /\ iface[e].up \subseteq {"a", "b"}
  /\ \A c \in Containers : mounts[c] \in Seq(Dests(c))
  /\ \A r \in Runs :
       /\ Cont(r) \in Containers \cup {Host}
       /\ obj[r].jid \in {"none", "ok", "refused"}
       /\ r \in dict /\ r # w.run =>
            /\ Len(obj[r].epair) = Cardinality(Bridges(Cont(r)))
            /\ Range(obj[r].epair) \subseteq DOMAIN iface
       /\ child[r].pc \in {"none", "over"} \cup Living
       /\ child[r].routes \subseteq Networks \cup {Host}
  /\ dict \cup spoilt \subseteq Started /\ dirty \subseteq Containers
  /\ w.pc \in {"idle"} \cup Making \cup Destroying
  /\ w.run \in 0..MaxRuns
  /\ w.pc = "idle" <=> w.run = 0

Init ==
  /\ jail = [c \in Containers |-> 0]
  /\ iface = [e \in {} |-> 0]
  /\ mounts = [c \in Containers |-> <<>>]
  /\ obj = [r \in Runs |-> NoObj]
  /\ dict = {} /\ w = Idle
  /\ child = [r \in Runs |-> Process("none", 0)]
  /\ spoilt = {} /\ dirty = {}

C == Cont(w.run)
Me == obj[w.run]
May(fault) == fault \in Faults
At(pc) == w.pc = pc
Go(pc) == w' = [w EXCEPT !.pc = pc, !.i = 1]
Again == w' = [w EXCEPT !.i = @ + 1]
Spoil == spoilt' = spoilt \cup {w.run}

-----------------------------------------------------------------------------
(* The calls of the system, as far as they succeed.                        *)

CreateInterface(e) ==
  iface' = [x \in DOMAIN iface \cup {e} |->
              IF x = e
              THEN [at |-> Host, bridge |-> Host, addr |-> Host, up |-> {}]
              ELSE iface[x]]
DestroyInterface(e) == iface' = Restrict(iface, DOMAIN iface \ {e})

(* set_if_flag; the calls that end with it fail when it does.               *)
Up(f, end) == [f EXCEPT !.up = @ \cup {end}]
Joined(e, n) == [iface[e] EXCEPT !.bridge = n]
BridgeIf(e, n) == iface' = [iface EXCEPT ![e] = Up(Joined(e, n), "b")]
Addressed(e, n) == [iface[e] EXCEPT !.addr = n]
SetAddress(e, n) == iface' = [iface EXCEPT ![e] = Up(Addressed(e, n), "a")]

(* get_jail_id_by_name.                                                    *)
JailExists(c) == jail[c] # 0
MoveToJail(e, c) == iface' = [iface EXCEPT ![e].at = c]
(* An interface loses its address on the way.                              *)
Home(e) == [iface[e] EXCEPT !.at = Host, !.addr = Host]
Stuck(e) == [iface[e] EXCEPT !.at = Dying]
RemoveFromJail(e) == iface' = [iface EXCEPT ![e] = Home(e)]

(* jail_remove: its processes are killed and its interfaces come home, but *)
(* not before the last of them has ended, which may take its time.         *)
JailRemove(c) ==
  /\ jail' = [jail EXCEPT ![c] = 0]
  /\ \E late \in {FALSE, May("dying")} :
       iface' = [e \in DOMAIN iface |->
         IF iface[e].at # c THEN iface[e]
         ELSE IF late THEN Stuck(e) ELSE Home(e)]
  /\ child' = [r \in Runs |->
       IF Cont(r) = c /\ child[r].pc \in Living \ {"born"}
       THEN Process("over", 0) ELSE child[r]]

(* A path leads to what was mounted there last, unless something mounted   *)
(* later on a directory above hides it.                                    *)
Top(c, d) == {i \in DOMAIN mounts[c] :
  /\ mounts[c][i] = d
  /\ \A j \in DOMAIN mounts[c] :
       j > i => mounts[c][j] # d /\ <<d, mounts[c][j]>> \notin Inside}
IsMount(c, d) == Top(c, d) # {}
Mount(c, d) == mounts' = [mounts EXCEPT ![c] = Append(@, d)]

(* unmount fails unless the path is a mount point and nothing is mounted   *)
(* below it.                                                               *)
CanUnmount(c, d) ==
  IsMount(c, d) /\ \A i \in Top(c, d), j \in DOMAIN mounts[c] :
                     j > i => <<mounts[c][j], d>> \notin Inside
Unmounted(c, d) ==
  IF CanUnmount(c, d)
  THEN [mounts EXCEPT ![c] = RemoveAt(@, CHOOSE i \in Top(c, d) : TRUE)]
  ELSE mounts

-----------------------------------------------------------------------------
(* create_jail.  Who is told of a container that could not be started is   *)
(* left to ContainerLifecycle.                                             *)

(* The server queues a container whose earlier run was reported.           *)
Start(c) ==
  /\ At("idle") /\ ~Active(c)
  /\ \E r \in Runs \ Started :
       /\ \A s \in Runs \ Started : r <= s
       /\ obj' = [obj EXCEPT ![r].cont = c]
       /\ w' = [pc |-> "create", run |-> r, i |-> 1]
  /\ UNCHANGED <<host, dict, child, spoilt, dirty>>

Created(jid) ==
  /\ obj' = [obj EXCEPT ![w.run].jid = jid]
  /\ Go(IF Bridges(C) = {} THEN "devfs" ELSE "epair")
  /\ UNCHANGED <<iface, mounts, dict, child, spoilt>>

JailSet ==
  /\ At("create") /\ ~JailExists(C)
  /\ jail' = [jail EXCEPT ![C] = w.run]
  /\ Created("ok")
  /\ UNCHANGED dirty

(* jail_set is refused, if only because a jail of that name is left.  The  *)
(* result is looked at when everything else has been done.                 *)
JailRefused ==
  /\ At("create") /\ (May("jail") \/ JailExists(C))
  /\ Created("refused")
  /\ dirty' = dirty \cup {C}
  /\ UNCHANGED jail

(* Mutant: an exception leaves what was made.                              *)
BugNotDestroyed == w' = Idle
Raise == Go("deattach")
Epair == Me.epair[w.i]
Newest == Last(Me.epair)
New == <<w.run, Len(Me.epair) + 1>>
Wanted == NetsOf[C][w.i]
NextNet ==
  IF w.i < Len(NetsOf[C]) THEN w' = [w EXCEPT !.pc = "epair", !.i = @ + 1]
  ELSE Go(IF Me.epair = <<>> THEN "devfs" ELSE "attach")

(* A network of another driver gets no epair.                              *)
PassOver ==
  /\ At("epair") /\ w.i \notin Bridges(C)
  /\ NextNet
  /\ UNCHANGED <<host, obj, dict, child, spoilt, dirty>>

CreateEpair ==
  /\ At("epair") /\ w.i \in Bridges(C)
  /\ CreateInterface(New)
  /\ obj' = [obj EXCEPT ![w.run].epair = Append(@, New)]
  /\ w' = [w EXCEPT !.pc = "bridge"]
  /\ UNCHANGED <<jail, mounts, dict, child, spoilt, dirty>>

EpairFails ==
  /\ At("epair") /\ w.i \in Bridges(C) /\ May("epair")
  /\ Raise
  /\ UNCHANGED <<host, obj, dict, child, spoilt, dirty>>

AddToBridge ==
  /\ At("bridge")
  /\ BridgeIf(Newest, Wanted)
  /\ NextNet
  /\ UNCHANGED <<jail, mounts, obj, dict, child, spoilt, dirty>>

(* Mutant: an interface that was not added is logged and passed over.       *)
BugPassedOver ==
  /\ At("bridge") /\ May("bridge")
  /\ NextNet
  /\ UNCHANGED <<host, obj, dict, child, spoilt, dirty>>

(* The b end is not added, or cannot be brought up once it was.            *)
BridgeFails ==
  /\ At("bridge") /\ May("bridge")
  /\ iface' \in {iface, [iface EXCEPT ![Newest] = Joined(Newest, Wanted)]}
  /\ Raise
  /\ UNCHANGED <<jail, mounts, obj, dict, child, spoilt, dirty>>

(* Mutant: the container is forked before its mounts are made.              *)
BugForkedEarly == IF w.i < Len(Me.epair) THEN Again ELSE Go("register")
NextAttach == IF w.i < Len(Me.epair) THEN Again ELSE Go("devfs")

(* attach_vnet_ifaces finds the jail by its name, were it another's.        *)
Attach ==
  /\ At("attach") /\ JailExists(C)
  /\ MoveToJail(Epair, C)
  /\ NextAttach
  /\ UNCHANGED <<jail, mounts, obj, dict, child, spoilt, dirty>>

AttachFails ==
  /\ At("attach") /\ (May("attach") \/ ~JailExists(C))
  /\ Spoil /\ NextAttach
  /\ UNCHANGED <<host, obj, dict, child, dirty>>

(* mount_jail_defvs, mount_jail_tmpfs: not where something is mounted.     *)
FsMount(d, next) ==
  /\ IF IsMount(C, d) THEN UNCHANGED mounts ELSE Mount(C, d)
  /\ Go(next)
  /\ UNCHANGED <<jail, iface, dict, child, spoilt, dirty>>

MountDevfs ==
  /\ At("devfs")
  /\ FsMount(FsMounts[1], "tmpfs")
  /\ obj' = [obj EXCEPT ![w.run].devfs = TRUE]
MountTmpfs ==
  /\ At("tmpfs")
  /\ FsMount(FsMounts[2], IF MountsOf[C] = <<>> THEN "register" ELSE "mount")
  /\ UNCHANGED obj

DevfsFails ==
  /\ At("devfs") /\ May("mount")
  /\ obj' = [obj EXCEPT ![w.run].devfs = TRUE]
  /\ Spoil /\ Go("tmpfs")
  /\ UNCHANGED <<host, dict, child, dirty>>
TmpfsFails ==
  /\ At("tmpfs") /\ May("mount")
  /\ Spoil /\ Go(IF MountsOf[C] = <<>> THEN "register" ELSE "mount")
  /\ UNCHANGED <<host, obj, dict, child, dirty>>

NextMount == IF w.i < Len(MountsOf[C]) THEN Again ELSE Go("register")
MountUser ==
  /\ At("mount")
  /\ Mount(C, MountsOf[C][w.i])
  /\ NextMount
  /\ UNCHANGED <<jail, iface, obj, dict, child, spoilt, dirty>>

(* nmount's error is logged: the container will run without the directory. *)
MountUserFails ==
  /\ At("mount") /\ May("mount")
  /\ Spoil /\ NextMount
  /\ UNCHANGED <<host, obj, dict, child, dirty>>

(* mkdir or makedirs raises.                                               *)
MkdirFails ==
  /\ w.pc \in {"devfs", "tmpfs", "mount"} /\ May("mkdir")
  /\ Raise
  /\ UNCHANGED <<host, obj, dict, child, spoilt, dirty>>

Forgotten(r) == [NoObj EXCEPT !.cont = Cont(r)]

(* start_container returns without destroying what a refused jail left,    *)
(* unless the report of the refusal raises.                                *)
GiveUp ==
  /\ At("register") /\ Me.jid = "refused"
  /\ w' = Idle
  /\ obj' = [obj EXCEPT ![w.run] = Forgotten(w.run)]
  /\ UNCHANGED <<host, dict, child, spoilt, dirty>>
RefusalRaises ==
  /\ At("register") /\ Me.jid = "refused" /\ May("notify")
  /\ Raise
  /\ UNCHANGED <<host, obj, dict, child, spoilt, dirty>>

Register ==
  /\ At("register") /\ Me.jid = "ok"
  /\ Go("fork") \/ (May("register") /\ Raise)
  /\ UNCHANGED <<host, obj, dict, child, spoilt, dirty>>

Fork ==
  /\ At("fork")
  /\ dict' = dict \cup {w.run}
  /\ child' = [child EXCEPT ![w.run].pc = "born"]
  /\ w' = Idle
  /\ UNCHANGED <<host, obj, spoilt, dirty>>

(* rfork answers -1 and the object is kept under that pid, in the place of  *)
(* the one an earlier failure left there.                                  *)
Unborn == {r \in dict : child[r].pc = "none"}
ForkFails ==
  /\ At("fork") /\ May("fork")
  /\ dict' = (dict \ Unborn) \cup {w.run}
  /\ dirty' = dirty \cup {Cont(r) : r \in Unborn}
  /\ w' = Idle
  /\ UNCHANGED <<host, obj, child, spoilt>>

-----------------------------------------------------------------------------
(* destroy_jail: after an exception, or when the child has exited.         *)

Reap(r) ==
  /\ At("idle") /\ r \in dict /\ child[r].pc = "over"
  /\ w' = [pc |-> "deattach", run |-> r, i |-> 1]
  /\ UNCHANGED <<host, obj, dict, child, spoilt, dirty>>

Spill(fault) == May(fault) /\ dirty' = dirty \cup {C}

NextDeattach == IF w.i < Len(Me.epair) THEN Again ELSE Go("remove")
Deattach ==
  /\ At("deattach")
  /\ IF Me.epair = <<>> THEN Go("remove") ELSE NextDeattach
  /\ IF Me.epair # <<>> /\ JailExists(C) /\ iface[Epair].at = C
     THEN RemoveFromJail(Epair) \/ (May("deattach") /\ UNCHANGED iface)
     ELSE UNCHANGED iface
  /\ UNCHANGED <<jail, mounts, obj, dict, child, spoilt, dirty>>

AfterRemove == Go(IF Me.epair = <<>> THEN "undevfs" ELSE "ifdestroy")

(* By name, whichever run the jail is of.                                  *)
StopJail ==
  /\ At("remove")
  /\ IF JailExists(C) THEN JailRemove(C) ELSE UNCHANGED <<jail, iface, child>>
  /\ AfterRemove
  /\ UNCHANGED <<mounts, obj, dict, spoilt, dirty>>

StopJailFails ==
  /\ At("remove") /\ JailExists(C) /\ Spill("remove")
  /\ AfterRemove
  /\ UNCHANGED <<host, obj, dict, child, spoilt>>

(* rc.shutdown cannot be run: the exception ends destroy_jail, and what it *)
(* had still to do is never done.                                          *)
StopJailRaises ==
  /\ At("remove") /\ Spill("jexec")
  /\ w' = Idle /\ dict' = dict \ {w.run}
  /\ obj' = [obj EXCEPT ![w.run] = Forgotten(w.run)]
  /\ UNCHANGED <<host, child, spoilt>>

(* The list is emptied whether they could be destroyed or not; one that is *)
(* still in the jail, or in what remains of it, is not found.              *)
NextDestroy ==
  IF w.i < Len(Me.epair) THEN Again /\ UNCHANGED obj
  ELSE Go("undevfs") /\ obj' = [obj EXCEPT ![w.run].epair = <<>>]
DestroyEpair ==
  /\ At("ifdestroy") /\ iface[Epair].at = Host
  /\ DestroyInterface(Epair)
  /\ NextDestroy
  /\ UNCHANGED <<jail, mounts, dict, child, spoilt, dirty>>

DestroyEpairFails ==
  /\ At("ifdestroy") /\ (May("destroy") \/ iface[Epair].at # Host)
  /\ dirty' = dirty \cup {C}
  /\ NextDestroy
  /\ UNCHANGED <<host, dict, child, spoilt>>

UnmountDevfs ==
  /\ At("undevfs")
  /\ mounts' = IF Me.devfs THEN Unmounted(C, "dev") ELSE mounts
  /\ obj' = [obj EXCEPT ![w.run].devfs = FALSE]
  /\ Go("untmpfs")
  /\ UNCHANGED <<jail, iface, dict, child, spoilt, dirty>>

UnmountDevfsFails ==
  /\ At("undevfs") /\ Me.devfs /\ Spill("unmount")
  /\ obj' = [obj EXCEPT ![w.run].devfs = FALSE]
  /\ Go("untmpfs")
  /\ UNCHANGED <<host, dict, child, spoilt>>

(* Mutant: the entry of JAIL_DICT is not popped.                           *)
BugNotPopped == w' = Idle /\ UNCHANGED dict
AllDone == w' = Idle /\ dict' = dict \ {w.run}
AfterTmpfs ==
  IF MountsOf[C] = <<>> THEN AllDone ELSE Go("unmount") /\ UNCHANGED dict
UnmountTmpfs ==
  /\ At("untmpfs")
  /\ mounts' = Unmounted(C, "tmp")
  /\ AfterTmpfs
  /\ UNCHANGED <<jail, iface, obj, child, spoilt, dirty>>

UnmountTmpfsFails ==
  /\ At("untmpfs") /\ Spill("unmount")
  /\ AfterTmpfs
  /\ UNCHANGED <<host, obj, child, spoilt>>

NextUnmount ==
  IF w.i < Len(MountsOf[C]) THEN Again /\ UNCHANGED dict ELSE AllDone
UnmountUser ==
  /\ At("unmount")
  /\ mounts' = Unmounted(C, MountsOf[C][w.i])
  /\ NextUnmount
  /\ UNCHANGED <<jail, iface, obj, child, spoilt, dirty>>

UnmountFails ==
  /\ At("unmount") /\ Spill("unmount")
  /\ NextUnmount
  /\ UNCHANGED <<host, obj, child, spoilt>>

-----------------------------------------------------------------------------
(* The child, the stop request, the end of the worker.                     *)

ChildAt(r, pc, i) == child' = [child EXCEPT ![r] = Process(pc, i)]
OnlyChild == UNCHANGED <<jail, mounts, obj, dict, w, dirty>>
Nets(r) == NetsOf[Cont(r)]
Fail(r, fault) == May(fault) /\ spoilt' = spoilt \cup {r}

(* jail_attach, by name.                                                   *)
Enter(r) ==
  /\ child[r].pc = "born"
  /\ IF JailExists(Cont(r)) THEN ChildAt(r, "config", 1)
     ELSE ChildAt(r, "over", 0)
  /\ UNCHANGED <<iface, spoilt>> /\ OnlyChild

(* setup_network goes through the list: the address on its i-th network    *)
(* goes to the i-th epair, if that is in the jail; then the network is     *)
(* reached through its first host.                                         *)
Turn(r) == child[r].pc = "config" /\ child[r].i \in Bridges(Cont(r))
Configure(r) ==
  LET i == child[r].i
      e == obj[r].epair[i]
      n == Nets(r)[i]
  IN  /\ Turn(r) /\ i <= Len(obj[r].epair)
      /\ IF iface[e].at # Cont(r)
         THEN spoilt' = spoilt \cup {r} /\ UNCHANGED iface
         ELSE \/ SetAddress(e, n) /\ UNCHANGED spoilt
              \/ /\ Fail(r, "address")
                 /\ iface' \in {iface, [iface EXCEPT ![e] = Addressed(e, n)]}
      /\ child' = [child EXCEPT ![r].pc = "route"]
      /\ OnlyChild

(* There are fewer epairs than networks before this one: the IndexError is *)
(* not caught.                                                             *)
NoSuchEpair(r) ==
  /\ Turn(r) /\ child[r].i > Len(obj[r].epair)
  /\ ChildAt(r, "over", 0)
  /\ UNCHANGED <<iface, spoilt>> /\ OnlyChild

OtherNetwork(r) ==
  /\ child[r].pc = "config" /\ Bridges(Cont(r)) # {}
  /\ child[r].i \in DOMAIN Nets(r) \ Bridges(Cont(r))
  /\ child' = [child EXCEPT ![r].i = @ + 1]
  /\ UNCHANGED <<iface, spoilt>> /\ OnlyChild

(* add_route: a gateway must be on a network of the jail.                  *)
HasAddress(c, n) ==
  \E e \in DOMAIN iface : iface[e].at = c /\ iface[e].addr = n
AddRoute(r, to, via, pc) ==
  LET after(routes) ==
        child' = [child EXCEPT ![r] = [pc |-> pc, i |-> @.i + 1,
                                       routes |-> routes]]
  IN  /\ IF HasAddress(Cont(r), via)
         THEN \/ after(child[r].routes \cup {to}) /\ UNCHANGED spoilt
              \/ after(child[r].routes) /\ Fail(r, "route")
         ELSE after(child[r].routes) /\ spoilt' = spoilt \cup {r}
      /\ UNCHANGED iface /\ OnlyChild

NetworkRoute(r) ==
  /\ child[r].pc = "route"
  /\ LET n == Nets(r)[child[r].i] IN AddRoute(r, n, n, "config")
FirstBridge(c) ==
  CHOOSE i \in Bridges(c) : \A j \in Bridges(c) : i <= j
DefaultRoute(r) ==
  /\ child[r].pc = "config" /\ child[r].i > Len(Nets(r))
  /\ Bridges(Cont(r)) # {}
  /\ AddRoute(r, Host, Nets(r)[FirstBridge(Cont(r))], "ready")

Exec(r) ==
  /\ \/ child[r].pc = "ready"
     \/ child[r].pc = "config" /\ Bridges(Cont(r)) = {}
  /\ child' = [child EXCEPT ![r].pc = "running", ![r].i = 0]
  /\ UNCHANGED <<iface, spoilt>> /\ OnlyChild

(* It ends, raises, or is killed by the pid that write_pid left.           *)
Exit(r) ==
  /\ child[r].pc \in Living
  /\ ChildAt(r, "over", 0)
  /\ UNCHANGED <<iface, spoilt>> /\ OnlyChild

(* A stop request removes the jail if the signal did not end it; the row    *)
(* of a container whose worker was killed still says "running".            *)
Stop(c) ==
  /\ JailExists(c) /\ (Active(c) \/ c \in dirty)
  /\ JailRemove(c)
  /\ spoilt' = spoilt \cup {r \in Started : Cont(r) = c}
  /\ UNCHANGED <<mounts, obj, dict, w, dirty>>

(* The last process of a removed jail has ended.                           *)
ComeHome(e) ==
  /\ iface[e].at = Dying
  /\ RemoveFromJail(e)
  /\ UNCHANGED <<jail, mounts, obj, dict, w, child, spoilt, dirty>>

(* The worker is killed.  Its objects are gone, its jails are not; a child *)
(* has its own copy.                                                       *)
Kill ==
  /\ May("kill")
  /\ dirty' = dirty \cup {c \in Containers : Active(c)}
  /\ dict' = {} /\ w' = Idle
  /\ obj' = [r \in Runs |-> IF child[r].pc \in Living THEN obj[r]
                             ELSE Forgotten(r)]
  /\ UNCHANGED <<host, child, spoilt>>

-----------------------------------------------------------------------------
Make ==
  \/ JailSet \/ JailRefused \/ PassOver \/ CreateEpair \/ EpairFails
  \/ AddToBridge \/ BridgeFails \/ Attach \/ AttachFails
  \/ MountDevfs \/ DevfsFails \/ MountTmpfs \/ TmpfsFails
  \/ MountUser \/ MountUserFails \/ MkdirFails
  \/ Register \/ GiveUp \/ RefusalRaises \/ Fork \/ ForkFails
Destroy ==
  \/ Deattach \/ StopJail \/ StopJailFails \/ StopJailRaises
  \/ DestroyEpair \/ DestroyEpairFails
  \/ UnmountDevfs \/ UnmountDevfsFails \/ UnmountTmpfs \/ UnmountTmpfsFails
  \/ UnmountUser \/ UnmountFails

Next ==
  \/ \E c \in Containers : Start(c) \/ Stop(c)
  \/ Make \/ Destroy
  \/ \E r \in Started : \/ Reap(r) \/ Enter(r) \/ Configure(r)
                        \/ NoSuchEpair(r) \/ OtherNetwork(r)
                        \/ NetworkRoute(r) \/ DefaultRoute(r)
                        \/ Exec(r) \/ Exit(r)
  \/ \E e \in DOMAIN iface : ComeHome(e)
  \/ Kill

Spec == Init /\ [][Next]_vars

-----------------------------------------------------------------------------
(* Properties.                                                             *)

(* When the worker has done with a container, whether it ran, was stopped  *)
(* or could not be made, nothing of it is left on the host: no jail, no    *)
(* epair and no mount.  Except after a refused jail, a failed call of the  *)
(* teardown (such as the destruction of an epair that a dying jail still   *)
(* keeps), or a killed worker, and for mounts below one another.           *)
Left(c) == JailExists(c) \/ \E e \in DOMAIN iface : Cont(e[1]) = c
NothingLeft ==
  \A c \in Containers \ dirty :
    ~Active(c) => ~Left(c) /\ Range(mounts[c]) \subseteq Nested(c)

(* A program runs in the jail made for it, with an epair for each of its   *)
(* bridges, whatever other networks are in its list: in that jail, on its  *)
(* bridge, with its address and up at both ends, with its routes and with  *)
(* every mount, unless a call failed on the way or the container was       *)
(* stopped.                                                                *)
Given(r, i) == iface[obj[r].epair[i]] =
  [at |-> Cont(r), bridge |-> Nets(r)[i], addr |-> Nets(r)[i],
   up |-> {"a", "b"}]
ReadyToRun ==
  \A r \in dict \ spoilt : child[r].pc = "running" =>
    LET bridges == Bridges(Cont(r)) IN
    /\ jail[Cont(r)] = r
    /\ bridges = DOMAIN obj[r].epair /\ \A i \in bridges : Given(r, i)
    /\ bridges # {} =>
         child[r].routes = {Nets(r)[i] : i \in bridges} \cup {Host}
    /\ Dests(Cont(r)) \subseteq Range(mounts[Cont(r)])

(* Whatever failed, no interface of a running program has an address of a  *)
(* network other than the one its bridge belongs to, although the child    *)
(* goes by positions in a list the worker built of some of the networks.   *)
(* When no other network comes before a bridge in the list, none ever has. *)
AddressOnItsBridge ==
  \A e \in DOMAIN iface :
    Aligned(Cont(e[1])) \/ child[e[1]].pc = "running" =>
      iface[e].addr \in {Host, iface[e].bridge}
=============================================================================
