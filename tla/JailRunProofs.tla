---------------------------- MODULE JailRunProofs ----------------------------
(***************************************************************************)
(* What a run is given and that nothing of it is left, for every set of    *)
(* containers, whatever their networks and mounts, and whichever calls     *)
(* fail.                                                                   *)
(***************************************************************************)
EXTENDS JailResourcesProofs

Link(r, i, at, addr, up) ==
  LET f == iface[<<r, i>>]
  IN  f.at = at /\ f.bridge = Nets(r)[i] /\ f.addr = addr /\ f.up = up
Has(r, d) == d \in Range(mounts[Cont(r)])

(* A run that is being made and of which no call failed: its jail, its      *)
(* epairs and its mounts are as far as the place of the worker says.  Its   *)
(* epairs are those of the same positions in the list of its networks when   *)
(* the bridges come first in it; otherwise the child will not get to run.   *)
Waits(i) == w.pc = "bridge" /\ i = Len(Me.epair)
InJail(i) == w.pc \in Equipped /\ (w.pc = "attach" => i < w.i)
Linked(i) ==
  IF Waits(i)
  THEN iface[<<w.run, i>>].at = Host /\ iface[<<w.run, i>>].addr = Host
       /\ iface[<<w.run, i>>].up = {}
  ELSE Link(w.run, i, IF InJail(i) THEN C ELSE Host, Host, {"b"})
MountsMade ==
  /\ w.pc \in {"tmpfs", "mount", "register", "fork"} => Has(w.run, "dev")
  /\ w.pc \in {"mount", "register", "fork"} => Has(w.run, "tmp")
  /\ w.pc = "mount" => \A j \in 1..w.i - 1 : Has(w.run, MountsOf[C][j])
  /\ w.pc \in {"register", "fork"} => \A d \in Dests(C) : Has(w.run, d)
MakingReady ==
  w.pc \in Making /\ w.run \notin spoilt =>
    /\ w.pc # "create" /\ Me.jid = "ok" => jail[C] = w.run
    /\ w.pc = "fork" => Me.jid = "ok"
    /\ Aligned(C) => \A i \in 1..Len(Me.epair) : Linked(i)
    /\ MountsMade

(* ... and one whose child lives: how far the child has configured it.       *)
Set(r, i) == \/ child[r].pc \in {"ready", "running"}
             \/ child[r].pc = "config" /\ i < child[r].i
             \/ child[r].pc = "route" /\ i <= child[r].i
Equip(r, i) == Link(r, i, Cont(r), IF Set(r, i) THEN Nets(r)[i] ELSE Host,
                    IF Set(r, i) THEN {"a", "b"} ELSE {"b"})
Reached(r, i) == {Nets(r)[j] : j \in {k \in Bridges(Cont(r)) : k < i}}
Routed(r) ==
  /\ child[r].pc = "born" => child[r].routes = {}
  /\ child[r].pc \in {"config", "route"} => child[r].routes = Reached(r, child[r].i)
  /\ child[r].pc \in {"ready", "running"} /\ Bridges(Cont(r)) # {} =>
       child[r].routes = {Nets(r)[j] : j \in Bridges(Cont(r))} \cup {Host}
ReadyRun(r) ==
  /\ jail[Cont(r)] = r
  /\ Aligned(Cont(r)) => \A i \in Bridges(Cont(r)) : Equip(r, i)
  /\ Routed(r)
  /\ \A d \in Dests(Cont(r)) : Has(r, d)
RunsReady == \A r \in dict \ spoilt : child[r].pc \in Living => ReadyRun(r)
NoRoutes == \A r \in Runs : child[r].pc = "none" => child[r].routes = {}

Ready == MakingReady /\ RunsReady /\ NoRoutes

-----------------------------------------------------------------------------
(* What a step leaves alone.                                                *)

LEMMA InitReady == Init => Ready
<1> SUFFICES ASSUME Init PROVE Ready OBVIOUS
<1>1. dict = {} /\ w.pc = "idle" /\ \A r \in Runs : child[r].routes = {}
  BY DEF Init, Process, Idle
<1> QED BY <1>1 DEF Ready, MakingReady, RunsReady, NoRoutes, Making

(* A run whose child lives has an epair for each of its bridges, and at the  *)
(* position of the bridge when the bridges come first in the list.          *)
LEMMA AlignedEpairs ==
  ASSUME Types, Structure, NEW r \in Started, child[r].pc \in Living, Aligned(Cont(r)),
         NEW i \in Bridges(Cont(r))
  PROVE  i \in 1..Len(obj[r].epair) /\ <<r, i>> \in DOMAIN iface
<1>1. Complete(r) /\ Len(obj[r].epair) \in Nat BY ForkedComplete
<1>2. i \in 1..Needs(Cont(r)) BY DEF Aligned, Needs
<1> QED BY <1>1, <1>2 DEF Complete, Bridged

(* The epair that a child configures is the one its position names.          *)
LEMMA ConfiguredEpair ==
  ASSUME Types, Structure, NEW r \in Started, Configure(r)
  PROVE  /\ child[r].pc = "config" /\ child[r].i \in Bridges(Cont(r))
         /\ obj[r].epair[child[r].i] = <<r, child[r].i>>
         /\ <<r, child[r].i>> \in DOMAIN iface
         /\ child'[r].pc = "route" /\ child'[r].i = child[r].i
         /\ child'[r].routes = child[r].routes
<1>1. /\ child[r].pc = "config" /\ r \in Runs /\ child[r].i \in Bridges(Cont(r))
      /\ child[r].i <= Len(obj[r].epair)
  BY DEF Configure, Started, Turn
<1>2. Complete(r) /\ Listed(r) /\ Len(obj[r].epair) \in Nat
  BY <1>1, ForkedComplete DEF Living
<1>3. child[r].i \in Nat /\ child[r].i >= 1 BY <1>1, ContOf, Counted
<1>4. child[r].i \in 1..Len(obj[r].epair) BY <1>1, <1>2, <1>3
<1>5. child'[r] = [child[r] EXCEPT !.pc = "route"] /\ child[r] \in ChildType
  BY <1>1 DEF Configure, Types, ChildT
<1>6. child'[r].pc = "route" /\ child'[r].i = child[r].i /\ child'[r].routes = child[r].routes
  BY <1>5 DEF ChildType
<1> QED BY <1>1, <1>2, <1>4, <1>6 DEF Listed, Complete, Bridged

(* Where the worker has an epair of its list in hand, it is its own.         *)
LEMMA WorkerEpair ==
  ASSUME Types, Structure, Busy
  PROVE  /\ w.pc \in {"attach", "ifdestroy"} => Epair = <<w.run, w.i>>
         /\ w.pc = "deattach" /\ Me.epair # <<>> => Epair = <<w.run, w.i>>
         /\ w.pc = "bridge" => Newest = <<w.run, Len(Me.epair)>>
<1>1. Len(Me.epair) \in Nat /\ w.i \in Nat
  BY InHand DEF Structure, ObjType, Types, WorkT, WorkerType
<1>2. \/ w.pc \in {"attach", "ifdestroy"}
      \/ w.pc = "deattach" /\ Me.epair # <<>>
      => w.i <= Len(Me.epair)
  BY <1>1 DEF Structure, WorkerInv, Stage
<1> QED BY <1>2, EpairInHand, NewestInHand

(* The worker does not touch the epairs of another run, as long as that is   *)
(* of another container; nor does a child, nor a stop of another container.  *)
LEMMA IfaceFrame ==
  ASSUME Types, Structure, Next, NEW e \in DOMAIN iface,
         ~(Work /\ (e[1] = w.run \/ C = Cont(e[1]))), ~Stop(Cont(e[1])),
         e[1] \in Started => ~Configure(e[1]), iface[e].at # Dying
  PROVE  e \in DOMAIN iface' /\ iface'[e] = iface[e]
<1>1. CASE UNCHANGED iface BY <1>1
<1>2. iface[e].at \in {Host, Cont(e[1])} /\ Host \notin Containers /\ iface \in [DOMAIN iface -> IfaceType]
  BY ResourceAssumption DEF Structure, Ifaces, Types, IfaceT
<1>3. ASSUME NEW c \in Containers, c # Cont(e[1]), JailRemove(c)
      PROVE  e \in DOMAIN iface' /\ iface'[e] = iface[e]
  <2>1. iface[e].at # c BY <1>2, <1>3
  <2> QED BY <1>3, <2>1 DEF JailRemove
<1>4. ASSUME NEW f, f # e, NEW v, iface' = [iface EXCEPT ![f] = v]
      PROVE  e \in DOMAIN iface' /\ iface'[e] = iface[e]
  BY <1>2, <1>4
<1>5. CASE Work
  <2>1. Busy /\ C \in Containers /\ \A i : e # <<w.run, i>>
    BY <1>5, Moves, InHand DEF Structure
  <2>2. CASE CreateEpair
    <3>1. e # New BY <2>1 DEF New
    <3> QED BY <2>2, <3>1 DEF CreateEpair, CreateInterface
  <2>3. CASE AddToBridge \/ BridgeFails
    <3>1. e # Newest BY <2>1, <2>3, WorkerEpair DEF AddToBridge, BridgeFails, At
    <3>2. \/ UNCHANGED iface
          \/ iface' = [iface EXCEPT ![Newest] = Joined(Newest, Wanted)]
          \/ iface' = [iface EXCEPT ![Newest] = Up(Joined(Newest, Wanted), "b")]
      BY <2>3 DEF AddToBridge, BridgeFails, BridgeIf
    <3> QED BY <1>1, <1>4, <3>1, <3>2
  <2>4. CASE Attach
    <3>1. e # Epair BY <2>1, <2>4, WorkerEpair DEF Attach, At
    <3>2. iface' = [iface EXCEPT ![Epair] = [iface[Epair] EXCEPT !.at = C]]
      BY <2>4 DEF Attach, MoveToJail
    <3> QED BY <1>4, <3>1, <3>2
  <2>5. CASE Deattach
    <3>1. Me.epair # <<>> => e # Epair BY <2>1, <2>5, WorkerEpair DEF Deattach, At
    <3> QED BY <1>1, <1>4, <2>5, <3>1 DEF Deattach, RemoveFromJail
  <2>6. CASE StopJail BY <1>1, <1>3, <1>5, <2>1, <2>6 DEF StopJail
  <2>7. CASE DestroyEpair
    <3>1. e # Epair BY <2>1, <2>7, WorkerEpair DEF DestroyEpair, At
    <3> QED BY <1>1, <2>7, <3>1 DEF DestroyEpair, DestroyInterface, Restrict
  <2> QED BY <1>1, <1>5, <2>2, <2>3, <2>4, <2>5, <2>6, <2>7, Moves
<1>6. ASSUME NEW c \in Containers, Stop(c)
      PROVE  e \in DOMAIN iface' /\ iface'[e] = iface[e]
  BY <1>3, <1>6 DEF Stop
<1>7. ASSUME NEW r \in Started, Configure(r)
      PROVE  e \in DOMAIN iface' /\ iface'[e] = iface[e]
  <2> DEFINE f == obj[r].epair[child[r].i]
             n == Nets(r)[child[r].i]
  <2>1. f # e
    <3>1. f = <<r, child[r].i>> BY <1>7, ConfiguredEpair
    <3>2. f[1] = r BY <3>1
    <3> QED BY <1>7, <3>2
  <2>2. \/ UNCHANGED iface
        \/ iface' = [iface EXCEPT ![f] = Addressed(f, n)]
        \/ iface' = [iface EXCEPT ![f] = Up(Addressed(f, n), "a")]
    BY <1>7 DEF Configure, SetAddress
  <2> QED BY <1>1, <1>4, <2>1, <2>2
<1>8. ASSUME NEW r \in Started, Reap(r) \/ ChildStep(r), ~Configure(r) PROVE UNCHANGED iface
  BY <1>8, ChildMoves DEF Reap, host
<1>9. ASSUME NEW c \in Containers, Start(c) PROVE UNCHANGED iface BY <1>9 DEF Start, host
<1>10. CASE Kill BY <1>10 DEF Kill, host
<1>11. ASSUME NEW f \in DOMAIN iface, ComeHome(f)
      PROVE  e \in DOMAIN iface' /\ iface'[e] = iface[e]
  BY <1>4, <1>11 DEF ComeHome, RemoveFromJail
<1> QED BY <1>1, <1>5, <1>6, <1>7, <1>8, <1>9, <1>10, <1>11, Steps

LEMMA JailFrame ==
  ASSUME Types, Structure, Next, NEW c \in Containers, ~(Work /\ C = c), ~Stop(c)
  PROVE  jail'[c] = jail[c]
<1>1. ASSUME NEW d \in Containers, d # c, JailRemove(d) PROVE jail'[c] = jail[c]
  BY <1>1 DEF JailRemove, Types, JailT
<1>2. CASE Work
  <2>1. C \in Containers /\ C # c BY <1>2, Moves, InHand DEF Structure
  <2>2. JailSet => jail'[c] = jail[c] BY <2>1 DEF JailSet, Types, JailT
  <2>3. StopJail => jail'[c] = jail[c] BY <1>1, <2>1 DEF StopJail
  <2> QED BY <1>2, <2>2, <2>3, Moves
<1>3. ASSUME NEW d \in Containers, Start(d) \/ Stop(d) PROVE jail'[c] = jail[c]
  BY <1>1, <1>3 DEF Start, Stop, host
<1>4. ASSUME NEW r \in Started, Reap(r) \/ ChildStep(r) PROVE jail'[c] = jail[c]
  BY <1>4, ChildMoves DEF Reap, host
<1>5. Kill \/ (\E e \in DOMAIN iface : ComeHome(e)) => UNCHANGED jail
  BY DEF Kill, host, ComeHome
<1> QED BY <1>2, <1>3, <1>4, <1>5, Steps

LEMMA MountFrame ==
  ASSUME Types, Structure, Next, NEW c \in Containers, ~(Work /\ C = c)
  PROVE  mounts'[c] = mounts[c]
<1>1. ASSUME Work PROVE C \in Containers /\ C # c
  BY <1>1, Moves, InHand DEF Structure
<1>2. CASE Work
  <2> USE DEF Types, MountT
  <2>1. \A d : Mount(C, d) => mounts'[c] = mounts[c] BY <1>1, <1>2 DEF Mount
  <2>2. \A d : Unmounted(C, d)[c] = mounts[c] BY <1>1, <1>2 DEF Unmounted
  <2>3. MountDevfs \/ MountTmpfs \/ MountUser => mounts'[c] = mounts[c]
    BY <2>1 DEF MountDevfs, MountTmpfs, MountUser, FsMount
  <2>4. UnmountDevfs \/ UnmountTmpfs \/ UnmountUser => mounts'[c] = mounts[c]
    BY <2>2 DEF UnmountDevfs, UnmountTmpfs, UnmountUser
  <2> QED BY <1>2, <2>3, <2>4, Moves
<1>3. ASSUME NEW d \in Containers, Start(d) \/ Stop(d) PROVE mounts'[c] = mounts[c]
  BY <1>3 DEF Start, Stop, host
<1>4. ASSUME NEW r \in Started, Reap(r) \/ ChildStep(r) PROVE mounts'[c] = mounts[c]
  BY <1>4, ChildMoves DEF Reap, host
<1>5. Kill \/ (\E e \in DOMAIN iface : ComeHome(e)) => UNCHANGED mounts
  BY DEF Kill, host, ComeHome
<1> QED BY <1>2, <1>3, <1>4, <1>5, Steps

-----------------------------------------------------------------------------
(* The child.                                                               *)

(* A route that did not fail was added.                                      *)
LEMMA RouteAdded ==
  ASSUME Types, NEW r \in Runs, NEW to, NEW via, NEW pc, AddRoute(r, to, via, pc), r \notin spoilt'
  PROVE  /\ UNCHANGED iface /\ child'[r].pc = pc /\ child'[r].i = child[r].i + 1
         /\ child'[r].routes = child[r].routes \cup {to}
<1>1. child' = [child EXCEPT ![r] = [pc |-> pc, i |-> child[r].i + 1,
                                     routes |-> child[r].routes \cup {to}]]
  BY DEF AddRoute, Fail
<1>2. UNCHANGED iface BY DEF AddRoute
<1> QED BY <1>1, <1>2 DEF Types, ChildT

(* What becomes of the ends of an interface that are up.                     *)
LEMMA UpFields ==
  ASSUME Types, NEW e \in DOMAIN iface
  PROVE  /\ \A n : /\ Addressed(e, n).up = iface[e].up
                   /\ Up(Addressed(e, n), "a").up = iface[e].up \cup {"a"}
                   /\ Joined(e, n).up = iface[e].up
                   /\ Up(Joined(e, n), "b").up = iface[e].up \cup {"b"}
         /\ \A c : [iface[e] EXCEPT !.at = c].up = iface[e].up
<1>1. iface[e] = [at |-> iface[e].at, bridge |-> iface[e].bridge, addr |-> iface[e].addr,
                  up |-> iface[e].up]
  BY DEF Types, IfaceT, IfaceType
<1> QED BY <1>1 DEF Joined, Addressed, Up

(* An address that was set did so on the epair of that position.             *)
LEMMA AddressSet ==
  ASSUME Types, Structure, NEW r \in Started, Configure(r), r \notin spoilt',
         Aligned(Cont(r)), \A i \in Bridges(Cont(r)) : Equip(r, i)
  PROVE  \A i \in Bridges(Cont(r)) :
           IF i = child[r].i
           THEN /\ iface'[<<r, i>>].at = Cont(r) /\ iface'[<<r, i>>].bridge = Nets(r)[i]
                /\ iface'[<<r, i>>].addr = Nets(r)[i] /\ iface'[<<r, i>>].up = {"a", "b"}
           ELSE iface'[<<r, i>>] = iface[<<r, i>>]
<1> DEFINE k == child[r].i
           e == <<r, k>>
           n == Nets(r)[k]
           f == Up(Addressed(e, n), "a")
<1>1. /\ child[r].pc = "config" /\ k \in Bridges(Cont(r)) /\ obj[r].epair[k] = e
      /\ e \in DOMAIN iface /\ r \in Runs
  BY ConfiguredEpair DEF Started
<1>2. /\ iface[e].at = Cont(r) /\ iface[e].bridge = n /\ iface[e].addr = Host
      /\ iface[e].up = {"b"}
  <2>1. k \in Nat BY <1>1, ContOf, Counted
  <2>2. ~Set(r, k) BY <1>1, <2>1 DEF Set
  <2> QED BY <1>1, <2>2 DEF Equip, Link
<1>3. iface' = [iface EXCEPT ![e] = f]
  <2>1. iface[e].at = Cont(r) BY <1>2
  <2>2. ~Fail(r, "address") BY DEF Fail
  <2> QED BY <1>1, <2>1, <2>2 DEF Configure, SetAddress
<1> HIDE DEF e, k, n
<1>4. f.at = Cont(r) /\ f.bridge = n /\ f.addr = n /\ f.up = {"a", "b"}
  <2>1. f.at = Cont(r) /\ f.bridge = n /\ f.addr = n BY <1>1, <1>2, Fields
  <2>2. f.up = {"b"} \cup {"a"} BY <1>1, <1>2, UpFields
  <2> QED BY <2>1, <2>2
<1> HIDE DEF f
<1>5. \A x \in DOMAIN iface : iface'[x] = IF x = e THEN f ELSE iface[x]
  BY <1>3 DEF Types, IfaceT
<1>6. \A i \in Bridges(Cont(r)) : <<r, i>> \in DOMAIN iface /\ (<<r, i>> = e <=> i = k)
  <2>1. child[r].pc \in Living BY <1>1 DEF Living
  <2> QED BY <2>1, AlignedEpairs DEF e
<1>7. \A i \in Bridges(Cont(r)) : iface'[<<r, i>>] = IF i = k THEN f ELSE iface[<<r, i>>]
  BY <1>5, <1>6
<1> QED BY <1>4, <1>7 DEF n, k

LEMMA ChildReady ==
  ASSUME Types, Structure, Next, NEW r \in Started, ChildStep(r), ReadyRun(r), r \notin spoilt',
         child'[r].pc \in Living
  PROVE  ReadyRun(r)'
<1> DEFINE B == Bridges(Cont(r))
           k == child[r].i
<1>1. UNCHANGED <<jail, mounts, obj>> BY ChildMoves
<1>2. Cont(r)' = Cont(r) /\ Nets(r)' = Nets(r) BY <1>1 DEF Cont, Nets
<1>3. SUFFICES (Aligned(Cont(r)) => \A i \in B : Equip(r, i)') /\ Routed(r)'
  BY <1>1, <1>2 DEF ReadyRun, Has
<1>4. /\ r \in Runs /\ B \subseteq 1..Len(Nets(r)) /\ Len(Nets(r)) \in Nat
      /\ child[r] \in ChildType /\ k \in Nat
  BY ContOf, Counted DEF Types, ChildT, ChildType
<1>5. (Aligned(Cont(r)) => \A i \in B : Equip(r, i)) /\ Routed(r) BY DEF ReadyRun
<1>6. ASSUME UNCHANGED iface, \A i \in B : Set(r, i)' <=> Set(r, i)
      PROVE  Aligned(Cont(r)) => \A i \in B : Equip(r, i)'
  BY <1>2, <1>5, <1>6 DEF Equip, Link
<1>7. \A i : Reached(r, i)' = Reached(r, i) BY <1>2 DEF Reached
<1>8. CASE Enter(r)
  <2>1. /\ child[r].pc = "born" /\ UNCHANGED iface
        /\ child'[r] \in {Process("config", 1), Process("over", 0)}
    BY <1>4, <1>8 DEF Enter, ChildAt, Types, ChildT
  <2>2. child'[r].pc = "config" /\ child'[r].i = 1 /\ child'[r].routes = {}
    BY <2>1 DEF Process, Living
  <2>3. \A i \in B : ~Set(r, i)' /\ ~Set(r, i) BY <1>4, <2>1, <2>2 DEF Set
  <2>4. Reached(r, 1) = {}
    <3>1. {j \in B : j < 1} = {} BY <1>4
    <3> QED BY <3>1 DEF Reached
  <2>5. Routed(r)' BY <1>7, <2>2, <2>4 DEF Routed
  <2> QED BY <1>6, <2>1, <2>3, <2>5
<1>9. CASE Configure(r)
  <2>1. /\ child'[r].pc = "route" /\ child'[r].i = k /\ child'[r].routes = child[r].routes
        /\ child[r].pc = "config"
    BY <1>9, ConfiguredEpair
  <2>2. \A i \in B : (Set(r, i)' <=> i <= k) /\ (Set(r, i) <=> i < k)
    BY <2>1 DEF Set
  <2>3. ASSUME Aligned(Cont(r)), NEW i \in B PROVE Equip(r, i)'
    <3> \A j \in B :
          IF j = k
          THEN /\ iface'[<<r, j>>].at = Cont(r) /\ iface'[<<r, j>>].bridge = Nets(r)[j]
               /\ iface'[<<r, j>>].addr = Nets(r)[j] /\ iface'[<<r, j>>].up = {"a", "b"}
          ELSE iface'[<<r, j>>] = iface[<<r, j>>]
      BY <1>5, <1>9, <2>3, AddressSet
    <3>1. CASE i = k
      <4>1. Set(r, i)' BY <1>4, <2>2, <3>1
      <4>2. /\ iface'[<<r, i>>].at = Cont(r) /\ iface'[<<r, i>>].bridge = Nets(r)[i]
            /\ iface'[<<r, i>>].addr = Nets(r)[i] /\ iface'[<<r, i>>].up = {"a", "b"}
        BY <3>1
      <4> QED BY <1>2, <4>1, <4>2 DEF Equip, Link
    <3>2. CASE i # k
      <4>1. Set(r, i)' <=> Set(r, i) BY <1>4, <2>2, <3>2
      <4>2. iface'[<<r, i>>] = iface[<<r, i>>] BY <3>2
      <4> QED BY <1>2, <1>5, <2>3, <4>1, <4>2 DEF Equip, Link
    <3> QED BY <3>1, <3>2
  <2>4. Routed(r)' BY <1>5, <1>7, <2>1 DEF Routed
  <2> QED BY <2>3, <2>4
<1>10. CASE NoSuchEpair(r)
  <2>1. child'[r].pc = "over" BY <1>4, <1>10 DEF NoSuchEpair, ChildAt, Process, Types, ChildT
  <2> QED BY <2>1 DEF Living
<1>11. CASE OtherNetwork(r)
  <2>1. /\ child[r].pc = "config" /\ UNCHANGED iface /\ child'[r].pc = "config"
        /\ child'[r].i = k + 1 /\ child'[r].routes = child[r].routes /\ k \notin B
    <3>1. child'[r] = [child[r] EXCEPT !.i = @ + 1] BY <1>4, <1>11 DEF OtherNetwork, Types, ChildT
    <3> QED BY <1>4, <1>11, <3>1 DEF OtherNetwork, ChildType
  <2>2. \A i \in B : i < k + 1 <=> i < k BY <1>4, <2>1
  <2>3. \A i \in B : Set(r, i)' <=> Set(r, i) BY <2>1, <2>2 DEF Set
  <2>4. Reached(r, k + 1) = Reached(r, k)
    <3>1. {j \in B : j < k + 1} = {j \in B : j < k} BY <2>2
    <3> QED BY <3>1 DEF Reached
  <2>5. Routed(r)' BY <1>5, <1>7, <2>1, <2>4 DEF Routed
  <2> QED BY <1>6, <2>1, <2>3, <2>5
<1>12. CASE NetworkRoute(r)
  <2>1. /\ child[r].pc = "route" /\ UNCHANGED iface /\ child'[r].pc = "config"
        /\ child'[r].i = k + 1 /\ child'[r].routes = child[r].routes \cup {Nets(r)[k]}
    BY <1>4, <1>12, RouteAdded DEF NetworkRoute
  <2>2. k \in B BY <1>4, <2>1 DEF Structure, ChildInv
  <2>3. \A i \in B : Set(r, i)' <=> Set(r, i) BY <1>4, <2>1 DEF Set
  <2>4. child[r].routes = Reached(r, k) BY <1>5, <2>1 DEF Routed
  <2>5. Reached(r, k) \cup {Nets(r)[k]} = Reached(r, k + 1)
    <3>1. \A j : j \in {i \in B : i < k + 1} <=> j \in {i \in B : i < k} \/ j = k
      BY <1>4, <2>2
    <3> QED BY <3>1 DEF Reached
  <2>6. Routed(r)' BY <1>7, <2>1, <2>4, <2>5 DEF Routed
  <2> QED BY <1>6, <2>1, <2>3, <2>6
<1>13. CASE DefaultRoute(r)
  <2>1. /\ child[r].pc = "config" /\ UNCHANGED iface /\ child'[r].pc = "ready"
        /\ child'[r].routes = child[r].routes \cup {Host} /\ k > Len(Nets(r))
    BY <1>4, <1>13, RouteAdded DEF DefaultRoute
  <2>2. \A i \in B : i < k BY <1>4, <2>1
  <2>3. \A i \in B : Set(r, i)' /\ Set(r, i) BY <2>1, <2>2 DEF Set
  <2>4. child[r].routes = Reached(r, k) BY <1>5, <2>1 DEF Routed
  <2>5. Reached(r, k) = {Nets(r)[j] : j \in B}
    <3>1. {j \in B : j < k} = B BY <2>2
    <3> QED BY <3>1 DEF Reached
  <2>6. Routed(r)' BY <1>2, <2>1, <2>4, <2>5 DEF Routed
  <2> QED BY <1>6, <2>1, <2>3, <2>6
<1>14. CASE Exec(r)
  <2>1. /\ child[r].pc = "ready" \/ (child[r].pc = "config" /\ B = {})
        /\ child'[r].pc = "running" /\ child'[r].routes = child[r].routes /\ UNCHANGED iface
    BY <1>4, <1>14 DEF Exec, Types, ChildT, ChildType
  <2>2. CASE child[r].pc = "ready"
    <3>1. \A i \in B : Set(r, i)' /\ Set(r, i) BY <2>1, <2>2 DEF Set
    <3>2. Routed(r)' BY <1>2, <1>5, <2>1, <2>2 DEF Routed
    <3> QED BY <1>6, <2>1, <3>1, <3>2
  <2>3. CASE B = {}
    <3>1. Routed(r)' BY <1>2, <2>1, <2>3 DEF Routed
    <3> QED BY <2>3, <3>1
  <2> QED BY <2>1, <2>2, <2>3
<1>15. CASE Exit(r)
  <2>1. child'[r].pc = "over" BY <1>4, <1>15 DEF Exit, ChildAt, Process, Types, ChildT
  <2> QED BY <2>1 DEF Living
<1> QED BY <1>8, <1>9, <1>10, <1>11, <1>12, <1>13, <1>14, <1>15 DEF ChildStep

-----------------------------------------------------------------------------
(* Runs that were forked.                                                   *)

(* Nobody else touches what an unspoilt run has.                             *)
LEMMA Untouched ==
  ASSUME Types, Structure, Next, NEW r \in dict, r \notin spoilt', child[r].pc \in Living
  PROVE  /\ r \in Started /\ r \in Runs /\ Cont(r) \in Containers
         /\ Cont(r)' = Cont(r) /\ Nets(r)' = Nets(r)
         /\ ~(Work /\ (r = w.run \/ C = Cont(r))) /\ ~Stop(Cont(r))
         /\ jail'[Cont(r)] = jail[Cont(r)] /\ mounts'[Cont(r)] = mounts[Cont(r)]
<1>1. r \in Started /\ r \in Runs BY DEF Types, HistT, Started
<1>2. Cont(r) \in Containers BY <1>1 DEF Started, Cont, Types, ObjT, ObjType, Places
<1>3. ~(Busy /\ r = w.run) BY DEF Structure, WorkerInv, Position, Living
<1>4. ~(Work /\ (r = w.run \/ C = Cont(r)))
  <2>1. SUFFICES ASSUME Work, C = Cont(r) PROVE r = w.run BY <1>3, Moves
  <2>2. w.run \in Runs BY <2>1, Moves, InHand DEF Structure
  <2> QED BY <2>1, <2>2 DEF Structure, OneActive, Mine, C
<1>5. ~Stop(Cont(r)) BY <1>1 DEF Stop
<1> QED BY <1>1, <1>2, <1>4, <1>5, Conts, JailFrame, MountFrame

LEMMA OthersReady ==
  ASSUME Types, Structure, Next, NEW r \in dict, r \notin spoilt', child[r].pc \in Living,
         ReadyRun(r)
  PROVE  (child[r].pc \in Living => ReadyRun(r))'
<1>1. /\ r \in Started /\ r \in Runs /\ Cont(r)' = Cont(r) /\ Nets(r)' = Nets(r)
      /\ ~(Work /\ (r = w.run \/ C = Cont(r))) /\ ~Stop(Cont(r))
      /\ jail'[Cont(r)] = jail[Cont(r)] /\ mounts'[Cont(r)] = mounts[Cont(r)]
  BY Untouched
<1>2. CASE child'[r] = child[r]
  <2>1. ~Configure(r)
    <3>1. SUFFICES ASSUME Configure(r) PROVE FALSE OBVIOUS
    <3>2. child[r].pc = "config" /\ child'[r].pc = "route" BY <1>1, <3>1, ConfiguredEpair
    <3> QED BY <1>2, <3>2
  <2>2. ASSUME Aligned(Cont(r)), NEW i \in Bridges(Cont(r))
        PROVE  iface'[<<r, i>>] = iface[<<r, i>>]
    <3>1. <<r, i>> \in DOMAIN iface BY <1>1, <2>2, AlignedEpairs
    <3>2. <<r, i>>[1] = r OBVIOUS
    <3>3. iface[<<r, i>>].at # Dying
      <4>1. iface[<<r, i>>].at = Cont(r) BY <2>2 DEF ReadyRun, Equip, Link
      <4>2. Cont(r) \in Containers BY <1>1, ContOf
      <4> QED BY <4>1, <4>2, ResourceAssumption
    <3> QED BY <1>1, <2>1, <3>1, <3>2, <3>3, IfaceFrame
  <2>3. \A i : Set(r, i)' <=> Set(r, i) BY <1>2 DEF Set
  <2>4. Aligned(Cont(r)) => \A i \in Bridges(Cont(r)) : Equip(r, i)'
    BY <1>1, <2>2, <2>3 DEF ReadyRun, Equip, Link
  <2>5. Routed(r)' BY <1>1, <1>2 DEF ReadyRun, Routed, Reached
  <2> QED BY <1>1, <2>4, <2>5 DEF ReadyRun, Has
<1>3. CASE child'[r] # child[r]
  <2>1. \/ child'[r] = Process("over", 0) \/ ChildStep(r)
    BY <1>1, <1>3, ChildChange
  <2>2. CASE child'[r] = Process("over", 0) BY <2>2 DEF Process, Living
  <2>3. CASE ChildStep(r) BY <1>1, <2>3, ChildReady
  <2> QED BY <2>1, <2>2, <2>3
<1> QED BY <1>2, <1>3

(* What is forked has been made.                                            *)
LEMMA ForkReady ==
  ASSUME Types, Structure, Ready, Work, Fork, NEW r, r = w.run, r \notin spoilt
  PROVE  ReadyRun(r)'
<1>1. w.pc = "fork" /\ UNCHANGED <<jail, iface, mounts, obj>> BY DEF Fork, At, host
<1>2. r \in Runs /\ r \in Started /\ Busy /\ child[r].pc = "none" /\ C = Cont(r)
  BY <1>1, Moves, InHand DEF Structure, WorkerInv, Position, Making, C
<1>3. /\ Me.jid = "ok" /\ jail[C] = r /\ MountsMade
      /\ Aligned(C) => \A i \in 1..Len(Me.epair) : Linked(i)
  BY <1>1 DEF Ready, MakingReady, Making
<1>4. Len(Me.epair) = Needs(C)
  BY <1>1, <1>2 DEF Structure, WorkerInv, Stage, Equipped
<1>5. Cont(r)' = Cont(r) /\ Nets(r)' = Nets(r) BY <1>1 DEF Cont, Nets
<1>6. child'[r].pc = "born" /\ child'[r].routes = {}
  <2>1. child'[r].pc = "born" /\ child'[r].routes = child[r].routes
    <3>1. child[r] \in ChildType /\ child'[r] = [child[r] EXCEPT !.pc = "born"]
      BY <1>2 DEF Fork, Types, ChildT
    <3> QED BY <3>1 DEF ChildType
  <2> QED BY <1>2, <2>1 DEF Ready, NoRoutes
<1>7. ASSUME Aligned(C), NEW i \in Bridges(C) PROVE Equip(r, i)'
  <2>1. ~Set(r, i)' BY <1>6 DEF Set
  <2>2. ~Waits(i) /\ InJail(i) BY <1>1 DEF Waits, InJail, Equipped
  <2>3. i \in 1..Len(Me.epair) BY <1>4, <1>7 DEF Aligned, Needs
  <2>4. Link(r, i, C, Host, {"b"}) BY <1>2, <1>3, <1>7, <2>2, <2>3 DEF Linked
  <2> QED BY <1>1, <1>2, <1>5, <2>1, <2>4 DEF Equip, Link
<1>8. Routed(r)' BY <1>6 DEF Routed
<1>9. \A d \in Dests(C) : Has(r, d) BY <1>1, <1>3 DEF MountsMade
<1> QED BY <1>1, <1>2, <1>3, <1>5, <1>7, <1>8, <1>9 DEF ReadyRun, Has

LEMMA RunsReadyStep ==
  ASSUME Types, Structure, Ready, Next
  PROVE  RunsReady'
<1> SUFFICES ASSUME NEW r \in dict', r \notin spoilt', child'[r].pc \in Living
             PROVE  ReadyRun(r)'
  BY DEF RunsReady
<1>1. spoilt \subseteq spoilt'
  <2>1. Work => spoilt \subseteq spoilt' BY Moves DEF Spoil
  <2>2. \A s \in Started : Reap(s) \/ ChildStep(s) => spoilt \subseteq spoilt'
    BY ChildMoves DEF Reap
  <2>3. \A c \in Containers : Start(c) \/ Stop(c) => spoilt \subseteq spoilt'
    BY DEF Start, Stop
  <2> QED BY <2>1, <2>2, <2>3, Steps DEF Kill, ComeHome
<1>2. dict' \subseteq dict \/ (Work /\ (Fork \/ ForkFails) /\ dict' \subseteq dict \cup {w.run})
  <2>1. Work => \/ dict' \subseteq dict
                \/ (Fork \/ ForkFails) /\ dict' \subseteq dict \cup {w.run}
    BY Moves DEF Fork, ForkFails, AllDone, StopJailRaises
  <2>2. \A s \in Started : Reap(s) \/ ChildStep(s) => dict' \subseteq dict
    BY ChildMoves DEF Reap
  <2>3. \A c \in Containers : Start(c) \/ Stop(c) => dict' \subseteq dict
    BY DEF Start, Stop
  <2> QED BY <2>1, <2>2, <2>3, Steps DEF Kill, ComeHome
<1>3. CASE r \in dict
  <2>1. r \in Runs BY <1>3 DEF Types, HistT, Started
  <2>2. CASE child[r].pc \in Living
    BY <1>1, <1>3, <2>2, OthersReady DEF Ready, RunsReady
  <2>3. CASE child[r].pc \notin Living
    <3>1. child'[r] # child[r] BY <2>3
    <3>2. Work /\ Fork /\ r = w.run BY <2>1, <2>3, <3>1, ChildChange
    <3> QED BY <1>1, <3>2, ForkReady
  <2> QED BY <2>2, <2>3
<1>4. CASE r \notin dict
  <2>1. r = w.run /\ Work /\ (Fork \/ ForkFails) BY <1>2, <1>4
  <2>2. CASE Fork BY <1>1, <2>1, <2>2, ForkReady
  <2>3. CASE ForkFails
    <3>1. child' = child BY <2>3 DEF ForkFails
    <3>2. child[r].pc \notin Living
      BY <2>1, Moves DEF Structure, WorkerInv, Position, Living
    <3> QED BY <3>1, <3>2
  <2> QED BY <2>1, <2>2, <2>3
<1> QED BY <1>3, <1>4

-----------------------------------------------------------------------------
(* The run that is being made.                                              *)

(* The road of the worker from jail_set to fork.                             *)
Road ==
  \/ /\ JailSet \/ JailRefused
     /\ w.pc = "create" /\ w'.pc \in {"epair", "devfs"}
  \/ CreateEpair /\ w.pc = "epair" /\ w'.pc = "bridge"
  \/ /\ PassOver /\ w.pc = "epair"
     /\ \/ w'.pc = "epair"
        \/ w'.pc = "attach" /\ w'.i = 1
        \/ w'.pc = "devfs" /\ Me.epair = <<>>
  \/ /\ AddToBridge /\ w.pc = "bridge"
     /\ w'.pc = "epair" \/ (w'.pc = "attach" /\ w'.i = 1)
  \/ /\ Attach /\ w.pc = "attach"
     /\ \/ w'.pc = "attach" /\ w'.i = w.i + 1
        \/ w'.pc = "devfs" /\ ~(w.i < Len(Me.epair))
  \/ MountDevfs /\ w.pc = "devfs" /\ w'.pc = "tmpfs"
  \/ /\ MountTmpfs /\ w.pc = "tmpfs"
     /\ \/ w'.pc = "register" /\ MountsOf[C] = <<>>
        \/ w'.pc = "mount" /\ w'.i = 1
  \/ /\ MountUser /\ w.pc = "mount"
     /\ \/ w'.pc = "mount" /\ w'.i = w.i + 1
        \/ w'.pc = "register" /\ ~(w.i < Len(MountsOf[C]))
  \/ Register /\ w.pc = "register" /\ w'.pc = "fork"

LEMMA OnTheRoad ==
  ASSUME Types, Structure, Work, w'.pc \in Making, w'.run \notin spoilt'
  PROVE  /\ Road /\ Next /\ Busy /\ w.pc \in Making /\ w'.run = w.run /\ w.run \notin spoilt
         /\ w.run \in Runs /\ w.run \in Started /\ C \in Containers
         /\ C' = C /\ NetsOf[C'] = NetsOf[C] /\ Me' = obj'[w.run]
<1>1. w' # Idle BY DEF Idle, Making
<1>2. Next /\ Busy /\ w.pc \in Making BY MakingStays, Moves DEF Next, Work
<1>3. w'.run = w.run /\ w.run \in Runs /\ C' = C BY <1>1, SameRun
<1>4. w.run \in Started /\ C \in Containers BY <1>2, InHand DEF Structure
<1>5. w.run \notin spoilt /\ ~Spoil BY <1>3, Moves DEF Spoil
<1>6. Road
  <2>1. w = [pc |-> w.pc, run |-> w.run, i |-> w.i] BY DEF Types, WorkT, WorkerType
  <2>2. /\ \A pc : Go(pc) => w'.pc = pc /\ w'.i = 1
        /\ \A pc : w' = [w EXCEPT !.pc = pc] => w'.pc = pc /\ w'.i = w.i
        /\ \A pc : w' = [w EXCEPT !.pc = pc, !.i = @ + 1] => w'.pc = pc
        /\ Again => w'.pc = w.pc /\ w'.i = w.i + 1
    BY <2>1 DEF Go, Again
  <2>3. ~Raise
    <3>1. Raise => w'.pc = "deattach" BY <2>2 DEF Raise
    <3> QED BY <3>1 DEF Making
  <2>4. ~Fork /\ ~ForkFails /\ ~GiveUp /\ ~RefusalRaises
    BY <1>1, <2>3 DEF Fork, ForkFails, GiveUp, RefusalRaises
  <2>5. ~Destroy
    BY <1>2 DEF Destroy, Deattach, StopJail, StopJailFails, StopJailRaises, DestroyEpair,
       DestroyEpairFails, UnmountDevfs, UnmountDevfsFails, UnmountTmpfs, UnmountTmpfsFails,
       UnmountUser, UnmountFails, At, Making
  <2>6. JailSet \/ JailRefused => Road BY <2>2 DEF JailSet, JailRefused, Created, At, Road
  <2>7. CreateEpair => Road BY <2>2 DEF CreateEpair, At, Road
  <2>8. AddToBridge => Road
    <3>1. SUFFICES ASSUME AddToBridge PROVE Road OBVIOUS
    <3>2. w.pc = "bridge" BY <3>1 DEF AddToBridge, At
    <3>3. Me.epair # <<>> BY <3>2, NewestInHand
    <3>4. w'.pc = "epair" \/ Go("attach") BY <2>2, <3>1, <3>3 DEF AddToBridge, NextNet
    <3> QED BY <2>2, <3>1, <3>2, <3>4 DEF Road
  <2>13. PassOver => Road
    <3>1. SUFFICES ASSUME PassOver PROVE Road OBVIOUS
    <3>2. \/ w'.pc = "epair" \/ Go("attach")
          \/ Go("devfs") /\ Me.epair = <<>>
      BY <2>2, <3>1 DEF PassOver, NextNet
    <3> QED BY <2>2, <3>1, <3>2 DEF PassOver, At, Road
  <2>9. Attach => Road BY <2>2 DEF Attach, NextAttach, At, Road
  <2>10. MountDevfs \/ MountTmpfs => Road BY <2>2 DEF MountDevfs, MountTmpfs, FsMount, At, Road
  <2>11. MountUser => Road BY <2>2 DEF MountUser, NextMount, At, Road
  <2>12. Register => Road BY <2>2, <2>3 DEF Register, At, Road
  <2> QED
    BY <1>5, <2>3, <2>4, <2>5, <2>6, <2>7, <2>8, <2>9, <2>10, <2>11, <2>12, <2>13
       DEF Work, Make, EpairFails, BridgeFails, AttachFails, DevfsFails, TmpfsFails,
           MountUserFails, MkdirFails
<1> QED BY <1>2, <1>3, <1>4, <1>5, <1>6 DEF Me

(* jail_set has either made its jail or is known to have been refused.       *)
LEMMA JailMade ==
  ASSUME Types, Structure, MakingReady, Work, w'.pc \in Making, w'.run \notin spoilt'
  PROVE  /\ w'.pc # "create" /\ Me'.jid = "ok" => jail'[C'] = w'.run
         /\ w'.pc = "fork" => Me'.jid = "ok"
<1> USE OnTheRoad
<1>1. obj \in [Runs -> ObjType] /\ w.run \in Runs /\ obj[w.run] = Me BY DEF Types, ObjT, Me
<1>2. CASE JailSet
  <2>1. jail'[C] = w.run BY <1>2 DEF JailSet, Types, JailT
  <2>2. w'.pc # "fork" BY <1>2 DEF Road, JailSet, PassOver, CreateEpair, AddToBridge, Attach, MountDevfs, MountTmpfs, MountUser, Register, At
  <2> QED BY <2>1, <2>2
<1>3. CASE JailRefused
  <2>1. obj'[w.run].jid = "refused"
    BY <1>1, <1>3 DEF JailRefused, Created, ObjType
  <2>2. w'.pc # "fork" BY <1>3 DEF Road, JailRefused, PassOver, CreateEpair, AddToBridge, Attach, MountDevfs, MountTmpfs, MountUser, Register, At
  <2> QED BY <2>1, <2>2
<1>4. CASE ~JailSet /\ ~JailRefused
  <2>1. w.pc # "create" BY <1>4 DEF Road
  <2>2. ~StopJail BY DEF StopJail, At, Making
  <2>3. jail' = jail BY <1>4, <2>2, Moves
  <2>4. obj'[w.run].jid = Me.jid
    <3>1. CreateEpair => obj'[w.run].jid = Me.jid
      <4>1. CreateEpair => obj' = [obj EXCEPT ![w.run] = [Me EXCEPT !.epair = Append(@, New)]]
        BY <1>1 DEF CreateEpair
      <4> QED BY <1>1, <4>1 DEF ObjType
    <3>2. MountDevfs => obj'[w.run].jid = Me.jid
      <4>1. MountDevfs => obj' = [obj EXCEPT ![w.run] = [Me EXCEPT !.devfs = TRUE]]
        BY <1>1 DEF MountDevfs
      <4> QED BY <1>1, <4>1 DEF ObjType
    <3>3. PassOver \/ AddToBridge \/ Attach \/ MountTmpfs \/ MountUser \/ Register
          => UNCHANGED obj
      BY DEF PassOver, AddToBridge, Attach, MountTmpfs, MountUser, Register
    <3> QED BY <1>1, <1>4, <3>1, <3>2, <3>3 DEF Road
  <2>5. Me.jid = "ok" => jail[C] = w.run BY <2>1 DEF MakingReady
  <2>6. w'.pc = "fork" => Me.jid = "ok"
    <3>1. w'.pc = "fork" => Register BY <1>4 DEF Road
    <3> QED BY <3>1 DEF Register
  <2> QED BY <2>3, <2>4, <2>5, <2>6
<1> QED BY <1>2, <1>3, <1>4

(* The list grows when an epair has been created.                            *)
LEMMA ListGrows ==
  ASSUME Types, Structure, Work, w'.pc \in Making, w'.run \notin spoilt'
  PROVE  /\ Me.epair \in Seq(Runs \X Nat) /\ Len(Me.epair) \in Nat /\ w.i \in Nat /\ w.i >= 1
         /\ CreateEpair => Me'.epair = Append(Me.epair, New)
         /\ ~CreateEpair => Me'.epair = Me.epair
<1>1. /\ Road /\ Next /\ Busy /\ w.pc \in Making /\ w.run \in Runs /\ Me' = obj'[w.run]
  BY OnTheRoad
<1>2. Me.epair \in Seq(Runs \X Nat) /\ w.i \in Nat /\ w.i >= 1
  BY <1>1, InHand DEF ObjType, Types, WorkT, WorkerType, Structure, WorkerInv, Position
<1>3. ~GiveUp /\ ~StopJailRaises /\ w.pc # "ifdestroy" /\ ~(Kill /\ Work)
  <2>1. w' # Idle BY DEF Idle, Making
  <2> QED BY <1>1, <2>1 DEF GiveUp, StopJailRaises, Kill, Making
<1>4. \/ Me'.epair = Me.epair
      \/ CreateEpair /\ Me'.epair = Append(Me.epair, New)
  BY <1>1, <1>3, EpairChange DEF Me
<1>5. CreateEpair => Me'.epair = Append(Me.epair, New)
  <2>1. CreateEpair => obj' = [obj EXCEPT ![w.run] = [Me EXCEPT !.epair = Append(@, New)]]
    BY <1>1 DEF CreateEpair, Types, ObjT, Me
  <2>2. obj \in [Runs -> ObjType] /\ Me \in ObjType BY <1>1, InHand DEF Structure, Types, ObjT
  <2> QED BY <1>1, <2>1, <2>2 DEF ObjType
<1> QED BY <1>2, <1>4, <1>5

LEMMA LinksMade ==
  ASSUME Types, Structure, MakingReady, Work, w'.pc \in Making, w'.run \notin spoilt',
         Aligned(C), NEW i \in 1..Len(Me'.epair)
  PROVE  Linked(i)'
<1> DEFINE e == <<w.run, i>>
<1>1. /\ Road /\ Busy /\ w.pc \in Making /\ w'.run = w.run /\ w.run \notin spoilt
      /\ C' = C /\ Nets(w.run)' = NetsOf[C] /\ Nets(w.run) = NetsOf[C]
  BY OnTheRoad DEF Nets, C
<1>2. /\ Len(Me.epair) \in Nat /\ w.i \in Nat /\ w.i >= 1 /\ Me.epair \in Seq(Runs \X Nat)
      /\ CreateEpair => Me'.epair = Append(Me.epair, New)
      /\ ~CreateEpair => Me'.epair = Me.epair
  BY ListGrows
<1>3. \A j \in 1..Len(Me.epair) : Linked(j) /\ <<w.run, j>> \in DOMAIN iface
  BY <1>1 DEF MakingReady, Structure, Whole, Bridged
<1>4. Stage BY <1>1 DEF Structure, WorkerInv
<1>5. ASSUME ~Waits(i)', ~InJail(i)', iface'[e].at = Host, iface'[e].bridge = NetsOf[C][i],
             iface'[e].addr = Host, iface'[e].up = {"b"}
      PROVE  Linked(i)'
  BY <1>1, <1>5 DEF Linked, Link
<1>6. CASE CreateEpair
  <2> DEFINE n == Len(Me.epair) + 1
  <2>1. w.pc = "epair" /\ w'.pc = "bridge"
    <3>1. w.pc = "epair" BY <1>6 DEF CreateEpair, At
    <3>2. ~PassOver BY <1>6 DEF CreateEpair, PassOver
    <3> QED BY <1>1, <3>1, <3>2 DEF Road
  <2>2. i \in 1..n /\ New = <<w.run, n>> /\ Len(Me.epair)' = n
    <3>1. Len(Append(Me.epair, New)) = n
      <4>1. w.run \in Runs BY OnTheRoad
      <4>2. New \in Runs \X Nat BY <1>2, <4>1 DEF New
      <4> QED BY <1>2, <4>2
    <3>2. Len(Me'.epair) = n BY <1>2, <1>6, <3>1
    <3> QED BY <3>2 DEF New
  <2>3. CASE i = n
    <3>1. iface'[e] = [at |-> Host, bridge |-> Host, addr |-> Host, up |-> {}]
      BY <1>6, <2>2, <2>3 DEF CreateEpair, CreateInterface
    <3>2. Waits(i)' BY <2>1, <2>2, <2>3 DEF Waits
    <3> QED BY <1>1, <3>1, <3>2 DEF Linked
  <2>4. CASE i # n
    <3>1. i \in 1..Len(Me.epair) /\ e \in DOMAIN iface /\ e # New
      BY <1>2, <1>3, <2>2, <2>4
    <3>2. iface'[e] = iface[e] BY <1>6, <3>1 DEF CreateEpair, CreateInterface
    <3>3. Linked(i) /\ ~Waits(i) /\ ~InJail(i) BY <1>3, <2>1, <3>1 DEF Waits, InJail, Equipped
    <3>4. ~Waits(i)' /\ ~InJail(i)' BY <2>1, <2>2, <2>4 DEF Waits, InJail, Equipped
    <3> QED BY <1>1, <3>2, <3>3, <3>4 DEF Linked, Link
  <2> QED BY <2>3, <2>4
<1>7. CASE ~CreateEpair
  <2>1. i \in 1..Len(Me.epair) /\ e \in DOMAIN iface /\ Linked(i) BY <1>2, <1>3, <1>7
  <2>2. CASE AddToBridge
    <3> DEFINE n == Len(Me.epair)
    <3>1. /\ w.pc = "bridge"
          /\ iface' = [iface EXCEPT ![Newest] = Up(Joined(Newest, Wanted), "b")]
          /\ w'.pc = "epair" \/ (w'.pc = "attach" /\ w'.i = 1)
      <4>1. w.pc = "bridge" BY <2>2 DEF AddToBridge, At
      <4> QED BY <1>1, <2>2, <4>1 DEF Road, AddToBridge, BridgeIf
    <3>2. Newest = <<w.run, n>> /\ Wanted = NetsOf[C][n]
      BY <1>1, <3>1, NewestInHand
    <3>3. ~Waits(i)' /\ ~InJail(i)' BY <2>1, <3>1 DEF Waits, InJail, Equipped
    <3>4. CASE i = n
      <4>1. iface[e].at = Host /\ iface[e].addr = Host /\ iface[e].up = {}
        BY <2>1, <3>1, <3>4 DEF Linked, Waits
      <4>2. iface'[e] = Up(Joined(e, NetsOf[C][i]), "b") BY <2>1, <3>1, <3>2, <3>4
      <4>3. iface'[e].at = Host /\ iface'[e].bridge = NetsOf[C][i] /\ iface'[e].addr = Host
        BY <2>1, <4>1, <4>2, Fields
      <4>4. iface'[e].up = {} \cup {"b"} BY <2>1, <4>1, <4>2, UpFields
      <4>5. iface'[e].up = {"b"} BY <4>4
      <4> QED BY <1>5, <3>3, <4>3, <4>5
    <3>5. CASE i # n
      <4>1. iface'[e] = iface[e] BY <2>1, <3>1, <3>2, <3>5
      <4>2. ~Waits(i) /\ ~InJail(i) BY <3>1, <3>5 DEF Waits, InJail, Equipped
      <4> QED BY <1>1, <1>5, <2>1, <3>3, <4>1, <4>2 DEF Linked, Link
    <3> QED BY <3>4, <3>5
  <2>3. CASE Attach
    <3>1. /\ w.pc = "attach" /\ w.i <= Len(Me.epair)
          /\ iface' = [iface EXCEPT ![Epair] = [iface[Epair] EXCEPT !.at = C]]
          /\ \/ w'.pc = "attach" /\ w'.i = w.i + 1
             \/ w'.pc = "devfs" /\ ~(w.i < Len(Me.epair))
      <4>1. w.pc = "attach" BY <2>3 DEF Attach, At
      <4>2. iface' = [iface EXCEPT ![Epair] = [iface[Epair] EXCEPT !.at = C]]
        BY <2>3 DEF Attach, MoveToJail
      <4> QED BY <1>1, <1>4, <4>1, <4>2 DEF Road, Stage
    <3>2. Epair = <<w.run, w.i>> BY <1>1, <3>1, EpairInHand
    <3>3. ~Waits(i) /\ (InJail(i) <=> i < w.i) BY <3>1 DEF Waits, InJail, Equipped
    <3>4. ~Waits(i)' /\ (InJail(i)' <=> i <= w.i)
      BY <1>2, <2>1, <3>1 DEF Waits, InJail, Equipped
    <3>5. CASE i = w.i
      <4>1. iface'[e] = [iface[e] EXCEPT !.at = C] BY <2>1, <3>1, <3>2, <3>5
      <4>2. Link(w.run, i, Host, Host, {"b"}) BY <2>1, <3>3, <3>5, <1>2 DEF Linked
      <4>3. iface'[e].at = C /\ iface'[e].bridge = iface[e].bridge /\ iface'[e].addr = iface[e].addr
            /\ iface'[e].up = iface[e].up
        BY <2>1, <4>1, Fields, UpFields
      <4>4. InJail(i)' BY <1>2, <3>4, <3>5
      <4> QED BY <1>1, <3>4, <4>2, <4>3, <4>4 DEF Linked, Link
    <3>6. CASE i # w.i
      <4>1. iface'[e] = iface[e] BY <2>1, <3>1, <3>2, <3>6
      <4>2. InJail(i)' <=> InJail(i) BY <1>2, <2>1, <3>3, <3>4, <3>6
      <4> QED BY <1>1, <2>1, <3>3, <3>4, <4>1, <4>2 DEF Linked, Link
    <3> QED BY <3>5, <3>6
  <2>5. CASE PassOver
    <3>1. w.pc = "epair" /\ UNCHANGED iface BY <2>5 DEF PassOver, At, host
    <3>2. Me.epair # <<>> BY <1>2, <2>1
    <3>3. w'.pc = "epair" \/ (w'.pc = "attach" /\ w'.i = 1)
      BY <1>1, <2>5, <3>1, <3>2
         DEF Road, JailSet, JailRefused, AddToBridge, Attach, MountDevfs, MountTmpfs, MountUser,
             Register, CreateEpair, PassOver, At
    <3>4. ~Waits(i) /\ ~InJail(i) BY <3>1 DEF Waits, InJail, Equipped
    <3>5. ~Waits(i)' /\ ~InJail(i)' BY <2>1, <3>3 DEF Waits, InJail, Equipped
    <3> QED BY <1>1, <2>1, <3>1, <3>4, <3>5 DEF Linked, Link
  <2>4. CASE ~AddToBridge /\ ~Attach /\ ~PassOver
    <3>1. w.pc \notin {"create", "bridge", "attach", "epair"} /\ w.pc \in Equipped
          /\ w'.pc \in Equipped \ {"bridge", "attach"}
      BY <1>2, <1>1, <1>4, <1>7, <2>1, <2>4 DEF Road, Equipped, Stage
    <3>2. iface' = iface
      <4>1. ~BridgeFails /\ ~Deattach /\ ~StopJail /\ ~DestroyEpair
        BY <1>1, <3>1 DEF BridgeFails, Deattach, StopJail, DestroyEpair, At, Making
      <4> QED BY <1>7, <2>4, <4>1, Moves
    <3>3. ~Waits(i) /\ InJail(i) /\ ~Waits(i)' /\ InJail(i)'
      BY <3>1 DEF Waits, InJail, Equipped
    <3> QED BY <1>1, <2>1, <3>2, <3>3 DEF Linked, Link
  <2> QED BY <2>2, <2>3, <2>4, <2>5
<1> QED BY <1>6, <1>7

(* What is mounted stays mounted while the container is made.                *)
LEMMA MountAdds ==
  ASSUME Types, NEW c \in Containers, NEW d \in Dests(c), Mount(c, d)
  PROVE  Range(mounts'[c]) = Range(mounts[c]) \cup {d}
<1> DEFINE s == mounts[c]
<1>1. s \in Seq(Dests(c)) /\ mounts'[c] = Append(s, d) BY DEF Mount, Types, MountT
<1> HIDE DEF s
<1>2. /\ Append(s, d) \in Seq(Dests(c)) /\ Len(Append(s, d)) = Len(s) + 1 /\ Len(s) \in Nat
      /\ \A i \in 1..Len(s) : Append(s, d)[i] = s[i]
      /\ Append(s, d)[Len(s) + 1] = d
  BY <1>1
<1>3. DOMAIN Append(s, d) = 1..Len(s) + 1 /\ DOMAIN s = 1..Len(s) BY <1>1, <1>2
<1>4. \A i : i \in 1..Len(s) + 1 <=> i \in 1..Len(s) \/ i = Len(s) + 1 BY <1>2
<1> QED BY <1>1, <1>2, <1>3, <1>4 DEF Range, s

LEMMA FsMountAdds ==
  ASSUME Types, NEW d, C \in Containers, d \in Dests(C),
         IF IsMount(C, d) THEN UNCHANGED mounts ELSE Mount(C, d)
  PROVE  Range(mounts'[C]) = Range(mounts[C]) \cup {d}
<1>1. CASE IsMount(C, d) BY <1>1 DEF IsMount, Top, Range
<1>2. CASE ~IsMount(C, d) BY <1>2, MountAdds
<1> QED BY <1>1, <1>2

LEMMA AllDests ==
  ASSUME NEW c \in Containers, NEW d \in Dests(c)
  PROVE  d \in {"dev", "tmp"} \/ \E j \in 1..Len(MountsOf[c]) : d = MountsOf[c][j]
<1>1. FsMounts[1] = "dev" /\ FsMounts[2] = "tmp" /\ DOMAIN FsMounts = 1..2 BY DEF FsMounts
<1>2. Range(FsMounts) = {"dev", "tmp"} BY <1>1 DEF Range
<1>3. DOMAIN MountsOf[c] = 1..Len(MountsOf[c]) BY ResourceAssumption
<1> QED BY <1>2, <1>3 DEF Dests, Range

LEMMA MountsKept ==
  ASSUME Types, Structure, MakingReady, Work, w'.pc \in Making, w'.run \notin spoilt'
  PROVE  MountsMade'
<1> DEFINE Now(d) == d \in Range(mounts[C])
           Then(d) == d \in Range(mounts'[C])
<1>1. /\ Road /\ Busy /\ w.pc \in Making /\ w'.run = w.run /\ w.run \notin spoilt
      /\ C' = C /\ C \in Containers
  BY OnTheRoad
<1>2. MountsMade /\ Stage BY <1>1 DEF MakingReady, Structure, WorkerInv
<1>3. C = Cont(w.run) /\ Cont(w.run)' = C BY <1>1 DEF C
<1>4. \A d : Has(w.run, d) <=> Now(d) BY <1>3 DEF Has
<1>5. \A d : Has(w.run, d)' <=> Then(d) BY <1>1, <1>3 DEF Has
<1>6. w.i \in Nat /\ w.i >= 1 /\ Len(MountsOf[C]) \in Nat /\ MountsOf[C] \in Seq(STRING)
  BY <1>1, InHand DEF Types, WorkT, WorkerType, Structure, WorkerInv, Position
<1>7. SUFFICES
        /\ w'.pc \in {"tmpfs", "mount", "register", "fork"} => Then("dev")
        /\ w'.pc \in {"mount", "register", "fork"} => Then("tmp")
        /\ w'.pc = "mount" => \A j \in 1..w'.i - 1 : Then(MountsOf[C][j])
        /\ w'.pc \in {"register", "fork"} => \A d \in Dests(C) : Then(d)
  <2>1. \A d : Has(w.run, d)' <=> Then(d) BY <1>5
  <2> HIDE DEF Then
  <2> QED BY <1>1, <2>1 DEF MountsMade
<1>8. CASE w.pc \in {"create", "epair", "bridge", "attach"} BY <1>1, <1>8 DEF Road
<1>9. CASE w.pc = "devfs"
  <2>1. MountDevfs /\ w'.pc = "tmpfs" BY <1>1, <1>9 DEF Road
  <2>2. Then("dev") BY <1>1, <2>1, DestsOf, FsMountAdds DEF MountDevfs, FsMount
  <2> QED BY <2>1, <2>2
<1>10. CASE w.pc = "tmpfs"
  <2>1. /\ MountTmpfs
        /\ \/ w'.pc = "register" /\ MountsOf[C] = <<>>
           \/ w'.pc = "mount" /\ w'.i = 1
    BY <1>1, <1>10 DEF Road
  <2>2. Range(mounts'[C]) = Range(mounts[C]) \cup {"tmp"}
    BY <1>1, <2>1, DestsOf, FsMountAdds DEF MountTmpfs, FsMount
  <2>3. Then("dev") /\ Then("tmp") BY <1>2, <1>4, <1>10, <2>2 DEF MountsMade
  <2>4. MountsOf[C] = <<>> => \A d \in Dests(C) : d \in {"dev", "tmp"}
    BY <1>1, AllDests
  <2>5. \A j \in 1..1 - 1 : FALSE OBVIOUS
  <2> QED BY <2>1, <2>3, <2>4, <2>5
<1>11. CASE w.pc = "mount"
  <2>1. /\ MountUser
        /\ \/ w'.pc = "mount" /\ w'.i = w.i + 1
           \/ w'.pc = "register" /\ ~(w.i < Len(MountsOf[C]))
    BY <1>1, <1>11 DEF Road
  <2>2. w.i <= Len(MountsOf[C]) /\ MountsOf[C][w.i] \in Dests(C)
    BY <1>2, <1>11, MountPosition DEF Stage
  <2>3. Range(mounts'[C]) = Range(mounts[C]) \cup {MountsOf[C][w.i]}
    BY <1>1, <2>1, <2>2, MountAdds DEF MountUser
  <2>4. /\ Then("dev") /\ Then("tmp")
        /\ \A j \in 1..w.i - 1 : Then(MountsOf[C][j])
        /\ Then(MountsOf[C][w.i])
    BY <1>2, <1>4, <1>11, <2>3 DEF MountsMade
  <2>5. \A j \in 1..w.i : Then(MountsOf[C][j])
    <3>1. \A j \in 1..w.i : j \in 1..w.i - 1 \/ j = w.i BY <1>6
    <3> HIDE DEF Then
    <3> QED BY <2>4, <3>1
  <2>6. CASE w'.pc = "mount" /\ w'.i = w.i + 1
    <3>1. \A j \in 1..w'.i - 1 : j \in 1..w.i BY <1>6, <2>6
    <3> QED BY <2>4, <2>5, <2>6, <3>1
  <2>7. CASE w'.pc = "register" /\ ~(w.i < Len(MountsOf[C]))
    <3>1. w.i = Len(MountsOf[C]) BY <1>6, <2>2, <2>7
    <3>2. \A d \in Dests(C) : Then(d)
      <4> SUFFICES ASSUME NEW d \in Dests(C) PROVE Then(d) OBVIOUS
      <4>1. d \in {"dev", "tmp"} \/ \E j \in 1..Len(MountsOf[C]) : d = MountsOf[C][j]
        BY <1>1, AllDests
      <4> HIDE DEF Then
      <4> QED BY <2>4, <2>5, <3>1, <4>1
    <3> QED BY <2>4, <2>7, <3>2
  <2> QED BY <2>1, <2>6, <2>7
<1>12. CASE w.pc = "register"
  <2>1. Register /\ w'.pc = "fork" BY <1>1, <1>12 DEF Road
  <2>2. mounts' = mounts BY <2>1 DEF Register, host
  <2> QED BY <1>2, <1>4, <1>12, <2>1, <2>2 DEF MountsMade
<1> QED BY <1>1, <1>8, <1>9, <1>10, <1>11, <1>12 DEF Road

(* Meanwhile nobody touches what the worker makes.                           *)
LEMMA MakingStep ==
  ASSUME Types, Structure, MakingReady, Next, ~Work, UNCHANGED <<w, obj>>,
         w.pc \in Making, w.run \notin spoilt, w.run \notin spoilt'
  PROVE  /\ jail'[C] = jail[C] /\ mounts'[C] = mounts[C] /\ C' = C /\ Nets(w.run)' = Nets(w.run)
         /\ Aligned(C) => \A i \in 1..Len(Me.epair) :
                            iface'[<<w.run, i>>] = iface[<<w.run, i>>]
<1>1. Busy /\ w.run \in Started /\ C \in Containers
  <2>1. Busy BY DEF Busy, Making
  <2> QED BY <2>1, InHand DEF Structure
<1>2. ~Stop(C)
  <2>1. Stop(C) => w.run \in spoilt' BY <1>1 DEF Stop, C
  <2> QED BY <2>1
<1>3. ~Configure(w.run)
  BY <1>1 DEF Configure, Turn, Structure, WorkerInv, Position
<1>4. ASSUME Aligned(C), NEW i \in 1..Len(Me.epair)
      PROVE  iface'[<<w.run, i>>] = iface[<<w.run, i>>]
  <2>1. <<w.run, i>> \in DOMAIN iface /\ iface[<<w.run, i>>].at # Dying
    <3>1. Linked(i) BY <1>4 DEF MakingReady
    <3>2. iface[<<w.run, i>>].at \in {Host, C} BY <3>1 DEF Linked, Link
    <3>3. Dying \notin {Host, C} BY <1>1, ResourceAssumption
    <3> QED BY <3>2, <3>3 DEF Structure, Whole, Bridged
  <2>2. <<w.run, i>>[1] = w.run OBVIOUS
  <2>3. ~Stop(Cont(w.run)) BY <1>2 DEF C
  <2> QED BY <1>3, <2>1, <2>2, <2>3, IfaceFrame
<1>5. jail'[C] = jail[C] BY <1>1, <1>2, JailFrame
<1>6. mounts'[C] = mounts[C] BY <1>1, MountFrame
<1> QED BY <1>4, <1>5, <1>6 DEF C, Cont, Nets

LEMMA MakingReadyStep ==
  ASSUME Types, Structure, Ready, Next
  PROVE  MakingReady'
<1> SUFFICES ASSUME w'.pc \in Making, w'.run \notin spoilt'
             PROVE  /\ w'.pc # "create" /\ Me'.jid = "ok" => jail'[C'] = w'.run
                    /\ w'.pc = "fork" => Me'.jid = "ok"
                    /\ Aligned(C') => \A i \in 1..Len(Me'.epair) : Linked(i)'
                    /\ MountsMade'
  BY DEF MakingReady, Me, Aligned, Bridges
<1>1. MakingReady BY DEF Ready
<1>2. CASE Work
  <2>1. /\ w'.pc # "create" /\ Me'.jid = "ok" => jail'[C'] = w'.run
        /\ w'.pc = "fork" => Me'.jid = "ok"
    BY <1>1, <1>2, JailMade
  <2>2. Aligned(C') => \A i \in 1..Len(Me'.epair) : Linked(i)'
    <3>1. C' = C BY <1>2, OnTheRoad
    <3> QED BY <1>1, <1>2, <3>1, LinksMade
  <2>3. MountsMade' BY <1>1, <1>2, MountsKept
  <2> QED BY <2>1, <2>2, <2>3
<1>3. ASSUME NEW c \in Containers, Start(c) PROVE w'.pc = "create"
  BY <1>3 DEF Start
<1>4. CASE w'.pc = "create"
  <2>1. Me'.epair = <<>> BY <1>4, WorkerStep DEF WorkerInv, Busy, Stage
  <2>2. 1..Len(Me'.epair) = {} BY <2>1
  <2> QED BY <1>4, <2>2 DEF MountsMade
<1>5. ASSUME NEW r \in Started, Reap(r) PROVE FALSE
  <2>1. w'.pc = "deattach" BY <1>5 DEF Reap
  <2> QED BY <2>1 DEF Making
<1>6. CASE Kill
  <2>1. w'.pc = "idle" BY <1>6 DEF Kill, Idle
  <2> QED BY <2>1 DEF Making
<1>7. ASSUME ~Work, UNCHANGED <<w, obj>>, spoilt \subseteq spoilt'
      PROVE  /\ w'.pc # "create" /\ Me'.jid = "ok" => jail'[C'] = w'.run
             /\ w'.pc = "fork" => Me'.jid = "ok"
             /\ Aligned(C') => \A i \in 1..Len(Me'.epair) : Linked(i)'
             /\ MountsMade'
  <2>1. w.pc \in Making /\ w.run \notin spoilt /\ Me' = Me BY <1>7 DEF Me
  <2>2. /\ jail'[C] = jail[C] /\ mounts'[C] = mounts[C] /\ C' = C /\ Nets(w.run)' = Nets(w.run)
        /\ Aligned(C) => \A i \in 1..Len(Me.epair) :
                           iface'[<<w.run, i>>] = iface[<<w.run, i>>]
    BY <1>1, <1>7, <2>1, MakingStep
  <2>3. /\ w.pc # "create" /\ Me.jid = "ok" => jail[C] = w.run
        /\ w.pc = "fork" => Me.jid = "ok"
        /\ Aligned(C) => \A i \in 1..Len(Me.epair) : Linked(i)
        /\ MountsMade
    BY <1>1, <2>1 DEF MakingReady
  <2>4. Aligned(C') => \A i \in 1..Len(Me'.epair) : Linked(i)'
    BY <1>7, <2>1, <2>2, <2>3 DEF Linked, Waits, InJail, Link
  <2>5. MountsMade'
    <3>1. \A d : Has(w.run, d)' <=> Has(w.run, d) BY <1>7, <2>2 DEF Has, C
    <3> QED BY <1>7, <2>2, <2>3, <3>1 DEF MountsMade
  <2> QED BY <1>7, <2>1, <2>2, <2>3, <2>4, <2>5
<1>8. ASSUME NEW c \in Containers, Stop(c)
      PROVE  UNCHANGED <<w, obj>> /\ spoilt \subseteq spoilt'
  BY <1>8 DEF Stop
<1>9. ASSUME NEW r \in Started, ChildStep(r)
      PROVE  UNCHANGED <<w, obj>> /\ spoilt \subseteq spoilt'
  BY <1>9, ChildMoves
<1>10. ASSUME NEW e \in DOMAIN iface, ComeHome(e)
       PROVE  UNCHANGED <<w, obj>> /\ spoilt \subseteq spoilt'
  BY <1>10 DEF ComeHome
<1> QED BY <1>2, <1>3, <1>4, <1>5, <1>6, <1>7, <1>8, <1>9, <1>10, Steps

LEMMA NoRoutesStep ==
  ASSUME Types, Structure, Ready, Next
  PROVE  NoRoutes'
<1> SUFFICES ASSUME NEW r \in Runs, child'[r].pc = "none" PROVE child'[r].routes = {}
  BY DEF NoRoutes
<1>1. CASE child'[r] = child[r] BY <1>1 DEF Ready, NoRoutes
<1>2. CASE child'[r] # child[r]
  <2>1. Process("over", 0).pc = "over" BY DEF Process
  <2>2. ChildStep(r) => child'[r].pc # "none"
    <3> USE DEF Types, ChildT, ChildType
    <3>1. Enter(r) \/ Exit(r) => child'[r].pc # "none" BY DEF Enter, Exit, ChildAt, Process
    <3>2. Configure(r) => child'[r].pc # "none" BY DEF Configure
    <3>3. NetworkRoute(r) \/ DefaultRoute(r) => child'[r].pc # "none"
      BY AfterRoute DEF NetworkRoute, DefaultRoute
    <3>4. Exec(r) => child'[r].pc # "none" BY DEF Exec
    <3>5. NoSuchEpair(r) => child'[r].pc # "none" BY DEF NoSuchEpair, ChildAt, Process
    <3>6. OtherNetwork(r) => child'[r].pc # "none" BY DEF OtherNetwork
    <3> QED BY <3>1, <3>2, <3>3, <3>4, <3>5, <3>6 DEF ChildStep
  <2> QED BY <1>2, <2>1, <2>2, ChildChange
<1> QED BY <1>1, <1>2

LEMMA ReadyStutter ==
  ASSUME Ready, UNCHANGED vars
  PROVE  Ready'
<1> USE DEF vars
<1>1. MakingReady'
  BY DEF Ready, MakingReady, Linked, Waits, InJail, Link, MountsMade, Has, Me, C, Cont, Nets
<1>2. RunsReady'
  <2>1. \A r : Cont(r)' = Cont(r) /\ Nets(r)' = Nets(r) BY DEF Cont, Nets
  <2>2. \A r, i : /\ Equip(r, i)' <=> Equip(r, i)
                  /\ Reached(r, i)' = Reached(r, i)
    BY <2>1 DEF Equip, Set, Link, Reached
  <2>3. \A r : Routed(r)' <=> Routed(r) BY <2>1, <2>2 DEF Routed
  <2>4. \A r : ReadyRun(r)' <=> ReadyRun(r) BY <2>1, <2>2, <2>3 DEF ReadyRun, Has
  <2> QED BY <2>4 DEF Ready, RunsReady
<1>3. NoRoutes' BY DEF Ready, NoRoutes
<1> QED BY <1>1, <1>2, <1>3 DEF Ready

LEMMA ReadyInvariant == Spec => [](Types /\ Structure /\ Ready)
<1>1. Init => Ready BY InitReady
<1>2. Types /\ Structure /\ Ready /\ [Next]_vars => Ready'
  BY MakingReadyStep, RunsReadyStep, NoRoutesStep, ReadyStutter DEF Ready
<1> QED BY <1>1, <1>2, Invariants, PTL DEF Spec

-----------------------------------------------------------------------------
(* Theorem.                                                                 *)

(* Unless a call failed on the way or the container was stopped, a program  *)
(* runs in the jail that was made for it, with an epair for each bridge of  *)
(* its list of networks and for nothing else: in that jail, on that bridge,  *)
(* with its address and up at both ends, with its routes and with every     *)
(* mount.  Whatever runs of other containers the worker makes, destroys or  *)
(* loses meanwhile, and whatever other networks are in the list.            *)
THEOREM GivenAll == Spec => []ReadyToRun
<1>1. Types /\ Structure /\ Ready => ReadyToRun
  <2> SUFFICES ASSUME Types, Structure, Ready, NEW r \in dict \ spoilt, child[r].pc = "running"
               PROVE  /\ jail[Cont(r)] = r
                      /\ Bridges(Cont(r)) = DOMAIN obj[r].epair
                      /\ \A i \in Bridges(Cont(r)) : Given(r, i)
                      /\ Bridges(Cont(r)) # {} =>
                           child[r].routes = {Nets(r)[i] : i \in Bridges(Cont(r))} \cup {Host}
                      /\ Dests(Cont(r)) \subseteq Range(mounts[Cont(r)])
    BY DEF ReadyToRun
  <2>1. ReadyRun(r) BY DEF Ready, RunsReady, Living
  <2>2. r \in Started /\ r \in Runs BY DEF Types, HistT, Started
  <2>3. Aligned(Cont(r)) BY <2>2 DEF Structure, ChildInv
  <2>4. Complete(r) /\ Listed(r) /\ obj[r].epair \in Seq(Runs \X Nat)
    BY <2>2, ForkedComplete DEF Living, Types, ObjT, ObjType
  <2>5. Bridges(Cont(r)) = DOMAIN obj[r].epair
    BY <2>3, <2>4 DEF Complete, Aligned, Needs
  <2>6. ASSUME NEW i \in Bridges(Cont(r)) PROVE Given(r, i)
    <3>1. i \in 1..Len(obj[r].epair) /\ <<r, i>> \in DOMAIN iface
      BY <2>2, <2>3, AlignedEpairs DEF Living
    <3>2. obj[r].epair[i] = <<r, i>> BY <2>4, <3>1 DEF Listed
    <3>3. iface[<<r, i>>] = [at |-> iface[<<r, i>>].at, bridge |-> iface[<<r, i>>].bridge,
                             addr |-> iface[<<r, i>>].addr, up |-> iface[<<r, i>>].up]
      BY <3>1 DEF Types, IfaceT, IfaceType
    <3>4. Link(r, i, Cont(r), Nets(r)[i], {"a", "b"})
      BY <2>1, <2>3 DEF ReadyRun, Equip, Set
    <3> QED BY <3>2, <3>3, <3>4 DEF Link, Given
  <2>7. Bridges(Cont(r)) # {} =>
          child[r].routes = {Nets(r)[i] : i \in Bridges(Cont(r))} \cup {Host}
    BY <2>1 DEF ReadyRun, Routed
  <2>8. Dests(Cont(r)) \subseteq Range(mounts[Cont(r)]) BY <2>1 DEF ReadyRun, Has
  <2> QED BY <2>1, <2>5, <2>6, <2>7, <2>8 DEF ReadyRun
<1> QED BY <1>1, ReadyInvariant, PTL

-----------------------------------------------------------------------------
(* A container that the worker is done with has left nothing, unless it is   *)
(* marked: its jail is of a run in hand, and its epairs are in that run's   *)
(* list, the ones before the position of the worker being destroyed.        *)
Torn == {"ifdestroy", "undevfs", "untmpfs", "unmount"}
RefusedKept == \A r \in Runs : obj[r].jid = "refused" => Cont(r) \in dirty
JailKept ==
  /\ \A c \in Containers : jail[c] # 0 => Active(c) \/ c \in dirty
  /\ w.pc \in Torn => jail[C] = 0 \/ C \in dirty
  /\ \A c \in Containers : jail[c] = 0 => \A e \in DOMAIN iface : iface[e].at # c
Kept(e) ==
  /\ e[1] \in Mine /\ e[2] <= Len(obj[e[1]].epair)
  /\ w.run = e[1] /\ w.pc = "ifdestroy" => e[2] >= w.i
EpairsKept == \A e \in DOMAIN iface : Cont(e[1]) \in dirty \/ Kept(e)

(* What a run has mounted and the worker has not yet tried to unmount: the  *)
(* positions of /dev, of /tmp and of the directories of its container.      *)
Point(c, k) == IF k = 1 THEN "dev" ELSE IF k = 2 THEN "tmp" ELSE MountsOf[c][k - 2]
Still == {"register", "fork", "deattach", "remove", "ifdestroy", "undevfs", "untmpfs"}
OwesTmp == w.pc \in {"mount"} \cup Still
OwesUser(j) == \/ w.pc \in Still
               \/ w.pc = "mount" /\ j < w.i
               \/ w.pc = "unmount" /\ j >= w.i
Owed(r) == {k \in 1..Len(MountsOf[Cont(r)]) + 2 :
  /\ k = 1 => obj[r].devfs
  /\ k = 2 /\ r = w.run => OwesTmp
  /\ k > 2 /\ r = w.run => OwesUser(k - 2)}

(* A directory is not mounted more often than it is still to be unmounted.  *)
(* (Sequences, since a directory may be mounted several times, and only the *)
(* last of these mounts is taken away by each call.)                        *)
Mounted(s, d) == {j \in 1..Len(s) : s[j] = d}
Due(c, O, d) == {k \in O : Point(c, k) = d}
Covered(c, s, O) == \A d \in Dests(c) \ Nested(c) :
                      Cardinality(Mounted(s, d)) <= Cardinality(Due(c, O, d))
MountsLeft == \A c \in Containers \ dirty :
  /\ ~Active(c) => Covered(c, mounts[c], {})
  /\ \A r \in Mine : Cont(r) = c => Covered(c, mounts[c], Owed(r))
DevfsDone == w.pc \in {"untmpfs", "unmount"} => ~Me.devfs

Tidy == RefusedKept /\ JailKept /\ EpairsKept /\ DevfsDone /\ MountsLeft

-----------------------------------------------------------------------------
LEMMA MountedFinite ==
  ASSUME NEW S, NEW s \in Seq(S), NEW d
  PROVE  IsFiniteSet(Mounted(s, d)) /\ Cardinality(Mounted(s, d)) \in Nat
<1>1. IsFiniteSet(1..Len(s)) BY FS_Interval
<1> QED BY <1>1, FS_Subset, FS_CardinalityType DEF Mounted

LEMMA DueFinite ==
  ASSUME NEW c, NEW O, IsFiniteSet(O), NEW d
  PROVE  IsFiniteSet(Due(c, O, d)) /\ Cardinality(Due(c, O, d)) \in Nat
BY FS_Subset, FS_CardinalityType DEF Due

LEMMA CoverMore ==
  ASSUME NEW c, NEW S, NEW s \in Seq(S), NEW O, NEW P, O \subseteq P, IsFiniteSet(P),
         Covered(c, s, O)
  PROVE  Covered(c, s, P)
<1> SUFFICES ASSUME NEW d \in Dests(c) \ Nested(c)
             PROVE  Cardinality(Mounted(s, d)) <= Cardinality(Due(c, P, d))
  BY DEF Covered
<1>1. Due(c, O, d) \subseteq Due(c, P, d) BY DEF Due
<1>2. Cardinality(Due(c, O, d)) <= Cardinality(Due(c, P, d)) BY <1>1, DueFinite, FS_Subset
<1>3. IsFiniteSet(O) BY FS_Subset
<1>4. Cardinality(Mounted(s, d)) <= Cardinality(Due(c, O, d)) BY DEF Covered
<1> QED BY <1>2, <1>3, <1>4, MountedFinite, DueFinite

(* Nothing is mounted where nothing is due.                                 *)
LEMMA CoverNone ==
  ASSUME NEW c, NEW S, NEW s \in Seq(S), Covered(c, s, {})
  PROVE  \A d \in Dests(c) \ Nested(c) : Mounted(s, d) = {}
<1> SUFFICES ASSUME NEW d \in Dests(c) \ Nested(c) PROVE Mounted(s, d) = {} OBVIOUS
<1>1. Due(c, {}, d) = {} BY DEF Due
<1>2. Cardinality(Mounted(s, d)) <= 0 BY <1>1, FS_EmptySet DEF Covered
<1>3. Cardinality(Mounted(s, d)) = 0 BY <1>2, MountedFinite
<1> QED BY <1>3, MountedFinite, FS_EmptySet

LEMMA MountedAppend ==
  ASSUME NEW S, NEW s \in Seq(S), NEW x \in S, NEW d
  PROVE  Mounted(Append(s, x), d) =
           IF x = d THEN Mounted(s, d) \cup {Len(s) + 1} ELSE Mounted(s, d)
<1>1. /\ Len(Append(s, x)) = Len(s) + 1 /\ Len(s) \in Nat
      /\ \A i \in 1..Len(s) : Append(s, x)[i] = s[i]
      /\ Append(s, x)[Len(s) + 1] = x
  OBVIOUS
<1>2. 1..Len(s) + 1 = (1..Len(s)) \cup {Len(s) + 1} BY <1>1
<1> HIDE DEF Mounted
<1>3. Len(s) + 1 \notin 1..Len(s) BY <1>1
<1> QED BY <1>1, <1>2, <1>3 DEF Mounted

(* A mount that is then due.                                                *)
LEMMA CoverMount ==
  ASSUME NEW c, NEW S, NEW s \in Seq(S), NEW x \in S, NEW O, IsFiniteSet(O), NEW k,
         Covered(c, s, O), Point(c, k) = x,
         k \notin O \/ (x \notin Nested(c) => Mounted(s, x) = {})
  PROVE  Covered(c, Append(s, x), O \cup {k})
<1> SUFFICES ASSUME NEW d \in Dests(c) \ Nested(c)
             PROVE  Cardinality(Mounted(Append(s, x), d)) <= Cardinality(Due(c, O \cup {k}, d))
  BY DEF Covered
<1>1. Cardinality(Mounted(s, d)) <= Cardinality(Due(c, O, d)) BY DEF Covered
<1>2. CASE x # d
  <2>1. Due(c, O \cup {k}, d) = Due(c, O, d) BY <1>2 DEF Due
  <2> QED BY <1>1, <1>2, <2>1, MountedAppend
<1>3. CASE x = d
  <2> DEFINE M == Mounted(s, d)
             D == Due(c, O, d)
  <2>1. Cardinality(Due(c, O \cup {k}, d)) = Cardinality(D \cup {k})
    <3>1. Due(c, O \cup {k}, d) = D \cup {k} BY <1>3 DEF Due
    <3> QED BY ONLY <3>1
  <2>2. Cardinality(Mounted(Append(s, x), d)) = Cardinality(M \cup {Len(s) + 1})
    <3>1. Mounted(Append(s, x), d) = M \cup {Len(s) + 1} BY <1>3, MountedAppend
    <3> QED BY ONLY <3>1
  <2>3. Len(s) + 1 \notin M BY DEF Mounted
  <2>4. IsFiniteSet(M) /\ Cardinality(M) \in Nat BY MountedFinite
  <2>5. IsFiniteSet(D) /\ Cardinality(D) \in Nat BY DueFinite
  <2>6. k \in D => k \in O BY DEF Due
  <2> HIDE DEF M, D
  <2>7. Cardinality(M \cup {Len(s) + 1}) = Cardinality(M) + 1 BY <2>3, <2>4, FS_AddElement
  <2>8. Cardinality(D \cup {k}) = IF k \in D THEN Cardinality(D) ELSE Cardinality(D) + 1
    BY <2>5, FS_AddElement
  <2>9. Cardinality(M) <= Cardinality(D) BY <1>1 DEF M, D
  <2>10. CASE k \notin O
    <3>1. Cardinality(D \cup {k}) = Cardinality(D) + 1 BY <2>6, <2>8, <2>10
    <3> QED BY <2>1, <2>2, <2>4, <2>5, <2>7, <2>9, <3>1
  <2>11. CASE M = {}
    <3>1. Cardinality(M) = 0 BY <2>11, FS_EmptySet
    <3>2. IsFiniteSet(D \cup {k}) /\ D \cup {k} # {} BY <2>5, FS_AddElement
    <3>3. Cardinality(D \cup {k}) # 0 /\ Cardinality(D \cup {k}) \in Nat
      BY <3>2, FS_EmptySet, FS_CardinalityType
    <3>4. Cardinality(M \cup {Len(s) + 1}) = 1 BY <2>7, <3>1
    <3> QED BY <2>1, <2>2, <3>3, <3>4
  <2> QED BY <1>3, <2>10, <2>11 DEF M
<1> QED BY <1>2, <1>3

(* One mount less: the later ones move up.                                  *)
LEMMA MountedRemove ==
  ASSUME NEW S, NEW s \in Seq(S), NEW i \in 1..Len(s), NEW d
  PROVE  Cardinality(Mounted(RemoveAt(s, i), d)) <= Cardinality(Mounted(s, d) \ {i})
<1> DEFINE t == RemoveAt(s, i)
           T == Mounted(t, d)
           up == [j \in T |-> IF j < i THEN j ELSE j + 1]
<1>0. Len(s) \in Nat OBVIOUS
<1>1. /\ t \in Seq(S) /\ Len(t) = Len(s) - 1
      /\ \A j \in 1..Len(s) - 1 : t[j] = IF j < i THEN s[j] ELSE s[j + 1]
  <2> HIDE DEF up, T
  <2> QED BY RemoveType
<1> HIDE DEF t
<1>2. \A j \in T : j \in 1..Len(s) - 1 /\ up[j] \in Mounted(s, d) \ {i}
  BY <1>0, <1>1 DEF Mounted
<1>3. up \in [T -> Mounted(s, d) \ {i}] BY <1>2
<1>4. \A a, b \in T : up[a] = up[b] => a = b BY <1>2
<1>5. up \in Injection(T, Mounted(s, d) \ {i}) BY <1>3, <1>4 DEF Injection, IsInjective
<1>6. IsFiniteSet(Mounted(s, d) \ {i}) BY MountedFinite, FS_RemoveElement
<1> HIDE DEF up, T
<1>7. Cardinality(T) <= Cardinality(Mounted(s, d) \ {i}) BY <1>5, <1>6, FS_Injection
<1> QED BY <1>7 DEF T, t

LEMMA CoverUnmount ==
  ASSUME NEW c, NEW S, NEW s \in Seq(S), NEW i \in 1..Len(s), NEW O, IsFiniteSet(O), NEW k \in O,
         Covered(c, s, O), Point(c, k) = s[i]
  PROVE  Covered(c, RemoveAt(s, i), O \ {k})
<1> SUFFICES ASSUME NEW d \in Dests(c) \ Nested(c)
             PROVE  Cardinality(Mounted(RemoveAt(s, i), d)) <= Cardinality(Due(c, O \ {k}, d))
  BY DEF Covered
<1> DEFINE M == Mounted(s, d)
           D == Due(c, O, d)
<1>1. Cardinality(M) <= Cardinality(D) BY DEF Covered
<1>2. IsFiniteSet(M) /\ Cardinality(M) \in Nat BY MountedFinite
<1>3. IsFiniteSet(D) /\ Cardinality(D) \in Nat BY DueFinite
<1>4. Cardinality(Due(c, O \ {k}, d)) = Cardinality(D \ {k})
  <2>1. Due(c, O \ {k}, d) = D \ {k} BY DEF Due
  <2> QED BY ONLY <2>1
<1>5. i \in M <=> k \in D BY DEF Mounted, Due
<1>6. Cardinality(Mounted(RemoveAt(s, i), d)) <= Cardinality(M \ {i}) BY MountedRemove
<1>7. Cardinality(Mounted(RemoveAt(s, i), d)) \in Nat BY RemoveType, MountedFinite
<1> HIDE DEF M, D
<1>8. Cardinality(M \ {i}) = IF i \in M THEN Cardinality(M) - 1 ELSE Cardinality(M)
  BY <1>2, FS_RemoveElement
<1>9. Cardinality(D \ {k}) = IF k \in D THEN Cardinality(D) - 1 ELSE Cardinality(D)
  BY <1>3, FS_RemoveElement
<1>10. CASE i \in M
  <2>1. k \in D BY <1>5, <1>10
  <2>2. Cardinality(D \ {k}) = Cardinality(D) - 1 /\ Cardinality(M \ {i}) = Cardinality(M) - 1
    BY <1>8, <1>9, <1>10, <2>1
  <2> QED BY <1>1, <1>2, <1>3, <1>4, <1>6, <1>7, <2>2
<1>11. CASE i \notin M
  <2>1. k \notin D BY <1>5, <1>11
  <2>2. Cardinality(D \ {k}) = Cardinality(D) /\ Cardinality(M \ {i}) = Cardinality(M)
    BY <1>8, <1>9, <1>11, <2>1
  <2> QED BY <1>1, <1>2, <1>3, <1>4, <1>6, <1>7, <2>2
<1> QED BY <1>10, <1>11

(* Where nothing is mounted, nothing is due.                                 *)
LEMMA CoverSettled ==
  ASSUME NEW c, NEW S, NEW s \in Seq(S), NEW O, IsFiniteSet(O), NEW k \in O,
         Covered(c, s, O), Point(c, k) \notin Nested(c) => Mounted(s, Point(c, k)) = {}
  PROVE  Covered(c, s, O \ {k})
<1> SUFFICES ASSUME NEW d \in Dests(c) \ Nested(c)
             PROVE  Cardinality(Mounted(s, d)) <= Cardinality(Due(c, O \ {k}, d))
  BY DEF Covered
<1>1. IsFiniteSet(O \ {k}) BY FS_RemoveElement
<1>2. CASE d = Point(c, k)
  <2>1. Cardinality(Mounted(s, d)) = 0 BY <1>2, FS_EmptySet
  <2> QED BY <1>1, <2>1, DueFinite
<1>3. CASE d # Point(c, k)
  <2>1. Due(c, O \ {k}, d) = Due(c, O, d) BY <1>3 DEF Due
  <2> QED BY <2>1 DEF Covered
<1> QED BY <1>2, <1>3

-----------------------------------------------------------------------------
(* The order in which the worker makes and takes away.                      *)
LEMMA GoesTo ==
  ASSUME Types
  PROVE  /\ \A pc : Go(pc) => w'.pc = pc /\ w'.i = 1
         /\ \A pc : w' = [w EXCEPT !.pc = pc] => w'.pc = pc
         /\ \A pc : w' = [w EXCEPT !.pc = pc, !.i = @ + 1] => w'.pc = pc
         /\ Again => w'.pc = w.pc /\ w'.i = w.i + 1
<1>1. w = [pc |-> w.pc, run |-> w.run, i |-> w.i] BY DEF Types, WorkT, WorkerType
<1> QED BY <1>1 DEF Go, Again

LEMMA TearOrder ==
  ASSUME Types, Structure, Work, w' # Idle
  PROVE  /\ w'.pc \in Torn =>
              w.pc \in Torn \/ (w.pc = "remove" /\ (StopJail \/ StopJailFails))
         /\ w'.pc = "ifdestroy" =>
              w'.i = 1 \/ (/\ w.pc = "ifdestroy" /\ w'.i = w.i + 1
                           /\ DestroyEpair \/ DestroyEpairFails)
         /\ w'.pc \in {"untmpfs", "unmount"} =>
              \/ w.pc \in {"untmpfs", "unmount"}
              \/ w.pc = "undevfs" /\ (UnmountDevfs \/ UnmountDevfsFails)
<1> USE GoesTo DEF At
<1>1. CASE Make
  <2>1. w'.pc \in Making \/ w'.pc = "deattach"
    BY <1>1 DEF Make, JailSet, JailRefused, Created, PassOver, CreateEpair, EpairFails,
       AddToBridge, NextNet, RefusalRaises, BridgeFails, Attach, AttachFails, NextAttach, MountDevfs, DevfsFails, MountTmpfs,
       TmpfsFails, FsMount, MountUser, MountUserFails, NextMount, MkdirFails, Register, GiveUp,
       Fork, ForkFails, Raise, Making
  <2> QED BY <2>1 DEF Making, Torn
<1>2. CASE Deattach
  <2>1. w'.pc \in {"deattach", "remove"} BY <1>2 DEF Deattach, NextDeattach
  <2> QED BY <2>1 DEF Torn
<1>3. CASE StopJail \/ StopJailFails
  <2>1. w.pc = "remove" BY <1>3 DEF StopJail, StopJailFails
  <2>2. w'.pc \in {"undevfs", "ifdestroy"} /\ w'.i = 1
    BY <1>3 DEF StopJail, StopJailFails, AfterRemove
  <2> QED BY <1>3, <2>1, <2>2
<1>4. CASE DestroyEpair \/ DestroyEpairFails
  <2>1. w.pc = "ifdestroy" BY <1>4 DEF DestroyEpair, DestroyEpairFails
  <2>2. w'.pc = "undevfs" \/ (w'.pc = "ifdestroy" /\ w'.i = w.i + 1)
    BY <1>4, <2>1 DEF DestroyEpair, DestroyEpairFails, NextDestroy
  <2> QED BY <1>4, <2>1, <2>2 DEF Torn
<1>5. CASE UnmountDevfs \/ UnmountDevfsFails
  <2>1. w.pc = "undevfs" /\ w'.pc = "untmpfs" BY <1>5 DEF UnmountDevfs, UnmountDevfsFails
  <2> QED BY <1>5, <2>1 DEF Torn
<1>6. CASE UnmountTmpfs \/ UnmountTmpfsFails \/ UnmountUser \/ UnmountFails
  <2>1. w.pc \in {"untmpfs", "unmount"}
    BY <1>6 DEF UnmountTmpfs, UnmountTmpfsFails, UnmountUser, UnmountFails
  <2>2. w'.pc = "unmount"
    BY <1>6, <2>1
       DEF UnmountTmpfs, UnmountTmpfsFails, AfterTmpfs, UnmountUser, UnmountFails, NextUnmount,
           AllDone
  <2> QED BY <2>1, <2>2 DEF Torn
<1>7. ~StopJailRaises BY DEF StopJailRaises
<1> QED BY <1>7, <1>1, <1>2, <1>3, <1>4, <1>5, <1>6 DEF Work, Destroy

LEMMA MountOrder ==
  ASSUME Types, Structure, Work, w' # Idle
  PROVE  /\ w.pc \in {"mount"} \cup (Still \ {"untmpfs"}) =>
              \/ w'.pc \in Still
              \/ w.pc = "mount" /\ w'.pc = "mount" /\ w'.i = w.i + 1
         /\ w.pc = "untmpfs" =>
              (UnmountTmpfs \/ UnmountTmpfsFails) /\ w'.pc = "unmount" /\ w'.i = 1
         /\ w.pc = "unmount" =>
              (UnmountUser \/ UnmountFails) /\ w'.pc = "unmount" /\ w'.i = w.i + 1
<1> USE GoesTo DEF At
<1>1. CASE w.pc \in Making
  <2>1. ~Destroy
    BY <1>1 DEF Destroy, Deattach, StopJail, StopJailFails, StopJailRaises, DestroyEpair,
       DestroyEpairFails, UnmountDevfs, UnmountDevfsFails, UnmountTmpfs, UnmountTmpfsFails,
       UnmountUser, UnmountFails, Making
  <2>2. CASE w.pc = "mount"
    <3>1. MountUser \/ MountUserFails \/ MkdirFails
      BY <2>1, <2>2 DEF Work, Make, JailSet, JailRefused, PassOver, CreateEpair, EpairFails, RefusalRaises, AddToBridge,
         BridgeFails, Attach, AttachFails, MountDevfs, DevfsFails, MountTmpfs, TmpfsFails,
         Register, GiveUp, Fork, ForkFails
    <3>2. w'.pc \in {"register", "deattach"} \/ (w'.pc = "mount" /\ w'.i = w.i + 1)
      BY <2>2, <3>1 DEF MountUser, MountUserFails, MkdirFails, NextMount, Raise
    <3> QED BY <2>2, <3>2 DEF Still
  <2>3. CASE w.pc \in {"register", "fork"}
    <3>1. Register \/ GiveUp \/ RefusalRaises \/ Fork \/ ForkFails
      BY <2>1, <2>3 DEF Work, Make, JailSet, JailRefused, PassOver, CreateEpair, EpairFails, AddToBridge,
         BridgeFails, Attach, AttachFails, MountDevfs, DevfsFails, MountTmpfs, TmpfsFails,
         MountUser, MountUserFails, MkdirFails
    <3>2. w'.pc \in {"fork", "deattach"}
      BY <2>3, <3>1 DEF Register, GiveUp, RefusalRaises, Fork, ForkFails, Raise
    <3> QED BY <2>3, <3>2 DEF Still
  <2> QED BY <1>1, <2>2, <2>3 DEF Making, Still
<1>2. CASE w.pc \in Destroying
  <2>1. ~Make
    BY <1>2 DEF Make, JailSet, JailRefused, PassOver, CreateEpair, EpairFails, RefusalRaises, AddToBridge,
       BridgeFails, Attach, AttachFails, MountDevfs, DevfsFails, MountTmpfs, TmpfsFails,
       MountUser, MountUserFails, MkdirFails, Register, GiveUp, Fork, ForkFails, Destroying
  <2>2. Deattach \/ StopJail \/ StopJailFails \/ DestroyEpair \/ DestroyEpairFails =>
          /\ w.pc \in {"deattach", "remove", "ifdestroy"}
          /\ w'.pc \in {"deattach", "remove", "ifdestroy", "undevfs"}
    BY DEF Deattach, NextDeattach, StopJail, StopJailFails, AfterRemove, DestroyEpair,
       DestroyEpairFails, NextDestroy
  <2>3. UnmountDevfs \/ UnmountDevfsFails => w.pc = "undevfs" /\ w'.pc = "untmpfs"
    BY DEF UnmountDevfs, UnmountDevfsFails
  <2>4. UnmountTmpfs \/ UnmountTmpfsFails =>
          w.pc = "untmpfs" /\ w'.pc = "unmount" /\ w'.i = 1
    BY DEF UnmountTmpfs, UnmountTmpfsFails, AfterTmpfs, AllDone
  <2>5. UnmountUser \/ UnmountFails => w.pc = "unmount" /\ w'.pc = "unmount" /\ w'.i = w.i + 1
    BY DEF UnmountUser, UnmountFails, NextUnmount, AllDone
  <2>6. ~StopJailRaises BY DEF StopJailRaises
  <2> QED BY <1>2, <2>1, <2>2, <2>3, <2>4, <2>5, <2>6 DEF Work, Destroy, Still
<1> QED BY <1>1, <1>2, Moves DEF Busy, Types, WorkT, WorkerType

-----------------------------------------------------------------------------
(* What a step does to the fields of an object, and to the jails.           *)
LEMMA FlagChange ==
  ASSUME Types, Structure, Next, NEW r \in Runs
  PROVE  /\ \/ obj'[r].jid = "refused" => obj[r].jid = "refused"
            \/ Work /\ JailRefused /\ r = w.run
         /\ \/ obj'[r].devfs = obj[r].devfs
            \/ /\ Work /\ r = w.run
               /\ \/ GiveUp
                  \/ MountDevfs \/ DevfsFails
                  \/ StopJailRaises
                  \/ (UnmountDevfs \/ UnmountDevfsFails) /\ obj'[r].devfs = FALSE
            \/ Kill
<1> USE DEF Types, ObjT, ObjType
<1>1. Forgotten(r).jid = "none" BY DEF Forgotten, NoObj
<1>2. CASE Work
  <2>1. w.run \in Runs BY <1>2, Moves, InHand DEF Structure
  <2>2. CASE JailSet
    <3>1. obj' = [obj EXCEPT ![w.run] = [obj[w.run] EXCEPT !.jid = "ok"]]
      BY <2>2 DEF JailSet, Created
    <3> QED BY <2>1, <3>1
  <2>3. CASE JailRefused
    <3>1. obj' = [obj EXCEPT ![w.run] = [obj[w.run] EXCEPT !.jid = "refused"]]
      BY <2>3 DEF JailRefused, Created
    <3> QED BY <1>2, <2>1, <2>3, <3>1
  <2>4. CASE CreateEpair \/ DestroyEpair \/ DestroyEpairFails
    <3>1. \/ UNCHANGED obj
          \/ \E l : obj' = [obj EXCEPT ![w.run] = [obj[w.run] EXCEPT !.epair = l]]
      BY <2>4 DEF CreateEpair, DestroyEpair, DestroyEpairFails, NextDestroy
    <3>2. CASE UNCHANGED obj BY <3>2
    <3>3. ASSUME NEW l, obj' = [obj EXCEPT ![w.run] = [obj[w.run] EXCEPT !.epair = l]]
          PROVE  obj'[r].jid = obj[r].jid /\ obj'[r].devfs = obj[r].devfs
      BY <2>1, <3>3
    <3> QED BY <3>1, <3>2, <3>3
  <2>5. CASE MountDevfs \/ DevfsFails
    <3>1. obj' = [obj EXCEPT ![w.run] = [obj[w.run] EXCEPT !.devfs = TRUE]]
      BY <2>5 DEF MountDevfs, DevfsFails
    <3> QED BY <1>2, <2>1, <2>5, <3>1
  <2>6. CASE UnmountDevfs
    <3>1. obj' = [obj EXCEPT ![w.run] = [obj[w.run] EXCEPT !.devfs = FALSE]]
      BY <2>6 DEF UnmountDevfs
    <3> QED BY <1>2, <2>1, <2>6, <3>1
  <2>7. CASE GiveUp \/ StopJailRaises
    <3>1. obj' = [obj EXCEPT ![w.run] = Forgotten(w.run)] BY <2>7 DEF GiveUp, StopJailRaises
    <3> QED BY <1>1, <1>2, <2>1, <2>7, <3>1
  <2>8. CASE UnmountDevfsFails
    <3>1. obj' = [obj EXCEPT ![w.run] = [obj[w.run] EXCEPT !.devfs = FALSE]]
      BY <2>8 DEF UnmountDevfsFails
    <3> QED BY <1>2, <2>1, <2>8, <3>1
  <2> QED BY <1>2, <2>2, <2>3, <2>4, <2>5, <2>6, <2>7, <2>8, Moves
<1>3. ASSUME NEW c \in Containers, Start(c)
      PROVE  obj'[r].jid = obj[r].jid /\ obj'[r].devfs = obj[r].devfs
  <2>1. PICK s \in Runs : obj' = [obj EXCEPT ![s] = [obj[s] EXCEPT !.cont = c]]
    BY <1>3 DEF Start
  <2> QED BY <2>1
<1>4. ASSUME NEW c \in Containers, Stop(c) PROVE obj' = obj BY <1>4 DEF Stop
<1>5. CASE Kill
  <2>1. obj'[r] = IF child[r].pc \in Living THEN obj[r] ELSE Forgotten(r) BY <1>5 DEF Kill
  <2> QED BY <1>1, <1>5, <2>1
<1>6. ASSUME NEW s \in Started, Reap(s) \/ ChildStep(s) PROVE obj' = obj
  BY <1>6, ChildMoves DEF Reap
<1>7. ASSUME NEW e \in DOMAIN iface, ComeHome(e) PROVE obj' = obj BY <1>7 DEF ComeHome
<1> QED BY <1>2, <1>3, <1>4, <1>5, <1>6, <1>7, Steps

LEMMA JailChange ==
  ASSUME Types, Structure, Next
  PROVE  \/ jail' = jail
         \/ Work /\ JailSet /\ jail' = [jail EXCEPT ![C] = w.run]
         \/ \E c \in Containers : /\ JailRemove(c)
                                  /\ Stop(c) \/ (Work /\ StopJail /\ c = C)
<1>1. CASE Work
  <2>1. C \in Containers BY <1>1, Moves, InHand DEF Structure
  <2> QED BY <1>1, <2>1, Moves DEF JailSet, StopJail
<1>2. ASSUME NEW c \in Containers, Start(c) PROVE jail' = jail BY <1>2 DEF Start, host
<1>3. ASSUME NEW c \in Containers, Stop(c) PROVE JailRemove(c) BY <1>3 DEF Stop
<1>4. ASSUME NEW r \in Started, Reap(r) \/ ChildStep(r) PROVE jail' = jail
  BY <1>4, ChildMoves DEF Reap, host
<1>5. Kill \/ (\E e \in DOMAIN iface : ComeHome(e)) => jail' = jail BY DEF Kill, host, ComeHome
<1> QED BY <1>1, <1>2, <1>3, <1>4, <1>5, Steps

LEMMA DirtyGrows ==
  ASSUME Types, Structure, Next
  PROVE  dirty \subseteq dirty'
<1>1. Work => dirty \subseteq dirty' BY Moves DEF ForkFails
<1>2. \A c \in Containers : Start(c) \/ Stop(c) => dirty' = dirty BY DEF Start, Stop
<1>3. \A r \in Started : Reap(r) => dirty' = dirty BY DEF Reap
<1>4. ASSUME NEW r \in Started, ChildStep(r) PROVE dirty' = dirty BY <1>4, ChildMoves
<1>5. Kill \/ (\E e \in DOMAIN iface : ComeHome(e)) => dirty \subseteq dirty'
  BY DEF Kill, ComeHome
<1> QED BY <1>1, <1>2, <1>3, <1>4, <1>5, Steps

(* What the worker is done with was torn down, or is marked.                *)
LEMMA DoneWith ==
  ASSUME Types, Structure, RefusedKept, Next, NEW r \in Mine, r \notin Mine'
  PROVE  \/ Cont(r) \in dirty'
         \/ Work /\ AllDone /\ r = w.run /\ w.pc \in {"untmpfs", "unmount"}
<1>1. r \in Started /\ r \in Runs /\ Cont(r) \in Containers
  BY MineStarted DEF Started, Cont, Types, ObjT, ObjType, Places
<1>2. CASE Work
  <2>1. Busy /\ w.run \in Runs BY <1>2, Moves, InHand DEF Structure
  <2>2. CASE w' # Idle BY <1>2, <2>2, SameRun DEF Mine
  <2>3. CASE GiveUp
    <3>1. dict' = dict /\ Me.jid = "refused" /\ dirty' = dirty BY <2>3 DEF GiveUp
    <3>2. r = w.run BY <3>1 DEF Mine
    <3> QED BY <1>1, <3>1, <3>2 DEF RefusedKept, Me
  <2>4. CASE Fork BY <2>4 DEF Fork, Mine
  <2>5. CASE ForkFails
    <3>1. dict' = (dict \ Unborn) \cup {w.run} BY <2>5 DEF ForkFails
    <3>2. r \in Unborn BY <3>1 DEF Mine
    <3> QED BY <2>5, <3>2 DEF ForkFails
  <2>6. CASE AllDone /\ w.pc \in {"untmpfs", "unmount"}
    <3>1. dict' = dict \ {w.run} BY <2>6 DEF AllDone
    <3>2. r = w.run BY <3>1 DEF Mine
    <3> QED BY <1>2, <2>6, <3>2
  <2>7. CASE StopJailRaises
    <3>1. dict' = dict \ {w.run} /\ dirty' = dirty \cup {C} BY <2>7 DEF StopJailRaises, Spill
    <3>2. r = w.run BY <3>1 DEF Mine
    <3> QED BY <3>1, <3>2 DEF C
  <2> QED BY <1>2, <2>2, <2>3, <2>4, <2>5, <2>6, <2>7, Ends
<1>3. ASSUME NEW c \in Containers, Start(c) PROVE FALSE
  <2>1. w.run = 0 /\ dict' = dict BY <1>3 DEF Start, At, Types, WorkT
  <2> QED BY <2>1 DEF Mine, Runs
<1>4. ASSUME UNCHANGED <<w, dict>> PROVE FALSE BY <1>4 DEF Mine
<1>5. ASSUME NEW s \in Started, Reap(s) PROVE FALSE
  <2>1. w.run = 0 /\ dict' = dict BY <1>5 DEF Reap, At, Types, WorkT
  <2> QED BY <2>1 DEF Mine, Runs
<1>6. CASE Kill
  <2>1. Active(Cont(r)) BY DEF Active, Mine
  <2> QED BY <1>1, <1>6, <2>1 DEF Kill
<1>7. ASSUME NEW s \in Started, ChildStep(s) PROVE FALSE BY <1>4, <1>7, ChildMoves
<1>8. ASSUME NEW c \in Containers, Stop(c) PROVE FALSE BY <1>4, <1>8 DEF Stop
<1>9. ASSUME NEW e \in DOMAIN iface, ComeHome(e) PROVE FALSE BY <1>4, <1>9 DEF ComeHome
<1> QED BY <1>2, <1>3, <1>5, <1>6, <1>7, <1>8, <1>9, Steps

-----------------------------------------------------------------------------
(* Jails and epairs.                                                        *)
LEMMA RefusedStep ==
  ASSUME Types, Structure, RefusedKept, Next
  PROVE  RefusedKept'
<1> SUFFICES ASSUME NEW r \in Runs, obj'[r].jid = "refused" PROVE Cont(r)' \in dirty'
  BY DEF RefusedKept
<1>1. CASE Work /\ JailRefused /\ r = w.run
  <2>1. r \in Started /\ C = Cont(r) BY <1>1, Moves, InHand DEF Structure, C
  <2> QED BY <1>1, <2>1, Conts DEF JailRefused
<1>2. CASE obj[r].jid = "refused"
  <2>1. Cont(r) \in dirty BY <1>2 DEF RefusedKept
  <2>2. r \in Started BY <2>1, ResourceAssumption DEF Types, HistT, Started, Cont
  <2> QED BY <2>1, <2>2, Conts, DirtyGrows
<1> QED BY <1>1, <1>2, FlagChange

(* A run in hand of a container that is not marked stays in hand, unless it *)
(* has been torn down.                                                      *)
LEMMA StaysActive ==
  ASSUME Types, Structure, RefusedKept, Next, NEW c \in Containers \ dirty', Active(c)
  PROVE  Active(c)' \/ (Work /\ AllDone /\ C = c /\ w.pc \in {"untmpfs", "unmount"})
<1>1. PICK r \in Mine : Cont(r) = c BY DEF Active, Mine
<1>2. Cont(r)' = c BY <1>1, MineStarted, Conts
<1>3. CASE r \in Mine' BY <1>2, <1>3 DEF Active, Mine
<1>4. CASE r \notin Mine' BY <1>1, <1>4, DoneWith DEF C
<1> QED BY <1>3, <1>4

LEMMA JailOwner ==
  ASSUME Types, Structure, RefusedKept, JailKept, Next,
         NEW c \in Containers \ dirty', jail'[c] # 0
  PROVE  Active(c)'
<1>1. CASE Work /\ JailSet /\ c = C
  <2>1. w' # Idle
    <3>1. w'.pc # "idle" BY <1>1, GoesTo DEF JailSet, Created
    <3> QED BY <3>1 DEF Idle
  <2>2. w'.run = w.run /\ w.run \in Runs /\ C' = C BY <1>1, <2>1, SameRun
  <2> QED BY <1>1, <2>2 DEF Active, C
<1>2. CASE jail[c] # 0
  <2>1. c \notin dirty BY DirtyGrows
  <2>2. Active(c) BY <1>2, <2>1 DEF JailKept
  <2>3. w.pc \in {"untmpfs", "unmount"} => C # c BY <1>2, <2>1 DEF JailKept, Torn
  <2> QED BY <2>2, <2>3, StaysActive
<1>3. CASE jail[c] = 0 /\ ~(Work /\ JailSet /\ c = C)
  <2>1. \A b : JailRemove(b) => jail'[c] = 0 BY <1>3 DEF JailRemove, Types, JailT
  <2>2. jail' = [jail EXCEPT ![C] = w.run] /\ c # C => jail'[c] = 0 BY <1>3 DEF Types, JailT
  <2> QED BY <1>3, <2>1, <2>2, JailChange
<1> QED BY <1>1, <1>2, <1>3

LEMMA JailTorn ==
  ASSUME Types, Structure, JailKept, Next, w'.pc \in Torn
  PROVE  jail'[C'] = 0 \/ C' \in dirty'
<1>1. CASE Work
  <2>1. w' # Idle BY DEF Idle, Torn
  <2>2. C' = C /\ C \in Containers BY <1>1, <2>1, SameRun, Moves, InHand DEF Structure
  <2>3. CASE w.pc = "remove" /\ StopJailFails
    BY <2>2, <2>3 DEF StopJailFails, Spill
  <2>4. CASE w.pc = "remove" /\ StopJail
    BY <2>2, <2>4 DEF StopJail, JailExists, JailRemove, Types, JailT
  <2>5. CASE w.pc \in Torn
    <3>1. ~JailSet /\ ~StopJail BY <2>5 DEF JailSet, StopJail, At, Torn
    <3>2. jail' = jail BY <1>1, <3>1, Moves
    <3> QED BY <2>2, <2>5, <3>2, DirtyGrows DEF JailKept
  <2> QED BY <1>1, <2>1, <2>3, <2>4, <2>5, TearOrder
<1>2. ASSUME UNCHANGED <<w, obj>>, ~Work
      PROVE  jail'[C'] = 0 \/ C' \in dirty'
  <2>1. C' = C BY <1>2 DEF C, Cont
  <2>2. jail[C] = 0 \/ C \in dirty BY <1>2 DEF JailKept
  <2>3. Busy BY <1>2 DEF Busy, Torn
  <2>4. C \in Containers BY <2>3, InHand DEF Structure
  <2>5. jail[C] = 0 => jail'[C] = 0
    BY <1>2, <2>4, JailChange DEF JailRemove, Types, JailT
  <2> QED BY <2>1, <2>2, <2>5, DirtyGrows
<1>3. ASSUME NEW c \in Containers, Start(c) PROVE FALSE
  <2>1. w'.pc = "create" BY <1>3 DEF Start
  <2> QED BY <2>1 DEF Torn
<1>4. ASSUME NEW r \in Started, Reap(r) PROVE FALSE
  <2>1. w'.pc = "deattach" BY <1>4 DEF Reap
  <2> QED BY <2>1 DEF Torn
<1>5. CASE Kill
  <2>1. w'.pc = "idle" BY <1>5 DEF Kill, Idle
  <2> QED BY <2>1 DEF Torn
<1>6. ASSUME NEW c \in Containers, Stop(c) PROVE UNCHANGED <<w, obj>> BY <1>6 DEF Stop
<1>7. ASSUME NEW r \in Started, ChildStep(r) PROVE UNCHANGED <<w, obj>> BY <1>7, ChildMoves
<1>8. ASSUME NEW e \in DOMAIN iface, ComeHome(e) PROVE UNCHANGED <<w, obj>>
  BY <1>8 DEF ComeHome
<1> QED BY <1>1, <1>2, <1>3, <1>4, <1>5, <1>6, <1>7, <1>8, Steps

(* No epair is in a jail that is not there.                                 *)
LEMMA JailEmpty ==
  ASSUME Types, Structure, JailKept, Next, NEW c \in Containers, jail'[c] = 0,
         NEW e \in DOMAIN iface'
  PROVE  iface'[e].at # c
<1>1. c # Host /\ c # Dying BY ResourceAssumption
<1>2. CASE e \notin DOMAIN iface
  <2>1. iface'[e] = [at |-> Host, bridge |-> Host, addr |-> Host, up |-> {}]
    BY <1>2, IfaceNew
  <2> QED BY <1>1, <2>1
<1>3. CASE e \in DOMAIN iface /\ jail[c] = 0
  <2>1. iface[e].at # c BY <1>3 DEF JailKept
  <2>2. Work /\ Attach => C # c BY <1>3 DEF Attach, JailExists
  <2>3. iface[e] \in IfaceType BY <1>3 DEF Types, IfaceT
  <2>4. Home(e).at = Host /\ Stuck(e).at = Dying BY <1>3, Fields
  <2>5. [iface[e] EXCEPT !.at = C].at = C BY <2>3 DEF IfaceType
  <2>6. (iface'[e].at = C /\ Work /\ Attach) \/ iface'[e].at \in {iface[e].at, Host, Dying}
    <3>1. CASE iface'[e] \in {iface[e], Home(e), Stuck(e)} BY <2>4, <3>1
    <3>2. CASE Work /\ CreateEpair
      <4>1. iface'[e] = iface[e] \/ iface'[e].at = Host
        BY <1>3, <3>2 DEF CreateEpair, CreateInterface
      <4> QED BY <4>1
    <3>3. CASE iface'[e] \in {Joined(e, Wanted), Up(Joined(e, Wanted), "b")}
      BY <1>3, <3>3, Fields
    <3>4. CASE Work /\ Attach /\ iface'[e] = [iface[e] EXCEPT !.at = C] BY <2>5, <3>4
    <3>5. ASSUME NEW n, iface'[e] \in {Addressed(e, n), Up(Addressed(e, n), "a")}
          PROVE  iface'[e].at = iface[e].at
      BY <1>3, <3>5, Fields
    <3>6. CASE Work /\ DestroyEpair
      <4>1. iface'[e] = iface[e]
        BY <1>3, <3>6 DEF DestroyEpair, DestroyInterface, Restrict
      <4> QED BY <4>1
    <3>7. CASE \E n : iface'[e] \in {Addressed(e, n), Up(Addressed(e, n), "a")} BY <3>5, <3>7
    <3> QED BY <1>3, <3>1, <3>2, <3>3, <3>4, <3>6, <3>7, IfaceChange
  <2> QED BY <1>1, <2>1, <2>2, <2>6
<1>4. CASE e \in DOMAIN iface /\ jail[c] # 0
  <2>1. JailRemove(c)
    <3>1. ~(jail' = jail) BY <1>4
    <3>2. ~(Work /\ JailSet /\ jail' = [jail EXCEPT ![C] = w.run])
      <4> SUFFICES ASSUME Work, JailSet, jail' = [jail EXCEPT ![C] = w.run] PROVE FALSE
        OBVIOUS
      <4>1. w.run # 0 /\ C \in Containers
        BY Moves, InHand DEF Structure, Types, WorkT, Busy
      <4> QED BY <1>4, <4>1 DEF Types, JailT
    <3>3. PICK b \in Containers : JailRemove(b) BY <3>1, <3>2, JailChange
    <3>4. b = c BY <1>4, <3>3 DEF JailRemove, Types, JailT
    <3> QED BY <3>3, <3>4
  <2>2. \/ iface[e].at = c /\ iface'[e] \in {Home(e), Stuck(e)}
        \/ iface[e].at # c /\ iface'[e] = iface[e]
    BY <1>4, <2>1 DEF JailRemove
  <2> QED BY <1>1, <1>4, <2>2, Fields
<1> QED BY <1>2, <1>3, <1>4

LEMMA JailKeptStep ==
  ASSUME Types, Structure, RefusedKept, JailKept, Next
  PROVE  JailKept'
<1>1. \A c \in Containers : jail'[c] # 0 => Active(c)' \/ c \in dirty' BY JailOwner
<1>2. w'.pc \in Torn => jail'[C'] = 0 \/ C' \in dirty' BY JailTorn
<1>3. \A c \in Containers : jail'[c] = 0 => \A e \in DOMAIN iface' : iface'[e].at # c
  BY JailEmpty
<1> QED BY <1>1, <1>2, <1>3 DEF JailKept

(* An epair that the list of its run has is kept in it until it is          *)
(* destroyed.                                                               *)
LEMMA EpairStays ==
  ASSUME Types, Structure, RefusedKept, JailKept, Next,
         NEW e \in DOMAIN iface, e \in DOMAIN iface', Kept(e), Cont(e[1]) \notin dirty'
  PROVE  Kept(e)'
<1> DEFINE r == e[1]
<1>1. /\ r \in Runs /\ r \in Started /\ r \in Mine /\ e[2] \in Nat /\ e[2] >= 1
      /\ e = <<r, e[2]>> /\ e[2] <= Len(obj[r].epair)
      /\ Cont(r) \in Containers /\ Cont(r) \notin dirty'
  <2>1. r \in Started /\ e[2] \in 1..Len(Nets(r)) BY DEF Structure, Ifaces
  <2>2. r \in Runs /\ e[2] \in Nat /\ e = <<r, e[2]>> BY DEF Types, IfaceT
  <2>3. Cont(r) \in Containers BY <2>1 DEF Started, Cont, Types, ObjT, ObjType, Places
  <2> QED BY <2>1, <2>2, <2>3 DEF Kept
<1>2. w.run = r /\ w.pc = "ifdestroy" => e[2] >= w.i BY DEF Kept
<1> HIDE DEF r
<1>3. Len(obj[r].epair) \in Nat /\ obj[r].epair \in Seq(Runs \X Nat)
  BY <1>1 DEF Types, ObjT, ObjType
(* The one in hand does not survive its destruction.                        *)
<1>4. ASSUME Work, w.pc = "ifdestroy", r = w.run
      PROVE  DestroyEpair /\ e[2] # w.i
  <2>1. DestroyEpair
    <3>1. DestroyEpair \/ DestroyEpairFails
      BY <1>4 DEF Work, Make, Destroy, JailSet, JailRefused, PassOver, CreateEpair, EpairFails,
         AddToBridge, BridgeFails, Attach, AttachFails, MountDevfs, DevfsFails, MountTmpfs,
         TmpfsFails, MountUser, MountUserFails, MkdirFails, Register, GiveUp, RefusalRaises,
         Fork, ForkFails, Deattach, StopJail, StopJailFails, StopJailRaises, UnmountDevfs,
         UnmountDevfsFails, UnmountTmpfs, UnmountTmpfsFails, UnmountUser, UnmountFails, At
    <3>2. ~DestroyEpairFails BY <1>1, <1>4 DEF DestroyEpairFails, C
    <3> QED BY <3>1, <3>2
  <2>2. Busy /\ w.i <= Len(Me.epair) BY <1>4 DEF Busy, Structure, WorkerInv, Stage
  <2>3. Epair = <<w.run, w.i>> BY <2>2, EpairInHand
  <2>4. e # Epair
    <3>1. iface' = Restrict(iface, DOMAIN iface \ {Epair}) /\ Epair = e => FALSE
      BY DEF Restrict
    <3> QED BY <2>1, <3>1 DEF DestroyEpair, DestroyInterface
  <2> QED BY <1>1, <1>4, <2>1, <2>3, <2>4
<1>5. r \in Mine'
  <2> SUFFICES ASSUME r \notin Mine' PROVE FALSE OBVIOUS
  <2>1. Work /\ r = w.run /\ w.pc \in {"untmpfs", "unmount"} BY <1>1, DoneWith
  <2>2. obj[r].epair = <<>> BY <2>1, Moves DEF Structure, WorkerInv, Stage, Me
  <2> QED BY <1>1, <2>2
<1>6. e[2] <= Len(obj'[r].epair)
  <2>1. CASE obj'[r].epair = obj[r].epair BY <1>1, <2>1
  <2>2. CASE Work /\ r = w.run /\ obj'[r].epair = Append(Me.epair, New)
    <3>1. New \in Runs \X Nat BY <1>1, <1>3, <2>2 DEF New, Me
    <3>2. Len(Append(obj[r].epair, New)) = Len(obj[r].epair) + 1 BY <1>3, <3>1
    <3>3. Len(obj'[r].epair) = Len(obj[r].epair) + 1 BY <2>2, <3>2 DEF Me
    <3> QED BY <1>1, <1>3, <3>3
  <2>3. CASE Work /\ r = w.run /\ GiveUp /\ obj'[r].epair = <<>>
    <3>1. Cont(r) \in dirty BY <1>1, <2>3 DEF GiveUp, RefusedKept, Me
    <3> QED BY <1>1, <3>1, DirtyGrows
  <2>4. CASE Work /\ r = w.run /\ w.pc = "ifdestroy" /\ obj'[r].epair = <<>>
    <3>1. DestroyEpair /\ e[2] # w.i BY <1>4, <2>4
    <3>2. w.i < Len(Me.epair)
      <4>1. e[2] >= w.i BY <1>2, <2>4
      <4>2. w.i \in Nat BY DEF Types, WorkT, WorkerType
      <4> QED BY <1>1, <1>3, <2>4, <3>1, <4>1, <4>2 DEF Me
    <3>3. obj' = obj BY <3>1, <3>2 DEF DestroyEpair, NextDestroy
    <3> QED BY <1>1, <3>3
  <2>5. CASE Kill
    <3>1. Active(Cont(r)) BY <1>1 DEF Active, Mine
    <3> QED BY <1>1, <2>5, <3>1 DEF Kill
  <2>6. CASE Work /\ r = w.run /\ StopJailRaises
    BY <1>1, <2>6 DEF StopJailRaises, Spill, C
  <2> QED BY <1>1, <2>1, <2>2, <2>3, <2>4, <2>5, <2>6, EpairChange
<1>7. ASSUME w'.run = r, w'.pc = "ifdestroy" PROVE e[2] >= w'.i
  <2>1. CASE Work
    <3>1. w' # Idle BY <1>7 DEF Idle
    <3>2. w.run = r BY <1>7, <2>1, <3>1, SameRun
    <3>3. CASE w.pc = "ifdestroy" /\ w'.i = w.i + 1
      <4>1. e[2] >= w.i /\ e[2] # w.i BY <1>2, <1>4, <2>1, <3>2, <3>3
      <4>2. w.i \in Nat BY DEF Types, WorkT, WorkerType
      <4> QED BY <1>1, <3>3, <4>1, <4>2
    <3> QED BY <1>1, <1>7, <2>1, <3>1, <3>3, TearOrder
  <2>2. CASE w' = w BY <1>2, <1>7, <2>2
  <2>3. ASSUME NEW c \in Containers, Start(c) PROVE FALSE BY <1>7, <2>3 DEF Start
  <2>4. ASSUME NEW s \in Started, Reap(s) PROVE FALSE BY <1>7, <2>4 DEF Reap
  <2>5. CASE Kill BY <1>7, <2>5 DEF Kill, Idle
  <2>6. ASSUME NEW c \in Containers, Stop(c) PROVE w' = w BY <2>6 DEF Stop
  <2>7. ASSUME NEW s \in Started, ChildStep(s) PROVE w' = w BY <2>7, ChildMoves
  <2>8. ASSUME NEW f \in DOMAIN iface, ComeHome(f) PROVE w' = w BY <2>8 DEF ComeHome
  <2> QED BY <2>1, <2>2, <2>3, <2>4, <2>5, <2>6, <2>7, <2>8, Steps
<1> QED BY <1>5, <1>6, <1>7 DEF Kept, r

LEMMA EpairsKeptStep ==
  ASSUME Types, Structure, RefusedKept, JailKept, EpairsKept, Next
  PROVE  EpairsKept'
<1> SUFFICES ASSUME NEW e \in DOMAIN iface', Cont(e[1])' \notin dirty' PROVE Kept(e)'
  BY DEF EpairsKept
<1>1. CASE e \in DOMAIN iface
  <2>1. e[1] \in Started BY <1>1 DEF Structure, Ifaces
  <2>2. Cont(e[1]) \notin dirty' BY <2>1, Conts
  <2>3. Kept(e) BY <1>1, <2>2, DirtyGrows DEF EpairsKept
  <2> QED BY <1>1, <2>2, <2>3, EpairStays
<1>2. CASE e \notin DOMAIN iface
  <2>1. Work /\ CreateEpair /\ e = New BY <1>2, IfaceNew
  <2>2. w'.pc = "bridge" /\ w' # Idle
    <3>1. w = [pc |-> w.pc, run |-> w.run, i |-> w.i] BY DEF Types, WorkT, WorkerType
    <3> QED BY <2>1, <3>1 DEF CreateEpair, Idle
  <2>3. w'.run = w.run /\ w.run \in Runs /\ Me \in ObjType
    BY <2>1, <2>2, SameRun, Moves, InHand DEF Structure
  <2>4. New \in Runs \X Nat /\ Me.epair \in Seq(Runs \X Nat) BY <2>3 DEF New, ObjType
  <2>5. obj'[w.run].epair = Append(Me.epair, New)
    <3>1. obj' = [obj EXCEPT ![w.run] = [Me EXCEPT !.epair = Append(@, New)]]
      BY <2>1 DEF CreateEpair, Types, ObjT, Me
    <3> QED BY <2>3, <3>1 DEF Types, ObjT, ObjType
  <2>6. Len(obj'[w.run].epair) = Len(Me.epair) + 1 BY <2>4, <2>5
  <2> QED BY <2>1, <2>2, <2>3, <2>6 DEF Kept, Mine, New
<1> QED BY <1>1, <1>2

LEMMA DevfsDoneStep ==
  ASSUME Types, Structure, DevfsDone, Next
  PROVE  DevfsDone'
<1> SUFFICES ASSUME w'.pc \in {"untmpfs", "unmount"} PROVE ~Me'.devfs BY DEF DevfsDone
<1>1. CASE Work
  <2>1. w' # Idle BY DEF Idle
  <2>2. w'.run = w.run /\ w.run \in Runs BY <1>1, <2>1, SameRun
  <2>3. Me' = obj'[w.run] /\ Me = obj[w.run] BY <2>2 DEF Me
  <2>4. CASE UnmountDevfs \/ UnmountDevfsFails
    BY <2>2, <2>3, <2>4 DEF UnmountDevfs, UnmountDevfsFails, Types, ObjT, ObjType
  <2>5. CASE w.pc \in {"untmpfs", "unmount"}
    <3>1. ~(GiveUp \/ StopJailRaises \/ MountDevfs \/ DevfsFails \/ Kill)
      <4>1. ~(GiveUp \/ StopJailRaises \/ MountDevfs \/ DevfsFails)
        BY <2>5 DEF GiveUp, StopJailRaises, MountDevfs, DevfsFails, At
      <4>2. ~Kill BY <2>1 DEF Kill
      <4> QED BY <4>1, <4>2
    <3>2. obj'[w.run].devfs = obj[w.run].devfs \/ obj'[w.run].devfs = FALSE
      BY <2>2, <3>1, FlagChange
    <3> QED BY <2>3, <2>5, <3>2 DEF DevfsDone
  <2> QED BY <1>1, <2>1, <2>4, <2>5, TearOrder
<1>2. ASSUME UNCHANGED <<w, obj>> PROVE ~Me'.devfs BY <1>2 DEF DevfsDone, Me
<1>3. ASSUME NEW c \in Containers, Start(c) PROVE FALSE BY <1>3 DEF Start
<1>4. ASSUME NEW r \in Started, Reap(r) PROVE FALSE BY <1>4 DEF Reap
<1>5. CASE Kill BY <1>5 DEF Kill, Idle
<1>6. ASSUME NEW c \in Containers, Stop(c) PROVE UNCHANGED <<w, obj>> BY <1>6 DEF Stop
<1>7. ASSUME NEW r \in Started, ChildStep(r) PROVE UNCHANGED <<w, obj>> BY <1>7, ChildMoves
<1>8. ASSUME NEW e \in DOMAIN iface, ComeHome(e) PROVE UNCHANGED <<w, obj>>
  BY <1>8 DEF ComeHome
<1> QED BY <1>1, <1>2, <1>3, <1>4, <1>5, <1>6, <1>7, <1>8, Steps

-----------------------------------------------------------------------------
(* Mounts.                                                                  *)

(* Of what is mounted several times, one mount is the last.                 *)
LEMMA LastOf ==
  ASSUME NEW n \in Nat, NEW T \in SUBSET (1..n), T # {}
  PROVE  \E i \in T : \A j \in T : j <= i
<1> DEFINE U == {n - i : i \in T}
<1>1. PICK R : IsWellFoundedOn(R, Nat) /\ \A x, y \in Nat : x < y => <<x, y>> \in R
  <2>1. \A x, y \in Nat : x < y => <<x, y>> \in OpToRel(<, Nat) BY Zenon DEF OpToRel
  <2> QED BY <2>1, NatLessThanWellFounded, Zenon
<1>2. U \subseteq Nat /\ U # {}
  <2>1. \A i \in T : n - i \in Nat OBVIOUS
  <2>2. U \subseteq Nat BY <2>1
  <2>3. PICK i \in T : TRUE OBVIOUS
  <2>4. n - i \in U OBVIOUS
  <2> QED BY <2>2, <2>4
<1>3. PICK m \in U : \A y \in U : ~ (<<y, m>> \in R)
  <2> HIDE DEF U
  <2>1. IsWellFoundedOn(R, Nat) BY <1>1
  <2>2. \E m \in U : \A y \in U : ~ (<<y, m>> \in R) BY <1>2, <2>1, WFMin
  <2> QED BY <2>2
<1>4. PICK i \in T : m = n - i BY <1>3
<1>5. ASSUME NEW j \in T PROVE j <= i
  <2>1. n - j \in U /\ n - j \in Nat /\ m \in Nat BY <1>2, <1>3
  <2>2. ~ (n - j < m) BY <1>1, <1>3, <2>1
  <2> QED BY <1>4, <2>1, <2>2
<1> QED BY <1>5

LEMMA LastMount ==
  ASSUME Types, NEW c \in Containers, NEW x \in Dests(c) \ Nested(c),
         Mounted(mounts[c], x) # {}
  PROVE  CanUnmount(c, x)
<1> DEFINE s == mounts[c]
<1>1. s \in Seq(Dests(c)) /\ Len(s) \in Nat /\ DOMAIN s = 1..Len(s) BY DEF Types, MountT
<1>2. \A j \in DOMAIN s : <<x, s[j]>> \notin Inside /\ <<s[j], x>> \notin Inside
  <2>1. \A j \in DOMAIN s : s[j] \in Dests(c) BY <1>1
  <2> QED BY <2>1 DEF Nested
<1>3. PICK i \in Mounted(s, x) : \A j \in Mounted(s, x) : j <= i BY <1>1, LastOf DEF Mounted
<1>4. i \in DOMAIN s /\ s[i] = x /\ i \in Nat BY <1>1, <1>3 DEF Mounted
<1>5. ASSUME NEW j \in DOMAIN s, j > i PROVE s[j] # x
  <2>1. j \in Nat BY <1>1
  <2>2. s[j] = x => j \in Mounted(s, x) BY <1>1 DEF Mounted
  <2> QED BY <1>3, <1>4, <1>5, <2>1, <2>2
<1>6. i \in Top(c, x) BY <1>2, <1>4, <1>5 DEF Top
<1> QED BY <1>2, <1>6 DEF CanUnmount, IsMount

LEMMA UnmountCovers ==
  ASSUME Types, NEW c \in Containers, NEW O, IsFiniteSet(O), NEW k \in O,
         Point(c, k) \in Dests(c), Covered(c, mounts[c], O)
  PROVE  Covered(c, Unmounted(c, Point(c, k))[c], O \ {k})
<1> DEFINE x == Point(c, k)
           i == CHOOSE j \in Top(c, x) : TRUE
<1>1. mounts[c] \in Seq(Dests(c)) BY DEF Types, MountT
<1>2. CASE CanUnmount(c, x)
  <2>1. i \in 1..Len(mounts[c]) /\ mounts[c][i] = x
    BY <1>1, <1>2 DEF CanUnmount, IsMount, Top
  <2>2. Unmounted(c, x)[c] = RemoveAt(mounts[c], i)
    BY <1>2 DEF Unmounted, Types, MountT
  <2> HIDE DEF i, x
  <2>3. Point(c, k) = mounts[c][i] BY <2>1 DEF x
  <2>4. Covered(c, RemoveAt(mounts[c], i), O \ {k}) BY <1>1, <2>1, <2>3, CoverUnmount
  <2> QED BY <2>2, <2>4 DEF x
<1>3. CASE ~CanUnmount(c, x)
  <2>1. Unmounted(c, x)[c] = mounts[c] BY <1>3 DEF Unmounted
  <2>2. Point(c, k) \notin Nested(c) => Mounted(mounts[c], Point(c, k)) = {}
    BY <1>3, LastMount
  <2> HIDE DEF x
  <2>3. Covered(c, mounts[c], O \ {k}) BY <1>1, <2>2, CoverSettled
  <2> QED BY <2>1, <2>3 DEF x
<1> QED BY <1>2, <1>3

LEMMA OwedSet ==
  ASSUME Types, NEW r \in Started
  PROVE  /\ Cont(r) \in Containers /\ Len(MountsOf[Cont(r)]) \in Nat
         /\ IsFiniteSet(Owed(r)) /\ Owed(r) \subseteq 1..Len(MountsOf[Cont(r)]) + 2
         /\ \A k \in Owed(r) : Point(Cont(r), k) \in Dests(Cont(r))
<1>1. Cont(r) \in Containers BY DEF Started, Cont, Types, ObjT, ObjType, Places
<1>2. Len(MountsOf[Cont(r)]) \in Nat BY <1>1, ResourceAssumption
<1>3. Owed(r) \subseteq 1..Len(MountsOf[Cont(r)]) + 2 BY DEF Owed
<1>4. IsFiniteSet(Owed(r))
  <2>1. IsFiniteSet(1..Len(MountsOf[Cont(r)]) + 2) BY <1>2, FS_Interval
  <2> QED BY <1>3, <2>1, FS_Subset
<1>5. ASSUME NEW k \in Owed(r) PROVE Point(Cont(r), k) \in Dests(Cont(r))
  <2>1. k \in 1..Len(MountsOf[Cont(r)]) + 2 BY <1>3
  <2>2. k > 2 => k - 2 \in 1..Len(MountsOf[Cont(r)]) BY <1>2, <2>1
  <2>3. k = 1 \/ k = 2 \/ k > 2 BY <1>2, <2>1
  <2> QED BY <1>1, <2>2, <2>3, DestsOf DEF Point
<1> QED BY <1>1, <1>2, <1>3, <1>4, <1>5

LEMMA OwedNext ==
  ASSUME NEW c \in Containers, NEW r, Cont(r)' = c
  PROVE  IsFiniteSet(Owed(r)')
<1>1. Owed(r)' \subseteq 1..Len(MountsOf[c]) + 2 BY DEF Owed
<1>2. Len(MountsOf[c]) \in Nat BY ResourceAssumption
<1>3. IsFiniteSet(1..Len(MountsOf[c]) + 2) BY <1>2, FS_Interval
<1> QED BY <1>1, <1>3, FS_Subset

LEMMA OwedAfter ==
  ASSUME NEW r, Cont(r)' = Cont(r), NEW k \in Owed(r),
         k = 1 => obj'[r].devfs,
         k = 2 /\ r = w'.run => OwesTmp',
         k > 2 /\ r = w'.run => OwesUser(k - 2)'
  PROVE  k \in Owed(r)'
  BY DEF Owed

(* A step that is not about the run leaves what it owes.                     *)
LEMMA OwedStays ==
  ASSUME Types, Structure, Next, NEW r \in Mine, r \in Mine', ~(Work /\ r = w.run)
  PROVE  Owed(r) \subseteq Owed(r)'
<1> SUFFICES ASSUME NEW k \in Owed(r) PROVE k \in Owed(r)' OBVIOUS
<1>1. r \in Started /\ r \in Runs /\ Cont(r)' = Cont(r) BY MineStarted, Conts DEF Started
<1>2. ~Kill
  <2>1. Kill => dict' = {} /\ w'.run = 0 BY DEF Kill, Idle
  <2> QED BY <2>1 DEF Mine, Runs
<1>3. k = 1 => obj'[r].devfs BY <1>1, <1>2, FlagChange DEF Owed
<1>4. ASSUME UNCHANGED w PROVE k \in Owed(r)'
  <2>1. k = 2 /\ r = w'.run => OwesTmp' BY <1>4 DEF Owed, OwesTmp
  <2>2. k > 2 /\ r = w'.run => OwesUser(k - 2)' BY <1>4 DEF Owed, OwesUser
  <2> QED BY <1>1, <1>3, <2>1, <2>2, OwedAfter
<1>5. ASSUME r # w'.run PROVE k \in Owed(r)' BY <1>1, <1>3, <1>5, OwedAfter
<1>6. CASE Work
  <2>1. w'.run \in {w.run, 0} BY <1>6, SameRun DEF Idle
  <2> QED BY <1>1, <1>5, <1>6, <2>1 DEF Runs
<1>7. ASSUME NEW c \in Containers, Start(c) PROVE k \in Owed(r)'
  <2>1. w'.run \notin Started BY <1>7 DEF Start
  <2> QED BY <1>1, <1>5, <2>1
<1>8. ASSUME NEW s \in Started, Reap(s) PROVE k \in Owed(r)'
  <2>1. w'.pc = "deattach" BY <1>8 DEF Reap
  <2>2. OwesTmp' BY <2>1 DEF OwesTmp, Still
  <2>3. OwesUser(k - 2)' BY <2>1 DEF OwesUser, Still
  <2> QED BY <1>1, <1>3, <2>2, <2>3, OwedAfter
<1>9. ASSUME NEW c \in Containers, Stop(c) PROVE UNCHANGED w BY <1>9 DEF Stop
<1>10. ASSUME NEW s \in Started, ChildStep(s) PROVE UNCHANGED w BY <1>10, ChildMoves
<1>11. ASSUME NEW e \in DOMAIN iface, ComeHome(e) PROVE UNCHANGED w BY <1>11 DEF ComeHome
<1> QED BY <1>2, <1>4, <1>6, <1>7, <1>8, <1>9, <1>10, <1>11, Steps

(* What the run in hand owes, as the worker goes on.                         *)
LEMMA OwedInHand ==
  ASSUME Types, Structure, Work, w' # Idle, NEW r, r = w.run
  PROVE  /\ w.pc \notin {"undevfs", "untmpfs", "unmount"} => Owed(r) \subseteq Owed(r)'
         /\ UnmountDevfs => Owed(r) \ {1} \subseteq Owed(r)'
         /\ UnmountTmpfs => Owed(r) \ {2} \subseteq Owed(r)'
         /\ UnmountUser => Owed(r) \ {w.i + 2} \subseteq Owed(r)'
<1>1. /\ Next /\ w'.run = r /\ r \in Runs /\ r \in Started /\ Busy
  BY SameRun, Moves, InHand DEF Work, Next, Structure
<1>2. Cont(r)' = Cont(r) BY <1>1, Conts
<1>3. ~Kill /\ ~GiveUp /\ ~StopJailRaises BY DEF Kill, GiveUp, StopJailRaises
<1>4. w.i \in Nat BY DEF Types, WorkT, WorkerType
<1>5. \A k \in Owed(r) : k \in Nat
  BY <1>1, OwedSet
<1>6. ASSUME NEW k \in Owed(r), w.pc \notin {"undevfs", "untmpfs", "unmount"}
      PROVE  k \in Owed(r)'
  <2>1. k = 1 => obj'[r].devfs
    <3>1. k = 1 => obj[r].devfs BY DEF Owed
    <3>2. MountDevfs \/ DevfsFails => obj'[r].devfs
      BY <1>1 DEF MountDevfs, DevfsFails, Types, ObjT, ObjType
    <3>3. ~UnmountDevfs /\ ~UnmountDevfsFails BY <1>6 DEF UnmountDevfs, UnmountDevfsFails, At
    <3> QED BY <1>1, <1>3, <3>1, <3>2, <3>3, FlagChange
  <2>2. CASE w.pc \in {"mount"} \cup (Still \ {"untmpfs"})
    <3>1. \/ w'.pc \in Still
          \/ w.pc = "mount" /\ w'.pc = "mount" /\ w'.i = w.i + 1
      BY <2>2, MountOrder
    <3>2. OwesTmp' BY <3>1 DEF OwesTmp
    <3>3. k > 2 => OwesUser(k - 2)'
      <4>1. k > 2 => OwesUser(k - 2) BY DEF Owed
      <4>2. CASE w'.pc \in Still BY <4>2 DEF OwesUser
      <4>3. CASE w.pc = "mount" /\ w'.pc = "mount" /\ w'.i = w.i + 1
        <5>1. k > 2 => k - 2 < w.i BY <4>1, <4>3 DEF OwesUser, Still
        <5> QED BY <1>4, <1>5, <4>3, <5>1 DEF OwesUser
      <4> QED BY <3>1, <4>2, <4>3
    <3> QED BY <1>2, <2>1, <3>2, <3>3, OwedAfter
  <2>3. CASE w.pc \notin {"mount"} \cup Still
    <3>1. ~OwesTmp /\ ~OwesUser(k - 2) BY <1>6, <2>3 DEF OwesTmp, OwesUser
    <3>2. ~(k = 2) /\ ~(k > 2) BY <3>1 DEF Owed
    <3> QED BY <1>2, <2>1, <3>2, OwedAfter
  <2> QED BY <1>6, <2>2, <2>3
<1>7. ASSUME NEW k \in Owed(r), UnmountDevfs, k # 1 PROVE k \in Owed(r)'
  <2>1. w'.pc = "untmpfs" BY <1>7, GoesTo DEF UnmountDevfs
  <2>2. OwesTmp' /\ OwesUser(k - 2)' BY <2>1 DEF OwesTmp, OwesUser, Still
  <2> QED BY <1>2, <1>7, <2>2, OwedAfter
<1>8. ASSUME NEW k \in Owed(r), UnmountTmpfs, k # 2 PROVE k \in Owed(r)'
  <2>1. w.pc = "untmpfs" BY <1>8 DEF UnmountTmpfs, At
  <2>2. w'.pc = "unmount" /\ w'.i = 1 BY <2>1, MountOrder
  <2>3. k > 2 => OwesUser(k - 2)' BY <1>5, <2>2 DEF OwesUser
  <2>4. obj' = obj BY <1>8 DEF UnmountTmpfs
  <2>5. k = 1 => obj'[r].devfs BY <2>4 DEF Owed
  <2> QED BY <1>2, <1>8, <2>3, <2>5, OwedAfter
<1>9. ASSUME NEW k \in Owed(r), UnmountUser, k # w.i + 2 PROVE k \in Owed(r)'
  <2>1. w.pc = "unmount" BY <1>9 DEF UnmountUser, At
  <2>2. w'.pc = "unmount" /\ w'.i = w.i + 1 BY <2>1, MountOrder
  <2>3. k # 2 BY <1>1, <2>1 DEF Owed, OwesTmp, Still
  <2>4. k > 2 => OwesUser(k - 2)'
    <3>1. k > 2 => k - 2 >= w.i BY <1>1, <2>1 DEF Owed, OwesUser, Still
    <3> QED BY <1>4, <1>5, <1>9, <2>2, <3>1 DEF OwesUser
  <2>5. obj' = obj BY <1>9 DEF UnmountUser
  <2>6. k = 1 => obj'[r].devfs BY <2>5 DEF Owed
  <2> QED BY <1>2, <2>3, <2>4, <2>6, OwedAfter
<1> QED BY <1>6, <1>7, <1>8, <1>9

(* The position of what is mounted or unmounted.                            *)
LEMMA PointInHand ==
  ASSUME Types, Structure, DevfsDone, Busy, NEW r, r = w.run
  PROVE  /\ Point(C, 1) = "dev" /\ Point(C, 2) = "tmp"
         /\ w.pc = "undevfs" /\ Me.devfs => 1 \in Owed(r)
         /\ w.pc = "untmpfs" => 2 \in Owed(r)
         /\ w.pc \in {"mount", "unmount"} =>
              w.i + 2 \in Nat /\ Point(C, w.i + 2) = MountsOf[C][w.i]
         /\ w.pc = "mount" => w.i + 2 \notin Owed(r)
         /\ w.pc = "unmount" => w.i + 2 \in Owed(r)
         /\ w.pc = "untmpfs" /\ MountsOf[C] = <<>> => Owed(r) \ {2} = {}
         /\ w.pc = "unmount" /\ ~(w.i < Len(MountsOf[C])) => Owed(r) \ {w.i + 2} = {}
<1>1. r \in Started /\ C = Cont(r) /\ Me = obj[r] /\ Len(MountsOf[C]) \in Nat
  BY InHand DEF Structure, C, Me
<1>2. w.pc \in {"mount", "unmount"} => w.i \in 1..Len(MountsOf[C]) BY MountPosition
<1>3. w.pc \in {"mount", "unmount"} => w.i + 2 > 2 /\ (w.i + 2) - 2 = w.i /\ w.i + 2 \in Nat
                                       /\ w.i + 2 \in 1..Len(MountsOf[C]) + 2
  BY <1>1, <1>2
<1>4. Point(C, 1) = "dev" /\ Point(C, 2) = "tmp" BY DEF Point
<1>5. w.pc \in {"mount", "unmount"} => Point(C, w.i + 2) = MountsOf[C][w.i] BY <1>3 DEF Point
<1>6. w.pc = "undevfs" /\ Me.devfs => 1 \in Owed(r) BY <1>1 DEF Owed
<1>7. w.pc = "untmpfs" => 2 \in Owed(r) BY <1>1 DEF Owed, OwesTmp, Still
<1>8. w.pc = "mount" => w.i + 2 \notin Owed(r)
  BY <1>2, <1>3 DEF Owed, OwesUser, Still
<1>9. w.pc = "unmount" => w.i + 2 \in Owed(r)
  <2> SUFFICES ASSUME w.pc = "unmount" PROVE w.i + 2 \in Owed(r) OBVIOUS
  <2>1. OwesUser((w.i + 2) - 2) BY <1>2, <1>3 DEF OwesUser
  <2>2. w.i + 2 # 1 /\ w.i + 2 # 2 /\ w.i + 2 \in 1..Len(MountsOf[Cont(r)]) + 2
    BY <1>1, <1>2, <1>3
  <2> QED BY <2>1, <2>2 DEF Owed
<1>10. ASSUME w.pc = "untmpfs", MountsOf[C] = <<>>, NEW k \in Owed(r) PROVE k = 2
  <2>1. Len(MountsOf[C]) = 0 BY <1>10
  <2>2. k = 1 \/ k = 2 BY <1>1, <2>1 DEF Owed
  <2>3. k = 1 => Me.devfs BY <1>1 DEF Owed
  <2> QED BY <1>10, <2>2, <2>3 DEF DevfsDone
<1>11. ASSUME w.pc = "unmount", ~(w.i < Len(MountsOf[C])), NEW k \in Owed(r) PROVE k = w.i + 2
  <2>1. k \in 1..Len(MountsOf[C]) + 2 BY <1>1 DEF Owed
  <2>2. k # 1 BY <1>1, <1>11 DEF Owed, DevfsDone
  <2>3. k # 2 BY <1>11 DEF Owed, OwesTmp, Still
  <2>4. k > 2 => k - 2 >= w.i BY <1>11 DEF Owed, OwesUser, Still
  <2> QED BY <1>1, <1>2, <1>11, <2>1, <2>2, <2>3, <2>4
<1> QED BY <1>3, <1>4, <1>5, <1>6, <1>7, <1>8, <1>9, <1>10, <1>11

(* A mount by the worker is due from then on.                                *)
LEMMA MountDue ==
  ASSUME Types, Structure, MountsLeft, DevfsDone, Work, NEW r, r = w.run, C \notin dirty',
         MountDevfs \/ MountTmpfs \/ MountUser
  PROVE  Covered(C, mounts'[C], Owed(r)')
<1>1. Busy /\ Next /\ r \in Runs /\ r \in Started /\ C \in Containers /\ C = Cont(r)
  BY Moves, InHand DEF Structure, Work, Next, C
<1>2. IsFiniteSet(Owed(r)) BY <1>1, OwedSet
<1>3. Covered(C, mounts[C], Owed(r))
  BY <1>1, DirtyGrows DEF MountsLeft, Mine
<1>4. mounts[C] \in Seq(Dests(C)) /\ C \in DOMAIN mounts BY <1>1 DEF Types, MountT
<1>5. w' # Idle
  <2>1. MountDevfs => w'.pc = "tmpfs" BY GoesTo DEF MountDevfs, FsMount
  <2>2. MountTmpfs => w'.pc \in {"register", "mount"} BY GoesTo DEF MountTmpfs, FsMount
  <2>3. MountUser => w'.pc # "idle" BY GoesTo DEF MountUser, NextMount, At
  <2> QED BY <2>1, <2>2, <2>3 DEF Idle
<1>6. /\ w'.run = r /\ Cont(r)' = Cont(r) /\ r \in Started'
      /\ Types' /\ w.pc \notin {"undevfs", "untmpfs", "unmount"}
  BY <1>1, <1>5, SameRun, Conts, TypesStep DEF MountDevfs, MountTmpfs, MountUser, At
<1>7. Owed(r) \subseteq Owed(r)' BY <1>5, <1>6, OwedInHand
<1>8. IsFiniteSet(Owed(r)') BY <1>1, <1>6, OwedNext
<1>9. ASSUME NEW x \in Dests(C), NEW k, k \in Owed(r)', Point(C, k) = x,
             k \notin Owed(r) \/ (x \notin Nested(C) => Mounted(mounts[C], x) = {})
      PROVE  Covered(C, Append(mounts[C], x), Owed(r)')
  <2>1. Covered(C, Append(mounts[C], x), Owed(r) \cup {k}) BY <1>2, <1>3, <1>4, <1>9, CoverMount
  <2>2. Append(mounts[C], x) \in Seq(Dests(C)) BY <1>4
  <2>3. Owed(r) \cup {k} \subseteq Owed(r)' BY <1>7, <1>9
  <2> QED BY <1>8, <2>1, <2>2, <2>3, CoverMore
<1>10. CASE UNCHANGED mounts BY <1>3, <1>4, <1>7, <1>8, <1>10, CoverMore
<1>11. ASSUME NEW x \in Dests(C), Mount(C, x) PROVE mounts'[C] = Append(mounts[C], x)
  BY <1>4, <1>11 DEF Mount
<1>12. ASSUME NEW x \in Dests(C), ~IsMount(C, x), x \notin Nested(C)
       PROVE  Mounted(mounts[C], x) = {}
  BY <1>1, <1>12, LastMount DEF CanUnmount
<1>13. CASE MountDevfs
  <2>1. "dev" \in Dests(C) /\ FsMounts[1] = "dev" /\ Point(C, 1) = "dev"
    BY <1>1, DestsOf DEF Point
  <2>2. UNCHANGED mounts \/ (~IsMount(C, "dev") /\ Mount(C, "dev"))
    BY <1>13, <2>1 DEF MountDevfs, FsMount
  <2>3. obj'[r].devfs BY <1>1, <1>13 DEF MountDevfs, Types, ObjT, ObjType
  <2>4. 1 \in 1..Len(MountsOf[C]) + 2 BY <1>1, OwedSet
  <2>5. 1 \in Owed(r)' BY <1>1, <1>6, <2>3, <2>4 DEF Owed
  <2> QED BY <1>9, <1>10, <1>11, <1>12, <2>1, <2>2, <2>5
<1>14. CASE MountTmpfs
  <2>1. "tmp" \in Dests(C) /\ FsMounts[2] = "tmp" /\ Point(C, 2) = "tmp"
    BY <1>1, DestsOf DEF Point
  <2>2. UNCHANGED mounts \/ (~IsMount(C, "tmp") /\ Mount(C, "tmp"))
    BY <1>14, <2>1 DEF MountTmpfs, FsMount
  <2>3. w'.pc \in {"register", "mount"} BY <1>14, GoesTo DEF MountTmpfs, FsMount
  <2>4. OwesTmp' BY <2>3 DEF OwesTmp, Still
  <2>5. 2 \in 1..Len(MountsOf[C]) + 2 BY <1>1, OwedSet
  <2>6. 2 \in Owed(r)' BY <1>1, <1>6, <2>4, <2>5 DEF Owed
  <2> QED BY <1>9, <1>10, <1>11, <1>12, <2>1, <2>2, <2>6
<1>15. CASE MountUser
  <2>1. w.pc = "mount" /\ Mount(C, MountsOf[C][w.i]) BY <1>15 DEF MountUser, At
  <2>2. MountsOf[C][w.i] \in Dests(C) /\ w.i \in 1..Len(MountsOf[C]) BY <2>1, MountPosition
  <2>3. Point(C, w.i + 2) = MountsOf[C][w.i] /\ w.i + 2 \notin Owed(r)
    BY <1>1, <2>1, PointInHand
  <2>4. w'.pc = "register" \/ (w'.pc = "mount" /\ w'.i = w.i + 1)
    BY <1>15, <2>1, GoesTo DEF MountUser, NextMount
  <2>5. w.i + 2 \in Owed(r)'
    <3>1. Len(MountsOf[C]) \in Nat /\ w.i \in Nat BY <1>1, <2>2, OwedSet
    <3>2. w.i + 2 # 1 /\ w.i + 2 # 2 /\ (w.i + 2) - 2 = w.i
          /\ w.i + 2 \in 1..Len(MountsOf[C]) + 2
      BY <2>2, <3>1
    <3>3. w.i < w'.i \/ w'.pc = "register" BY <2>4, <3>1
    <3>4. ASSUME NEW k, k = w.i + 2 PROVE k \in Owed(r)'
      <4>1. k # 1 /\ k # 2 /\ k - 2 = w.i /\ k \in 1..Len(MountsOf[C]) + 2 BY <3>2, <3>4
      <4>2. OwesUser(k - 2)' BY <2>4, <3>3, <4>1 DEF OwesUser, Still
      <4> QED BY <1>1, <1>6, <4>1, <4>2 DEF Owed
    <3> QED BY <3>4
  <2> QED BY <1>9, <1>11, <2>1, <2>2, <2>3, <2>5
<1> QED BY <1>13, <1>14, <1>15

(* What the worker has tried to unmount is not due any more.                 *)
LEMMA UnmountDone ==
  ASSUME Types, Structure, MountsLeft, DevfsDone, Work, NEW r, r = w.run, C \notin dirty',
         UnmountDevfs \/ UnmountTmpfs \/ UnmountUser
  PROVE  \/ w' # Idle /\ Covered(C, mounts'[C], Owed(r)')
         \/ Covered(C, mounts'[C], {})
<1>1. Busy /\ Next /\ r \in Runs /\ r \in Started /\ C \in Containers /\ C = Cont(r)
  BY Moves, InHand DEF Structure, Work, Next, C
<1>2. IsFiniteSet(Owed(r)) /\ \A k \in Owed(r) : Point(C, k) \in Dests(C) BY <1>1, OwedSet
<1>3. Covered(C, mounts[C], Owed(r))
  BY <1>1, DirtyGrows DEF MountsLeft, Mine
<1>4. ASSUME NEW k \in Owed(r), mounts' = Unmounted(C, Point(C, k))
      PROVE  Covered(C, mounts'[C], Owed(r) \ {k})
  BY <1>1, <1>2, <1>3, <1>4, UnmountCovers
<1>5. IsFiniteSet(Owed(r)') BY <1>1, Conts, OwedNext
<1>6. mounts'[C] \in Seq(Dests(C)) BY <1>1, TypesStep DEF Types, MountT
<1>7. ASSUME NEW O, Covered(C, mounts'[C], O), O \subseteq Owed(r)'
      PROVE  Covered(C, mounts'[C], Owed(r)')
  BY <1>5, <1>6, <1>7, CoverMore
<1>8. CASE UnmountDevfs
  <2>1. w.pc = "undevfs" /\ w'.pc = "untmpfs" BY <1>8, GoesTo DEF UnmountDevfs, At
  <2>2. w' # Idle BY <2>1 DEF Idle
  <2>3. Owed(r) \ {1} \subseteq Owed(r)' BY <1>8, <2>2, OwedInHand
  <2>4. Covered(C, mounts'[C], Owed(r) \ {1})
    <3>1. CASE Me.devfs
      <4>1. 1 \in Owed(r) /\ Point(C, 1) = "dev" BY <1>1, <2>1, <3>1, PointInHand
      <4> QED BY <1>4, <1>8, <3>1, <4>1 DEF UnmountDevfs
    <3>2. CASE ~Me.devfs
      <4>1. mounts' = mounts /\ 1 \notin Owed(r) BY <1>8, <3>2 DEF UnmountDevfs, Owed, Me
      <4>2. Owed(r) \ {1} = Owed(r) BY <4>1
      <4> QED BY <1>3, <4>1, <4>2
    <3> QED BY <3>1, <3>2
  <2> QED BY <1>7, <2>2, <2>3, <2>4
<1>9. CASE UnmountTmpfs
  <2>1. w.pc = "untmpfs" BY <1>9 DEF UnmountTmpfs, At
  <2>2. 2 \in Owed(r) /\ Point(C, 2) = "tmp" BY <1>1, <2>1, PointInHand
  <2>3. Covered(C, mounts'[C], Owed(r) \ {2}) BY <1>4, <1>9, <2>2 DEF UnmountTmpfs
  <2>4. CASE w' # Idle
    <3>1. Owed(r) \ {2} \subseteq Owed(r)' BY <1>9, <2>4, OwedInHand
    <3> QED BY <1>7, <2>3, <2>4, <3>1
  <2>5. CASE w' = Idle
    <3>1. w'.pc = "idle" BY <2>5 DEF Idle
    <3>2. MountsOf[C] = <<>> BY <1>9, <3>1, GoesTo DEF UnmountTmpfs, AfterTmpfs
    <3>3. Owed(r) \ {2} = {} BY <1>1, <2>1, <3>2, PointInHand
    <3> QED BY <2>3, <3>3
  <2> QED BY <2>4, <2>5
<1>10. CASE UnmountUser
  <2>1. w.pc = "unmount" BY <1>10 DEF UnmountUser, At
  <2>2. w.i + 2 \in Owed(r) /\ Point(C, w.i + 2) = MountsOf[C][w.i] BY <1>1, <2>1, PointInHand
  <2>3. Covered(C, mounts'[C], Owed(r) \ {w.i + 2})
    <3>1. mounts' = Unmounted(C, Point(C, w.i + 2)) BY <1>10, <2>2 DEF UnmountUser
    <3> QED BY <1>4, <2>2, <3>1
  <2>4. CASE w' # Idle
    <3>1. Owed(r) \ {w.i + 2} \subseteq Owed(r)' BY <1>10, <2>4, OwedInHand
    <3> QED BY <1>7, <2>3, <2>4, <3>1
  <2>5. CASE w' = Idle
    <3>1. w'.pc = "idle" BY <2>5 DEF Idle
    <3>2. ~(w.i < Len(MountsOf[C])) BY <1>10, <2>1, <3>1, GoesTo DEF UnmountUser, NextUnmount
    <3>3. Owed(r) \ {w.i + 2} = {} BY <1>1, <2>1, <3>2, PointInHand
    <3> QED BY <2>3, <3>3
  <2> QED BY <2>4, <2>5
<1> QED BY <1>8, <1>9, <1>10

LEMMA HandCovered ==
  ASSUME Types, Structure, MountsLeft, DevfsDone, RefusedKept, Work, NEW r, r = w.run,
         C \notin dirty'
  PROVE  \/ r \in Mine' /\ Covered(C, mounts'[C], Owed(r)')
         \/ Covered(C, mounts'[C], {})
<1>1. Busy /\ Next /\ r \in Runs /\ r \in Started /\ C \in Containers /\ C = Cont(r) /\ r \in Mine
  BY Moves, InHand DEF Structure, Work, Next, C, Mine
<1>2. w' # Idle => r \in Mine' BY <1>1, SameRun DEF Mine
<1>3. CASE MountDevfs \/ MountTmpfs \/ MountUser
  <2>1. w' # Idle
    <3>1. MountDevfs => w'.pc = "tmpfs" BY GoesTo DEF MountDevfs, FsMount
    <3>2. MountTmpfs => w'.pc \in {"register", "mount"} BY GoesTo DEF MountTmpfs, FsMount
    <3>3. MountUser => w'.pc # "idle" BY GoesTo DEF MountUser, NextMount, At
    <3> QED BY <1>3, <3>1, <3>2, <3>3 DEF Idle
  <2> QED BY <1>2, <1>3, <2>1, MountDue
<1>4. CASE UnmountDevfs \/ UnmountTmpfs \/ UnmountUser BY <1>2, <1>4, UnmountDone
<1>5. CASE ~(\/ MountDevfs \/ MountTmpfs \/ MountUser
             \/ UnmountDevfs \/ UnmountTmpfs \/ UnmountUser)
  <2>1. mounts' = mounts BY <1>5, Moves
  <2>2. Covered(C, mounts[C], Owed(r)) BY <1>1, DirtyGrows DEF MountsLeft
  <2>3. ~UnmountFails /\ ~UnmountDevfsFails /\ ~UnmountTmpfsFails /\ ~StopJailRaises
    BY DEF UnmountFails, UnmountDevfsFails, UnmountTmpfsFails, StopJailRaises, Spill
  <2>4. w.pc \notin {"undevfs", "untmpfs", "unmount"}
    BY <1>5, <2>3 DEF Work, Make, Destroy, JailSet, JailRefused, PassOver, CreateEpair,
       EpairFails, AddToBridge, BridgeFails, Attach, AttachFails, DevfsFails, TmpfsFails,
       MountUserFails, MkdirFails, Register, GiveUp, RefusalRaises, Fork, ForkFails, Deattach,
       StopJail, StopJailFails, DestroyEpair, DestroyEpairFails, At
  <2>5. r \in Mine' BY <1>1, <2>4, DoneWith
  <2>6. Owed(r) \subseteq Owed(r)'
    <3>1. CASE w' # Idle BY <2>4, <3>1, OwedInHand
    <3>2. CASE w' = Idle
      <4>1. w'.run = 0 /\ r # 0 BY <1>1, <3>2 DEF Idle, Runs
      <4>2. Fork \/ ForkFails
        <5>1. ~GiveUp BY <1>1, DirtyGrows DEF GiveUp, RefusedKept, Me
        <5> QED BY <2>3, <2>4, <3>2, <5>1, Ends
      <4>3. obj' = obj BY <4>2 DEF Fork, ForkFails
      <4>4. ASSUME NEW k \in Owed(r) PROVE k \in Owed(r)'
        <5>1. Cont(r)' = Cont(r) BY <4>3 DEF Cont
        <5>2. k = 1 => obj'[r].devfs BY <4>3 DEF Owed
        <5> QED BY <4>1, <5>1, <5>2, OwedAfter
      <4> QED BY <4>4
    <3> QED BY <3>1, <3>2
  <2>7. IsFiniteSet(Owed(r)') BY <1>1, Conts, OwedNext
  <2>8. mounts[C] \in Seq(Dests(C)) BY <1>1 DEF Types, MountT
  <2>9. Covered(C, mounts[C], Owed(r)') BY <2>2, <2>6, <2>7, <2>8, CoverMore
  <2> QED BY <2>1, <2>5, <2>9
<1> QED BY <1>3, <1>4, <1>5

LEMMA MountsLeftStep ==
  ASSUME Types, Structure, MountsLeft, DevfsDone, RefusedKept, Next
  PROVE  MountsLeft'
<1> SUFFICES ASSUME NEW c \in Containers \ dirty'
             PROVE  /\ ~Active(c)' => Covered(c, mounts'[c], {})
                    /\ \A s \in Mine' : Cont(s)' = c => Covered(c, mounts'[c], Owed(s)')
  BY DEF MountsLeft
<1>1. c \notin dirty BY DirtyGrows
<1>2. mounts'[c] \in Seq(Dests(c)) BY TypesStep DEF Types, MountT
<1>3. ASSUME NEW s, Cont(s)' = c, NEW O, O \subseteq Owed(s)', Covered(c, mounts'[c], O)
      PROVE  Covered(c, mounts'[c], Owed(s)')
  BY <1>2, <1>3, OwedNext, CoverMore
<1>4. CASE Work /\ C = c
  <2>1. PICK r : r = w.run OBVIOUS
  <2>2. Busy /\ r \in Runs /\ r \in Started /\ r \in Mine /\ Cont(r) = c
    BY <1>4, <2>1, Moves, InHand DEF Structure, C, Mine
  <2>3. Cont(r)' = c BY <2>2, Conts
  <2>4. Mine' \subseteq Mine
    <3>1. ~ \E b \in Containers : Start(b) BY <2>2 DEF Start, Busy, At
    <3> QED BY <3>1, MineShrinks
  <2>5. \/ r \in Mine' /\ Covered(c, mounts'[c], Owed(r)')
        \/ Covered(c, mounts'[c], {})
    BY <1>4, <2>1, HandCovered
  <2>6. r \in Mine' => Active(c)' BY <2>3 DEF Active, Mine
  <2>7. ASSUME NEW s \in Mine', Cont(s)' = c PROVE Covered(c, mounts'[c], Owed(s)')
    <3>1. s \in Mine /\ Cont(s) = c BY <2>4, <2>7, MineStarted, Conts
    <3>2. s = r BY <2>2, <3>1 DEF Structure, OneActive
    <3> QED BY <1>3, <2>5, <2>7, <3>2
  <2> QED BY <2>5, <2>6, <2>7
<1>5. CASE ~(Work /\ C = c)
  <2>1. mounts'[c] = mounts[c] BY <1>5, MountFrame
  <2>2. ASSUME ~Active(c)' PROVE Covered(c, mounts'[c], {})
    <3>1. ~Active(c) BY <1>5, <2>2, StaysActive
    <3> QED BY <1>1, <2>1, <3>1 DEF MountsLeft
  <2>3. ASSUME NEW s \in Mine', Cont(s)' = c PROVE Covered(c, mounts'[c], Owed(s)')
    <3>1. CASE s \in Mine
      <4>1. Cont(s) = c BY <2>3, <3>1, MineStarted, Conts
      <4>2. ~(Work /\ s = w.run) BY <1>5, <4>1 DEF C
      <4>3. Owed(s) \subseteq Owed(s)' BY <2>3, <3>1, <4>2, OwedStays
      <4>4. Covered(c, mounts'[c], Owed(s)) BY <1>1, <2>1, <3>1, <4>1 DEF MountsLeft
      <4> QED BY <1>3, <2>3, <4>3, <4>4
    <3>2. CASE s \notin Mine
      <4>1. PICK b \in Containers : Start(b) BY <2>3, <3>2, MineShrinks
      <4>2. PICK t \in Runs : /\ obj' = [obj EXCEPT ![t] = [obj[t] EXCEPT !.cont = b]]
                              /\ w' = [pc |-> "create", run |-> t, i |-> 1]
        BY <4>1 DEF Start
      <4>3. s = t BY <2>3, <3>2, <4>1, <4>2 DEF Mine, Start
      <4>4. b = c BY <2>3, <4>2, <4>3 DEF Cont, Types, ObjT, ObjType
      <4>5. ~Active(c) BY <4>1, <4>4 DEF Start
      <4>6. Covered(c, mounts'[c], {}) BY <1>1, <2>1, <4>5 DEF MountsLeft
      <4> QED BY <1>3, <2>3, <4>6
    <3> QED BY <3>1, <3>2
  <2> QED BY <2>2, <2>3
<1> QED BY <1>4, <1>5

LEMMA InitTidy == Init => Tidy
<1> SUFFICES ASSUME Init PROVE Tidy OBVIOUS
<1>1. /\ \A c \in Containers : jail[c] = 0 /\ mounts[c] = <<>>
      /\ DOMAIN iface = {} /\ dict = {} /\ w.pc = "idle" /\ w.run = 0
      /\ \A r \in Runs : obj[r].jid = "none"
  BY DEF Init, Idle, NoObj
<1>2. RefusedKept /\ JailKept /\ EpairsKept /\ DevfsDone
  BY <1>1 DEF RefusedKept, JailKept, EpairsKept, DevfsDone, Torn
<1>3. Mine = {} BY <1>1 DEF Mine, Runs
<1>4. ASSUME NEW c \in Containers PROVE Covered(c, mounts[c], {})
  <2> SUFFICES ASSUME NEW d
               PROVE  Cardinality(Mounted(mounts[c], d)) <= Cardinality(Due(c, {}, d))
    BY DEF Covered
  <2>1. Mounted(mounts[c], d) = {} BY <1>1 DEF Mounted
  <2>2. Due(c, {}, d) = {} BY DEF Due
  <2> QED BY <2>1, <2>2, FS_EmptySet
<1> QED BY <1>2, <1>3, <1>4 DEF Tidy, MountsLeft

LEMMA TidyStutter ==
  ASSUME Tidy, UNCHANGED vars
  PROVE  Tidy'
<1> USE DEF vars
<1>1. /\ \A r : Cont(r)' = Cont(r)
      /\ Mine' = Mine /\ C' = C /\ Me' = Me /\ \A c : Active(c)' <=> Active(c)
  BY DEF Cont, Mine, C, Me, Active
<1>2. RefusedKept' BY <1>1 DEF Tidy, RefusedKept
<1>3. JailKept' BY <1>1 DEF Tidy, JailKept
<1>4. EpairsKept' BY <1>1 DEF Tidy, EpairsKept, Kept
<1>5. DevfsDone' BY <1>1 DEF Tidy, DevfsDone
<1>6. \A r : Owed(r)' = Owed(r) BY <1>1 DEF Owed, OwesTmp, OwesUser
<1>7. MountsLeft' BY <1>1, <1>6 DEF Tidy, MountsLeft
<1> QED BY <1>2, <1>3, <1>4, <1>5, <1>7 DEF Tidy

LEMMA TidyInvariant == Spec => [](Types /\ Structure /\ Tidy)
<1>1. Init => Tidy BY InitTidy
<1>2. Types /\ Structure /\ Tidy /\ [Next]_vars => Tidy'
  <2>1. Types /\ Structure /\ Tidy /\ Next => Tidy'
    BY RefusedStep, JailKeptStep, EpairsKeptStep, DevfsDoneStep, MountsLeftStep DEF Tidy
  <2> QED BY <2>1, TidyStutter
<1> QED BY <1>1, <1>2, Invariants, PTL DEF Spec

(* When the worker has done with a container, whether it ran, was stopped   *)
(* or could not be made, nothing of it is left on the host: no jail, no     *)
(* epair and no mount.  Except after a refused jail, a failed call of the   *)
(* teardown, or a killed worker, and for mounts below one another.          *)
THEOREM LeavesNothing == Spec => []NothingLeft
<1>1. Types /\ Structure /\ Tidy => NothingLeft
  <2> SUFFICES ASSUME Types, Structure, Tidy, NEW c \in Containers \ dirty, ~Active(c)
               PROVE  ~Left(c) /\ Range(mounts[c]) \subseteq Nested(c)
    BY DEF NothingLeft
  <2>1. ~JailExists(c) BY DEF JailExists, Tidy, JailKept
  <2>2. ASSUME NEW e \in DOMAIN iface, Cont(e[1]) = c PROVE FALSE
    <3>1. e[1] \in Mine BY <2>2 DEF Tidy, EpairsKept, Kept
    <3> QED BY <2>2, <3>1 DEF Active, Mine
  <2>3. mounts[c] \in Seq(Dests(c)) BY DEF Types, MountT
  <2>4. \A d \in Dests(c) \ Nested(c) : Mounted(mounts[c], d) = {}
    BY <2>3, CoverNone DEF Tidy, MountsLeft
  <2>5. ASSUME NEW j \in DOMAIN mounts[c] PROVE mounts[c][j] \in Nested(c)
    <3>1. mounts[c][j] \in Dests(c) /\ j \in 1..Len(mounts[c]) BY <2>3
    <3>2. j \in Mounted(mounts[c], mounts[c][j]) BY <3>1 DEF Mounted
    <3> QED BY <2>4, <3>1, <3>2
  <2> QED BY <2>1, <2>2, <2>5 DEF Left, Range
<1> QED BY <1>1, TidyInvariant, PTL
=============================================================================
