------------------------ MODULE JailResourcesProofs ------------------------
(***************************************************************************)
(* Theorems about JailResources, for every set of containers, whatever     *)
(* their networks and mounts, and whichever calls fail.                    *)
(***************************************************************************)
EXTENDS JailResources, FiniteSetTheorems, SequenceTheorems, TLAPS

Places == Containers \cup {Host}
Nets0 == Networks \cup {Host}
ObjType == [cont : Places, jid : {"none", "ok", "refused"}, epair : Seq(Runs \X Nat),
            devfs : BOOLEAN]
ChildType == [pc : {"none", "over"} \cup Living, i : Nat, routes : SUBSET Nets0]
IfaceType == [at : Places \cup {Dying}, bridge : Nets0, addr : Nets0, up : SUBSET {"a", "b"}]
WorkerType == [pc : {"idle"} \cup Making \cup Destroying, run : 0..MaxRuns, i : Nat]
Points == UNION {Dests(c) : c \in Containers}

JailT == jail \in [Containers -> 0..MaxRuns]
IfaceT == DOMAIN iface \subseteq Runs \X Nat /\ iface \in [DOMAIN iface -> IfaceType]
MountT == /\ mounts \in [Containers -> Seq(Points)]
          /\ \A c \in Containers : mounts[c] \in Seq(Dests(c))
ObjT == obj \in [Runs -> ObjType]
ChildT == child \in [Runs -> ChildType]
WorkT == w \in WorkerType /\ (w.pc = "idle" <=> w.run = 0)
HistT == dict \cup spoilt \subseteq Started /\ dirty \subseteq Containers
Types == JailT /\ IfaceT /\ MountT /\ ObjT /\ ChildT /\ WorkT /\ HistT

(* A run that was not started has no trace yet; the list of epairs of one   *)
(* that was names them in order.                                            *)
Fresh(r) == obj[r] = NoObj /\ child[r].pc = "none"
Listed(r) == /\ Len(obj[r].epair) <= Len(Nets(r))
             /\ \A i \in 1..Len(obj[r].epair) : obj[r].epair[i] = <<r, i>>
Objects == \A r \in Runs : IF r \in Started THEN Listed(r) ELSE Fresh(r)

(* The networks of a container that get an epair, and how many of them come  *)
(* before the i-th of its list.                                             *)
Needs(c) == Cardinality(Bridges(c))
Count(c, i) == Cardinality(Bridges(c) \cap 1..i - 1)

(* The worker is busy with one run, at a position that its lists have.      *)
Busy == w.pc # "idle"
Equipped == {"attach", "devfs", "tmpfs", "mount", "register", "fork"}
Position ==
  /\ w.run \in Started /\ w.i >= 1
  /\ child[w.run].pc = (IF w.run \in dict THEN "over" ELSE "none")
  /\ w.pc \in Making => w.run \notin dict
Stage ==
  /\ w.pc \in {"create", "undevfs", "untmpfs", "unmount"} => Me.epair = <<>>
  /\ w.pc \in {"epair", "bridge"} => w.i <= Len(NetsOf[C])
  /\ w.pc = "epair" => Len(Me.epair) = Count(C, w.i)
  /\ w.pc = "bridge" => w.i \in Bridges(C) /\ Len(Me.epair) = Count(C, w.i) + 1
  /\ w.pc \in Equipped => Len(Me.epair) = Needs(C)
  /\ w.pc \in {"attach", "ifdestroy"} => w.i <= Len(Me.epair)
  /\ w.pc = "deattach" => w.i <= Len(Me.epair) \/ Me.epair = <<>>
  /\ w.pc \in {"mount", "unmount"} => w.i <= Len(MountsOf[C])
WorkerInv == Busy => Position /\ Stage

(* One run of a container at a time, as far as the worker knows.            *)
Mine == dict \cup ({w.run} \cap Runs)
OneActive == \A r, s \in Mine : Cont(r) = Cont(s) => r = s

(* The child goes by the list of its networks, and found an epair for each   *)
(* of the bridges it has passed.                                            *)
Passed(r, i) == \A j \in Bridges(Cont(r)) : j < i => j <= Needs(Cont(r))
ChildInv == \A r \in Runs :
  /\ child[r].pc = "config" => child[r].i \in 1..Len(Nets(r)) + 1 /\ Passed(r, child[r].i)
  /\ child[r].pc = "route" => child[r].i \in Bridges(Cont(r)) /\ Passed(r, child[r].i + 1)
  /\ child[r].pc \in {"ready", "running"} => Aligned(Cont(r))

(* An epair is at home, in the jail of its container or in what remains of   *)
(* it, and its address is of the network of its bridge, when the positions  *)
(* of the networks are those of the epairs.                                 *)
Ifaces == \A e \in DOMAIN iface :
  /\ e[1] \in Started /\ e[2] \in 1..Len(Nets(e[1]))
  /\ iface[e].at \in {Host, Cont(e[1]), Dying}
  /\ Aligned(Cont(e[1])) => iface[e].addr \in {Host, iface[e].bridge}

(* What was forked has all of its epairs, each on its bridge, as long as    *)
(* the worker has not begun to destroy them.                                *)
Bridged(r, i) == /\ <<r, i>> \in DOMAIN iface
                 /\ Aligned(Cont(r)) => iface[<<r, i>>].bridge = Nets(r)[i]
Complete(r) == /\ Len(obj[r].epair) = Needs(Cont(r))
               /\ \A i \in 1..Len(obj[r].epair) : Bridged(r, i)
Forked(r) == r \in dict \ {w.run} \/ child[r].pc \in Living
Whole ==
  /\ \A r \in Started : Forked(r) => Complete(r)
  /\ w.pc \in Making => \A i \in 1..Len(Me.epair) :
       \/ Bridged(w.run, i)
       \/ /\ w.pc = "bridge" /\ i = Len(Me.epair) /\ <<w.run, i>> \in DOMAIN iface
          /\ iface[<<w.run, i>>].addr = Host

Structure == Objects /\ WorkerInv /\ OneActive /\ ChildInv /\ Ifaces /\ Whole

-----------------------------------------------------------------------------
(* Positions in the list of networks.                                      *)

LEMMA Counted ==
  ASSUME NEW c \in Containers
  PROVE  /\ NetsOf[c] \in Seq(Networks) /\ Len(NetsOf[c]) \in Nat
         /\ Bridges(c) \subseteq 1..Len(NetsOf[c])
         /\ Needs(c) \in Nat /\ Needs(c) <= Len(NetsOf[c]) /\ (Needs(c) = 0 <=> Bridges(c) = {})
         /\ Count(c, 1) = 0 /\ Count(c, Len(NetsOf[c]) + 1) = Needs(c)
         /\ \A i \in 1..Len(NetsOf[c]) :
              /\ Count(c, i) \in Nat /\ Count(c, i) <= i - 1
              /\ i \in Bridges(c) => Count(c, i + 1) = Count(c, i) + 1
              /\ i \notin Bridges(c) => Count(c, i + 1) = Count(c, i)
<1> DEFINE n == Len(NetsOf[c])
           B == Bridges(c)
<1>1. NetsOf[c] \in Seq(Networks) BY ResourceAssumption
<1>2. n \in Nat /\ B \subseteq 1..n BY <1>1 DEF Bridges
<1>3. \A a, b \in Int : IsFiniteSet(a..b) /\ Cardinality(a..b) = IF a > b THEN 0 ELSE b - a + 1
  BY FS_Interval
<1> HIDE DEF n, B
<1>4. IsFiniteSet(1..n) /\ Cardinality(1..n) = n BY <1>2, <1>3
<1>5. /\ IsFiniteSet(B) /\ Cardinality(B) \in Nat /\ Cardinality(B) <= n
      /\ Cardinality(B) = 0 <=> B = {}
  <2>1. IsFiniteSet(B) /\ Cardinality(B) <= Cardinality(1..n) BY <1>2, <1>4, FS_Subset
  <2>2. Cardinality(B) \in Nat /\ (Cardinality(B) = 0 <=> B = {})
    BY <2>1, FS_CardinalityType, FS_EmptySet
  <2> QED BY <1>4, <2>1, <2>2
<1>6. ASSUME NEW i \in 1..n
      PROVE  /\ Count(c, i) \in Nat /\ Count(c, i) <= i - 1
             /\ i \in B => Count(c, i + 1) = Count(c, i) + 1
             /\ i \notin B => Count(c, i + 1) = Count(c, i)
  <2> DEFINE b == B \cap 1..i - 1
             d == B \cap 1..i
  <2>1. IsFiniteSet(1..i - 1) /\ Cardinality(1..i - 1) = i - 1 BY <1>2, <1>3
  <2>2. IsFiniteSet(b) /\ Cardinality(b) \in Nat /\ Cardinality(b) <= i - 1
    <3>1. b \subseteq 1..i - 1 OBVIOUS
    <3> HIDE DEF b
    <3> QED BY <2>1, <3>1, FS_Subset, FS_CardinalityType
  <2>3. i \in B => d = b \cup {i} /\ i \notin b BY <1>2
  <2>4. i \notin B => d = b BY <1>2
  <2>5. Count(c, i) = Cardinality(b) BY DEF Count, B
  <2>6. Count(c, i + 1) = Cardinality(d)
    <3>1. (i + 1) - 1 = i BY <1>2
    <3> QED BY <3>1 DEF Count, B
  <2> HIDE DEF b, d
  <2>7. i \notin b => Cardinality(b \cup {i}) = Cardinality(b) + 1 BY <2>2, FS_AddElement
  <2> QED BY <2>2, <2>3, <2>4, <2>5, <2>6, <2>7
<1>7. Count(c, 1) = 0
  <2>1. B \cap 1..1 - 1 = {} OBVIOUS
  <2> QED BY <2>1, FS_EmptySet DEF Count, B
<1>8. Count(c, n + 1) = Needs(c)
  <2>1. (n + 1) - 1 = n BY <1>2
  <2>2. B \cap 1..(n + 1) - 1 = B BY <1>2, <2>1
  <2> QED BY <2>2 DEF Count, Needs, B
<1> QED BY <1>1, <1>2, <1>5, <1>6, <1>7, <1>8 DEF n, B, Needs

(* In a list whose bridges come first the i-th epair is that of the i-th     *)
(* network, and a list whose every bridge finds an epair is such a list.     *)
LEMMA AlignedCount ==
  ASSUME NEW c \in Containers
  PROVE  /\ Aligned(c) => \A i \in Bridges(c) : Count(c, i) = i - 1
         /\ (\A j \in Bridges(c) : j <= Needs(c)) => Aligned(c)
<1> DEFINE B == Bridges(c)
           k == Needs(c)
<1>1. B \subseteq 1..Len(NetsOf[c]) /\ Len(NetsOf[c]) \in Nat /\ k \in Nat BY Counted
<1>2. \A a, b \in Int : IsFiniteSet(a..b) /\ Cardinality(a..b) = IF a > b THEN 0 ELSE b - a + 1
  BY FS_Interval
<1>3. Cardinality(B) = k BY DEF Needs
<1>4. Aligned(c) <=> B = 1..k BY DEF Aligned, Needs
<1>5. \A i : Count(c, i) = Cardinality(B \cap 1..i - 1) BY DEF Count
<1> HIDE DEF B, k
<1>6. ASSUME B = 1..k, NEW i \in B PROVE Count(c, i) = i - 1
  <2>1. B \cap 1..i - 1 = 1..i - 1 /\ i \in Int /\ i >= 1 BY <1>1, <1>6
  <2>2. Cardinality(1..i - 1) = i - 1 BY <1>2, <2>1
  <2> QED BY <1>5, <2>1, <2>2
<1>7. ASSUME \A j \in B : j <= k PROVE B = 1..k
  <2>1. B \subseteq 1..k BY <1>1, <1>7
  <2>2. IsFiniteSet(1..k) /\ Cardinality(1..k) = k BY <1>1, <1>2
  <2> QED BY <1>3, <2>1, <2>2, FS_Subset
<1> QED BY <1>4, <1>6, <1>7 DEF B, k

LEMMA ContOf ==
  ASSUME Types, NEW r \in Started
  PROVE  r \in Runs /\ Cont(r) \in Containers /\ Nets(r) = NetsOf[Cont(r)]
  BY DEF Started, Cont, Types, ObjT, ObjType, Places, Nets

-----------------------------------------------------------------------------
(* Types.                                                                  *)

LEMMA InitTypes == Init => Types
  BY ResourceAssumption
     DEF Init, Types, JailT, IfaceT, MountT, ObjT, ChildT, WorkT, HistT, Places, Nets0, ObjType,
         ChildType, IfaceType, WorkerType, NoObj, Idle, Process, Started, Cont, Living, Making,
         Destroying, Runs

(* What the worker is busy with, when it is.                                *)
LEMMA InHand ==
  ASSUME Types, WorkerInv, Busy
  PROVE  /\ w.run \in Runs /\ w.run \in Started /\ C \in Containers
         /\ Me \in ObjType /\ C = Me.cont
         /\ NetsOf[C] \in Seq(Networks) /\ MountsOf[C] \in Seq(STRING)
<1>1. w.run \in Runs /\ w.run \in Started BY DEF WorkerInv, Position, Started
<1>2. C \in Containers BY <1>1 DEF Types, ObjT, ObjType, C, Cont, Started, Places
<1> QED BY <1>1, <1>2, ResourceAssumption DEF Types, ObjT, Me, C, Cont

LEMMA RemoveType ==
  ASSUME NEW S, NEW s \in Seq(S), NEW i \in 1..Len(s)
  PROVE  /\ RemoveAt(s, i) \in Seq(S) /\ Len(RemoveAt(s, i)) = Len(s) - 1
         /\ \A j \in 1..Len(s) - 1 : RemoveAt(s, i)[j] = IF j < i THEN s[j] ELSE s[j + 1]
<1>1. /\ SubSeq(s, 1, i - 1) \in Seq(S) /\ Len(SubSeq(s, 1, i - 1)) = i - 1
      /\ \A j \in 1..i - 1 : SubSeq(s, 1, i - 1)[j] = s[j]
  OBVIOUS
<1>2. /\ SubSeq(s, i + 1, Len(s)) \in Seq(S) /\ Len(SubSeq(s, i + 1, Len(s))) = Len(s) - i
      /\ \A j \in 1..Len(s) - i : SubSeq(s, i + 1, Len(s))[j] = s[i + j]
  OBVIOUS
<1> DEFINE a == SubSeq(s, 1, i - 1)
           b == SubSeq(s, i + 1, Len(s))
<1>3. RemoveAt(s, i) = a \o b BY DEF RemoveAt
<1>4. /\ a \in Seq(S) /\ Len(a) = i - 1 /\ \A j \in 1..i - 1 : a[j] = s[j]
      /\ b \in Seq(S) /\ Len(b) = Len(s) - i /\ \A j \in 1..Len(s) - i : b[j] = s[i + j]
  BY <1>1, <1>2
<1> HIDE DEF a, b
<1>5. /\ a \o b \in Seq(S) /\ Len(a \o b) = Len(a) + Len(b)
      /\ \A j \in 1..Len(a) + Len(b) : (a \o b)[j] = IF j <= Len(a) THEN a[j] ELSE b[j - Len(a)]
  BY <1>4, ConcatProperties
<1>6. Len(a) + Len(b) = Len(s) - 1 BY <1>4
<1>7. ASSUME NEW j \in 1..Len(s) - 1
      PROVE  RemoveAt(s, i)[j] = IF j < i THEN s[j] ELSE s[j + 1]
  <2>1. CASE j < i BY <1>3, <1>4, <1>5, <1>6, <2>1
  <2>2. CASE j >= i
    <3>1. j - (i - 1) \in 1..Len(s) - i /\ i + (j - (i - 1)) = j + 1 BY <2>2
    <3>2. (a \o b)[j] = b[j - (i - 1)] BY <1>4, <1>5, <1>6, <2>2
    <3>3. b[j - (i - 1)] = s[i + (j - (i - 1))] BY <1>4, <3>1
    <3> QED BY <1>3, <2>2, <3>1, <3>2, <3>3
  <2> QED BY <2>1, <2>2
<1> QED BY <1>3, <1>5, <1>6, <1>7

LEMMA UnmountType ==
  ASSUME Types, NEW c \in Containers, NEW d
  PROVE  /\ Unmounted(c, d) \in [Containers -> Seq(Points)]
         /\ \A b \in Containers : Unmounted(c, d)[b] \in Seq(Dests(b))
<1>1. CASE CanUnmount(c, d)
  <2> DEFINE i == CHOOSE j \in Top(c, d) : TRUE
  <2>1. i \in 1..Len(mounts[c])
    BY <1>1 DEF CanUnmount, IsMount, Top, Types, MountT
  <2> HIDE DEF i
  <2>2. RemoveAt(mounts[c], i) \in Seq(Points) /\ RemoveAt(mounts[c], i) \in Seq(Dests(c))
    BY <2>1, RemoveType DEF Types, MountT
  <2>3. Unmounted(c, d) = [mounts EXCEPT ![c] = RemoveAt(@, i)]
    BY <1>1 DEF Unmounted, i
  <2> QED BY <2>2, <2>3 DEF Types, MountT
<1>2. CASE ~CanUnmount(c, d) BY <1>2 DEF Unmounted, Types, MountT
<1> QED BY <1>1, <1>2

-----------------------------------------------------------------------------
(* Which steps change what.                                                 *)
ChildStep(r) == \/ Enter(r) \/ Configure(r) \/ NoSuchEpair(r) \/ OtherNetwork(r)
                \/ NetworkRoute(r) \/ DefaultRoute(r) \/ Exec(r) \/ Exit(r)
Work == Make \/ Destroy
Onward == \/ \E pc \in Making \cup Destroying : \/ Go(pc) \/ w' = [w EXCEPT !.pc = pc]
                                                \/ w' = [w EXCEPT !.pc = pc, !.i = @ + 1]
          \/ Again
Forward == Onward \/ w' = Idle

LEMMA Moves ==
  ASSUME Work
  PROVE  /\ Busy /\ Forward
         /\ \/ Onward \/ GiveUp \/ Fork \/ ForkFails \/ StopJailRaises
            \/ AllDone /\ w.pc \in {"untmpfs", "unmount"}
         /\ UNCHANGED jail \/ JailSet \/ StopJail
         /\ \/ UNCHANGED iface \/ CreateEpair \/ AddToBridge \/ BridgeFails \/ Attach
            \/ Deattach \/ StopJail \/ DestroyEpair
         /\ \/ UNCHANGED mounts \/ MountDevfs \/ MountTmpfs \/ MountUser
            \/ UnmountDevfs \/ UnmountTmpfs \/ UnmountUser
         /\ \/ UNCHANGED obj \/ JailSet \/ JailRefused \/ CreateEpair \/ MountDevfs \/ DevfsFails
            \/ GiveUp \/ StopJailRaises \/ DestroyEpair \/ DestroyEpairFails
            \/ UnmountDevfs \/ UnmountDevfsFails
         /\ \/ UNCHANGED dict \/ Fork \/ ForkFails \/ StopJailRaises
            \/ (AllDone /\ w.pc \in {"untmpfs", "unmount"})
         /\ UNCHANGED child \/ Fork \/ StopJail
         /\ UNCHANGED spoilt \/ Spoil
         /\ UNCHANGED dirty \/ ForkFails \/ dirty' = dirty \cup {C}
<1> USE DEF Work, Make, Destroy, host, At, JailSet, JailRefused, Created, PassOver, CreateEpair,
      EpairFails, RefusalRaises, StopJailRaises, UnmountDevfsFails, UnmountTmpfsFails, AddToBridge, BridgeFails, Attach, AttachFails, MountDevfs, DevfsFails, MountTmpfs,
      TmpfsFails, MountUser, MountUserFails, MkdirFails, Register, GiveUp, Fork, ForkFails,
      Deattach, StopJail, StopJailFails, DestroyEpair, DestroyEpairFails, UnmountDevfs,
      UnmountTmpfs, UnmountUser, UnmountFails, FsMount
<1>1. Busy BY DEF Busy
<1>2. \/ Onward \/ GiveUp \/ Fork \/ ForkFails \/ StopJailRaises
      \/ AllDone /\ w.pc \in {"untmpfs", "unmount"}
  BY SMTT(60) DEF Onward, NextNet, AfterTmpfs, NextAttach, NextMount, NextDestroy, NextUnmount, NextDeattach,
     AfterRemove, AllDone, Making, Destroying, Raise
<1>3. Forward BY <1>2 DEF Forward, AllDone
<1>4. UNCHANGED jail \/ JailSet \/ StopJail OBVIOUS
<1>5. \/ UNCHANGED iface \/ CreateEpair \/ AddToBridge \/ BridgeFails \/ Attach
      \/ Deattach \/ StopJail \/ DestroyEpair
  OBVIOUS
<1>6. \/ UNCHANGED mounts \/ MountDevfs \/ MountTmpfs \/ MountUser
      \/ UnmountDevfs \/ UnmountTmpfs \/ UnmountUser
  OBVIOUS
<1>7. \/ UNCHANGED obj \/ JailSet \/ JailRefused \/ CreateEpair \/ MountDevfs \/ DevfsFails
      \/ GiveUp \/ StopJailRaises \/ DestroyEpair \/ DestroyEpairFails
      \/ UnmountDevfs \/ UnmountDevfsFails
  OBVIOUS
<1>8. \/ UNCHANGED dict \/ Fork \/ ForkFails \/ StopJailRaises
      \/ (AllDone /\ w.pc \in {"untmpfs", "unmount"})
  BY DEF AfterTmpfs, NextUnmount, AllDone
<1>9. UNCHANGED child \/ Fork \/ StopJail OBVIOUS
<1>10. UNCHANGED spoilt \/ Spoil OBVIOUS
<1>11. UNCHANGED dirty \/ ForkFails \/ dirty' = dirty \cup {C} BY DEF Spill
<1> QED BY <1>1, <1>2, <1>3, <1>4, <1>5, <1>6, <1>7, <1>8, <1>9, <1>10, <1>11

LEMMA ChildMoves ==
  ASSUME NEW r, ChildStep(r)
  PROVE  /\ UNCHANGED <<jail, mounts, obj, dict, w, dirty>>
         /\ UNCHANGED iface \/ Configure(r)
         /\ UNCHANGED spoilt \/ spoilt' = spoilt \cup {r}
<1> USE DEF ChildStep, Enter, Configure, NoSuchEpair, OtherNetwork, NetworkRoute, DefaultRoute,
            AddRoute, Exec, Exit, OnlyChild, Fail
<1>1. UNCHANGED <<jail, mounts, obj, dict, w, dirty>> OBVIOUS
<1>2. UNCHANGED iface \/ Configure(r) OBVIOUS
<1>3. UNCHANGED spoilt \/ spoilt' = spoilt \cup {r} OBVIOUS
<1> QED BY <1>1, <1>2, <1>3

LEMMA Steps ==
  ASSUME Next
  PROVE  \/ Work \/ Kill
         \/ \E c \in Containers : Start(c) \/ Stop(c)
         \/ \E r \in Started : Reap(r) \/ ChildStep(r)
         \/ \E e \in DOMAIN iface : ComeHome(e)
  BY DEF Next, Work, ChildStep

-----------------------------------------------------------------------------
(* Types, part by part.                                                     *)
LEMMA JailRemoveType ==
  ASSUME Types, NEW c \in Containers, JailRemove(c)
  PROVE  JailT' /\ IfaceT' /\ ChildT' /\ DOMAIN iface' = DOMAIN iface
<1>1. JailT' BY ResourceAssumption DEF JailRemove, Types, JailT
<1>2. \A e \in DOMAIN iface : Home(e) \in IfaceType /\ Stuck(e) \in IfaceType
  BY ZenonT(40) DEF Types, IfaceT, IfaceType, Home, Stuck, Places, Nets0
<1>3. IfaceT' /\ DOMAIN iface' = DOMAIN iface BY <1>2 DEF JailRemove, Types, IfaceT
<1>4. Process("over", 0) \in ChildType BY DEF Process, ChildType
<1>5. ChildT' BY <1>4 DEF JailRemove, Types, ChildT
<1> QED BY <1>1, <1>3, <1>5

(* The worker goes on, or has nothing more to do.                           *)
LEMMA GoType ==
  ASSUME WorkT, Busy, Forward
  PROVE  WorkT'
<1>1. /\ w = [pc |-> w.pc, run |-> w.run, i |-> w.i]
      /\ w.run \in 0..MaxRuns /\ w.run # 0 /\ w.i \in Nat
      /\ w.pc \in Making \cup Destroying
  BY DEF WorkT, WorkerType, Busy
<1>2. \A pc \in Making \cup Destroying : pc # "idle" BY DEF Making, Destroying
<1>3. CASE \E pc \in Making \cup Destroying, i \in Nat : w' = [pc |-> pc, run |-> w.run, i |-> i]
  <2>1. PICK pc \in Making \cup Destroying, i \in Nat : w' = [pc |-> pc, run |-> w.run, i |-> i]
    BY <1>3
  <2>2. w' \in WorkerType /\ w'.pc = pc /\ w'.run = w.run BY <1>1, <2>1 DEF WorkerType
  <2> QED BY <1>1, <1>2, <2>2 DEF WorkT
<1>4. CASE w' = Idle
  <2>1. w' \in WorkerType /\ w'.pc = "idle" /\ w'.run = 0
    BY <1>4, ResourceAssumption DEF Idle, WorkerType
  <2> QED BY <2>1 DEF WorkT
<1>5. ASSUME NEW pc \in Making \cup Destroying,
             \/ Go(pc) \/ w' = [w EXCEPT !.pc = pc] \/ w' = [w EXCEPT !.pc = pc, !.i = @ + 1]
      PROVE  \E i \in Nat : w' = [pc |-> pc, run |-> w.run, i |-> i]
  <2>1. CASE Go(pc)
    <3>1. w' = [pc |-> pc, run |-> w.run, i |-> 1] BY <1>1, <2>1 DEF Go
    <3> QED BY <3>1
  <2>2. CASE w' = [w EXCEPT !.pc = pc]
    <3>1. w' = [pc |-> pc, run |-> w.run, i |-> w.i] BY <1>1, <2>2
    <3> QED BY <1>1, <3>1
  <2>3. CASE w' = [w EXCEPT !.pc = pc, !.i = @ + 1]
    <3>1. w' = [pc |-> pc, run |-> w.run, i |-> w.i + 1] BY <1>1, <2>3
    <3> QED BY <1>1, <3>1
  <2> QED BY <1>5, <2>1, <2>2, <2>3
<1>6. CASE Again
  <2>1. w' = [pc |-> w.pc, run |-> w.run, i |-> w.i + 1] BY <1>1, <1>6 DEF Again
  <2> QED BY SMTT(20), <1>1, <1>3, <2>1
<1> QED BY <1>3, <1>4, <1>5, <1>6 DEF Forward, Onward

(* Where the worker has an epair in hand, it is the one of that position.    *)
LEMMA EpairInHand ==
  ASSUME Types, Structure, Busy, w.i <= Len(Me.epair)
  PROVE  Epair = <<w.run, w.i>> /\ w.i \in 1..Len(Me.epair) /\ Epair \in Runs \X Nat
<1>1. w.run \in Runs /\ Me \in ObjType /\ Listed(w.run)
  BY InHand DEF Structure, Objects
<1>2. w.i \in Nat /\ w.i >= 1 BY DEF Types, WorkT, WorkerType, Structure, WorkerInv, Position
<1>3. Len(Me.epair) \in Nat BY <1>1 DEF ObjType
<1>4. w.i \in 1..Len(Me.epair) /\ Epair = <<w.run, w.i>>
  BY <1>1, <1>2, <1>3 DEF Listed, Me, Epair
<1> QED BY <1>1, <1>2, <1>4

(* The one it has just made waits for the bridge of the network in turn.     *)
LEMMA NewestInHand ==
  ASSUME Types, Structure, w.pc = "bridge"
  PROVE  /\ Newest = <<w.run, Len(Me.epair)>> /\ Len(Me.epair) \in Nat /\ Len(Me.epair) >= 1
         /\ Newest \in Runs \X Nat
         /\ w.i \in 1..Len(NetsOf[C]) /\ w.i \in Bridges(C) /\ Wanted \in Networks
         /\ Aligned(C) => Wanted = Nets(w.run)[Len(Me.epair)]
<1>1. /\ w.run \in Runs /\ Me \in ObjType /\ C \in Containers /\ Listed(w.run)
      /\ Me = obj[w.run] /\ Nets(w.run) = NetsOf[C]
  BY InHand DEF Structure, Objects, Busy, Me, C, Nets
<1>2. w.i \in Bridges(C) /\ Len(Me.epair) = Count(C, w.i) + 1
  BY DEF Structure, WorkerInv, Busy, Stage
<1>3. w.i \in 1..Len(NetsOf[C]) /\ Count(C, w.i) \in Nat /\ NetsOf[C] \in Seq(Networks)
  BY <1>1, <1>2, Counted
<1>4. Me.epair \in Seq(Runs \X Nat) BY <1>1 DEF ObjType
<1>5. Newest = Me.epair[Len(Me.epair)] BY DEF Newest, Last
<1>6. Newest = <<w.run, Len(Me.epair)>> BY <1>1, <1>2, <1>3, <1>5 DEF Listed
<1>7. Aligned(C) => Len(Me.epair) = w.i
  <2>1. Aligned(C) => Count(C, w.i) = w.i - 1 BY <1>1, <1>2, AlignedCount
  <2> QED BY <1>2, <1>3, <2>1
<1> QED BY <1>1, <1>2, <1>3, <1>6, <1>7 DEF Wanted

LEMMA SetIface ==
  ASSUME IfaceT, NEW e, NEW f, e \in DOMAIN iface => f \in IfaceType,
         iface' = [iface EXCEPT ![e] = f]
  PROVE  IfaceT' /\ DOMAIN iface' = DOMAIN iface
  BY DEF IfaceT

LEMMA IfaceRecord ==
  ASSUME IfaceT, NEW e \in DOMAIN iface
  PROVE  /\ iface[e] \in IfaceType /\ Home(e) \in IfaceType /\ Stuck(e) \in IfaceType
         /\ \A n \in Nets0 : /\ Joined(e, n) \in IfaceType /\ Up(Joined(e, n), "b") \in IfaceType
                             /\ Addressed(e, n) \in IfaceType
                             /\ Up(Addressed(e, n), "a") \in IfaceType
         /\ \A c \in Places : [iface[e] EXCEPT !.at = c] \in IfaceType
  BY ZenonT(40) DEF IfaceT, IfaceType, Home, Stuck, Joined, Addressed, Up, Places, Nets0

LEMMA IfaceStep ==
  ASSUME Types, Structure, Next
  PROVE  IfaceT'
<1> USE DEF Types
<1>1. CASE UNCHANGED iface BY <1>1 DEF IfaceT
<1>2. CASE Work /\ CreateEpair
  <2>1. New \in Runs \X Nat
    <3>1. w.run \in Runs /\ Me \in ObjType BY <1>2, Moves, InHand DEF Structure
    <3> QED BY <3>1 DEF New, ObjType
  <2>2. [at |-> Host, bridge |-> Host, addr |-> Host, up |-> {}] \in IfaceType
    BY DEF IfaceType, Places, Nets0
  <2> QED BY <1>2, <2>1, <2>2 DEF CreateEpair, CreateInterface, IfaceT
<1>3. CASE Work /\ (AddToBridge \/ BridgeFails)
  <2>1. w.pc = "bridge" BY <1>3 DEF AddToBridge, BridgeFails, At
  <2>2. Wanted \in Nets0 BY <2>1, NewestInHand DEF Nets0
  <2> QED BY <1>3, <2>2, SetIface, IfaceRecord DEF AddToBridge, BridgeFails, BridgeIf, IfaceT
<1>4. CASE Work /\ Attach
  <2>1. C \in Places BY <1>4, Moves, InHand DEF Structure, Places
  <2>2. iface' = [iface EXCEPT ![Epair] = [iface[Epair] EXCEPT !.at = C]]
    BY <1>4 DEF Attach, MoveToJail
  <2> QED BY <2>1, <2>2, SetIface, IfaceRecord
<1>5. CASE Work /\ Deattach
  BY <1>1, <1>5, SetIface, IfaceRecord DEF Deattach, RemoveFromJail
<1>6. CASE Work /\ StopJail
  BY <1>1, <1>6, Moves, InHand, JailRemoveType DEF StopJail, Structure
<1>7. CASE Work /\ DestroyEpair
  BY <1>1, <1>7 DEF DestroyEpair, DestroyInterface, IfaceT, Restrict
<1>8. ASSUME NEW r \in Started, Configure(r) PROVE IfaceT'
  <2>1. Nets(r)[child[r].i] \in Nets0
    <3>1. r \in Runs /\ Cont(r) \in Containers BY DEF Started, Cont, ObjT, ObjType, Places
    <3>2. child[r].i \in 1..Len(Nets(r)) BY <1>8, <3>1, Counted DEF Configure, Turn, Nets
    <3>3. Nets(r) \in Seq(Networks) BY <3>1, ResourceAssumption DEF Nets
    <3> QED BY <3>2, <3>3 DEF Nets0
  <2> QED BY <1>1, <1>8, <2>1, SetIface, IfaceRecord DEF Configure, SetAddress
<1>9. ASSUME NEW c \in Containers, Stop(c) PROVE IfaceT'
  BY <1>9, JailRemoveType DEF Stop
<1>10. CASE Work BY <1>1, <1>2, <1>3, <1>4, <1>5, <1>6, <1>7, <1>10, Moves
<1>11. ASSUME NEW c \in Containers, Start(c) PROVE IfaceT' BY <1>1, <1>11 DEF Start, host
<1>12. CASE Kill BY <1>1, <1>12 DEF Kill, host
<1>13. ASSUME NEW r \in Started, Reap(r) \/ ChildStep(r) PROVE IfaceT'
  <2>1. CASE Reap(r) BY <1>1, <2>1 DEF Reap, host
  <2>2. CASE ChildStep(r) BY <1>1, <1>8, <2>2, ChildMoves
  <2> QED BY <1>13, <2>1, <2>2
<1>14. ASSUME NEW e \in DOMAIN iface, ComeHome(e) PROVE IfaceT'
  BY <1>14, SetIface, IfaceRecord DEF ComeHome, RemoveFromJail
<1> QED BY <1>9, <1>10, <1>11, <1>12, <1>13, <1>14, Steps

LEMMA JailStep ==
  ASSUME Types, Structure, Next
  PROVE  JailT'
<1> USE DEF Types
<1>1. CASE UNCHANGED jail BY <1>1 DEF JailT
<1>2. CASE Work /\ JailSet
  <2>1. w.run \in 0..MaxRuns BY DEF WorkT, WorkerType
  <2> QED BY <1>2, <2>1 DEF JailSet, JailT
<1>3. CASE Work /\ StopJail
  BY <1>1, <1>3, Moves, InHand, JailRemoveType DEF StopJail, Structure
<1>4. ASSUME NEW c \in Containers, Stop(c) PROVE JailT'
  BY <1>4, JailRemoveType DEF Stop
<1>5. CASE Work BY <1>1, <1>2, <1>3, <1>5, Moves
<1>6. ASSUME NEW c \in Containers, Start(c) PROVE JailT' BY <1>1, <1>6 DEF Start, host
<1>7. CASE Kill BY <1>1, <1>7 DEF Kill, host
<1>8. ASSUME NEW r \in Started, Reap(r) \/ ChildStep(r) PROVE JailT'
  BY <1>1, <1>8, ChildMoves DEF Reap, host
<1>9. ASSUME NEW e \in DOMAIN iface, ComeHome(e) PROVE JailT' BY <1>1, <1>9 DEF ComeHome
<1> QED BY <1>4, <1>5, <1>6, <1>7, <1>8, <1>9, Steps

LEMMA WorkStep ==
  ASSUME Types, Structure, Next
  PROVE  WorkT'
<1> USE DEF Types
<1>1. CASE UNCHANGED w BY <1>1 DEF WorkT
<1>2. CASE Work BY <1>2, Moves, GoType
<1>3. CASE \E r \in Runs : w' = [pc |-> "create", run |-> r, i |-> 1]
                           \/ w' = [pc |-> "deattach", run |-> r, i |-> 1]
  <2>1. PICK r \in Runs, pc \in {"create", "deattach"} : w' = [pc |-> pc, run |-> r, i |-> 1]
    BY <1>3
  <2>2. w'.pc = pc /\ w'.run = r /\ r # 0 /\ pc # "idle" BY <2>1, ResourceAssumption DEF Runs
  <2>3. w' \in WorkerType BY <2>1, ResourceAssumption DEF WorkerType, Runs, Making, Destroying
  <2> QED BY <2>2, <2>3 DEF WorkT
<1>4. CASE w' = Idle
  <2>1. w' \in WorkerType /\ w'.pc = "idle" /\ w'.run = 0
    BY <1>4, ResourceAssumption DEF Idle, WorkerType
  <2> QED BY <2>1 DEF WorkT
<1>5. ASSUME NEW c \in Containers, Start(c) PROVE WorkT' BY <1>3, <1>5 DEF Start
<1>6. CASE Kill BY <1>4, <1>6 DEF Kill
<1>7. ASSUME NEW r \in Started, Reap(r) PROVE WorkT' BY <1>3, <1>7 DEF Reap, Started
<1>8. ASSUME NEW r \in Started, ChildStep(r) PROVE WorkT' BY <1>1, <1>8, ChildMoves
<1>9. ASSUME NEW c \in Containers, Stop(c) PROVE WorkT' BY <1>1, <1>9 DEF Stop
<1>10. ASSUME NEW e \in DOMAIN iface, ComeHome(e) PROVE WorkT' BY <1>1, <1>10 DEF ComeHome
<1> QED BY <1>2, <1>5, <1>6, <1>7, <1>8, <1>9, <1>10, Steps

(* What is mounted has its place among the mount points of the container.   *)
LEMMA MountType ==
  ASSUME Types, NEW c \in Containers, NEW d \in Dests(c), Mount(c, d)
  PROVE  MountT'
<1>1. mounts[c] \in Seq(Points) /\ mounts[c] \in Seq(Dests(c)) BY DEF Types, MountT
<1>2. d \in Points BY DEF Points
<1>3. Append(mounts[c], d) \in Seq(Points) /\ Append(mounts[c], d) \in Seq(Dests(c))
  BY <1>1, <1>2
<1>4. mounts' = [mounts EXCEPT ![c] = Append(mounts[c], d)] BY DEF Mount
<1> QED BY <1>3, <1>4 DEF Types, MountT, Dests, Points

LEMMA DestsOf ==
  ASSUME NEW c \in Containers
  PROVE  /\ {"dev", "tmp"} \subseteq Dests(c)
         /\ FsMounts[1] = "dev" /\ FsMounts[2] = "tmp"
         /\ \A i \in 1..Len(MountsOf[c]) : MountsOf[c][i] \in Dests(c)
<1>1. FsMounts[1] = "dev" /\ FsMounts[2] = "tmp" /\ {1, 2} \subseteq DOMAIN FsMounts
  BY DEF FsMounts
<1>2. MountsOf[c] \in Seq(STRING) BY ResourceAssumption
<1>3. \A i \in 1..Len(MountsOf[c]) : MountsOf[c][i] \in Range(MountsOf[c])
  BY <1>2 DEF Range
<1>4. {"dev", "tmp"} \subseteq Range(FsMounts) BY <1>1 DEF Range
<1>5. {"dev", "tmp"} \subseteq Dests(c) BY <1>4 DEF Dests
<1>6. \A i \in 1..Len(MountsOf[c]) : MountsOf[c][i] \in Dests(c) BY <1>3 DEF Dests
<1> QED BY <1>1, <1>5, <1>6

LEMMA MountPosition ==
  ASSUME Types, Structure, w.pc \in {"mount", "unmount"}
  PROVE  w.i \in 1..Len(MountsOf[C]) /\ MountsOf[C][w.i] \in Dests(C)
<1>1. Busy BY DEF Busy
<1>2. w.i \in Nat /\ w.i >= 1 /\ w.i <= Len(MountsOf[C])
  BY <1>1 DEF Types, WorkT, WorkerType, Structure, WorkerInv, Position, Stage
<1>3. C \in Containers /\ Len(MountsOf[C]) \in Nat BY <1>1, InHand DEF Structure
<1> QED BY <1>2, <1>3, DestsOf

LEMMA MountStep ==
  ASSUME Types, Structure, Next
  PROVE  MountT'
<1>1. CASE UNCHANGED mounts BY <1>1 DEF Types, MountT, Dests, Points
<1>2. ASSUME Work PROVE Busy /\ C \in Containers
  BY <1>2, Moves, InHand DEF Structure
<1>3. ASSUME NEW c \in Containers, NEW d, mounts' = Unmounted(c, d) PROVE MountT'
  <2>1. \A b \in Containers : mounts'[b] \in Seq(Dests(b)) BY <1>3, UnmountType
  <2> QED BY <1>3, <2>1, UnmountType DEF MountT, Dests, Points
<1>4. CASE Work /\ (MountDevfs \/ MountTmpfs)
  BY <1>1, <1>2, <1>4, DestsOf, MountType DEF MountDevfs, MountTmpfs, FsMount
<1>5. CASE Work /\ MountUser
  <2>1. MountsOf[C][w.i] \in Dests(C) BY <1>5, MountPosition DEF MountUser, At
  <2> QED BY <1>2, <1>5, <2>1, MountType DEF MountUser
<1>6. CASE Work /\ (UnmountDevfs \/ UnmountTmpfs \/ UnmountUser)
  BY <1>1, <1>2, <1>3, <1>6 DEF UnmountDevfs, UnmountTmpfs, UnmountUser
<1>7. CASE Work BY <1>1, <1>4, <1>5, <1>6, <1>7, Moves
<1>8. ASSUME NEW c \in Containers, Start(c) \/ Stop(c) PROVE MountT'
  BY <1>1, <1>8 DEF Start, Stop, host
<1>9. CASE Kill BY <1>1, <1>9 DEF Kill, host
<1>10. ASSUME NEW r \in Started, Reap(r) \/ ChildStep(r) PROVE MountT'
  BY <1>1, <1>10, ChildMoves DEF Reap, host
<1>11. ASSUME NEW e \in DOMAIN iface, ComeHome(e) PROVE MountT' BY <1>1, <1>11 DEF ComeHome
<1> QED BY <1>7, <1>8, <1>9, <1>10, <1>11, Steps

(* A run keeps its container; only Start gives a run one.                    *)
Keeps == \A r \in Runs : obj'[r].cont = obj[r].cont

LEMMA FreshObj == NoObj \in ObjType /\ NoObj.cont = Host /\ NoObj.epair = <<>>
  BY DEF NoObj, ObjType, Places

LEMMA ObjStep ==
  ASSUME Types, Structure, Next
  PROVE  /\ ObjT'
         /\ Keeps \/ \E c \in Containers : Start(c)
<1> USE DEF Types
<1>1. ASSUME UNCHANGED obj PROVE ObjT' /\ Keeps BY <1>1 DEF ObjT, Keeps
<1>2. ASSUME NEW r \in Runs, NEW o \in ObjType, o.cont = obj[r].cont, obj' = [obj EXCEPT ![r] = o]
      PROVE  ObjT' /\ Keeps
  BY <1>2 DEF ObjT, Keeps
<1>3. <<>> \in Seq(Runs \X Nat) /\ FALSE \in BOOLEAN OBVIOUS
<1>4. ASSUME NEW r \in Runs
      PROVE  /\ obj[r] \in ObjType
             /\ \A j \in {"none", "ok", "refused"} :
                  [obj[r] EXCEPT !.jid = j] \in ObjType
                  /\ [obj[r] EXCEPT !.jid = j].cont = obj[r].cont
             /\ \A b \in BOOLEAN : [obj[r] EXCEPT !.devfs = b] \in ObjType
                                   /\ [obj[r] EXCEPT !.devfs = b].cont = obj[r].cont
             /\ \A p \in Seq(Runs \X Nat) : [obj[r] EXCEPT !.epair = p] \in ObjType
                                            /\ [obj[r] EXCEPT !.epair = p].cont = obj[r].cont
             /\ Forgotten(r) \in ObjType /\ Forgotten(r).cont = obj[r].cont
  <2>1. obj[r] \in ObjType BY DEF ObjT
  <2>2. obj[r].cont \in Places BY <2>1 DEF ObjType
  <2>3. Forgotten(r) \in ObjType /\ Forgotten(r).cont = obj[r].cont
    BY <2>2, FreshObj DEF ObjType, Forgotten, Cont
  <2>4. ASSUME NEW o \in ObjType, NEW j \in {"none", "ok", "refused"}, NEW b \in BOOLEAN,
               NEW p \in Seq(Runs \X Nat)
        PROVE  /\ [o EXCEPT !.jid = j] \in ObjType /\ [o EXCEPT !.jid = j].cont = o.cont
               /\ [o EXCEPT !.devfs = b] \in ObjType /\ [o EXCEPT !.devfs = b].cont = o.cont
               /\ [o EXCEPT !.epair = p] \in ObjType /\ [o EXCEPT !.epair = p].cont = o.cont
    BY DEF ObjType
  <2> QED BY <1>3, <2>1, <2>3, <2>4
<1>5. CASE Work
  <2>1. w.run \in Runs /\ Busy BY <1>5, Moves, InHand DEF Structure
  <2>2. CASE JailSet \/ JailRefused
    <3>1. PICK j \in {"ok", "refused"} : obj' = [obj EXCEPT ![w.run] = [obj[w.run] EXCEPT !.jid = j]]
      BY <2>2 DEF JailSet, JailRefused, Created
    <3> QED BY <1>2, <1>4, <2>1, <3>1
  <2>3. CASE CreateEpair
    <3>1. Me.epair \in Seq(Runs \X Nat) BY <1>4, <2>1 DEF ObjType, Me
    <3>2. Append(Me.epair, New) \in Seq(Runs \X Nat)
      <4> HIDE DEF Types
      <4>1. New \in Runs \X Nat BY <2>1, <3>1 DEF New
      <4> QED BY <3>1, <4>1
    <3>3. obj' = [obj EXCEPT ![w.run] = [obj[w.run] EXCEPT !.epair = Append(Me.epair, New)]]
      BY <2>3 DEF CreateEpair, Me
    <3> QED BY <1>2, <1>4, <2>1, <3>2, <3>3
  <2>4. CASE MountDevfs \/ DevfsFails \/ UnmountDevfs \/ UnmountDevfsFails
    <3>1. PICK b \in BOOLEAN : obj' = [obj EXCEPT ![w.run] = [obj[w.run] EXCEPT !.devfs = b]]
      BY <2>4 DEF MountDevfs, DevfsFails, UnmountDevfs, UnmountDevfsFails
    <3> QED BY <1>2, <1>4, <2>1, <3>1
  <2>5. CASE GiveUp \/ StopJailRaises
    BY <1>2, <1>4, <2>1, <2>5 DEF GiveUp, StopJailRaises
  <2>6. CASE DestroyEpair \/ DestroyEpairFails
    BY <1>1, <1>2, <1>3, <1>4, <2>1, <2>6 DEF DestroyEpair, DestroyEpairFails, NextDestroy
  <2> QED BY <1>1, <1>5, <2>2, <2>3, <2>4, <2>5, <2>6, Moves
<1>6. ASSUME NEW c \in Containers, Start(c) PROVE ObjT'
  <2>1. PICK r \in Runs : obj' = [obj EXCEPT ![r] = [obj[r] EXCEPT !.cont = c]]
    BY <1>6 DEF Start
  <2>2. obj[r] \in ObjType /\ c \in Places BY <1>4 DEF Places
  <2> HIDE DEF Types
  <2>3. [obj[r] EXCEPT !.cont = c] \in ObjType BY <2>2 DEF ObjType
  <2> QED BY <2>1, <2>3 DEF ObjT, Types
<1>7. CASE Kill
  <2>1. obj' = [r \in Runs |-> IF child[r].pc \in Living THEN obj[r] ELSE Forgotten(r)]
    BY <1>7 DEF Kill
  <2> QED BY <1>4, <2>1 DEF ObjT, Keeps
<1>8. ASSUME NEW c \in Containers, Stop(c) PROVE ObjT' /\ Keeps BY <1>1, <1>8 DEF Stop
<1>9. ASSUME NEW r \in Started, Reap(r) \/ ChildStep(r) PROVE ObjT' /\ Keeps
  BY <1>1, <1>9, ChildMoves DEF Reap
<1>10. ASSUME NEW e \in DOMAIN iface, ComeHome(e) PROVE ObjT' /\ Keeps
  BY <1>1, <1>10 DEF ComeHome
<1> QED BY <1>5, <1>6, <1>7, <1>8, <1>9, <1>10, Steps

LEMMA StartedGrows ==
  ASSUME Types, Structure, Next
  PROVE  Started \subseteq Started'
<1>1. CASE Keeps BY <1>1 DEF Keeps, Started
<1>2. ASSUME NEW c \in Containers, Start(c) PROVE Started \subseteq Started'
  <2>1. PICK r \in Runs : obj' = [obj EXCEPT ![r].cont = c] BY <1>2 DEF Start
  <2>2. c # Host BY ResourceAssumption
  <2> QED BY <2>1, <2>2 DEF Started, Types, ObjT, ObjType
<1> QED BY <1>1, <1>2, ObjStep

(* A route is added or not; the child goes on either way.                    *)
LEMMA AfterRoute ==
  ASSUME NEW r \in Runs, NEW to, NEW via, NEW pc, AddRoute(r, to, via, pc)
  PROVE  \E s \in {child[r].routes, child[r].routes \cup {to}} :
           child' = [child EXCEPT ![r] = [pc |-> pc, i |-> child[r].i + 1, routes |-> s]]
<1>1. \/ child' = [child EXCEPT ![r] = [pc |-> pc, i |-> @.i + 1, routes |-> child[r].routes]]
      \/ child' = [child EXCEPT ![r] = [pc |-> pc, i |-> @.i + 1,
                                        routes |-> child[r].routes \cup {to}]]
  BY DEF AddRoute
<1> QED BY <1>1

LEMMA ChildTypeStep ==
  ASSUME Types, Structure, Next
  PROVE  ChildT'
<1> USE DEF Types
<1>1. CASE UNCHANGED child BY <1>1 DEF ChildT
<1>2. ASSUME NEW r \in Runs, NEW p \in ChildType, child' = [child EXCEPT ![r] = p]
      PROVE  ChildT'
  BY <1>2 DEF ChildT
<1>3. ASSUME NEW r \in Runs
      PROVE  /\ child[r] \in ChildType
             /\ \A pc \in {"none", "over"} \cup Living : [child[r] EXCEPT !.pc = pc] \in ChildType
             /\ \A pc \in {"none", "over"} \cup Living, i \in Nat, s \in SUBSET Nets0 :
                  [pc |-> pc, i |-> i, routes |-> s] \in ChildType
  BY DEF ChildT, ChildType
<1>4. {"born", "config", "route", "ready", "running", "over"} \subseteq {"none", "over"} \cup Living
  BY DEF Living
<1>5. CASE Work /\ Fork
  <2>1. child' = [child EXCEPT ![w.run] = [child[w.run] EXCEPT !.pc = "born"]]
    BY <1>5 DEF Fork
  <2>2. w.run \in Runs BY <1>5, Moves, InHand DEF Structure
  <2> QED BY <1>2, <1>3, <1>4, <2>1, <2>2
<1>6. CASE Work /\ StopJail
  BY <1>1, <1>6, Moves, InHand, JailRemoveType DEF StopJail, Structure
<1>7. ASSUME NEW c \in Containers, Stop(c) PROVE ChildT'
  BY <1>7, JailRemoveType DEF Stop
<1>8. ASSUME NEW c \in Containers, Start(c) PROVE ChildT' BY <1>1, <1>8 DEF Start
<1>9. CASE Kill BY <1>1, <1>9 DEF Kill
<1>10. ASSUME NEW r \in Started, Reap(r) PROVE ChildT' BY <1>1, <1>10 DEF Reap
<1>11. ASSUME NEW r \in Started, ChildStep(r) PROVE ChildT'
  <2>1. r \in Runs /\ child[r].i \in Nat /\ child[r].routes \subseteq Nets0
    BY <1>3 DEF Started, ChildType
  <2>2. ASSUME NEW s \in SUBSET Nets0, NEW pc \in {"config", "ready"}
        PROVE  [pc |-> pc, i |-> child[r].i + 1, routes |-> s] \in ChildType
    BY <2>1 DEF ChildType, Living
  <2>3. CASE Enter(r) \/ Exit(r) \/ NoSuchEpair(r)
    <3>1. PICK pc \in {"config", "over"}, i \in {0, 1} :
             child' = [child EXCEPT ![r] = [pc |-> pc, i |-> i, routes |-> {}]]
      BY <2>3 DEF Enter, Exit, NoSuchEpair, ChildAt, Process
    <3> QED BY <1>2, <1>3, <1>4, <2>1, <3>1
  <2>4. CASE Configure(r)
    <3>1. child' = [child EXCEPT ![r] = [child[r] EXCEPT !.pc = "route"]] BY <2>4 DEF Configure
    <3> QED BY <1>2, <1>3, <1>4, <2>1, <3>1
  <2>5. CASE NetworkRoute(r) \/ DefaultRoute(r)
    <3>1. Nets(r) \in Seq(Networks)
      BY <2>1, ResourceAssumption DEF Nets, Cont, Started, ObjT, ObjType, Places
    <3>2. CASE NetworkRoute(r)
      <4>1. child[r].i \in 1..Len(Nets(r))
        BY <2>1, <3>2, ContOf, Counted DEF NetworkRoute, Structure, ChildInv
      <4>2. Nets(r)[child[r].i] \in Nets0 BY <3>1, <4>1 DEF Nets0
      <4>3. \E s \in {child[r].routes, child[r].routes \cup {Nets(r)[child[r].i]}} :
               child' = [child EXCEPT ![r] = [pc |-> "config", i |-> child[r].i + 1, routes |-> s]]
        BY <2>1, <3>2, AfterRoute DEF NetworkRoute
      <4>4. PICK s \in SUBSET Nets0 :
               child' = [child EXCEPT ![r] = [pc |-> "config", i |-> child[r].i + 1, routes |-> s]]
        BY <2>1, <4>2, <4>3
      <4> QED BY <1>2, <2>1, <2>2, <4>4
    <3>3. CASE DefaultRoute(r)
      <4>1. Host \in Nets0 BY DEF Nets0
      <4>2. \E s \in {child[r].routes, child[r].routes \cup {Host}} :
               child' = [child EXCEPT ![r] = [pc |-> "ready", i |-> child[r].i + 1, routes |-> s]]
        BY <2>1, <3>3, AfterRoute DEF DefaultRoute
      <4>3. PICK s \in SUBSET Nets0 :
               child' = [child EXCEPT ![r] = [pc |-> "ready", i |-> child[r].i + 1, routes |-> s]]
        BY <2>1, <4>1, <4>2
      <4> QED BY <1>2, <2>1, <2>2, <4>3
    <3> QED BY <2>5, <3>2, <3>3
  <2>6. CASE Exec(r)
    <3>1. child' = [child EXCEPT ![r] = [[child[r] EXCEPT !.pc = "running"] EXCEPT !.i = 0]]
      BY <2>1, <2>6 DEF Exec, ChildT
    <3>2. child[r] \in ChildType /\ "running" \in {"none", "over"} \cup Living /\ 0 \in Nat
      BY <1>3, <1>4, <2>1
    <3> HIDE DEF Types
    <3>3. [[child[r] EXCEPT !.pc = "running"] EXCEPT !.i = 0] \in ChildType
      BY <3>2 DEF ChildType
    <3> QED BY <1>2, <2>1, <3>1, <3>3
  <2>7. CASE OtherNetwork(r)
    <3>1. child' = [child EXCEPT ![r] = [child[r] EXCEPT !.i = child[r].i + 1]]
      BY <2>7 DEF OtherNetwork
    <3>2. child[r] \in ChildType /\ child[r].i + 1 \in Nat BY <1>3, <2>1
    <3> HIDE DEF Types
    <3>3. [child[r] EXCEPT !.i = child[r].i + 1] \in ChildType BY <3>2 DEF ChildType
    <3> QED BY <1>2, <2>1, <3>1, <3>3
  <2> QED BY <1>11, <2>3, <2>4, <2>5, <2>6, <2>7 DEF ChildStep
<1>12. CASE Work BY <1>1, <1>5, <1>6, <1>12, Moves
<1>13. ASSUME NEW e \in DOMAIN iface, ComeHome(e) PROVE ChildT' BY <1>1, <1>13 DEF ComeHome
<1> QED BY <1>7, <1>8, <1>9, <1>10, <1>11, <1>12, <1>13, Steps

LEMMA HistStep ==
  ASSUME Types, Structure, Next
  PROVE  HistT'
<1> USE DEF Types, HistT
<1>1. Started \subseteq Started' BY StartedGrows
<1>2. CASE Work
  <2>1. Busy /\ w.run \in Started /\ C \in Containers BY <1>2, Moves, InHand DEF Structure
  <2>2. dict' \subseteq Started'
    BY <1>1, <1>2, <2>1, Moves DEF Fork, ForkFails, StopJailRaises, AllDone
  <2>3. spoilt' \subseteq Started' BY <1>1, <1>2, <2>1, Moves DEF Spoil
  <2>4. dirty' \subseteq Containers
    <3>1. \A r \in dict : Cont(r) \in Containers
      BY DEF Started, Cont, ObjT, ObjType, Places
    <3> QED BY <1>2, <2>1, <3>1, Moves DEF ForkFails, Unborn
  <2> QED BY <2>2, <2>3, <2>4
<1>3. ASSUME NEW c \in Containers, Start(c) PROVE HistT' BY <1>1, <1>3 DEF Start
<1>4. ASSUME NEW c \in Containers, Stop(c) PROVE HistT' BY <1>1, <1>4 DEF Stop
<1>5. CASE Kill BY <1>1, <1>5 DEF Kill
<1>6. ASSUME NEW r \in Started, Reap(r) \/ ChildStep(r) PROVE HistT'
  BY <1>1, <1>6, ChildMoves DEF Reap
<1>7. ASSUME NEW e \in DOMAIN iface, ComeHome(e) PROVE HistT' BY <1>1, <1>7 DEF ComeHome
<1> QED BY <1>2, <1>3, <1>4, <1>5, <1>6, <1>7, Steps

LEMMA TypesStep ==
  ASSUME Types, Structure, Next
  PROVE  Types'
BY JailStep, IfaceStep, MountStep, ObjStep, ChildTypeStep, WorkStep, HistStep DEF Types

-----------------------------------------------------------------------------
(* Structure: what a step does to the runs that it is not about.            *)

(* A run that has a container keeps it.                                     *)
LEMMA Conts ==
  ASSUME Types, Structure, Next
  PROVE  /\ Keeps => Started' = Started
         /\ \A r \in Started : r \in Started' /\ Cont(r)' = Cont(r) /\ Nets(r)' = Nets(r)
<1>1. CASE Keeps
  <2>1. Started' = Started BY <1>1 DEF Keeps, Started
  <2>2. \A r \in Started : Cont(r)' = Cont(r) BY <1>1 DEF Keeps, Started, Cont
  <2> QED BY <2>1, <2>2 DEF Nets
<1>2. ASSUME NEW c \in Containers, Start(c)
      PROVE  /\ Keeps => Started' = Started
             /\ \A r \in Started : Cont(r)' = Cont(r)
  <2>1. PICK r \in Runs \ Started : obj' = [obj EXCEPT ![r] = [obj[r] EXCEPT !.cont = c]]
    BY <1>2 DEF Start
  <2>2. Keeps => Started' = Started BY DEF Keeps, Started
  <2>3. \A s \in Started : obj'[s] = obj[s] BY <2>1 DEF Types, ObjT, Started
  <2> QED BY <2>2, <2>3 DEF Cont
<1>3. \A r \in Started : r \in Started' BY StartedGrows
<1> QED BY <1>1, <1>2, <1>3, ObjStep DEF Nets

(* Only the child itself, the fork and the removal of its jail move a child. *)
LEMMA ChildChange ==
  ASSUME Types, Structure, Next, NEW r \in Runs, child'[r] # child[r]
  PROVE  /\ r \in Started
         /\ \/ child[r].pc \in Living /\ child'[r] = Process("over", 0)
            \/ child[r].pc \in Living /\ ChildStep(r)
            \/ Work /\ Fork /\ r = w.run /\ child'[r].pc = "born" /\ child'[r].routes = child[r].routes
<1> USE DEF Types, ChildT
<1>1. ASSUME NEW c \in Containers, JailRemove(c)
      PROVE  r \in Started /\ child[r].pc \in Living /\ child'[r] = Process("over", 0)
  <2>1. Cont(r) = c /\ child[r].pc \in Living /\ child'[r] = Process("over", 0)
    BY <1>1 DEF JailRemove
  <2> QED BY <2>1, ResourceAssumption DEF Started, Cont
<1>2. CASE Work
  <2>1. Busy /\ w.run \in Started /\ w.run \in Runs /\ C \in Containers
    BY <1>2, Moves, InHand DEF Structure
  <2>2. CASE Fork
    <3>1. child' = [child EXCEPT ![w.run] = [child[w.run] EXCEPT !.pc = "born"]]
      BY <2>2 DEF Fork
    <3>2. child[w.run] \in ChildType BY <2>1
    <3>3. r = w.run /\ child'[r] = [child[w.run] EXCEPT !.pc = "born"] BY <2>1, <3>1
    <3> QED BY <1>2, <2>1, <2>2, <3>2, <3>3 DEF ChildType
  <2>3. CASE StopJail BY <1>1, <2>1, <2>3 DEF StopJail
  <2> QED BY <1>2, <2>2, <2>3, Moves
<1>3. ASSUME NEW c \in Containers, Start(c) \/ Stop(c)
      PROVE  r \in Started /\ child[r].pc \in Living /\ child'[r] = Process("over", 0)
  BY <1>1, <1>3 DEF Start, Stop
<1>4. ASSUME NEW s \in Started, Reap(s) \/ ChildStep(s)
      PROVE  r \in Started /\ child[r].pc \in Living /\ ChildStep(r)
  <2>1. ChildStep(s) BY <1>4 DEF Reap
  <2>2. s \in Runs /\ child[s].pc \in Living
    BY <2>1 DEF ChildStep, Enter, Configure, NoSuchEpair, OtherNetwork, Turn, NetworkRoute,
       DefaultRoute, Exec, Exit, Living, Started
  <2>3. \A t \in Runs : t # s => child'[t] = child[t]
    BY <2>1, <2>2, AfterRoute DEF ChildStep, Enter, Configure, NoSuchEpair, OtherNetwork,
       NetworkRoute, DefaultRoute, Exec, Exit, ChildAt
  <2> QED BY <1>4, <2>1, <2>2, <2>3
<1>5. CASE Kill BY <1>5 DEF Kill
<1>6. ASSUME NEW e \in DOMAIN iface, ComeHome(e) PROVE FALSE BY <1>6 DEF ComeHome
<1> QED BY <1>2, <1>3, <1>4, <1>5, <1>6, Steps

(* Only the run in hand gets an epair; lists are emptied, not shortened.     *)
LEMMA EpairChange ==
  ASSUME Types, Structure, Next, NEW r \in Runs
  PROVE  \/ obj'[r].epair = obj[r].epair
         \/ Work /\ CreateEpair /\ r = w.run /\ obj'[r].epair = Append(Me.epair, New)
         \/ /\ obj'[r].epair = <<>>
            /\ \/ Work /\ r = w.run /\ (GiveUp \/ StopJailRaises \/ w.pc = "ifdestroy")
               \/ Kill /\ child[r].pc \notin Living
<1> USE DEF Types, ObjT, ObjType
<1>1. Forgotten(r).epair = <<>> BY DEF Forgotten, NoObj
<1>2. CASE Work
  <2>1. w.run \in Runs BY <1>2, Moves, InHand DEF Structure
  <2>2. CASE JailSet \/ JailRefused
    <3>1. PICK j : obj' = [obj EXCEPT ![w.run] = [obj[w.run] EXCEPT !.jid = j]]
      BY <2>2 DEF JailSet, JailRefused, Created
    <3> QED BY <2>1, <3>1
  <2>3. CASE CreateEpair BY <1>2, <2>1, <2>3 DEF CreateEpair, Me
  <2>4. CASE MountDevfs \/ DevfsFails \/ UnmountDevfs \/ UnmountDevfsFails
    <3>1. PICK b : obj' = [obj EXCEPT ![w.run] = [obj[w.run] EXCEPT !.devfs = b]]
      BY <2>4 DEF MountDevfs, DevfsFails, UnmountDevfs, UnmountDevfsFails
    <3> QED BY <2>1, <3>1
  <2>5. CASE GiveUp \/ StopJailRaises
    <3>1. obj' = [obj EXCEPT ![w.run] = Forgotten(w.run)] BY <2>5 DEF GiveUp, StopJailRaises
    <3> QED BY <1>1, <1>2, <2>1, <2>5, <3>1
  <2>6. CASE DestroyEpair \/ DestroyEpairFails
    BY <1>2, <2>1, <2>6 DEF DestroyEpair, DestroyEpairFails, NextDestroy, At
  <2> QED BY <1>2, <2>2, <2>3, <2>4, <2>5, <2>6, Moves
<1>3. ASSUME NEW c \in Containers, Start(c) PROVE obj'[r].epair = obj[r].epair
  BY <1>3 DEF Start
<1>4. ASSUME NEW c \in Containers, Stop(c) PROVE obj'[r].epair = obj[r].epair
  BY <1>4 DEF Stop
<1>5. CASE Kill
  <2>1. obj'[r] = IF child[r].pc \in Living THEN obj[r] ELSE Forgotten(r) BY <1>5 DEF Kill
  <2> QED BY <1>1, <1>5, <2>1
<1>6. ASSUME NEW s \in Started, Reap(s) \/ ChildStep(s) PROVE obj'[r].epair = obj[r].epair
  BY <1>6, ChildMoves DEF Reap
<1>7. ASSUME NEW e \in DOMAIN iface, ComeHome(e) PROVE obj'[r].epair = obj[r].epair
  BY <1>7 DEF ComeHome
<1> QED BY <1>2, <1>3, <1>4, <1>5, <1>6, <1>7, Steps

LEMMA ObjectsStep ==
  ASSUME Types, Structure, Next
  PROVE  Objects'
<1> SUFFICES ASSUME NEW r \in Runs
             PROVE  /\ r \in Started' => Listed(r)'
                    /\ r \notin Started' => Fresh(r)'
  BY DEF Objects
<1>1. CASE r \in Started
  <2>1. Listed(r) /\ r \in Started' /\ Nets(r)' = Nets(r)
    BY <1>1, Conts DEF Structure, Objects
  <2>2. Nets(r) \in Seq(Networks) /\ Len(Nets(r)) \in Nat
    BY <1>1, ResourceAssumption DEF Nets, Cont, Started, Types, ObjT, ObjType, Places
  <2>3. CASE Work /\ CreateEpair /\ r = w.run /\ obj'[r].epair = Append(Me.epair, New)
    <3> DEFINE k == Len(Me.epair)
    <3>1. Me = obj[r] /\ Me.epair \in Seq(Runs \X Nat) /\ k \in Nat
      BY <2>3 DEF Me, Types, ObjT, ObjType
    <3>2. k + 1 <= Len(Nets(r))
      <4>1. w.pc = "epair" /\ w.i \in Bridges(C) BY <2>3 DEF CreateEpair, At
      <4>2. k = Count(C, w.i) BY <4>1 DEF Structure, WorkerInv, Busy, Stage
      <4>3. C \in Containers /\ Nets(r) = NetsOf[C] BY <2>3, <4>1, InHand DEF Busy, Structure, Nets, C
      <4> QED BY <3>1, <4>1, <4>2, <4>3, Counted
    <3>3. /\ Len(obj'[r].epair) = k + 1
          /\ \A i \in 1..k + 1 : obj'[r].epair[i] = IF i <= k THEN Me.epair[i] ELSE <<r, k + 1>>
      <4>1. obj'[r].epair = Append(Me.epair, <<r, k + 1>>) BY <2>3 DEF New
      <4> HIDE DEF Me
      <4> QED BY <3>1, <4>1
    <3>4. Len(obj'[r].epair) <= Len(Nets(r)) BY <3>2, <3>3
    <3>5. \A i \in 1..Len(obj'[r].epair) : obj'[r].epair[i] = <<r, i>>
      <4> TAKE i \in 1..Len(obj'[r].epair)
      <4>1. i \in 1..k + 1 /\ (i = k + 1 \/ (i <= k /\ i \in 1..Len(obj[r].epair))) BY <3>1, <3>3
      <4>2. CASE i = k + 1 BY <3>1, <3>3, <4>1, <4>2
      <4>3. CASE i <= k /\ i \in 1..Len(obj[r].epair) BY <2>1, <3>1, <3>3, <4>1, <4>3 DEF Listed
      <4> QED BY <4>1, <4>2, <4>3
    <3> QED BY <2>1, <3>4, <3>5 DEF Listed
  <2>4. CASE obj'[r].epair = <<>> BY <2>1, <2>2, <2>4 DEF Listed
  <2>5. CASE obj'[r].epair = obj[r].epair BY <2>1, <2>5 DEF Listed
  <2> QED BY <2>1, <2>3, <2>4, <2>5, EpairChange
<1>2. CASE r \notin Started
  <2>1. Fresh(r) /\ child'[r] = child[r] BY <1>2, ChildChange DEF Structure, Objects
  <2>2. CASE Keeps
    <3>1. r \notin Started' BY <1>2, <2>2 DEF Keeps, Started
    <3>2. obj'[r] = obj[r]
      <4>1. CASE Work
        <5>1. r # w.run BY <1>2, <4>1, Moves, InHand DEF Structure
        <5> QED BY <4>1, <5>1, Moves DEF JailSet, JailRefused, Created, CreateEpair, MountDevfs,
              DevfsFails, GiveUp, StopJailRaises, DestroyEpair, DestroyEpairFails, NextDestroy,
              UnmountDevfs, UnmountDevfsFails, Types, ObjT
      <4>2. CASE Kill
        <5>1. obj[r] = NoObj /\ Cont(r) = Host BY <2>1 DEF Fresh, NoObj, Cont
        <5>2. Forgotten(r) = NoObj BY <5>1, FreshObj DEF Forgotten, ObjType
        <5> QED BY <4>2, <5>1, <5>2 DEF Kill
      <4>3. ASSUME NEW c \in Containers, Start(c) PROVE obj'[r] = obj[r]
        <5>1. PICK t \in Runs : obj' = [obj EXCEPT ![t] = [obj[t] EXCEPT !.cont = c]] /\ t \notin Started
          BY <4>3 DEF Start
        <5>2. obj'[t].cont = c BY <5>1 DEF Types, ObjT, ObjType
        <5>3. obj[t].cont = c BY <2>2, <5>2 DEF Keeps
        <5> QED BY <5>1, <5>3, ResourceAssumption DEF Started
      <4>4. ASSUME NEW c \in Containers, Stop(c) PROVE obj'[r] = obj[r] BY <4>4 DEF Stop
      <4>5. ASSUME NEW s \in Started, Reap(s) \/ ChildStep(s) PROVE obj'[r] = obj[r]
        BY <4>5, ChildMoves DEF Reap
      <4>6. ASSUME NEW e \in DOMAIN iface, ComeHome(e) PROVE obj'[r] = obj[r]
        BY <4>6 DEF ComeHome
      <4> QED BY <4>1, <4>2, <4>3, <4>4, <4>5, <4>6, Steps
    <3> QED BY <2>1, <3>1, <3>2 DEF Fresh
  <2>3. ASSUME NEW c \in Containers, Start(c)
        PROVE  /\ r \in Started' => Listed(r)'
               /\ r \notin Started' => Fresh(r)'
    <3>1. PICK t \in Runs : obj' = [obj EXCEPT ![t] = [obj[t] EXCEPT !.cont = c]]
      BY <2>3 DEF Start
    <3>2. obj'[r].epair = <<>> /\ (r # t => obj'[r] = obj[r])
      <4>1. obj[r].epair = <<>> /\ obj[r] \in ObjType BY <2>1, FreshObj DEF Fresh, Types, ObjT
      <4>2. r = t => obj'[r] = [obj[r] EXCEPT !.cont = c] BY <3>1 DEF Types, ObjT
      <4>3. r # t => obj'[r] = obj[r] BY <3>1 DEF Types, ObjT
      <4> QED BY <4>1, <4>2, <4>3 DEF ObjType
    <3>3. c # Host BY ResourceAssumption
    <3>4. r = t => r \in Started' BY <3>1, <3>3 DEF Started, Types, ObjT, ObjType
    <3>5. r \notin Started' => Fresh(r)' BY <2>1, <3>2, <3>4 DEF Fresh
    <3>6. r \in Started' => Listed(r)'
      <4> SUFFICES ASSUME r \in Started' PROVE Listed(r)' OBVIOUS
      <4>1. Cont(r)' \in Containers BY TypesStep DEF Started, Cont, Types, ObjT, ObjType, Places
      <4>2. Len(Nets(r)') \in Nat BY <4>1, ResourceAssumption DEF Nets
      <4> QED BY <3>2, <4>2 DEF Listed
    <3> QED BY <3>5, <3>6
  <2> QED BY <2>2, <2>3, ObjStep
<1> QED BY <1>1, <1>2

-----------------------------------------------------------------------------
(* Structure: the worker.                                                   *)

(* While it is busy it stays with the run in hand.                          *)
LEMMA SameRun ==
  ASSUME Types, Structure, Work, w' # Idle
  PROVE  /\ w'.run = w.run /\ w.run \in Runs /\ w.run \in Started'
         /\ C' = C /\ dict' = dict /\ child'[w.run] = child[w.run]
<1>1. Next BY DEF Work, Next
<1>2. Busy /\ w.run \in Started /\ w.run \in Runs BY Moves, InHand DEF Structure
<1>3. w'.run = w.run BY Moves DEF Forward, Onward, Go, Again, Types, WorkT, WorkerType
<1>4. w.run \in Started' /\ obj'[w.run].cont = obj[w.run].cont BY <1>1, <1>2, Conts DEF Cont
<1>5. dict' = dict BY Moves DEF Fork, ForkFails, StopJailRaises, AllDone
<1>6. child'[w.run] = child[w.run]
  <2>1. child[w.run].pc \notin Living
    BY <1>2 DEF Structure, WorkerInv, Position, Living
  <2>2. ~Fork BY DEF Fork
  <2> QED BY <1>1, <1>2, <2>1, <2>2, ChildChange
<1> QED BY <1>2, <1>3, <1>4, <1>5, <1>6 DEF C, Cont

(* ... and goes on to a place that its lists have.                            *)
LEMMA StageStep ==
  ASSUME Types, Structure, Work, w' # Idle
  PROVE  Stage'
<1> DEFINE n == Len(NetsOf[C])
           m == Len(MountsOf[C])
           k == Len(Me.epair)
           e == obj'[w.run].epair
           q == Needs(C)
           Fit(pc, i, l) ==
             /\ pc \in {"create", "undevfs", "untmpfs", "unmount"} => l = 0
             /\ pc \in {"epair", "bridge"} => i <= n
             /\ pc = "epair" => l = Count(C, i)
             /\ pc = "bridge" => i \in Bridges(C) /\ l = Count(C, i) + 1
             /\ pc \in Equipped => l = q
             /\ pc \in {"attach", "ifdestroy"} => i <= l
             /\ pc = "deattach" => i <= l \/ l = 0
             /\ pc \in {"mount", "unmount"} => i <= m
<1>1. Next BY DEF Work, Next
<1>2. /\ w.run \in Runs /\ Busy /\ w.i \in Nat /\ w.i >= 1 /\ Fit(w.pc, w.i, k)
      /\ n \in Nat /\ m \in Nat /\ k \in Nat /\ k <= n
      /\ (MountsOf[C] = <<>> <=> m = 0)
      /\ (Me.epair = <<>> <=> k = 0)
  <2>1. w.run \in Runs /\ Busy /\ w.i \in Nat /\ w.i >= 1 /\ Stage /\ w.run \in Started
    BY Moves, InHand DEF Structure, WorkerInv, Position, Types, WorkT, WorkerType
  <2>2. NetsOf[C] \in Seq(Networks) /\ MountsOf[C] \in Seq(STRING) /\ Me.epair \in Seq(Runs \X Nat)
    BY <2>1, InHand DEF Structure, ObjType
  <2>3. k <= n BY <2>1 DEF Structure, Objects, Listed, Nets, Me, C
  <2>4. Fit(w.pc, w.i, k) BY <2>1, <2>2, EmptySeq DEF Stage
  <2> QED BY <2>1, <2>2, <2>3, <2>4, EmptySeq
<1>3. w'.run = w.run /\ C' = C /\ Me'.epair = e /\ w = [pc |-> w.pc, run |-> w.run, i |-> w.i]
  BY SameRun DEF Me, Types, WorkT, WorkerType
<1>4. e \in Seq(Runs \X Nat) /\ Len(e) \in Nat /\ (e = <<>> <=> Len(e) = 0)
  BY <1>1, <1>2, ObjStep, EmptySeq DEF ObjT, ObjType
<1>5. \/ Len(e) = k
      \/ w.pc = "epair" /\ w'.pc = "bridge" /\ w'.i = w.i /\ Len(e) = k + 1
      \/ w.pc = "ifdestroy" /\ Len(e) = 0
  <2>1. Me \in ObjType /\ Me = obj[w.run] BY <1>2 DEF Types, ObjT, Me
  <2>2. ~GiveUp /\ ~StopJailRaises /\ ~Kill BY DEF GiveUp, StopJailRaises, Kill
  <2>3. CASE CreateEpair /\ e = Append(Me.epair, New)
    <3>1. w.pc = "epair" /\ w' = [w EXCEPT !.pc = "bridge"] BY <2>3 DEF CreateEpair, At
    <3>2. Len(e) = k + 1 BY <2>1, <2>3 DEF ObjType
    <3> QED BY <1>3, <3>1, <3>2
  <2> QED BY <1>1, <1>2, <1>4, <2>1, <2>2, <2>3, EpairChange
<1>6. ASSUME Fit(w'.pc, w'.i, Len(e)) PROVE Stage'
  <2>1. (Me.epair)' = e BY <1>3 DEF Me
  <2>2. /\ NetsOf[C]' = NetsOf[C] /\ MountsOf[C]' = MountsOf[C] /\ Needs(C)' = Needs(C)
        /\ Bridges(C)' = Bridges(C) /\ Count(C, w.i)' = Count(C, w'.i)
    BY <1>3 DEF Needs, Bridges, Count
  <2>3. Fit(w'.pc, w'.i, Len(e)) BY <1>6
  <2> QED BY <1>4, <2>1, <2>2, <2>3 DEF Stage
<1> DEFINE To(pc, i) == w'.pc = pc /\ w'.i = i
<1>7. /\ \A pc : Go(pc) => To(pc, 1)
      /\ \A pc : w' = [w EXCEPT !.pc = pc] => To(pc, w.i)
      /\ \A pc : w' = [w EXCEPT !.pc = pc, !.i = @ + 1] => To(pc, w.i + 1)
      /\ Again => To(w.pc, w.i + 1)
  BY <1>3 DEF Go, Again
<1>30. /\ C \in Containers /\ q \in Nat /\ q <= n /\ (q = 0 <=> Bridges(C) = {})
       /\ Bridges(C) \subseteq 1..n
       /\ Count(C, 1) = 0 /\ Count(C, n + 1) = q
       /\ \A i \in 1..n :
            /\ Count(C, i) \in Nat
            /\ i \in Bridges(C) => Count(C, i + 1) = Count(C, i) + 1
            /\ i \notin Bridges(C) => Count(C, i + 1) = Count(C, i)
  <2>1. C \in Containers BY <1>2, InHand DEF Structure
  <2> QED BY <2>1, Counted
<1> HIDE DEF n, m, k, e, q
<1> USE DEF At, To
<1>8. CASE JailSet \/ JailRefused
  <2>1. w.pc = "create" /\ To(IF q = 0 THEN "devfs" ELSE "epair", 1)
    BY <1>2, <1>7, <1>8, <1>30 DEF JailSet, JailRefused, Created
  <2> QED BY <1>2, <1>5, <1>6, <1>30, <2>1 DEF Equipped
<1>9. CASE CreateEpair
  <2>1. w.pc = "epair" /\ w.i \in Bridges(C) /\ To("bridge", w.i) BY <1>7, <1>9 DEF CreateEpair
  <2>2. Len(e) = k + 1
    <3>1. e = Append(Me.epair, New)
      <4>1. Me \in ObjType /\ Me = obj[w.run] BY <1>2 DEF Types, ObjT, Me
      <4>2. obj' = [obj EXCEPT ![w.run] = [Me EXCEPT !.epair = Append(@, New)]]
        BY <1>9 DEF CreateEpair, Me
      <4> QED BY <1>2, <4>1, <4>2 DEF Types, ObjT, ObjType, e
    <3>2. Me.epair \in Seq(Runs \X Nat) BY <1>2 DEF Types, ObjT, ObjType, Me
    <3> QED BY <3>1, <3>2 DEF k
  <2> QED BY <1>2, <1>6, <2>1, <2>2 DEF Equipped
<1>10. CASE EpairFails \/ BridgeFails \/ MkdirFails \/ RefusalRaises \/ (Register /\ Raise)
  <2>1. w.pc # "ifdestroy" /\ To("deattach", 1)
    BY <1>7, <1>10 DEF EpairFails, BridgeFails, MkdirFails, RefusalRaises, Register, Raise
  <2> QED BY <1>2, <1>5, <1>6, <2>1 DEF Equipped
<1>11. CASE AddToBridge \/ PassOver
  <2>1. /\ w.i \in 1..n
        /\ IF w.i < n THEN To("epair", w.i + 1) ELSE To(IF k = 0 THEN "devfs" ELSE "attach", 1)
    <3>1. w.pc \in {"epair", "bridge"} /\ NextNet BY <1>11 DEF AddToBridge, PassOver
    <3>2. w' = [w EXCEPT !.pc = "epair", !.i = @ + 1] => To("epair", w.i + 1) BY <1>7
    <3>3. w.i \in 1..n BY <1>2, <3>1
    <3>4. CASE w.i < n
      <4>1. To("epair", w.i + 1) BY <3>1, <3>2, <3>4 DEF NextNet, n
      <4> QED BY <3>3, <3>4, <4>1
    <3>5. CASE ~(w.i < n)
      <4>1. Go(IF Me.epair = <<>> THEN "devfs" ELSE "attach") BY <3>1, <3>5 DEF NextNet, n
      <4>2. To(IF Me.epair = <<>> THEN "devfs" ELSE "attach", 1) BY <1>7, <4>1
      <4>3. Me.epair = <<>> <=> k = 0 BY <1>2
      <4> QED BY <3>3, <3>5, <4>2, <4>3
    <3> QED BY <3>4, <3>5
  <2>2. k = Count(C, w.i + 1) /\ w.pc # "ifdestroy" /\ w'.pc # "bridge"
    <3>1. CASE AddToBridge
      <4>1. w.pc = "bridge" BY <3>1 DEF AddToBridge
      <4> QED BY <1>2, <1>30, <2>1, <4>1
    <3>2. CASE PassOver
      <4>1. w.pc = "epair" /\ w.i \notin Bridges(C) BY <3>2 DEF PassOver
      <4> QED BY <1>2, <1>30, <2>1, <4>1
    <3> QED BY <1>11, <3>1, <3>2
  <2>3. Len(e) = k BY <1>5, <2>2
  <2>4. CASE w.i < n BY <1>2, <1>6, <2>1, <2>2, <2>3, <2>4 DEF Equipped
  <2>5. CASE ~(w.i < n)
    <3>1. w.i = n BY <1>2, <2>1, <2>5
    <3>2. k = q BY <1>30, <2>2, <3>1
    <3> QED BY <1>2, <1>6, <2>1, <2>3, <2>5, <3>2 DEF Equipped
  <2> QED BY <2>4, <2>5
<1>12. CASE Attach \/ AttachFails
  <2>1. w.pc = "attach" /\ IF w.i < k THEN To("attach", w.i + 1) ELSE To("devfs", 1)
    BY <1>7, <1>12 DEF Attach, AttachFails, NextAttach, k
  <2> QED BY <1>2, <1>5, <1>6, <2>1 DEF Equipped
<1>13. CASE MountDevfs \/ DevfsFails
  <2>1. w.pc = "devfs" /\ To("tmpfs", 1)
    BY <1>7, <1>13 DEF MountDevfs, DevfsFails, FsMount
  <2> QED BY <1>2, <1>5, <1>6, <2>1 DEF Equipped
<1>14. CASE MountTmpfs \/ TmpfsFails
  <2>1. w.pc = "tmpfs" /\ To(IF m = 0 THEN "register" ELSE "mount", 1)
    BY <1>2, <1>7, <1>14 DEF MountTmpfs, TmpfsFails, FsMount
  <2> QED BY <1>2, <1>5, <1>6, <2>1 DEF Equipped
<1>15. CASE MountUser \/ MountUserFails
  <2>1. w.pc = "mount" /\ IF w.i < m THEN To("mount", w.i + 1) ELSE To("register", 1)
    BY <1>7, <1>15 DEF MountUser, MountUserFails, NextMount, m
  <2> QED BY <1>2, <1>5, <1>6, <2>1 DEF Equipped
<1>16. CASE Register /\ ~Raise
  <2>1. w.pc = "register" /\ To("fork", 1) BY <1>7, <1>16 DEF Register
  <2> QED BY <1>2, <1>5, <1>6, <2>1 DEF Equipped
<1>17. CASE Deattach
  <2>1. w.pc = "deattach" /\ IF k # 0 /\ w.i < k THEN To("deattach", w.i + 1) ELSE To("remove", 1)
    BY <1>2, <1>7, <1>17 DEF Deattach, NextDeattach, k
  <2> QED BY <1>2, <1>5, <1>6, <2>1 DEF Equipped
<1>18. CASE StopJail \/ StopJailFails
  <2>1. w.pc = "remove" /\ To(IF k = 0 THEN "undevfs" ELSE "ifdestroy", 1)
    BY <1>2, <1>7, <1>18 DEF StopJail, StopJailFails, AfterRemove
  <2> QED BY <1>2, <1>5, <1>6, <2>1 DEF Equipped
<1>19. CASE DestroyEpair \/ DestroyEpairFails
  <2>1. CASE w.i < k
    <3>1. w.pc = "ifdestroy" /\ To("ifdestroy", w.i + 1) /\ UNCHANGED obj
      BY <1>7, <1>19, <2>1 DEF DestroyEpair, DestroyEpairFails, NextDestroy, k
    <3>2. Len(e) = k BY <3>1 DEF e, k, Me
    <3> QED BY <1>2, <1>6, <2>1, <3>1, <3>2 DEF Equipped
  <2>2. CASE ~(w.i < k)
    <3>1. To("undevfs", 1) /\ obj' = [obj EXCEPT ![w.run] = [obj[w.run] EXCEPT !.epair = <<>>]]
      BY <1>7, <1>19, <2>2 DEF DestroyEpair, DestroyEpairFails, NextDestroy, k
    <3>2. e = <<>> BY <1>2, <3>1 DEF e, Types, ObjT, ObjType
    <3> QED BY <1>4, <1>6, <3>1, <3>2 DEF Equipped
  <2> QED BY <2>1, <2>2
<1>20. CASE UnmountDevfs \/ UnmountDevfsFails
  <2>1. w.pc = "undevfs" /\ To("untmpfs", 1)
    BY <1>7, <1>20 DEF UnmountDevfs, UnmountDevfsFails
  <2> QED BY <1>2, <1>5, <1>6, <2>1 DEF Equipped
<1>21. CASE UnmountTmpfs \/ UnmountTmpfsFails
  <2>1. w.pc = "untmpfs" /\ m # 0 /\ To("unmount", 1)
    BY <1>2, <1>7, <1>21 DEF UnmountTmpfs, UnmountTmpfsFails, AfterTmpfs, AllDone
  <2> QED BY <1>2, <1>5, <1>6, <2>1 DEF Equipped
<1>22. CASE UnmountUser \/ UnmountFails
  <2>1. w.pc = "unmount" /\ w.i < m /\ To("unmount", w.i + 1)
    BY <1>7, <1>22 DEF UnmountUser, UnmountFails, NextUnmount, AllDone, m
  <2> QED BY <1>2, <1>5, <1>6, <2>1 DEF Equipped
<1> HIDE DEF To, At
<1>23. ~GiveUp /\ ~Fork /\ ~ForkFails /\ ~StopJailRaises
  BY DEF GiveUp, Fork, ForkFails, StopJailRaises
<1> QED
  BY <1>8, <1>9, <1>10, <1>11, <1>12, <1>13, <1>14, <1>15, <1>16, <1>17, <1>18, <1>19, <1>20,
     <1>21, <1>22, <1>23 DEF Work, Make, Destroy

(* Once it destroys it never goes back to making.                           *)
LEMMA MakingStays ==
  ASSUME Types, Structure, Work, w'.pc \in Making
  PROVE  w.pc \in Making
<1>1. w \in WorkerType /\ Busy BY Moves DEF Types, WorkT
<1>2. Make => w.pc \notin Destroying
  BY DEF Make, JailSet, JailRefused, PassOver, CreateEpair, EpairFails, AddToBridge, BridgeFails,
     Attach, AttachFails, MountDevfs, MountTmpfs, DevfsFails, TmpfsFails, MountUser,
     MountUserFails, MkdirFails, Register, GiveUp, RefusalRaises, Fork, ForkFails, At, Destroying
<1>3. Destroy => \/ \E pc \in Destroying : Go(pc)
                 \/ Again /\ w.pc \in Destroying
                 \/ w' = Idle
  BY DEF Destroy, Deattach, StopJail, StopJailFails, StopJailRaises, DestroyEpair,
     DestroyEpairFails, UnmountDevfs, UnmountDevfsFails, UnmountTmpfs, UnmountTmpfsFails,
     UnmountUser, UnmountFails, NextDeattach, AfterRemove, NextDestroy, AfterTmpfs, NextUnmount,
     AllDone, Destroying, At
<1>4. Destroy => w'.pc \notin Making
  <2>1. \A pc \in Destroying : pc \notin Making BY DEF Destroying, Making
  <2>2. \A pc : Go(pc) => w'.pc = pc BY <1>1 DEF Go, WorkerType
  <2>3. Again => w'.pc = w.pc BY <1>1 DEF Again, WorkerType
  <2>4. Idle.pc \notin Making BY DEF Idle, Making
  <2> QED BY <1>3, <2>1, <2>2, <2>3, <2>4
<1> QED BY <1>1, <1>2, <1>4 DEF Work, WorkerType, Busy

(* What ends the work on a run.                                             *)
LEMMA Ends ==
  ASSUME Types, Structure, Work, w' = Idle
  PROVE  \/ GiveUp \/ Fork \/ ForkFails \/ StopJailRaises
         \/ AllDone /\ w.pc \in {"untmpfs", "unmount"}
<1>1. w \in WorkerType /\ Busy BY Moves DEF Types, WorkT
<1>2. w'.pc = "idle" BY DEF Idle
<1>3. Onward => w'.pc # "idle"
  BY <1>1 DEF Onward, Go, Again, WorkerType, Busy, Making, Destroying
<1> QED BY <1>2, <1>3, Moves

LEMMA WorkerStep ==
  ASSUME Types, Structure, Next
  PROVE  WorkerInv'
<1>1. w' = Idle => WorkerInv' BY DEF Idle, WorkerInv, Busy
<1>2. CASE Work /\ w' # Idle
  <2>1. Stage' BY <1>2, StageStep
  <2>2. /\ w'.run = w.run /\ w.run \in Started' /\ dict' = dict /\ child'[w.run] = child[w.run]
        /\ Busy /\ Position /\ w.i \in Nat
    BY <1>2, SameRun, Moves DEF Structure, WorkerInv, Types, WorkT, WorkerType
  <2>3. w'.i >= 1
    <3>1. w = [pc |-> w.pc, run |-> w.run, i |-> w.i] /\ w.i >= 1
      BY <2>2 DEF Types, WorkT, WorkerType, Position
    <3>2. ASSUME NEW pc, \/ Go(pc) \/ w' = [w EXCEPT !.pc = pc]
                          \/ w' = [w EXCEPT !.pc = pc, !.i = @ + 1] \/ Again
          PROVE  w'.i \in {1, w.i, w.i + 1}
      BY <3>1, <3>2 DEF Go, Again
    <3>3. Forward BY <1>2, Moves
    <3>4. w'.i \in {1, w.i, w.i + 1} BY <1>2, <3>2, <3>3 DEF Forward, Onward
    <3> QED BY <2>2, <3>1, <3>4
  <2>4. w'.pc \in Making => w.pc \in Making BY <1>2, MakingStays
  <2> QED BY <2>1, <2>2, <2>3, <2>4 DEF WorkerInv, Position
<1>3. ASSUME NEW c \in Containers, Start(c) PROVE WorkerInv'
  <2>1. PICK r \in Runs \ Started : /\ obj' = [obj EXCEPT ![r] = [obj[r] EXCEPT !.cont = c]]
                                    /\ w' = [pc |-> "create", run |-> r, i |-> 1]
    BY <1>3 DEF Start
  <2>2. /\ obj[r] = NoObj /\ child[r].pc = "none" /\ r \notin dict /\ obj[r] \in ObjType
        /\ child' = child /\ dict' = dict
    BY <1>3, <2>1 DEF Structure, Objects, Fresh, Types, HistT, ObjT, Start
  <2>3. obj'[r] = [obj[r] EXCEPT !.cont = c] BY <2>1 DEF Types, ObjT
  <2>4. obj'[r].cont = c /\ obj'[r].epair = <<>> BY <2>2, <2>3, FreshObj DEF ObjType
  <2>5. r \in Started' BY <2>1, <2>4, ResourceAssumption DEF Started
  <2>6. w'.pc = "create" /\ w'.run = r /\ w'.i = 1 BY <2>1
  <2>7. Me'.epair = <<>> BY <2>4, <2>6 DEF Me
  <2>8. Position' BY <2>2, <2>5, <2>6 DEF Position
  <2>9. Stage' BY <2>6, <2>7 DEF Stage, Equipped
  <2> QED BY <2>8, <2>9 DEF WorkerInv
<1>4. CASE UNCHANGED <<w, dict, obj>>
  <2> SUFFICES ASSUME Busy' PROVE Position' /\ Stage' BY DEF WorkerInv
  <2>1. Busy /\ Position /\ Stage /\ w.run \in Runs /\ w.run \in Started
    BY <1>4, InHand DEF Busy, Structure, WorkerInv
  <2>2. ~Fork BY <1>4, <2>1 DEF Fork, Busy, Idle
  <2>3. child'[w.run] = child[w.run]
    BY <2>1, <2>2, ChildChange DEF Position, Living
  <2>4. Stage' BY <1>4, <2>1 DEF Stage, Me, C, Cont
  <2> QED BY <1>4, <2>1, <2>3, <2>4 DEF Position, Started
<1>5. ASSUME NEW r \in Started, Reap(r) PROVE WorkerInv'
  <2>1. /\ w' = [pc |-> "deattach", run |-> r, i |-> 1] /\ r \in dict /\ child[r].pc = "over"
        /\ UNCHANGED <<obj, dict, child>>
    BY <1>5 DEF Reap
  <2>2. w'.pc = "deattach" /\ w'.run = r /\ w'.i = 1 BY <2>1
  <2>3. Position' BY <1>5, <2>1, <2>2 DEF Position, Started, Making
  <2>4. Me'.epair \in Seq(Runs \X Nat) /\ Me'.epair = obj[r].epair
    BY <1>5, <2>1, <2>2 DEF Me, Types, ObjT, ObjType, Started
  <2>5. 1 <= Len(Me'.epair) \/ Me'.epair = <<>> BY <2>4, EmptySeq
  <2>6. Stage' BY <2>2, <2>5 DEF Stage, Equipped
  <2> QED BY <2>3, <2>6 DEF WorkerInv
<1>6. ASSUME NEW c \in Containers, Stop(c) PROVE WorkerInv' BY <1>4, <1>6 DEF Stop
<1>7. ASSUME NEW r \in Started, ChildStep(r) PROVE WorkerInv' BY <1>4, <1>7, ChildMoves
<1>8. CASE Kill BY <1>1, <1>8 DEF Kill
<1>9. ASSUME NEW e \in DOMAIN iface, ComeHome(e) PROVE WorkerInv' BY <1>4, <1>9 DEF ComeHome
<1> QED BY <1>1, <1>2, <1>3, <1>5, <1>6, <1>7, <1>8, <1>9, Steps

(* The runs that the worker knows of change by Start and by being done with. *)
LEMMA MineShrinks ==
  ASSUME Types, Structure, Next, ~ \E c \in Containers : Start(c)
  PROVE  Mine' \subseteq Mine /\ Keeps
<1>1. Keeps BY ObjStep
<1>2. CASE Work
  <2>1. Busy /\ w.run \in Runs BY <1>2, Moves, InHand DEF Structure
  <2>2. w'.run = w.run \/ w'.run = 0 BY <1>2, Moves, SameRun DEF Idle
  <2>3. dict' \subseteq dict \cup {w.run}
    BY <1>2, Moves DEF Fork, ForkFails, StopJailRaises, AllDone
  <2> QED BY <1>1, <2>1, <2>2, <2>3 DEF Mine, Runs
<1>3. ASSUME NEW c \in Containers, Stop(c) PROVE Mine' \subseteq Mine BY <1>3 DEF Stop, Mine
<1>4. ASSUME NEW r \in Started, ChildStep(r) PROVE Mine' \subseteq Mine
  BY <1>4, ChildMoves DEF Mine
<1>5. ASSUME NEW r \in Started, Reap(r) PROVE Mine' \subseteq Mine
  BY <1>5 DEF Reap, Mine, Types, WorkT, WorkerType, At
<1>6. CASE Kill
  <2>1. dict' = {} /\ w'.run = 0 BY <1>6 DEF Kill, Idle
  <2>2. 0 \notin Runs BY ResourceAssumption DEF Runs
  <2> QED BY <1>1, <2>1, <2>2 DEF Mine, Runs
<1>7. ASSUME NEW e \in DOMAIN iface, ComeHome(e) PROVE Mine' \subseteq Mine
  BY <1>7 DEF ComeHome, Mine
<1> QED BY <1>1, <1>2, <1>3, <1>4, <1>5, <1>6, <1>7, Steps

LEMMA MineStarted ==
  ASSUME Types, Structure
  PROVE  Mine \subseteq Started
  BY DEF Mine, Types, HistT, WorkT, Structure, WorkerInv, Position, Busy, Runs

LEMMA OneActiveStep ==
  ASSUME Types, Structure, Next
  PROVE  OneActive'
<1>1. CASE ~ \E c \in Containers : Start(c)
  <2>1. Mine' \subseteq Mine /\ Mine \subseteq Started BY <1>1, MineShrinks, MineStarted
  <2>2. \A r \in Started : Cont(r)' = Cont(r) BY Conts
  <2> QED BY <2>1, <2>2 DEF OneActive, Structure
<1>2. ASSUME NEW c \in Containers, Start(c) PROVE OneActive'
  <2>1. PICK r \in Runs \ Started : /\ obj' = [obj EXCEPT ![r] = [obj[r] EXCEPT !.cont = c]]
                                    /\ w' = [pc |-> "create", run |-> r, i |-> 1]
    BY <1>2 DEF Start
  <2>2. dict' = dict /\ w'.run = r /\ ~Active(c) /\ w.run = 0
    BY <1>2, <2>1 DEF Start, At, Types, WorkT
  <2>3. obj'[r].cont = c
    <3>1. obj[r] \in ObjType /\ obj'[r] = [obj[r] EXCEPT !.cont = c] BY <2>1 DEF Types, ObjT
    <3> QED BY <3>1 DEF ObjType
  <2>4. \A s \in dict : Cont(s) # c BY <2>2 DEF Active, Mine
  <2>5. \A s \in dict : s \in Started /\ Cont(s)' = Cont(s)
    BY Conts DEF Types, HistT
  <2>6. Mine' = dict \cup {r} /\ Mine = dict BY <2>1, <2>2 DEF Mine, Runs
  <2> QED BY <2>3, <2>4, <2>5, <2>6 DEF OneActive, Structure, Cont
<1> QED BY <1>1, <1>2

(* What is forked has the epairs it needs.                                   *)
LEMMA ForkedComplete ==
  ASSUME Types, Structure, NEW r \in Started, child[r].pc \in Living
  PROVE  Complete(r) /\ Listed(r) /\ Len(obj[r].epair) \in Nat
<1>1. r \in Runs BY DEF Started
<1>2. Complete(r) BY DEF Structure, Whole, Forked
<1>3. Listed(r) BY <1>1 DEF Structure, Objects
<1>4. Len(obj[r].epair) \in Nat BY <1>1 DEF Types, ObjT, ObjType
<1> QED BY <1>2, <1>3, <1>4

LEMMA ChildInvStep ==
  ASSUME Types, Structure, Next
  PROVE  ChildInv'
<1> DEFINE Good(r, p) ==
      /\ p.pc = "config" => p.i \in 1..Len(Nets(r)) + 1 /\ Passed(r, p.i)
      /\ p.pc = "route" => p.i \in Bridges(Cont(r)) /\ Passed(r, p.i + 1)
      /\ p.pc \in {"ready", "running"} => Aligned(Cont(r))
<1> SUFFICES ASSUME NEW r \in Runs
             PROVE  /\ child'[r].pc = "config" =>
                         child'[r].i \in 1..Len(Nets(r)') + 1 /\ Passed(r, child[r].i)'
                    /\ child'[r].pc = "route" =>
                         child'[r].i \in Bridges(Cont(r)') /\ Passed(r, child[r].i + 1)'
                    /\ child'[r].pc \in {"ready", "running"} => Aligned(Cont(r)')
  BY DEF ChildInv, Aligned, Bridges
<1>1. child[r] \in ChildType BY DEF Types, ChildT
<1>2. CASE r \notin Started
  BY <1>2, ChildChange DEF Structure, Objects, Fresh
<1>3. CASE r \in Started
  <2> DEFINE c == Cont(r)
             n == Len(Nets(r))
             k == Needs(c)
  <2>1. Nets(r)' = Nets(r) /\ Cont(r)' = c BY <1>3, Conts
  <2>2. /\ c \in Containers /\ n \in Nat /\ k \in Nat /\ Bridges(c) \subseteq 1..n
        /\ (\A j \in Bridges(c) : j <= k) => Aligned(c)
    BY <1>3, ContOf, Counted, AlignedCount
  <2>3. \A i : Passed(r, i) <=> \A j \in Bridges(c) : j < i => j <= k BY DEF Passed
  <2>4. Good(r, child[r]) BY DEF Structure, ChildInv
  <2>5. ASSUME Good(r, child'[r])
        PROVE  /\ child'[r].pc = "config" =>
                    child'[r].i \in 1..Len(Nets(r)') + 1 /\ Passed(r, child[r].i)'
               /\ child'[r].pc = "route" =>
                    child'[r].i \in Bridges(Cont(r)') /\ Passed(r, child[r].i + 1)'
               /\ child'[r].pc \in {"ready", "running"} => Aligned(Cont(r)')
    <3>1. Passed(r, child[r].i)' <=> Passed(r, child'[r].i)
      BY <2>1 DEF Passed, Bridges, Needs
    <3>2. Passed(r, child[r].i + 1)' <=> Passed(r, child'[r].i + 1)
      BY <2>1 DEF Passed, Bridges, Needs
    <3> QED BY <2>1, <2>5, <3>1, <3>2
  <2> HIDE DEF c, n, k
  <2>6. CASE child'[r] = child[r]
    <3>1. Good(r, child'[r]) BY <2>4, <2>6
    <3> QED BY <2>5, <3>1
  <2>7. CASE child'[r] = Process("over", 0)
    <3>1. child'[r].pc = "over" BY <2>7 DEF Process
    <3> QED BY <3>1
  <2>8. CASE child'[r].pc = "born" BY <2>8
  <2>9. CASE ChildStep(r)
    <3>1. CASE Enter(r) \/ Exit(r) \/ NoSuchEpair(r)
      <4>1. child'[r] = Process("config", 1) \/ child'[r] = Process("over", 0)
        BY <3>1 DEF Enter, Exit, NoSuchEpair, ChildAt, Types, ChildT
      <4>2. Passed(r, 1) BY <2>2, <2>3
      <4>3. CASE child'[r] = Process("config", 1)
        <5>1. child'[r].pc = "config" /\ child'[r].i = 1 BY <4>3 DEF Process
        <5> QED BY <2>2, <2>5, <4>2, <5>1 DEF n
      <4> QED BY <2>7, <4>1, <4>3
    <3>2. CASE Configure(r)
      <4>1. /\ child'[r] = [child[r] EXCEPT !.pc = "route"] /\ child[r].pc = "config"
            /\ child[r].i \in Bridges(c) /\ child[r].i <= Len(obj[r].epair)
        BY <3>2 DEF Configure, Turn, Types, ChildT, c
      <4>2. child'[r].i = child[r].i /\ child'[r].pc = "route" BY <1>1, <4>1 DEF ChildType
      <4>3. child[r].i <= k
        BY <1>3, <4>1, ForkedComplete DEF Living, Complete, k, c
      <4>4. Passed(r, child[r].i + 1)
        BY <1>1, <2>2, <2>3, <2>4, <4>1, <4>3 DEF ChildType
      <4> QED BY <2>5, <4>1, <4>2, <4>4 DEF c
    <3>3. CASE NetworkRoute(r)
      <4>1. PICK t : child' = [child EXCEPT ![r] = [pc |-> "config", i |-> child[r].i + 1, routes |-> t]]
        BY <3>3, AfterRoute DEF NetworkRoute
      <4>2. child[r].pc = "route" BY <3>3 DEF NetworkRoute
      <4>3. child'[r].pc = "config" /\ child'[r].i = child[r].i + 1 BY <4>1 DEF Types, ChildT
      <4>4. child[r].i \in Bridges(c) /\ Passed(r, child[r].i + 1) BY <2>4, <4>2 DEF c
      <4>5. child[r].i + 1 \in 1..n + 1 BY <2>2, <4>4
      <4> QED BY <2>5, <4>3, <4>4, <4>5 DEF n
    <3>4. CASE DefaultRoute(r)
      <4>1. PICK t : child' = [child EXCEPT ![r] = [pc |-> "ready", i |-> child[r].i + 1, routes |-> t]]
        BY <3>4, AfterRoute DEF DefaultRoute
      <4>2. child'[r].pc = "ready" BY <4>1 DEF Types, ChildT
      <4>3. child[r].pc = "config" /\ child[r].i > n BY <3>4 DEF DefaultRoute, n
      <4>4. Passed(r, child[r].i) BY <2>4, <4>3
      <4>5. \A j \in Bridges(c) : j <= k BY <1>1, <2>2, <2>3, <4>3, <4>4 DEF ChildType
      <4> QED BY <2>2, <2>5, <4>2, <4>5 DEF c
    <3>5. CASE Exec(r)
      <4>1. child'[r].pc = "running" BY <1>1, <3>5 DEF Exec, Types, ChildT, ChildType
      <4>2. Aligned(c)
        <5>1. CASE child[r].pc = "ready" BY <2>4, <5>1 DEF c
        <5>2. CASE Bridges(c) = {} BY <2>2, <5>2
        <5> QED BY <3>5, <5>1, <5>2 DEF Exec, c
      <4> QED BY <2>5, <4>1, <4>2 DEF c
    <3>6. CASE OtherNetwork(r)
      <4>1. /\ child'[r] = [child[r] EXCEPT !.i = child[r].i + 1] /\ child[r].pc = "config"
            /\ child[r].i \in DOMAIN Nets(r) \ Bridges(c)
        BY <3>6 DEF OtherNetwork, Types, ChildT, c
      <4>2. child'[r].i = child[r].i + 1 /\ child'[r].pc = "config" BY <1>1, <4>1 DEF ChildType
      <4>3. child[r].i \in 1..n
        BY <1>3, <4>1, ContOf, Counted DEF n
      <4>4. Passed(r, child[r].i) BY <2>4, <4>1
      <4>5. Passed(r, child[r].i + 1) BY <2>2, <2>3, <4>1, <4>3, <4>4
      <4> QED BY <2>2, <2>5, <4>2, <4>3, <4>5 DEF n
    <3> QED BY <2>9, <3>1, <3>2, <3>3, <3>4, <3>5, <3>6 DEF ChildStep
  <2> QED BY <1>3, <2>6, <2>7, <2>8, <2>9, ChildChange
<1> QED BY <1>2, <1>3

-----------------------------------------------------------------------------
(* Structure: the epairs.                                                   *)

(* What happens to one that is there: it stays as it is, comes home, or is   *)
(* the one in hand, of the worker or of the child that configures it.        *)
LEMMA IfaceChange ==
  ASSUME Types, Structure, Next, NEW e \in DOMAIN iface
  PROVE  \/ e \in DOMAIN iface' /\ iface'[e] \in {iface[e], Home(e), Stuck(e)}
         \/ /\ Work
            /\ \/ CreateEpair /\ e = New
               \/ DestroyEpair /\ w.pc = "ifdestroy" /\ e = <<w.run, w.i>>
               \/ /\ AddToBridge \/ BridgeFails
                  /\ w.pc = "bridge" /\ e = Newest /\ e \in DOMAIN iface'
                  /\ iface'[e] \in {Joined(e, Wanted), Up(Joined(e, Wanted), "b")}
               \/ /\ Attach /\ e = <<w.run, w.i>> /\ e \in DOMAIN iface'
                  /\ iface'[e] = [iface[e] EXCEPT !.at = C]
         \/ \E r \in Started :
              /\ Configure(r) /\ e = obj[r].epair[child[r].i] /\ e \in DOMAIN iface'
              /\ \E n \in {Nets(r)[child[r].i]} :
                   iface'[e] \in {Addressed(e, n), Up(Addressed(e, n), "a")}
<1> USE DEF Types, IfaceT
<1>1. CASE UNCHANGED iface BY <1>1
<1>2. ASSUME NEW f, NEW v, iface' = [iface EXCEPT ![f] = v]
      PROVE  e \in DOMAIN iface' /\ iface'[e] = IF e = f THEN v ELSE iface[e]
  BY <1>2
<1>3. ASSUME NEW c, JailRemove(c)
      PROVE  e \in DOMAIN iface' /\ iface'[e] \in {iface[e], Home(e), Stuck(e)}
  BY <1>3 DEF JailRemove
<1>4. CASE Work
  <2>1. Busy BY <1>4, Moves
  <2>2. w.pc \in {"attach", "ifdestroy"} => Epair = <<w.run, w.i>>
    <3>1. Len(Me.epair) \in Nat /\ w.i \in Nat
      BY <2>1, InHand DEF Structure, ObjType, WorkT, WorkerType
    <3>2. w.pc \in {"attach", "ifdestroy"} => w.i <= Len(Me.epair)
      BY <2>1, <3>1 DEF Structure, WorkerInv, Stage
    <3> QED BY <2>1, <3>2, EpairInHand
  <2>3. CASE CreateEpair
    <3>1. e # New => e \in DOMAIN iface' /\ iface'[e] = iface[e]
      BY <2>3 DEF CreateEpair, CreateInterface
    <3> QED BY <1>4, <2>3, <3>1
  <2>4. CASE AddToBridge \/ BridgeFails
    <3>1. w.pc = "bridge" BY <2>4 DEF AddToBridge, BridgeFails, At
    <3>2. \/ UNCHANGED iface
          \/ iface' = [iface EXCEPT ![Newest] = Joined(Newest, Wanted)]
          \/ iface' = [iface EXCEPT ![Newest] = Up(Joined(Newest, Wanted), "b")]
      BY <2>4 DEF AddToBridge, BridgeFails, BridgeIf
    <3> QED BY <1>1, <1>2, <1>4, <2>4, <3>1, <3>2
  <2>5. CASE Attach
    <3>1. w.pc = "attach" /\ Epair = <<w.run, w.i>> BY <2>2, <2>5 DEF Attach, At
    <3>2. iface' = [iface EXCEPT ![Epair] = [iface[Epair] EXCEPT !.at = C]]
      BY <2>5 DEF Attach, MoveToJail
    <3> QED BY <1>2, <1>4, <2>5, <3>1, <3>2
  <2>6. CASE Deattach
    <3>1. UNCHANGED iface \/ iface' = [iface EXCEPT ![Epair] = Home(Epair)]
      BY <2>6 DEF Deattach, RemoveFromJail
    <3> QED BY <1>1, <1>2, <3>1
  <2>7. CASE StopJail BY <1>1, <1>3, <2>7 DEF StopJail
  <2>8. CASE DestroyEpair
    <3>1. w.pc = "ifdestroy" /\ Epair = <<w.run, w.i>> BY <2>2, <2>8 DEF DestroyEpair, At
    <3>2. e # Epair => e \in DOMAIN iface' /\ iface'[e] = iface[e]
      BY <2>8 DEF DestroyEpair, DestroyInterface, Restrict
    <3> QED BY <1>4, <2>8, <3>1, <3>2
  <2> QED BY <1>1, <1>4, <2>3, <2>4, <2>5, <2>6, <2>7, <2>8, Moves
<1>5. ASSUME NEW r \in Started, Configure(r)
      PROVE  \/ e \in DOMAIN iface' /\ iface'[e] = iface[e]
             \/ /\ e = obj[r].epair[child[r].i] /\ e \in DOMAIN iface'
                /\ \E n \in {Nets(r)[child[r].i]} :
                     iface'[e] \in {Addressed(e, n), Up(Addressed(e, n), "a")}
  <2> DEFINE f == obj[r].epair[child[r].i]
             n == Nets(r)[child[r].i]
  <2>1. \/ UNCHANGED iface
        \/ iface' = [iface EXCEPT ![f] = Addressed(f, n)]
        \/ iface' = [iface EXCEPT ![f] = Up(Addressed(f, n), "a")]
    BY <1>5 DEF Configure, SetAddress
  <2> QED BY <1>2, <2>1
<1>6. ASSUME NEW c \in Containers, Start(c) \/ Stop(c)
      PROVE  e \in DOMAIN iface' /\ iface'[e] \in {iface[e], Home(e), Stuck(e)}
  BY <1>3, <1>6 DEF Start, Stop, host
<1>7. ASSUME NEW r \in Started, Reap(r) \/ ChildStep(r), ~Configure(r) PROVE UNCHANGED iface
  BY <1>7, ChildMoves DEF Reap, host
<1>8. CASE Kill BY <1>8 DEF Kill, host
<1>9. ASSUME NEW f \in DOMAIN iface, ComeHome(f)
      PROVE  e \in DOMAIN iface' /\ iface'[e] \in {iface[e], Home(e)}
  BY <1>2, <1>9 DEF ComeHome, RemoveFromJail
<1> QED BY <1>1, <1>4, <1>5, <1>6, <1>7, <1>8, <1>9, Steps

LEMMA IfaceNew ==
  ASSUME Types, Structure, Next, NEW e \in DOMAIN iface', e \notin DOMAIN iface
  PROVE  /\ Work /\ CreateEpair /\ e = New
         /\ iface'[e] = [at |-> Host, bridge |-> Host, addr |-> Host, up |-> {}]
<1> USE DEF Types, IfaceT
<1>1. DOMAIN iface' \subseteq DOMAIN iface \/ (Work /\ CreateEpair)
  <2>1. ASSUME NEW f, NEW v, iface' = [iface EXCEPT ![f] = v] PROVE DOMAIN iface' = DOMAIN iface
    BY <2>1
  <2>2. ASSUME NEW c, JailRemove(c) PROVE DOMAIN iface' = DOMAIN iface BY <2>2 DEF JailRemove
  <2>3. CASE UNCHANGED iface BY <2>3
  <2>4. CASE Work
    <3>1. AddToBridge \/ BridgeFails \/ Attach \/ Deattach => DOMAIN iface' = DOMAIN iface
      BY <2>1, <2>3 DEF AddToBridge, BridgeFails, Attach, Deattach, BridgeIf, MoveToJail, RemoveFromJail
    <3>2. StopJail => DOMAIN iface' = DOMAIN iface BY <2>2, <2>3 DEF StopJail
    <3>3. DestroyEpair => DOMAIN iface' \subseteq DOMAIN iface
      BY <2>3 DEF DestroyEpair, DestroyInterface, Restrict
    <3> QED BY <2>4, <3>1, <3>2, <3>3, <2>3, Moves
  <2>5. ASSUME NEW r \in Started, Reap(r) \/ ChildStep(r) PROVE DOMAIN iface' = DOMAIN iface
    <3>1. Configure(r) => DOMAIN iface' = DOMAIN iface BY <2>1, <2>3 DEF Configure, SetAddress
    <3> QED BY <2>3, <2>5, <3>1, ChildMoves DEF Reap, host
  <2>6. ASSUME NEW c \in Containers, Start(c) \/ Stop(c) PROVE DOMAIN iface' = DOMAIN iface
    BY <2>2, <2>6 DEF Start, Stop, host
  <2>7. CASE Kill BY <2>7 DEF Kill, host
  <2>8. ASSUME NEW f \in DOMAIN iface, ComeHome(f) PROVE DOMAIN iface' = DOMAIN iface
    BY <2>1, <2>8 DEF ComeHome, RemoveFromJail
  <2> QED BY <2>4, <2>5, <2>6, <2>7, <2>8, Steps
<1>2. Work /\ CreateEpair BY <1>1
<1> QED BY <1>2 DEF CreateEpair, CreateInterface

(* The fields of an interface after each of these.                          *)
LEMMA Fields ==
  ASSUME Types, NEW e \in DOMAIN iface
  PROVE  /\ Home(e).at = Host /\ Home(e).addr = Host /\ Home(e).bridge = iface[e].bridge
         /\ Stuck(e).at = Dying /\ Stuck(e).addr = iface[e].addr
         /\ Stuck(e).bridge = iface[e].bridge
         /\ \A n : LET f == Joined(e, n) IN
              /\ f.bridge = n /\ f.at = iface[e].at /\ f.addr = iface[e].addr
              /\ Up(f, "b").bridge = n /\ Up(f, "b").at = iface[e].at
              /\ Up(f, "b").addr = iface[e].addr
         /\ \A n : LET f == Addressed(e, n) IN
              /\ f.addr = n /\ f.at = iface[e].at /\ f.bridge = iface[e].bridge
              /\ Up(f, "a").addr = n /\ Up(f, "a").at = iface[e].at
              /\ Up(f, "a").bridge = iface[e].bridge
         /\ \A c : LET f == [iface[e] EXCEPT !.at = c] IN
              f.at = c /\ f.addr = iface[e].addr /\ f.bridge = iface[e].bridge
<1>1. iface[e] = [at |-> iface[e].at, bridge |-> iface[e].bridge, addr |-> iface[e].addr,
                  up |-> iface[e].up]
  BY DEF Types, IfaceT, IfaceType
<1> QED BY <1>1 DEF Home, Stuck, Joined, Addressed, Up

LEMMA IfacesStep ==
  ASSUME Types, Structure, Next
  PROVE  Ifaces'
<1> SUFFICES ASSUME NEW e \in DOMAIN iface'
             PROVE  /\ e[1] \in Started' /\ e[2] \in 1..Len(Nets(e[1])')
                    /\ iface'[e].at \in {Host, Cont(e[1])', Dying}
                    /\ Aligned(Cont(e[1])') => iface'[e].addr \in {Host, iface'[e].bridge}
  BY DEF Ifaces, Aligned, Bridges
<1>1. CASE e \notin DOMAIN iface
  <2>1. /\ Work /\ CreateEpair /\ e = New
        /\ iface'[e] = [at |-> Host, bridge |-> Host, addr |-> Host, up |-> {}]
    BY <1>1, IfaceNew
  <2>2. w.run \in Started /\ Len(Me.epair) + 1 \in 1..Len(Nets(w.run))
    <3>1. w.pc = "epair" /\ w.i \in Bridges(C) /\ Busy BY <2>1 DEF CreateEpair, At, Busy
    <3>2. Len(Me.epair) = Count(C, w.i) /\ w.run \in Started
      BY <3>1 DEF Structure, WorkerInv, Position, Stage
    <3>3. C \in Containers /\ Nets(w.run) = NetsOf[C]
      BY <3>1, InHand DEF Structure, Nets, C
    <3> QED BY <3>1, <3>2, <3>3, Counted
  <2> QED BY <2>1, <2>2, Conts DEF New
<1>2. CASE e \in DOMAIN iface
  <2>1. /\ e[1] \in Started /\ e[2] \in 1..Len(Nets(e[1]))
        /\ iface[e].at \in {Host, Cont(e[1]), Dying}
        /\ Aligned(Cont(e[1])) => iface[e].addr \in {Host, iface[e].bridge}
    BY <1>2 DEF Structure, Ifaces
  <2>2. /\ e[1] \in Started' /\ e[2] \in 1..Len(Nets(e[1])') /\ Cont(e[1])' = Cont(e[1])
    BY <2>1, Conts
  <2> DEFINE Well == /\ iface'[e].at \in {Host, Cont(e[1]), Dying}
                     /\ Aligned(Cont(e[1])) => iface'[e].addr \in {Host, iface'[e].bridge}
  <2> SUFFICES Well BY <2>2
  <2>3. CASE iface'[e] \in {iface[e], Home(e), Stuck(e)} BY <1>2, <2>1, <2>3, Fields
  <2>4. CASE Work /\ CreateEpair
    <3>1. iface'[e] \in {iface[e], [at |-> Host, bridge |-> Host, addr |-> Host, up |-> {}]}
      BY <1>2, <2>4 DEF CreateEpair, CreateInterface, Types, IfaceT
    <3> QED BY <2>1, <3>1
  <2>5. CASE /\ w.pc = "bridge" /\ e = Newest
             /\ iface'[e] \in {Joined(e, Wanted), Up(Joined(e, Wanted), "b")}
    <3> DEFINE k == Len(Me.epair)
    <3>1. /\ e = <<w.run, k>> /\ k \in 1..k /\ Cont(e[1]) = C
          /\ Aligned(C) => Wanted = Nets(w.run)[k]
      BY <2>5, NewestInHand DEF C
    <3>2. Bridged(w.run, k) \/ iface[e].addr = Host
      BY <2>5, <3>1 DEF Structure, Whole, Making
    <3>3. Aligned(C) => iface[e].addr \in {Host, Wanted} BY <2>1, <3>1, <3>2 DEF Bridged, C
    <3> QED BY <1>2, <2>1, <2>5, <3>1, <3>3, Fields
  <2>6. CASE /\ Work /\ e = <<w.run, w.i>> /\ iface'[e] = [iface[e] EXCEPT !.at = C]
    BY <1>2, <2>1, <2>6, Fields DEF C, Cont
  <2>7. ASSUME NEW r \in Started, Configure(r), e = obj[r].epair[child[r].i],
               NEW n, n = Nets(r)[child[r].i],
               iface'[e] \in {Addressed(e, n), Up(Addressed(e, n), "a")}
        PROVE  Well
    <3>1. /\ child[r].i \in 1..Len(obj[r].epair) /\ Complete(r)
          /\ obj[r].epair[child[r].i] = <<r, child[r].i>>
      <4>1. child[r].pc \in Living BY <2>7 DEF Configure, Turn, Living
      <4>2. Complete(r) /\ Listed(r) /\ Len(obj[r].epair) \in Nat BY <4>1, ForkedComplete
      <4>3. child[r].i \in Nat /\ child[r].i >= 1
        BY <2>7, ContOf, Counted DEF Configure, Turn, Types, ChildT, ChildType
      <4> QED BY <2>7, <4>2, <4>3 DEF Configure, Listed
    <3>2. Aligned(Cont(r)) => iface[e].bridge = n BY <2>7, <3>1 DEF Complete, Bridged
    <3>3. iface'[e].at = iface[e].at /\ iface'[e].addr = n /\ iface'[e].bridge = iface[e].bridge
      <4>1. CASE iface'[e] = Addressed(e, n) BY <1>2, <4>1, Fields
      <4>2. CASE iface'[e] = Up(Addressed(e, n), "a") BY <1>2, <4>2, Fields
      <4> QED BY <2>7, <4>1, <4>2
    <3>4. e[1] = r BY <2>7, <3>1
    <3> QED BY <2>1, <3>2, <3>3, <3>4
  <2>8. CASE Work /\ DestroyEpair
    <3>1. iface'[e] = iface[e]
      BY <1>2, <2>8 DEF DestroyEpair, DestroyInterface, Restrict, Types, IfaceT
    <3> QED BY <2>1, <3>1
  <2> HIDE DEF Well
  <2> QED BY ZenonT(40), <1>2, <2>3, <2>4, <2>5, <2>6, <2>7, <2>8, IfaceChange
<1> QED BY <1>1, <1>2

(* What is forked after a step was so before, or is what the step forks.     *)
LEMMA ForkedFrom ==
  ASSUME Types, Structure, Next, NEW r \in Started', Forked(r)'
  PROVE  r \in Started /\ (Forked(r) \/ (r = w.run /\ Work /\ (Fork \/ ForkFails)))
<1>1. r \in Runs BY DEF Started
<1>2. CASE child'[r].pc \in Living /\ child'[r] = child[r]
  BY <1>1, <1>2 DEF Forked, Structure, Objects, Fresh, Living
<1>3. CASE child'[r].pc \in Living /\ child'[r] # child[r]
  BY <1>1, <1>3, ChildChange DEF Forked, Process, Living
<1>4. CASE r \in dict' \ {w'.run}
  <2>1. dict \subseteq Started BY DEF Types, HistT
  <2>2. CASE Work
    <3>1. w.run \in Started BY <2>2, Moves, InHand DEF Structure
    <3>2. CASE Fork \/ ForkFails
      BY <1>4, <2>1, <2>2, <3>1, <3>2 DEF Fork, ForkFails, Forked
    <3>3. CASE AllDone \/ StopJailRaises
      BY <1>4, <2>1, <3>3 DEF AllDone, StopJailRaises, Forked
    <3>4. CASE dict' = dict /\ w' # Idle
      BY <1>4, <2>1, <2>2, <3>4, SameRun DEF Forked
    <3>5. CASE dict' = dict /\ GiveUp
      <4>1. w.run \notin dict
        BY <2>2, <3>5, Moves DEF GiveUp, At, Structure, WorkerInv, Position, Making
      <4> QED BY <1>4, <2>1, <3>5, <4>1 DEF Forked
    <3> QED BY <2>2, <3>2, <3>3, <3>4, <3>5, Moves, Ends
  <2>3. ASSUME NEW c \in Containers, Start(c) PROVE r \in Started /\ Forked(r)
    <3>1. w.run = 0 /\ dict' = dict BY <2>3 DEF Start, At, Types, WorkT
    <3>2. 0 \notin Runs BY DEF Runs
    <3> QED BY <1>1, <1>4, <2>1, <3>1, <3>2 DEF Forked
  <2>4. ASSUME NEW c \in Containers, Stop(c) PROVE r \in Started /\ Forked(r)
    BY <1>4, <2>1, <2>4 DEF Stop, Forked
  <2>5. CASE Kill BY <1>4, <2>5 DEF Kill
  <2>6. ASSUME NEW s \in Started, Reap(s) PROVE r \in Started /\ Forked(r)
    <3>1. w.run = 0 /\ dict' = dict BY <2>6 DEF Reap, At, Types, WorkT
    <3>2. 0 \notin Runs BY DEF Runs
    <3> QED BY <1>1, <1>4, <2>1, <3>1, <3>2 DEF Forked
  <2>7. ASSUME NEW s \in Started, ChildStep(s) PROVE r \in Started /\ Forked(r)
    BY <1>4, <2>1, <2>7, ChildMoves DEF Forked
  <2>8. ASSUME NEW e \in DOMAIN iface, ComeHome(e) PROVE r \in Started /\ Forked(r)
    BY <1>4, <2>1, <2>8 DEF ComeHome, Forked
  <2> QED BY <2>2, <2>3, <2>4, <2>5, <2>6, <2>7, <2>8, Steps
<1> QED BY <1>2, <1>3, <1>4 DEF Forked

(* An epair that the worker has not in hand stays on its bridge.             *)
LEMMA BridgedStays ==
  ASSUME Types, Structure, Next, NEW r \in Started, NEW i, Bridged(r, i),
         Work => /\ ~(CreateEpair /\ <<r, i>> = New)
                 /\ ~(w.pc = "bridge" /\ <<r, i>> = Newest)
                 /\ ~(w.pc \in {"attach", "ifdestroy"} /\ <<r, i>> = <<w.run, w.i>>)
  PROVE  Bridged(r, i)'
<1> DEFINE e == <<r, i>>
<1>1. e \in DOMAIN iface /\ (Aligned(Cont(r)) => iface[e].bridge = Nets(r)[i]) BY DEF Bridged
<1>2. Work => /\ ~(CreateEpair /\ e = New) /\ ~(w.pc = "bridge" /\ e = Newest)
              /\ ~(w.pc \in {"attach", "ifdestroy"} /\ e = <<w.run, w.i>>)
  OBVIOUS
<1> HIDE DEF e
<1>3. /\ Home(e).bridge = iface[e].bridge /\ Stuck(e).bridge = iface[e].bridge
      /\ \A n : /\ Addressed(e, n).bridge = iface[e].bridge
                /\ Up(Addressed(e, n), "a").bridge = iface[e].bridge
  BY <1>1, Fields
<1>4. Attach => w.pc = "attach" BY DEF Attach, At
<1>5. e \in DOMAIN iface' /\ iface'[e].bridge = iface[e].bridge
  BY ZenonT(40), <1>1, <1>2, <1>3, <1>4, IfaceChange
<1>6. Nets(r)' = Nets(r) /\ Cont(r)' = Cont(r) BY Conts
<1> QED BY <1>1, <1>5, <1>6 DEF Bridged, e, Aligned, Bridges

(* What was forked keeps its epairs and their bridges.                       *)
LEMMA ForkedWhole ==
  ASSUME Types, Structure, Next, NEW r \in Started', Forked(r)'
  PROVE  Complete(r)'
<1>1. r \in Started /\ (Forked(r) \/ (r = w.run /\ Work /\ (Fork \/ ForkFails)))
  BY ForkedFrom
<1>2. Nets(r)' = Nets(r) /\ Cont(r)' = Cont(r) /\ r \in Runs BY <1>1, Conts DEF Started
<1>3. CASE Forked(r)
  <2>1. ~(Busy /\ r = w.run)
    BY <1>3 DEF Forked, Structure, WorkerInv, Position, Living
  <2>2. Complete(r) BY <1>1, <1>3 DEF Structure, Whole
  <2>3. ~(Work /\ r = w.run) BY <2>1, Moves
  <2>4. ~(Kill /\ child[r].pc \notin Living) BY DEF Kill, Forked
  <2>5. obj'[r].epair = obj[r].epair BY <1>2, <2>3, <2>4, EpairChange
  <2>6. ASSUME NEW i, Work
        PROVE  <<r, i>> # New /\ <<r, i>> # <<w.run, w.i>> /\ (w.pc = "bridge" => <<r, i>> # Newest)
    BY <2>3, <2>6, NewestInHand DEF New
  <2>7. ASSUME NEW i \in 1..Len(obj[r].epair) PROVE Bridged(r, i)'
    <3>1. Bridged(r, i) BY <2>2, <2>7 DEF Complete
    <3> QED BY <1>1, <2>6, <3>1, BridgedStays
  <2> QED BY <1>2, <2>2, <2>5, <2>7 DEF Complete, Needs, Bridges
<1>4. CASE r = w.run /\ Work /\ (Fork \/ ForkFails)
  <2>1. w.pc = "fork" /\ UNCHANGED <<iface, obj>> BY <1>4 DEF Fork, ForkFails, At, host
  <2>2. Len(obj[r].epair) = Needs(Cont(r))
    BY <1>4, <2>1, Moves DEF Structure, WorkerInv, Stage, Equipped, Me, C
  <2>3. \A i \in 1..Len(obj[r].epair) : Bridged(r, i)
    BY <1>4, <2>1, <2>2 DEF Structure, Whole, Making, Me
  <2> QED BY <1>2, <2>1, <2>2, <2>3 DEF Complete, Bridged, Needs, Aligned, Bridges
<1> QED BY <1>1, <1>3, <1>4

(* While a run is made every epair is on its bridge but the newest.          *)
Joining(i) == \/ Bridged(w.run, i)
              \/ /\ w.pc = "bridge" /\ i = Len(Me.epair) /\ <<w.run, i>> \in DOMAIN iface
                 /\ iface[<<w.run, i>>].addr = Host

(* A call of the worker does so to the list as it leaves it.                  *)
LEMMA WorkJoins ==
  ASSUME Types, Structure, Work, w'.pc \in Making, NEW i \in 1..Len(Me'.epair)
  PROVE  Joining(i)'
<1>1. w' # Idle BY DEF Idle, Making
<1>2. /\ Next /\ w.pc \in Making /\ w'.run = w.run /\ w.run \in Runs /\ w.run \in Started /\ Busy
      /\ Nets(w.run)' = Nets(w.run) /\ Cont(w.run)' = Cont(w.run)
      /\ Me' = obj'[w.run] /\ w \in WorkerType
  <2>1. Next BY DEF Next, Work
  <2>2. w.run \in Started BY Moves, InHand DEF Structure
  <2>3. /\ Nets(w.run)' = NetsOf[obj'[w.run].cont] /\ Cont(w.run)' = obj'[w.run].cont
        /\ obj'[w.run].cont = Cont(w.run)
    BY <1>1, <2>1, <2>2, SameRun, Conts DEF Nets, Cont
  <2> QED BY <1>1, <2>1, <2>2, <2>3, SameRun, MakingStays, Moves DEF Nets, Cont, Me, Types, WorkT
<1>20. ASSUME Bridged(w.run, i)' PROVE Joining(i)' BY <1>20 DEF Joining
<1> DEFINE e == <<w.run, i>>
           k == Len(Me.epair)
<1>3. k \in Nat /\ Me.epair \in Seq(Runs \X Nat) /\ Me \in ObjType /\ Me = obj[w.run]
  <2>1. Me \in ObjType /\ Me = obj[w.run] BY <1>2, InHand DEF Structure, Me
  <2> QED BY <2>1 DEF ObjType
<1>4. CASE CreateEpair
  <2>1. w.pc = "epair" /\ w'.pc = "bridge"
    BY <1>2, <1>4 DEF CreateEpair, At, WorkerType
  <2>2. Me'.epair = Append(Me.epair, New)
    BY <1>2, <1>3, <1>4 DEF CreateEpair, Me, Types, ObjT, ObjType
  <2>3. Len(Me'.epair) = k + 1 BY <1>3, <2>2
  <2>4. CASE i = k + 1
    <3>1. e \in DOMAIN iface' /\ iface'[e].addr = Host
      <4>1. iface' = [x \in DOMAIN iface \cup {e} |->
                        IF x = e THEN [at |-> Host, bridge |-> Host, addr |-> Host, up |-> {}]
                        ELSE iface[x]]
        BY <1>4, <2>4 DEF CreateEpair, CreateInterface, New
      <4> QED BY <4>1
    <3> QED BY <1>2, <2>1, <2>3, <2>4, <3>1 DEF Joining
  <2>5. CASE i # k + 1
    <3>1. i \in 1..k BY <1>3, <2>3, <2>5
    <3>2. Bridged(w.run, i) BY <1>2, <2>1, <3>1 DEF Structure, Whole
    <3>3. <<w.run, i>> # New BY <2>5 DEF New
    <3>4. Bridged(w.run, i)' BY <1>2, <2>1, <3>2, <3>3, BridgedStays
    <3> QED BY <1>20, <3>4
  <2> QED BY <2>4, <2>5
<1>5. CASE ~CreateEpair
  <2>1. w.pc # "ifdestroy" /\ ~GiveUp /\ ~StopJailRaises /\ ~Kill
    BY <1>1, <1>2 DEF Making, GiveUp, StopJailRaises, Kill
  <2>2. Me'.epair = Me.epair BY <1>2, <1>3, <1>5, <2>1, EpairChange
  <2>3. i \in 1..k BY <1>3, <2>2
  <2>4. Joining(i) BY <1>2, <2>3 DEF Structure, Whole, Joining
  <2>5. CASE AddToBridge
    <3>1. w.pc = "bridge" BY <2>5 DEF AddToBridge, At
    <3>2. Newest = <<w.run, k>> /\ (Aligned(C) => Wanted = Nets(w.run)[k]) BY <3>1, NewestInHand
    <3>3. CASE i = k
      <4>1. e \in DOMAIN iface BY <2>4 DEF Joining, Bridged
      <4>2. iface' = [iface EXCEPT ![e] = Up(Joined(e, Wanted), "b")]
        BY <2>5, <3>2, <3>3 DEF AddToBridge, BridgeIf
      <4>3. e \in DOMAIN iface' /\ iface'[e] = Up(Joined(e, Wanted), "b")
        BY <4>1, <4>2 DEF Types, IfaceT
      <4>4. iface'[e].bridge = Wanted BY <4>1, <4>3, Fields
      <4>5. Bridged(w.run, i)'
        BY <1>2, <3>2, <3>3, <4>3, <4>4 DEF Bridged, C, Aligned, Bridges
      <4> QED BY <1>20, <4>5
    <3>4. CASE i # k
      <4>1. Bridged(w.run, i) BY <2>4, <3>4 DEF Joining
      <4>2. <<w.run, i>> # Newest BY <3>2, <3>4
      <4>3. Bridged(w.run, i)' BY <1>2, <1>5, <3>1, <4>1, <4>2, BridgedStays
      <4> QED BY <1>20, <4>3
    <3> QED BY <3>3, <3>4
  <2>6. CASE ~AddToBridge
    <3>1. w.pc # "bridge"
      <4>1. SUFFICES ASSUME w.pc = "bridge" PROVE FALSE OBVIOUS
      <4>2. BridgeFails
        BY <2>6, <4>1 DEF Work, Make, Destroy, At, JailSet, JailRefused, PassOver, CreateEpair,
           EpairFails, AddToBridge, Attach, AttachFails, MountDevfs, DevfsFails, MountTmpfs,
           TmpfsFails, MountUser, MountUserFails, MkdirFails, Register, GiveUp, RefusalRaises,
           Fork, ForkFails, Deattach, StopJail, StopJailFails, StopJailRaises, DestroyEpair,
           DestroyEpairFails, UnmountDevfs, UnmountDevfsFails, UnmountTmpfs, UnmountTmpfsFails,
           UnmountUser, UnmountFails
      <4>3. w'.pc = "deattach" BY <1>2, <4>2 DEF BridgeFails, Raise, Go, WorkerType
      <4> QED BY <4>3 DEF Making
    <3>2. Bridged(w.run, i) BY <2>4, <3>1 DEF Joining
    <3>3. CASE e = <<w.run, w.i>> /\ Attach
      <4>1. e \in DOMAIN iface /\ (Aligned(Cont(w.run)) => iface[e].bridge = Nets(w.run)[i])
        BY <3>2 DEF Bridged
      <4>2. iface' = [iface EXCEPT ![Epair] = [iface[Epair] EXCEPT !.at = C]]
        BY <3>3 DEF Attach, MoveToJail
      <4>3. e \in DOMAIN iface' /\ iface'[e] \in {iface[e], [iface[e] EXCEPT !.at = C]}
        BY <4>1, <4>2 DEF Types, IfaceT
      <4>4. \A c : [iface[e] EXCEPT !.at = c].bridge = iface[e].bridge BY <4>1, Fields
      <4>5. iface'[e].bridge = iface[e].bridge BY <4>3, <4>4
      <4>6. Bridged(w.run, i)' BY <1>2, <4>1, <4>3, <4>5 DEF Bridged, Aligned, Bridges
      <4> QED BY <1>20, <4>6
    <3>4. CASE ~(e = <<w.run, w.i>> /\ Attach)
      <4>1. ~(w.pc = "attach" /\ <<w.run, i>> = <<w.run, w.i>>) \/ UNCHANGED iface
        <5>1. ASSUME w.pc = "attach", ~Attach PROVE UNCHANGED iface
          BY <5>1, Moves DEF CreateEpair, AddToBridge, BridgeFails, Attach, Deattach, StopJail,
             DestroyEpair, At
        <5> QED BY <3>4, <5>1
      <4>2. CASE UNCHANGED iface
        <5>1. Bridged(w.run, i)' BY <1>2, <3>2, <4>2 DEF Bridged, Aligned, Bridges
        <5> QED BY <1>20, <5>1
      <4>3. CASE ~(w.pc = "attach" /\ <<w.run, i>> = <<w.run, w.i>>)
        <5>1. Bridged(w.run, i)' BY <1>2, <1>5, <2>1, <3>1, <3>2, <4>3, BridgedStays
        <5> QED BY <1>20, <5>1
      <4> QED BY <4>1, <4>2, <4>3
    <3> QED BY <3>3, <3>4
  <2> QED BY <2>5, <2>6
<1> QED BY <1>4, <1>5

(* Nobody else takes an epair from the run in hand.                          *)
LEMMA OthersJoin ==
  ASSUME Types, Structure, Next, ~Work, UNCHANGED <<w, obj>>, w.pc \in Making,
         NEW i \in 1..Len(Me.epair)
  PROVE  Joining(i)'
<1> DEFINE e == <<w.run, i>>
<1>1. Busy /\ w.run \in Runs /\ w.run \in Started BY InHand DEF Busy, Making, Structure
<1>4. CASE Bridged(w.run, i)
  <2>1. Bridged(w.run, i)' BY <1>1, <1>4, BridgedStays
  <2> QED BY <2>1 DEF Joining
<1>5. CASE /\ w.pc = "bridge" /\ i = Len(Me.epair) /\ e \in DOMAIN iface /\ iface[e].addr = Host
  <2>1. ASSUME NEW r \in Started, Configure(r) PROVE e # obj[r].epair[child[r].i]
    <3>1. r # w.run /\ r \in Runs /\ child[r].pc \in Living
      BY <1>1, <2>1 DEF Configure, Turn, Structure, WorkerInv, Position, Started, Living
    <3>2. Listed(r) /\ Len(obj[r].epair) \in Nat BY <2>1, <3>1, ForkedComplete
    <3>3. child[r].i \in 1..Len(obj[r].epair)
      BY <2>1, <3>1, <3>2, ContOf, Counted DEF Configure, Turn, Types, ChildT, ChildType
    <3>4. obj[r].epair[child[r].i] = <<r, child[r].i>> BY <3>2, <3>3 DEF Listed
    <3> QED BY <3>1, <3>4
  <2>2. e \in DOMAIN iface' /\ iface'[e] \in {iface[e], Home(e), Stuck(e)}
    BY <1>5, <2>1, IfaceChange
  <2>3. iface'[e].addr = Host BY <1>5, <2>2, Fields
  <2> QED BY <1>5, <2>2, <2>3 DEF Joining, Me
<1> QED BY <1>4, <1>5 DEF Structure, Whole

LEMMA WholeStep ==
  ASSUME Types, Structure, Next
  PROVE  Whole'
<1>1. ASSUME NEW r \in Started', Forked(r)'
      PROVE  Complete(r)'
  BY <1>1, ForkedWhole
<1>2. ASSUME w'.pc \in Making, NEW i \in 1..Len(Me'.epair)
      PROVE  Joining(i)'
  <2>1. CASE Work BY <1>2, <2>1, WorkJoins
  <2>2. CASE ~Work /\ UNCHANGED <<w, obj>>
    <3>1. w.pc \in Making /\ i \in 1..Len(Me.epair) BY <1>2, <2>2 DEF Me
    <3> QED BY <2>2, <3>1, OthersJoin
  <2>3. ASSUME NEW c \in Containers, Start(c) PROVE FALSE
    <3>1. w'.pc = "create" BY <2>3 DEF Start
    <3>2. Me'.epair = <<>> BY <3>1, WorkerStep DEF WorkerInv, Stage, Busy
    <3> QED BY <1>2, <3>2
  <2>4. ASSUME NEW r \in Started, Reap(r) PROVE FALSE
    <3>1. w'.pc = "deattach" BY <2>4 DEF Reap
    <3> QED BY <1>2, <3>1 DEF Making
  <2>5. CASE Kill BY <1>2, <2>5 DEF Kill, Idle, Making
  <2>6. ASSUME NEW c \in Containers, Stop(c) PROVE UNCHANGED <<w, obj>> BY <2>6 DEF Stop
  <2>7. ASSUME NEW r \in Started, ChildStep(r) PROVE UNCHANGED <<w, obj>> BY <2>7, ChildMoves
  <2>8. ASSUME NEW e \in DOMAIN iface, ComeHome(e) PROVE UNCHANGED <<w, obj>> BY <2>8 DEF ComeHome
  <2> QED BY <2>1, <2>2, <2>3, <2>4, <2>5, <2>6, <2>7, <2>8, Steps
<1> QED BY <1>1, <1>2 DEF Whole, Joining

LEMMA StructureStep ==
  ASSUME Types, Structure, Next
  PROVE  Structure'
  BY ObjectsStep, WorkerStep, OneActiveStep, ChildInvStep, IfacesStep, WholeStep DEF Structure

LEMMA InitStructure == Init => Structure
<1> SUFFICES ASSUME Init PROVE Structure OBVIOUS
<1>1. /\ \A r \in Runs : obj[r] = NoObj /\ child[r].pc = "none"
      /\ dict = {} /\ w.pc = "idle" /\ w.run = 0 /\ DOMAIN iface = {} /\ Started = {}
  BY FreshObj DEF Init, Process, Idle, Started
<1>2. Objects BY <1>1 DEF Objects, Fresh
<1>3. WorkerInv /\ OneActive BY <1>1 DEF WorkerInv, Busy, OneActive, Mine, Runs
<1>4. ChildInv BY <1>1 DEF ChildInv
<1>5. Ifaces BY <1>1 DEF Ifaces
<1>6. Whole BY <1>1 DEF Whole, Making
<1> QED BY <1>2, <1>3, <1>4, <1>5, <1>6 DEF Structure

LEMMA Stutter ==
  ASSUME Types, Structure, UNCHANGED vars
  PROVE  Types' /\ Structure'
<1> USE DEF vars
<1>1. Started' = Started /\ (\A r : Cont(r)' = Cont(r) /\ Nets(r)' = Nets(r)) /\ C' = C /\ Me' = Me
  BY DEF Started, Cont, Nets, C, Me
<1>2. Types'
  BY <1>1 DEF Types, JailT, IfaceT, MountT, ObjT, ChildT, WorkT, HistT
<1>3. Objects' BY <1>1 DEF Structure, Objects, Listed, Fresh
<1>8. ChildInv' BY <1>1 DEF Structure, ChildInv, Passed, Needs, Aligned, Bridges
<1>4. WorkerInv'
  BY <1>1 DEF Structure, WorkerInv, Busy, Position, Stage, Needs, Count, Bridges
<1>5. OneActive' BY <1>1 DEF Structure, OneActive, Mine
<1>6. Ifaces' BY <1>1 DEF Structure, Ifaces, Aligned, Bridges
<1>9. \A r, i : (Bridged(r, i)' <=> Bridged(r, i)) /\ (Forked(r)' <=> Forked(r))
  BY <1>1 DEF Bridged, Aligned, Bridges, Forked
<1>10. \A r : Complete(r)' <=> Complete(r) BY <1>1, <1>9 DEF Complete, Needs, Bridges
<1>7. Whole' BY <1>1, <1>9, <1>10 DEF Structure, Whole
<1> QED BY <1>2, <1>3, <1>4, <1>5, <1>6, <1>7, <1>8 DEF Structure

LEMMA Invariants == Spec => [](Types /\ Structure)
<1>1. Init => Types /\ Structure BY InitTypes, InitStructure
<1>2. Types /\ Structure /\ [Next]_vars => (Types /\ Structure)'
  BY TypesStep, StructureStep, Stutter
<1> QED BY <1>1, <1>2, PTL DEF Spec

-----------------------------------------------------------------------------
(* Theorems.                                                                *)

(* Every variable keeps its type; the list of a container that was forked   *)
(* has one epair for each bridge among its networks, all of them existing,  *)
(* until the worker destroys it.                                            *)
THEOREM TypeCorrect == Spec => []TypeOK
<1>1. Types /\ Structure => TypeOK
  <2> SUFFICES ASSUME Types, Structure PROVE TypeOK OBVIOUS
  <2>1. ASSUME NEW r \in Runs, r \in dict, r # w.run
        PROVE  /\ Len(obj[r].epair) = Cardinality(Bridges(Cont(r)))
               /\ Range(obj[r].epair) \subseteq DOMAIN iface
    <3>1. r \in Started /\ Forked(r) BY <2>1 DEF Types, HistT, Forked
    <3>2. /\ Len(obj[r].epair) = Cardinality(Bridges(Cont(r)))
          /\ \A i \in 1..Len(obj[r].epair) : Bridged(r, i)
      BY <3>1 DEF Structure, Whole, Complete, Needs
    <3>3. Listed(r) BY <3>1 DEF Structure, Objects
    <3>4. obj[r].epair \in Seq(Runs \X Nat) BY DEF Types, ObjT, ObjType
    <3>5. \A i \in DOMAIN obj[r].epair : obj[r].epair[i] \in DOMAIN iface
      <4> SUFFICES ASSUME NEW i \in DOMAIN obj[r].epair PROVE obj[r].epair[i] \in DOMAIN iface
        OBVIOUS
      <4>1. i \in 1..Len(obj[r].epair) BY <3>4
      <4> QED BY <3>2, <3>3, <4>1 DEF Listed, Bridged
    <3> QED BY <3>2, <3>5 DEF Range
  <2>2. ASSUME NEW r \in Runs
        PROVE  /\ Cont(r) \in Containers \cup {Host}
               /\ obj[r].jid \in {"none", "ok", "refused"}
               /\ child[r].pc \in {"none", "over"} \cup Living
               /\ child[r].routes \subseteq Networks \cup {Host}
    BY DEF Types, ObjT, ObjType, ChildT, ChildType, Places, Nets0, Cont
  <2>3. ASSUME NEW e \in DOMAIN iface
        PROVE  /\ iface[e].at \in Containers \cup {Host, Dying}
               /\ {iface[e].bridge, iface[e].addr} \subseteq Networks \cup {Host}
               /\ iface[e].up \subseteq {"a", "b"}
    <3>1. iface[e] \in IfaceType BY DEF Types, IfaceT
    <3> QED BY <3>1 DEF IfaceType, Places, Nets0
  <2>4. /\ w.pc \in {"idle"} \cup Making \cup Destroying
        /\ w.run \in 0..MaxRuns
        /\ w.pc = "idle" <=> w.run = 0
    BY DEF Types, WorkT, WorkerType
  <2> QED BY <2>1, <2>2, <2>3, <2>4 DEF TypeOK, Types, JailT, IfaceT, MountT, HistT
<1> QED BY <1>1, Invariants, PTL

(* Whichever calls fail and whatever the networks of a container are, no    *)
(* interface of a running program has an address of a network other than    *)
(* the one its bridge belongs to; where every bridge comes before the other *)
(* networks of the list none ever has.                                      *)
THEOREM OwnBridge == Spec => []AddressOnItsBridge
<1>1. Types /\ Structure => AddressOnItsBridge
  <2> SUFFICES ASSUME Types, Structure, NEW e \in DOMAIN iface,
                      Aligned(Cont(e[1])) \/ child[e[1]].pc = "running"
               PROVE  iface[e].addr \in {Host, iface[e].bridge}
    BY DEF AddressOnItsBridge
  <2>1. /\ e[1] \in Started
        /\ Aligned(Cont(e[1])) => iface[e].addr \in {Host, iface[e].bridge}
    BY DEF Structure, Ifaces
  <2>2. e[1] \in Runs BY <2>1 DEF Started
  <2>3. child[e[1]].pc = "running" => Aligned(Cont(e[1])) BY <2>2 DEF Structure, ChildInv
  <2> QED BY <2>1, <2>3
<1> QED BY <1>1, Invariants, PTL
=============================================================================
