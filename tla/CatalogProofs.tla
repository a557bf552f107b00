--------------------------- MODULE CatalogProofs ---------------------------
(***************************************************************************)
(* Theorems about Catalog, for every set of threads, names and subnets,    *)
(* and whichever failures are injected.                                    *)
(***************************************************************************)
EXTENDS Catalog, FiniteSetTheorems, SequenceTheorems, TLAPS

-----------------------------------------------------------------------------
(* What every thread knows.                                                 *)

Serving(t) == pc[t] \notin {"idle", "lock"}

(* A request is of the kind whose statements its handler makes.             *)
Shape(t) ==
  /\ pc[t] # "idle" => req[t] \in Requests
  /\ pc[t] \in {"names", "alloc", "insalloc", "insnet"} => req[t].op = "network"
  /\ pc[t] = "lock" => req[t].op # "network"
  /\ pc[t] \in {"nets", "volumes", "image", "anon", "noname", "insert", "rowid", "mounts", "volid",
               "vlink", "dataset"} => req[t].op = "container"
  /\ pc[t] \in {"used", "subnet", "links", "rollback"} => req[t].op \in {"container", "attach"}
  /\ pc[t] \in {"find", "findnet", "present"} => req[t].op = "attach"
  /\ pc[t] \in {"vol", "insvol", "mkdir"} => req[t].op = "volume"
  /\ pc[t] = "update" => req[t].op = "status"
  /\ pc[t] \in {"insalloc", "insnet"} => loc[t].subnet \in Subnets
  /\ pc[t] \in {"present", "used", "subnet"} => loc[t].todo # {}
  /\ pc[t] \in {"volid", "vlink"} => loc[t].mounts # <<>>
  /\ pc[t] = "links" => loc[t].rows # {}
  /\ pc[t] = "links" /\ req[t].op = "attach" => \A p, q \in loc[t].rows : p = q

NetType == [name : NetNames, subnet : Subnets]
LinkType == [net : Nat, cont : Nat, ip : 0..Hosts]
VlinkType == [vol : VolNames, cont : Nat]
RowType == [net : Nat, ip : 0..Hosts]
MountType == [key : VolNames, source : VolNames]
LocType == [subnet : Subnets \cup {None}, cid : Nat, todo : SUBSET Nat, used : SUBSET (0..Hosts),
            rows : SUBSET RowType, mounts : Seq(MountType)]
Finite(db) == IsFiniteSet(db.links) /\ IsFiniteSet(db.vols) /\ IsFiniteSet(db.vlinks)
SessionT ==
  /\ view \in Databases /\ disk \in Databases /\ Finite(view) /\ Finite(disk)
  /\ cursor \in Threads \cup {None} /\ lastrow \in Nat /\ stranded \in BOOLEAN
LocalT ==
  /\ lock \in Threads \cup {None}
  /\ pc \in [Threads -> Pcs]
  /\ req \in [Threads -> Requests \cup {None}]
  /\ seen \in [Threads -> Databases \cup {None}]
  /\ loc \in [Threads -> LocType]
Shapes == \A t \in Threads : Shape(t)
Types == SessionT /\ LocalT /\ created \subseteq Requests /\ Shapes

(* Whoever has an open transaction is on the way to its end, or a handler    *)
(* has ended and left it open.                                              *)
Pending(t) == Inserted(t) \/ pc[t] \in {"commit", "rollback"}
Tidy == stranded \/ (\E t \in Threads : Pending(t)) \/ view = disk

(* Only add_network goes without the lock.                                  *)
Locked == \A t \in Threads : Serving(t) /\ req[t].op # "network" => lock = t

-----------------------------------------------------------------------------
(* What holds as long as no other request is served beside add_network.     *)

NetworkAlone == \A s, t \in Threads :
  s # t /\ Serving(s) /\ Serving(t) => req[s].op # "network"

Fresh(db) == \A k, l \in db.links :
  k.ip # 1 /\ (k # l /\ k.net = l.net /\ k.ip # NoAddress => k.ip # l.ip)
Closed(db) ==
  /\ \A l \in db.links : l.net \in DOMAIN db.nets /\ l.cont \in DOMAIN db.conts
  /\ \A l \in db.vlinks : l.vol \in db.vols /\ l.cont \in DOMAIN db.conts
Recorded(db) == \A i \in DOMAIN db.nets : db.nets[i].subnet \in Range(db.alloc)
Sound(db) == Fresh(db) /\ Closed(db) /\ Recorded(db)

(* A database has everything that another one has.                          *)
Within(a, b) ==
  /\ DOMAIN a.nets \subseteq DOMAIN b.nets /\ \A i \in DOMAIN a.nets : b.nets[i] = a.nets[i]
  /\ DOMAIN a.conts \subseteq DOMAIN b.conts /\ \A i \in DOMAIN a.conts : b.conts[i] = a.conts[i]
  /\ a.links \subseteq b.links /\ a.vols \subseteq b.vols /\ a.vlinks \subseteq b.vlinks

Catalogued ==
  /\ Sound(view) /\ Sound(disk) /\ Within(disk, view)
  /\ \A r \in created : r.op # "status" /\ Stored(r, disk)

(* The rows that were read are those there are.                             *)
Current(t) == seen[t] # None => seen[t] = view /\ cursor = t

(* The subnet in hand, which the allocator chose if the client did not.     *)
SubnetInHand(t) ==
  /\ req[t].subnet \in {None, loc[t].subnet}
  /\ req[t].subnet = None =>
       \A i \in DOMAIN view.nets : view.nets[i].subnet \cap loc[t].subnet = {}
  /\ pc[t] = "insnet" => loc[t].subnet \in Range(view.alloc)

(* The networks that still need an address, and the addresses picked.       *)
Claimed(t) == {row.net : row \in loc[t].rows}
Claims(t) ==
  /\ loc[t].todo \cup Claimed(t) \subseteq DOMAIN view.nets
  /\ loc[t].todo \cap Claimed(t) = {}
  /\ \A row \in loc[t].rows :
       /\ row.ip # 1 /\ (row.ip # NoAddress => row.ip \notin UsedIn(view, row.net))
       /\ \A other \in loc[t].rows : other.net = row.net => other = row
Wanted(t) == IF req[t].op = "attach" THEN {req[t].net} ELSE req[t].nets
Linked(t, n) == \E l \in view.links : l.cont = loc[t].cid /\ l.net \in NetIds(view, {n})
Ahead(t, n) == (loc[t].todo \cup Claimed(t)) \cap NetIds(view, {n}) # {}
Mounted(t, m) == [vol |-> m.source, cont |-> loc[t].cid] \in view.vlinks

Validated(t) ==
  loc[t].rows = {} /\ Claims(t) /\ \A n \in req[t].nets : Ahead(t, n)
Chosen(t) ==
  loc[t].rows = {} /\ loc[t].todo = {} /\ loc[t].cid \in ContIds(view, req[t].name)
Assigning(t) ==
  /\ loc[t].cid \in ContIds(view, req[t].name)
  /\ Claims(t)
  /\ \A n \in Wanted(t) : Ahead(t, n) \/ Linked(t, n)
  /\ req[t].op = "container" => loc[t].mounts = req[t].mounts
  /\ req[t].op = "attach" => loc[t].todo \subseteq NetIds(view, {req[t].net})
  /\ pc[t] = "links" => loc[t].todo = {}
Mounting(t) ==
  /\ loc[t].cid \in ContIds(view, req[t].name)
  /\ \A n \in req[t].nets : Linked(t, n)
  /\ \A m \in Range(req[t].mounts) : m \in Range(loc[t].mounts) \/ Mounted(t, m)

Progress(t) ==
  /\ Current(t)
  /\ pc[t] \notin Selects => seen[t] = None
  /\ pc[t] \in {"idle", "lock", "names", "nets", "find"} => loc[t] = NoLocals
  /\ pc[t] = "alloc" => req[t].subnet = None
  /\ pc[t] \in {"insalloc", "insnet"} => SubnetInHand(t)
  /\ pc[t] = "volumes" /\ loc[t].todo # {} => Validated(t)
  /\ pc[t] \in {"image", "insert", "rowid"} => Validated(t)
  /\ pc[t] = "rowid" => lastrow \in ContIds(view, req[t].name)
  /\ pc[t] = "findnet" => Chosen(t)
  /\ pc[t] \in {"present", "used", "subnet", "links"} => Assigning(t)
  /\ pc[t] = "subnet" => loc[t].used = UsedIn(view, Min(loc[t].todo))
  /\ pc[t] \in {"mounts", "volid", "vlink"} => Mounting(t)
  /\ pc[t] = "vlink" => VolumeLink(t).vol \in view.vols
  /\ pc[t] \in {"dataset", "mkdir", "commit"} /\ req[t].op # "status" => Stored(req[t], view)

Progresses == \A t \in Threads : Progress(t)
Reliable == Catalogued /\ \A t \in Threads : Progress(t)

-----------------------------------------------------------------------------
(* Operators.                                                               *)
(* Some number of a set is the smallest.                                     *)
LEMMA Ordered ==
  \E R : IsWellFoundedOn(R, Nat) /\ \A x, y \in Nat : x < y => <<x, y>> \in R
<1>1. \A x, y \in Nat : x < y => <<x, y>> \in OpToRel(<, Nat) BY Zenon DEF OpToRel
<1> WITNESS OpToRel(<, Nat)
<1> QED BY <1>1, NatLessThanWellFounded, Zenon

LEMMA MinOf ==
  ASSUME NEW S \in SUBSET Nat, S # {}
  PROVE  Min(S) \in S /\ \A x \in S : Min(S) <= x
<1>1. PICK R : IsWellFoundedOn(R, Nat) /\ \A x, y \in Nat : x < y => <<x, y>> \in R
  BY Ordered
<1>2. IsWellFoundedOn(R, Nat) BY <1>1
<1>3. \A x, y \in Nat : x < y => <<x, y>> \in R BY <1>1
<1>4. \E m \in S : \A y \in S : ~ (<<y, m>> \in R) BY <1>2, WFMin
<1>5. PICK m \in S : \A y \in S : ~ (<<y, m>> \in R) BY <1>4
<1>6. ASSUME NEW y \in S PROVE m <= y
  <2>1. m \in Nat /\ y \in Nat /\ ~ (<<y, m>> \in R) BY <1>5
  <2>2. y < m => <<y, m>> \in R BY <1>3, <2>1
  <2> QED BY <2>1, <2>2
<1> QED BY <1>6 DEF Min

LEMMA Fields ==
  ASSUME NEW db \in Databases
  PROVE  /\ db.alloc \in Seq(Subnets) /\ db.nets \in Seq(NetType) /\ db.conts \in Seq(ContNames)
         /\ db.links \in SUBSET LinkType /\ db.vols \in SUBSET VolNames
         /\ db.vlinks \in SUBSET VlinkType
  BY DEF Databases, NetType, LinkType, VlinkType

LEMMA Updates ==
  ASSUME NEW db \in Databases
  PROVE  /\ \A x \in Seq(Subnets) : [db EXCEPT !.alloc = x] \in Databases
         /\ \A x \in Seq(NetType) : [db EXCEPT !.nets = x] \in Databases
         /\ \A x \in Seq(ContNames) : [db EXCEPT !.conts = x] \in Databases
         /\ \A x \in SUBSET LinkType : [db EXCEPT !.links = x] \in Databases
         /\ \A x \in SUBSET VolNames : [db EXCEPT !.vols = x] \in Databases
         /\ \A x \in SUBSET VlinkType : [db EXCEPT !.vlinks = x] \in Databases
  BY DEF Databases, NetType, LinkType, VlinkType

LEMMA NothingStored ==
  /\ EmptyDatabase \in Databases /\ DOMAIN EmptyDatabase.nets = {} /\ DOMAIN EmptyDatabase.conts = {}
  /\ EmptyDatabase.links = {} /\ EmptyDatabase.vols = {} /\ EmptyDatabase.vlinks = {}
  /\ EmptyDatabase.nets = <<>> /\ EmptyDatabase.conts = <<>> /\ EmptyDatabase.alloc = <<>>
  BY DEF EmptyDatabase, Databases

LEMMA RequestFields ==
  ASSUME NEW r \in Requests
  PROVE  /\ r.op \in {"network", "container", "attach", "volume", "status"}
         /\ r.op = "network" => r.name \in NetNames /\ r.subnet \in UserSubnets \cup {None}
         /\ r.op = "container" => /\ r.name \in ContNames /\ r.nets \in SUBSET NetNames
                                  /\ r.mounts \in MountLists /\ r.mounts \in Seq(MountType)
         /\ r.op = "attach" => r.name \in ContNames /\ r.net \in NetNames
         /\ r.op = "volume" => r.name \in VolNames
  BY CatalogAssumption DEF Requests, MountType

LEMMA Appended ==
  ASSUME NEW S, NEW s \in Seq(S), NEW e \in S
  PROVE  /\ Len(s) + 1 \in Nat /\ DOMAIN s \subseteq Nat /\ Len(s) + 1 \notin DOMAIN s
         /\ DOMAIN Append(s, e) = DOMAIN s \cup {Len(s) + 1}
         /\ \A i \in DOMAIN s : Append(s, e)[i] = s[i]
         /\ Append(s, e)[Len(s) + 1] = e
         /\ Range(Append(s, e)) = Range(s) \cup {e}
<1> DEFINE n == Append(s, e)
<1>1. Len(s) \in Nat /\ DOMAIN s = 1..Len(s) /\ DOMAIN n = 1..(Len(s) + 1) OBVIOUS
<1>2. (\A i \in DOMAIN s : n[i] = s[i]) /\ n[Len(s) + 1] = e OBVIOUS
<1> HIDE DEF n
<1>3. DOMAIN n = DOMAIN s \cup {Len(s) + 1} /\ Len(s) + 1 \notin DOMAIN s BY <1>1
<1>4. Range(n) = Range(s) \cup {e} BY <1>2, <1>3 DEF Range
<1> QED BY <1>1, <1>2, <1>3, <1>4 DEF n

LEMMA NoLocalsType == NoLocals \in LocType
  BY DEF NoLocals, LocType

-----------------------------------------------------------------------------
(* Which steps change what.                                                 *)

LEMMA Replies ==
  ASSUME LocalT, NEW t \in Threads, Reply(t)
  PROVE  /\ LocalT' /\ pc'[t] = "idle" /\ seen'[t] = None /\ loc'[t] = NoLocals
         /\ lock' = IF lock = t THEN None ELSE lock
         /\ \A s \in Threads \ {t} : /\ pc'[s] = pc[s] /\ req'[s] = req[s] /\ seen'[s] = seen[s]
                                     /\ loc'[s] = loc[s]
  BY NoLocalsType DEF Reply, Goto, Set, LocalT, Pcs

LEMMA Goes ==
  ASSUME LocalT, NEW t \in Threads, NEW p \in Pcs, Goto(t, p), UNCHANGED <<lock, req>>,
         \/ UNCHANGED loc
         \/ \E l \in LocType : Set(t, l),
         \/ UNCHANGED seen
         \/ seen' = [seen EXCEPT ![t] = None]
  PROVE  /\ LocalT' /\ pc'[t] = p /\ req'[t] = req[t] /\ lock' = lock /\ seen'[t] \in {seen[t], None}
         /\ \A l : Set(t, l) => loc'[t] = l
         /\ \A s \in Threads \ {t} : /\ pc'[s] = pc[s] /\ req'[s] = req[s] /\ seen'[s] = seen[s]
                                     /\ loc'[s] = loc[s]
  BY DEF Goto, Set, LocalT

(* What a thread reads is a database.                                        *)
LEMMA RowsType ==
  ASSUME Types, NEW t \in Threads, NEW p, Fetched(t, p)
  PROVE  /\ Rows(t) \in Databases /\ seen[t] \in Databases /\ pc[t] = p /\ seen[t] # None
         /\ \A names : NetIds(Rows(t), names) \in SUBSET Nat
         /\ \A name : ContIds(Rows(t), name) \in SUBSET Nat
         /\ \A net : UsedIn(Rows(t), net) \in SUBSET (0..Hosts)
<1>1. Rows(t) \in Databases /\ seen[t] \in Databases /\ pc[t] = p /\ seen[t] # None
  BY NothingStored DEF Fetched, Rows, Types, LocalT
<1>2. Rows(t).nets \in Seq(NetType) /\ Rows(t).conts \in Seq(ContNames) BY <1>1, Fields
<1>3. DOMAIN Rows(t).nets \subseteq Nat /\ DOMAIN Rows(t).conts \subseteq Nat
  BY <1>2
<1>4. \A net : UsedIn(Rows(t), net) \in SUBSET (0..Hosts)
  <2>1. Rows(t).links \subseteq LinkType BY <1>1, Fields
  <2> QED BY <2>1 DEF UsedIn, LinkType
<1> QED BY <1>1, <1>3, <1>4 DEF NetIds, ContIds

LEMMA AddressType ==
  ASSUME NEW used
  PROVE  /\ FreeAddress(used) \in 0..Hosts /\ FreeAddress(used) # 1
         /\ FreeAddress(used) # NoAddress => FreeAddress(used) \notin used
<1> DEFINE free == 2..Hosts \ used
<1>1. Hosts \in Nat BY CatalogAssumption
<1>2. CASE free = {} BY <1>1, <1>2 DEF FreeAddress, NoAddress
<1>3. CASE free # {}
  <2>1. free \in SUBSET Nat OBVIOUS
  <2> HIDE DEF free
  <2>2. Min(free) \in free BY <1>3, <2>1, MinOf
  <2>3. FreeAddress(used) = Min(free) BY <1>3 DEF FreeAddress, free
  <2> QED BY <1>1, <2>2, <2>3 DEF free
<1> QED BY <1>2, <1>3

LEMMA SubnetChosen ==
  ASSUME NEW allocated, FirstFree(allocated) # None
  PROVE  /\ FirstFree(allocated) \in Subnets
         /\ \A s \in allocated : s \cap FirstFree(allocated) = {}
<1> DEFINE free == FreeCandidates(allocated)
<1>1. free # {} /\ FirstFree(allocated) = Pool[Min(free)] BY DEF FirstFree
<1>2. DOMAIN Pool \subseteq Nat
  <2>1. Pool \in Seq(SUBSET UNION Range(Pool) \ {{}}) BY CatalogAssumption
  <2> QED BY <2>1
<1>3. free \in SUBSET Nat BY <1>2 DEF FreeCandidates
<1>4. Min(free) \in free BY <1>1, <1>3, MinOf
<1>5. Min(free) \in DOMAIN Pool /\ \A s \in allocated : ~Overlaps(Pool[Min(free)], s)
  BY <1>4 DEF FreeCandidates
<1> QED BY <1>1, <1>5 DEF Subnets, Range, Overlaps

LEMMA LocFields ==
  ASSUME NEW l \in LocType
  PROVE  /\ l.subnet \in Subnets \cup {None} /\ l.cid \in Nat /\ l.todo \in SUBSET Nat
         /\ l.used \in SUBSET (0..Hosts)
         /\ l.rows \in SUBSET RowType /\ l.mounts \in Seq(MountType)
         /\ \A x \in Subnets \cup {None} : [l EXCEPT !.subnet = x] \in LocType
         /\ \A x \in SUBSET Nat : [l EXCEPT !.todo = x] \in LocType
         /\ \A x \in SUBSET RowType : [l EXCEPT !.rows = x] \in LocType
         /\ \A x \in Seq(MountType) : [l EXCEPT !.mounts = x] \in LocType
         /\ \A x \in Nat : [l EXCEPT !.cid = x] \in LocType
         /\ \A x \in SUBSET (0..Hosts) : [l EXCEPT !.used = x] \in LocType
         /\ \A x \in Nat, y \in Seq(MountType) : [l EXCEPT !.cid = x, !.mounts = y] \in LocType
         /\ \A x \in SUBSET Nat, y \in SUBSET RowType :
              [l EXCEPT !.todo = x, !.used = {}, !.rows = y] \in LocType
  BY DEF LocType

(* Only the thread that makes a statement moves.                             *)
Keeps(t) == \A s \in Threads \ {t} :
  pc'[s] = pc[s] /\ req'[s] = req[s] /\ seen'[s] = seen[s] /\ loc'[s] = loc[s]

LEMMA ReplyStep ==
  ASSUME Types, NEW t \in Threads, Reply(t)
  PROVE  LocalT' /\ Shape(t)' /\ Keeps(t)
<1>1. LocalT' /\ pc'[t] = "idle" /\ Keeps(t) BY Replies DEF Types, Keeps
<1> QED BY <1>1 DEF Shape

LEMMA NetworkLocal ==
  ASSUME Types, NEW t \in Threads, NetworkStep(t)
  PROVE  LocalT' /\ Shape(t)' /\ Keeps(t)
<1> USE DEF Types, Keeps
<1>1. loc[t] \in LocType /\ Shape(t) BY DEF LocalT, Shapes
<1>2. CASE FoundName(t) \/ PoolExhausted(t)
  BY <1>2, ReplyStep DEF FoundName, PoolExhausted, Refuse, Raise
<1>3. CASE NoSuchName(t)
  <2> DEFINE l == [loc[t] EXCEPT !.subnet = req[t].subnet]
             p == IF req[t].subnet = None THEN "alloc" ELSE "insalloc"
  <2>1. req[t] \in Requests /\ req[t].op = "network" BY <1>1, <1>3, RowsType DEF NoSuchName, Shape
  <2>2. req[t].subnet \in UserSubnets \cup {None} BY <2>1, RequestFields
  <2>3. l \in LocType /\ l.subnet = req[t].subnet BY <1>1, <2>2 DEF LocType, Subnets
  <2>4. p \in Pcs BY DEF Pcs, Selects
  <2>5. /\ LocalT' /\ pc'[t] = p /\ req'[t] = req[t] /\ loc'[t] = l /\ Keeps(t)
    BY <1>3, <2>3, <2>4, Goes DEF NoSuchName, Fetch
  <2>6. Shape(t)' BY <2>1, <2>2, <2>3, <2>5 DEF Shape, Subnets
  <2> QED BY <2>5, <2>6
<1>4. CASE AllocateSubnet(t)
  <2> DEFINE x == FirstFree(Range(Rows(t).alloc))
             l == [loc[t] EXCEPT !.subnet = x]
  <2>1. req[t] \in Requests /\ req[t].op = "network" BY <1>1, <1>4, RowsType DEF AllocateSubnet, Shape
  <2>2. x \in Subnets BY <1>4, SubnetChosen DEF AllocateSubnet
  <2>3. l \in LocType /\ l.subnet = x BY <1>1, <2>2 DEF LocType
  <2>4. "insalloc" \in Pcs BY DEF Pcs
  <2>5. /\ LocalT' /\ pc'[t] = "insalloc" /\ req'[t] = req[t] /\ loc'[t] = l /\ Keeps(t)
    BY <1>4, <2>3, <2>4, Goes DEF AllocateSubnet, Fetch
  <2>6. Shape(t)' BY <2>1, <2>2, <2>3, <2>5 DEF Shape
  <2> QED BY <2>5, <2>6
<1>5. CASE InsertAllocated(t) \/ InsertNetwork(t)
  <2> DEFINE p == IF pc[t] = "insalloc" THEN "insnet" ELSE "commit"
  <2>1. /\ req[t] \in Requests /\ req[t].op = "network" /\ loc[t].subnet \in Subnets
        /\ Goto(t, p) /\ UNCHANGED <<lock, req, loc, seen>>
    BY <1>1, <1>5 DEF InsertAllocated, InsertNetwork, Shape, Write
  <2>2. p \in Pcs BY DEF Pcs
  <2>3. LocalT' /\ pc'[t] = p /\ req'[t] = req[t] /\ Keeps(t) BY <2>1, <2>2, Goes
  <2>4. Shape(t)' BY <2>1, <2>3 DEF Shape
  <2> QED BY <2>3, <2>4
<1> QED BY <1>2, <1>3, <1>4, <1>5 DEF NetworkStep

LEMMA Moves ==
  ASSUME Types, NEW t \in Threads, NEW p \in Pcs, NEW l \in LocType, Goto(t, p),
         UNCHANGED <<lock, req>>, Set(t, l) \/ (UNCHANGED loc /\ l = loc[t]),
         UNCHANGED seen \/ seen' = [seen EXCEPT ![t] = None]
  PROVE  /\ LocalT' /\ Keeps(t) /\ pc'[t] = p /\ req'[t] = req[t] /\ loc'[t] = l
<1>1. LocalT BY DEF Types
<1>2. UNCHANGED loc \/ \E k \in LocType : Set(t, k) OBVIOUS
<1> QED BY <1>1, <1>2, Goes DEF Keeps

LEMMA ContainerLocal ==
  ASSUME Types, NEW t \in Threads, ContainerStep(t)
  PROVE  LocalT' /\ Shape(t)' /\ Keeps(t)
<1>1. loc[t] \in LocType /\ Shape(t) /\ lastrow \in Nat
  BY DEF Types, LocalT, Shapes, SessionT
<1>2. CASE \/ MissingNetworks(t) \/ MissingOptions(t) \/ InvalidImage(t) \/ NoSuchVariable(t)
          \/ NoSubnet(t) \/ NoVolumeId(t) \/ VolumeRaises(t) \/ NoImageData(t)
  BY <1>2, ReplyStep DEF MissingNetworks, MissingOptions, InvalidImage, NoSuchVariable, NoSubnet,
     NoVolumeId, VolumeRaises, NoImageData, Refuse, Raise
<1>3. CASE FindNetworks(t)
  <2> DEFINE todo == IF NetsFound(t, Rows(t)) THEN NetIds(Rows(t), req[t].nets) ELSE {}
             l == [loc[t] EXCEPT !.todo = todo]
             p == IF req[t].mounts = <<>> THEN "image" ELSE "volumes"
  <2>1. req[t] \in Requests /\ req[t].op = "container"
    BY <1>1, <1>3, RowsType DEF FindNetworks, Shape
  <2>2. l \in LocType BY <1>1, <1>3, RowsType, LocFields DEF FindNetworks
  <2>3. p \in Pcs BY DEF Pcs, Selects
  <2>4. LocalT' /\ Keeps(t) /\ pc'[t] = p /\ req'[t] = req[t] /\ loc'[t] = l
    BY <1>3, <2>2, <2>3, Moves DEF FindNetworks, Fetch
  <2> QED BY <2>1, <2>4 DEF Shape
<1>10. CASE FindVolumes(t) \/ FindImage(t)
  <2>1. req[t] \in Requests /\ req[t].op = "container"
    BY <1>1, <1>10, RowsType DEF FindVolumes, FindImage, Shape
  <2>2. PICK p \in {"image", "insert", "anon"} : Goto(t, p)
    BY <1>10 DEF FindVolumes, FindImage
  <2>3. p \in Pcs BY DEF Pcs, Selects
  <2>4. LocalT' /\ Keeps(t) /\ pc'[t] = p /\ req'[t] = req[t]
    BY <1>1, <1>10, <2>2, <2>3, Moves DEF FindVolumes, FindImage, Fetch
  <2> QED BY <2>1, <2>4 DEF Shape
<1>11. CASE AnonymousVolume(t)
  <2>1. req[t] \in Requests /\ req[t].op = "container" BY <1>1, <1>11 DEF AnonymousVolume, Shape
  <2>2. "noname" \in Pcs BY DEF Pcs
  <2>3. LocalT' /\ Keeps(t) /\ pc'[t] = "noname" /\ req'[t] = req[t]
    BY <1>1, <1>11, <2>2, Moves DEF AnonymousVolume, InsertOrIgnore, Write
  <2> QED BY <2>1, <2>3 DEF Shape
<1>12. CASE UsedAddresses(t)
  <2> DEFINE used == UsedIn(Rows(t), Min(loc[t].todo))
             l == [loc[t] EXCEPT !.used = used]
  <2>1. req[t] \in Requests /\ req[t].op \in {"container", "attach"} /\ loc[t].todo # {}
    BY <1>1, <1>12, RowsType DEF UsedAddresses, Shape
  <2>2. used \in SUBSET (0..Hosts) BY <1>12, RowsType DEF UsedAddresses
  <2> HIDE DEF used
  <2>3. l \in LocType /\ l.todo = loc[t].todo BY <1>1, <2>2, LocFields DEF LocType
  <2>4. "subnet" \in Pcs BY DEF Pcs, Selects
  <2>5. /\ Goto(t, "subnet") /\ UNCHANGED <<lock, req>> /\ seen' = [seen EXCEPT ![t] = None]
        /\ Set(t, l)
    BY <1>12 DEF UsedAddresses, Fetch, used
  <2> HIDE DEF l
  <2>6. LocalT' /\ Keeps(t) /\ pc'[t] = "subnet" /\ req'[t] = req[t] /\ loc'[t] = l
    BY <2>3, <2>4, <2>5, Moves
  <2> QED BY <2>1, <2>3, <2>6 DEF Shape
<1>13. CASE InsertMounted(t) \/ VolumeId(t)
  <2>1. /\ req[t] \in Requests /\ req[t].op = "container" /\ loc[t].mounts # <<>>
    BY <1>1, <1>13, RowsType DEF InsertMounted, VolumeId, Shape
  <2>2. PICK p \in {"volid", "vlink"} : Goto(t, p)
    BY <1>13 DEF InsertMounted, VolumeId
  <2>3. p \in Pcs BY DEF Pcs, Selects
  <2>4. LocalT' /\ Keeps(t) /\ pc'[t] = p /\ req'[t] = req[t] /\ loc'[t] = loc[t]
    BY <1>1, <1>13, <2>2, <2>3, Moves DEF InsertMounted, InsertOrIgnore, VolumeId, Write, Fetch
  <2> QED BY <2>1, <2>4 DEF Shape
<1>4. CASE InsertContainer(t)
  <2>1. req[t] \in Requests /\ req[t].op = "container" BY <1>1, <1>4 DEF InsertContainer, Shape
  <2>2. "rowid" \in Pcs BY DEF Pcs
  <2>3. LocalT' /\ Keeps(t) /\ pc'[t] = "rowid" /\ req'[t] = req[t] /\ loc'[t] = loc[t]
    BY <1>1, <1>4, <2>2, Moves DEF InsertContainer, Write
  <2> QED BY <2>1, <2>3 DEF Shape
<1>5. CASE RowId(t)
  <2> DEFINE l == [loc[t] EXCEPT !.cid = lastrow, !.mounts = req[t].mounts]
             p == IF loc[t].todo = {} THEN "mounts" ELSE "used"
  <2>1. req[t] \in Requests /\ req[t].op = "container" BY <1>1, <1>5 DEF RowId, Shape
  <2>2. l \in LocType /\ l.todo = loc[t].todo BY <1>1, <2>1, RequestFields, LocFields DEF LocType
  <2>3. p \in Pcs BY DEF Pcs, Selects
  <2>4. LocalT' /\ Keeps(t) /\ pc'[t] = p /\ req'[t] = req[t] /\ loc'[t] = l
    BY <1>5, <2>2, <2>3, Moves DEF RowId
  <2> QED BY <2>1, <2>2, <2>4 DEF Shape
<1>6. CASE PickAddress(t)
  <2> DEFINE net == Min(loc[t].todo)
             row == [net |-> net, ip |-> FreeAddress(loc[t].used)]
             todo == loc[t].todo \ {net}
             l == [loc[t] EXCEPT !.todo = todo, !.used = {}, !.rows = @ \cup {row}]
             p == IF todo = {} THEN "links" ELSE "used"
  <2>1. req[t] \in Requests /\ req[t].op = "container" /\ loc[t].todo # {}
    BY <1>1, <1>6, RowsType DEF PickAddress, SubnetFound, Shape
  <2>2. net \in Nat BY <1>1, <2>1, LocFields, MinOf
  <2>3. row \in RowType BY <2>2, AddressType DEF RowType
  <2>4. /\ l \in LocType /\ l.todo = todo /\ row \in l.rows
    <3> HIDE DEF row, todo
    <3>1. todo \in SUBSET Nat /\ loc[t].rows \cup {row} \in SUBSET RowType
      BY <1>1, <2>3, LocFields DEF todo
    <3>2. l \in LocType BY <1>1, <3>1, LocFields
    <3> QED BY <1>1, <3>2 DEF LocType
  <2>5. p \in Pcs BY DEF Pcs, Selects
  <2>6. /\ Goto(t, p) /\ UNCHANGED <<lock, req>> /\ seen' = [seen EXCEPT ![t] = None]
        /\ Set(t, l)
    BY <1>6 DEF PickAddress, Fetch
  <2> HIDE DEF row, l
  <2>7. LocalT' /\ Keeps(t) /\ pc'[t] = p /\ req'[t] = req[t] /\ loc'[t] = l
    BY <2>4, <2>5, <2>6, Moves
  <2> QED BY <2>1, <2>4, <2>7 DEF Shape
<1>7. CASE InsertLink(t)
  <2> DEFINE rest == loc[t].rows \ {NextRow(t)}
             l == [loc[t] EXCEPT !.rows = rest]
             p == IF rest # {} THEN "links" ELSE IF req[t].op = "attach" THEN "commit" ELSE "mounts"
  <2>1. /\ req[t] \in Requests /\ req[t].op \in {"container", "attach"}
        /\ req[t].op = "attach" => \A q, r \in loc[t].rows : q = r
    BY <1>1, <1>7 DEF InsertLink, Shape
  <2>2. l \in LocType /\ l.rows = rest
    <3>1. rest \in SUBSET RowType BY <1>1, LocFields
    <3> HIDE DEF rest
    <3> QED BY <1>1, <3>1, LocFields DEF LocType
  <2>3. p \in Pcs BY DEF Pcs
  <2>4. LocalT' /\ Keeps(t) /\ pc'[t] = p /\ req'[t] = req[t] /\ loc'[t] = l
    BY <1>7, <2>2, <2>3, Moves DEF InsertLink, Write
  <2>5. rest \subseteq loc[t].rows OBVIOUS
  <2> HIDE DEF rest, l
  <2> QED BY <2>1, <2>2, <2>4, <2>5 DEF Shape
<1>8. CASE LinkVolume(t)
  <2> DEFINE l == [loc[t] EXCEPT !.mounts = Tail(@)]
  <2>1. /\ req[t] \in Requests /\ req[t].op = "container" /\ loc[t].mounts # <<>>
    BY <1>1, <1>8 DEF LinkVolume, Shape
  <2>2. l \in LocType
    <3>1. Tail(loc[t].mounts) \in Seq(MountType)
      BY <1>1, <2>1, LocFields, HeadTailProperties
    <3> QED BY <1>1, <3>1, LocFields
  <2>3. "mounts" \in Pcs BY DEF Pcs
  <2>4. LocalT' /\ Keeps(t) /\ pc'[t] = "mounts" /\ req'[t] = req[t]
    BY <1>8, <2>2, <2>3, Moves DEF LinkVolume, Write
  <2> QED BY <2>1, <2>4 DEF Shape
<1>9. CASE VolumesLinked(t) \/ CreateDataset(t)
  <2>1. /\ req[t] \in Requests /\ req[t].op = "container"
    BY <1>1, <1>9 DEF VolumesLinked, CreateDataset, Shape
  <2>2. PICK p \in {"dataset", "commit", "rollback"} : Goto(t, p)
    BY <1>9 DEF VolumesLinked, CreateDataset
  <2>3. p \in Pcs BY DEF Pcs
  <2>4. LocalT' /\ Keeps(t) /\ pc'[t] = p /\ req'[t] = req[t]
    BY <1>1, <1>9, <2>2, <2>3, Moves DEF VolumesLinked, CreateDataset
  <2> QED BY <2>1, <2>4 DEF Shape
<1> QED BY <1>2, <1>3, <1>4, <1>5, <1>6, <1>7, <1>8, <1>9, <1>10, <1>11, <1>12, <1>13
        DEF ContainerStep, MountStep

LEMMA OtherLocal ==
  ASSUME Types, NEW t \in Threads, OtherStep(t)
  PROVE  LocalT' /\ Shape(t)' /\ Keeps(t)
<1>1. loc[t] \in LocType /\ Shape(t) BY DEF Types, LocalT, Shapes
<1>2. CASE NotAttachable(t) \/ FoundVolume(t) \/ InsertRefused(t)
  BY <1>2, ReplyStep DEF NotAttachable, FoundVolume, InsertRefused, Refuse, Raise
<1>3. CASE FindContainer(t)
  <2> DEFINE cid == Min(ContIds(Rows(t), req[t].name))
             l == [loc[t] EXCEPT !.cid = cid]
  <2>1. req[t] \in Requests /\ req[t].op = "attach" BY <1>1, <1>3, RowsType DEF FindContainer, Shape
  <2>2. cid \in Nat BY ZenonT(40), <1>3, RowsType, MinOf DEF FindContainer
  <2>3. /\ Set(t, l) /\ Goto(t, "findnet") /\ UNCHANGED <<lock, req>>
        /\ seen' = [seen EXCEPT ![t] = None]
    BY <1>3 DEF FindContainer, Fetch
  <2>4. l \in LocType
    <3> HIDE DEF cid
    <3> QED BY <1>1, <2>2, LocFields
  <2>5. "findnet" \in Pcs BY DEF Pcs, Selects
  <2> HIDE DEF l
  <2>6. LocalT' /\ Keeps(t) /\ pc'[t] = "findnet" /\ req'[t] = req[t]
    BY <2>3, <2>4, <2>5, Moves
  <2> QED BY <2>1, <2>6 DEF Shape
<1>7. CASE FindNetwork(t)
  <2> DEFINE todo == NetIds(Rows(t), {req[t].net})
             l == [loc[t] EXCEPT !.todo = todo]
  <2>1. req[t] \in Requests /\ req[t].op = "attach" BY <1>1, <1>7, RowsType DEF FindNetwork, Shape
  <2>2. todo \in SUBSET Nat /\ todo # {} BY <1>7, RowsType DEF FindNetwork
  <2>3. /\ Set(t, l) /\ Goto(t, "present") /\ UNCHANGED <<lock, req>>
        /\ seen' = [seen EXCEPT ![t] = None]
    BY <1>7 DEF FindNetwork, Fetch
  <2> HIDE DEF todo
  <2>4. l \in LocType /\ l.todo = todo BY <1>1, <2>2, LocFields DEF LocType
  <2>5. "present" \in Pcs BY DEF Pcs, Selects
  <2> HIDE DEF l
  <2>6. LocalT' /\ Keeps(t) /\ pc'[t] = "present" /\ req'[t] = req[t] /\ loc'[t] = l
    BY <2>3, <2>4, <2>5, Moves
  <2> QED BY <2>1, <2>2, <2>4, <2>6 DEF Shape
<1>8. CASE NotPresent(t)
  <2>1. req[t] \in Requests /\ req[t].op = "attach" /\ loc[t].todo # {}
    BY <1>1, <1>8, RowsType DEF NotPresent, Shape
  <2>2. "used" \in Pcs BY DEF Pcs, Selects
  <2>3. LocalT' /\ Keeps(t) /\ pc'[t] = "used" /\ req'[t] = req[t] /\ loc'[t] = loc[t]
    BY <1>1, <1>8, <2>2, Moves DEF NotPresent, Fetch
  <2> QED BY <2>1, <2>3 DEF Shape
<1>9. CASE LinkRefused(t)
  <2>1. req[t] \in Requests /\ req[t].op = "attach"
    BY <1>1, <1>9 DEF LinkRefused, Refused, Shape
  <2>2. "rollback" \in Pcs BY DEF Pcs
  <2>3. LocalT' /\ Keeps(t) /\ pc'[t] = "rollback" /\ req'[t] = req[t]
    BY <1>1, <1>9, <2>2, Moves DEF LinkRefused
  <2> QED BY <2>1, <2>3 DEF Shape
<1>4. CASE AttachAddress(t)
  <2> DEFINE ip == FreeAddress(loc[t].used)
             row == [net |-> Min(loc[t].todo), ip |-> ip]
             l == [loc[t] EXCEPT !.todo = {}, !.used = {}, !.rows = {row}]
             p == IF ip = NoAddress THEN "rollback" ELSE "links"
  <2>1. req[t] \in Requests /\ req[t].op = "attach" /\ loc[t].todo # {}
    BY <1>1, <1>4, RowsType DEF AttachAddress, SubnetFound, Shape
  <2>2. row \in RowType BY ZenonT(40), <1>1, <2>1, LocFields, MinOf, AddressType DEF RowType
  <2>3. Set(t, l) /\ Goto(t, p) /\ UNCHANGED <<lock, req>> /\ seen' = [seen EXCEPT ![t] = None]
    BY <1>4 DEF AttachAddress, Fetch
  <2>4. l \in LocType /\ l.rows = {row}
    <3> HIDE DEF row
    <3>1. {} \in SUBSET Nat /\ {row} \in SUBSET RowType BY <2>2
    <3> QED BY <1>1, <3>1, LocFields DEF LocType
  <2>5. p \in Pcs BY DEF Pcs
  <2>6. LocalT' /\ Keeps(t) /\ pc'[t] = p /\ req'[t] = req[t] /\ loc'[t] = l
    <3> HIDE DEF l, p
    <3> QED BY <2>3, <2>4, <2>5, Moves
  <2> HIDE DEF l, row
  <2> QED BY <2>1, <2>4, <2>6 DEF Shape
<1>5. CASE NoSuchVolume(t) \/ InsertVolume(t) \/ UpdateStatus(t)
  <2> DEFINE p == CASE pc[t] = "vol" -> "insvol" [] pc[t] = "insvol" -> "mkdir"
                    [] pc[t] = "update" -> "commit"
  <2>1. /\ req[t] \in Requests /\ req[t].op = (IF pc[t] = "update" THEN "status" ELSE "volume")
        /\ Goto(t, p) /\ p \in {"insvol", "mkdir", "commit"}
        /\ UNCHANGED <<lock, req, loc>> /\ (UNCHANGED seen \/ seen' = [seen EXCEPT ![t] = None])
        /\ (pc[t] = "update" => p = "commit")
    BY <1>1, <1>5, RowsType DEF NoSuchVolume, InsertVolume, UpdateStatus, Shape, Write, Fetch
  <2>2. p \in Pcs BY <2>1 DEF Pcs
  <2> HIDE DEF p
  <2>3. LocalT' /\ Keeps(t) /\ pc'[t] = p /\ req'[t] = req[t]
    BY <1>1, <2>1, <2>2, Moves
  <2> QED BY <2>1, <2>3 DEF Shape
<1>6. CASE VolumeDirectory(t)
  <2>1. req[t] \in Requests /\ req[t].op = "volume" BY <1>1, <1>6 DEF VolumeDirectory, Shape
  <2>2. CASE Raise(t) BY <2>2, ReplyStep DEF Raise
  <2>3. CASE ~Raise(t)
    <3>1. "commit" \in Pcs BY DEF Pcs
    <3>2. LocalT' /\ Keeps(t) /\ pc'[t] = "commit" /\ req'[t] = req[t]
      BY <1>1, <1>6, <2>3, <3>1, Moves DEF VolumeDirectory
    <3> QED BY <2>1, <3>2 DEF Shape
  <2> QED BY <2>2, <2>3
<1> QED BY <1>2, <1>3, <1>4, <1>5, <1>6, <1>7, <1>8, <1>9 DEF OtherStep

LEMMA ServeLocal ==
  ASSUME Types, NEW t \in Threads, Serve(t)
  PROVE  LocalT' /\ Shape(t)' /\ Keeps(t)
<1>1. LocalT /\ loc[t] \in LocType /\ Shape(t) /\ view \in Databases
  BY DEF Types, LocalT, Shapes, SessionT
<1>2. CASE Acquire(t)
  <2> DEFINE p == FirstStatement(req[t])
  <2>1. req[t] \in Requests /\ req[t].op # "network" BY <1>1, <1>2 DEF Acquire, Shape
  <2>2. /\ p = (IF req[t].op = "container" THEN IF req[t].nets = {} THEN "image" ELSE "nets"
                ELSE IF req[t].op = "attach" THEN "find"
                ELSE IF req[t].op = "volume" THEN "vol" ELSE "update")
    BY <2>1, RequestFields DEF FirstStatement
  <2>3. p \in Pcs BY <2>2 DEF Pcs, Selects
  <2> HIDE DEF p
  <2>4. LocalT' /\ Keeps(t) /\ pc'[t] = p /\ req'[t] = req[t]
    BY <1>1, <1>2, <2>3 DEF Acquire, Goto, LocalT, Keeps, p
  <2> QED BY <2>1, <2>2, <2>4, RequestFields DEF Shape
<1>3. CASE Select(t)
  BY <1>1, <1>3 DEF Select, LocalT, Shape, Keeps
<1>4. CASE FetchRaises(t) \/ Commit(t) \/ Rollback(t)
  BY <1>4, ReplyStep DEF FetchRaises, Commit, Rollback, Raise
<1> QED BY <1>2, <1>3, <1>4, NetworkLocal, ContainerLocal, OtherLocal DEF Serve

LEMMA RequestLocal ==
  ASSUME Types, NEW t \in Threads, NEW r \in Requests, Begin(t, r)
  PROVE  LocalT' /\ Shape(t)' /\ Keeps(t)
<1> DEFINE p == IF r.op = "network" THEN "names" ELSE "lock"
<1>1. LocalT /\ p \in Pcs BY DEF Types, Pcs, Selects
<1>2. LocalT' /\ pc'[t] = p /\ req'[t] = r /\ Keeps(t) BY <1>1 DEF Begin, Goto, LocalT, Keeps
<1> QED BY <1>2 DEF Shape

-----------------------------------------------------------------------------
(* The database.                                                            *)

Writes(t) ==
  \/ InsertAllocated(t) \/ InsertNetwork(t) \/ InsertContainer(t)
  \/ InsertLink(t) \/ LinkVolume(t) \/ InsertVolume(t)
  \/ AnonymousVolume(t) \/ InsertMounted(t)

(* The other statements leave the database as it is.                         *)
LEMMA Quiet ==
  ASSUME Types, NEW t \in Threads, Serve(t), ~Writes(t), ~Commit(t), ~Rollback(t)
  PROVE  /\ UNCHANGED <<view, disk, lastrow, created>> /\ cursor' \in {cursor, t}
         /\ stranded' \in BOOLEAN /\ (stranded => stranded')
         /\ stranded' # stranded => Inserted(t) /\ Reply(t)
<1>1. stranded \in BOOLEAN BY DEF Types, SessionT
<1>2. CASE Acquire(t) \/ Select(t) \/ FetchRaises(t)
  BY <1>1, <1>2 DEF Acquire, Select, FetchRaises, Raise, session
<1>3. CASE NetworkStep(t)
  BY <1>1, <1>3 DEF NetworkStep, Writes, FoundName, NoSuchName, AllocateSubnet, PoolExhausted,
     Refuse, Raise, Fetch, session
<1>4. CASE ContainerStep(t)
  <2>1. CASE MountStep(t)
    BY <1>1, <1>4, <2>1 DEF MountStep, Writes, VolumeId, NoVolumeId, VolumeRaises, VolumesLinked,
       Raise, Fetch, session
  <2>2. CASE ~MountStep(t)
    BY <1>1, <1>4, <2>2 DEF ContainerStep, Writes, FindNetworks, MissingNetworks, FindVolumes,
       MissingOptions, FindImage, InvalidImage, NoSuchVariable, RowId, UsedAddresses, NoSubnet,
       PickAddress, CreateDataset, NoImageData, Refuse, Raise, Fetch, session
  <2> QED BY <2>1, <2>2
<1>5. CASE OtherStep(t)
  BY <1>1, <1>5 DEF OtherStep, Writes, FindContainer, FindNetwork, NotPresent, NotAttachable,
     AttachAddress, LinkRefused, FoundVolume, NoSuchVolume, VolumeDirectory, UpdateStatus,
     InsertRefused, Refuse, Raise, Fetch, session
<1> QED BY <1>2, <1>3, <1>4, <1>5 DEF Serve

(* What the statements that write make of it.                                *)
LEMMA AllocatedStep ==
  ASSUME Types, NEW t \in Threads, InsertAllocated(t)
  PROVE  /\ view' \in Databases /\ lastrow' \in Nat
         /\ view'.nets = view.nets /\ view'.conts = view.conts /\ view'.links = view.links
         /\ view'.vols = view.vols /\ view'.vlinks = view.vlinks
         /\ Range(view'.alloc) = Range(view.alloc) \cup {loc[t].subnet}
<1> DEFINE alloc == Append(view.alloc, loc[t].subnet)
<1>1. view \in Databases /\ view.alloc \in Seq(Subnets) /\ loc[t].subnet \in Subnets
  BY Fields DEF Types, SessionT, Shapes, Shape, InsertAllocated
<1>2. alloc \in Seq(Subnets) /\ Len(alloc) \in Nat
  BY <1>1
<1>3. view' = [view EXCEPT !.alloc = alloc] /\ lastrow' = Len(alloc)
  BY DEF InsertAllocated, Write
<1>4. Range(alloc) = Range(view.alloc) \cup {loc[t].subnet} BY <1>1, Appended
<1> HIDE DEF alloc
<1> QED BY <1>1, <1>2, <1>3, <1>4, Updates DEF Databases

LEMMA NetworkRowStep ==
  ASSUME Types, NEW t \in Threads, InsertNetwork(t)
  PROVE  /\ view' \in Databases /\ lastrow' \in Nat
         /\ view'.nets = Append(view.nets, NetworkRow(t)) /\ NetworkRow(t) \in NetType
         /\ view'.alloc = view.alloc /\ view'.conts = view.conts /\ view'.links = view.links
         /\ view'.vols = view.vols /\ view'.vlinks = view.vlinks
<1> DEFINE nets == Append(view.nets, NetworkRow(t))
<1>1. /\ view \in Databases /\ view.nets \in Seq(NetType) /\ loc[t].subnet \in Subnets
      /\ req[t] \in Requests /\ req[t].op = "network"
  BY Fields DEF Types, SessionT, Shapes, Shape, InsertNetwork
<1>2. NetworkRow(t) \in NetType BY <1>1, RequestFields DEF NetworkRow, NetType
<1>3. nets \in Seq(NetType) /\ Len(nets) \in Nat BY <1>1, <1>2
<1>4. view' = [view EXCEPT !.nets = nets] /\ lastrow' = Len(nets)
  BY DEF InsertNetwork, Write
<1> HIDE DEF nets
<1>5. view'.nets = nets BY <1>1, <1>4 DEF Databases
<1> QED BY <1>1, <1>2, <1>3, <1>4, <1>5, Updates DEF Databases, nets

LEMMA ContainerRowStep ==
  ASSUME Types, NEW t \in Threads, InsertContainer(t)
  PROVE  /\ view' \in Databases /\ lastrow' = Len(view.conts) + 1
         /\ view'.conts = Append(view.conts, req[t].name) /\ req[t].name \in ContNames
         /\ view'.alloc = view.alloc /\ view'.nets = view.nets /\ view'.links = view.links
         /\ view'.vols = view.vols /\ view'.vlinks = view.vlinks
<1> DEFINE conts == Append(view.conts, req[t].name)
<1>1. /\ view \in Databases /\ view.conts \in Seq(ContNames)
      /\ req[t] \in Requests /\ req[t].op = "container"
  BY Fields DEF Types, SessionT, Shapes, Shape, InsertContainer
<1>2. req[t].name \in ContNames BY <1>1, RequestFields
<1>3. conts \in Seq(ContNames) /\ Len(conts) = Len(view.conts) + 1 BY <1>1, <1>2
<1>4. view' = [view EXCEPT !.conts = conts] /\ lastrow' = Len(conts)
  BY DEF InsertContainer, Write
<1> HIDE DEF conts
<1>5. view'.conts = conts BY <1>1, <1>4 DEF Databases
<1> QED BY <1>1, <1>2, <1>3, <1>4, <1>5, Updates DEF Databases, conts

LEMMA NextRowIn ==
  ASSUME NEW t \in Threads, loc[t].rows # {}, loc[t].rows \subseteq RowType
  PROVE  NextRow(t) \in loc[t].rows /\ NextRow(t) \in RowType
<1> DEFINE nets == {r.net : r \in loc[t].rows}
<1>1. nets \in SUBSET Nat /\ nets # {} BY DEF RowType
<1>2. Min(nets) \in nets /\ \A n \in nets : Min(nets) <= n BY <1>1, MinOf
<1>3. PICK r \in loc[t].rows : r.net = Min(nets) BY <1>2
<1>4. \A q \in loc[t].rows : r.net <= q.net BY <1>2, <1>3
<1> QED BY <1>3, <1>4 DEF NextRow

Link(t) == [net |-> NextRow(t).net, cont |-> loc[t].cid, ip |-> NextRow(t).ip]

LEMMA LinkStep ==
  ASSUME Types, NEW t \in Threads, InsertLink(t)
  PROVE  /\ view' \in Databases /\ lastrow' \in Nat
         /\ view'.links = view.links \cup {Link(t)} /\ Link(t) \in LinkType
         /\ NextRow(t) \in loc[t].rows
         /\ loc'[t].rows = loc[t].rows \ {NextRow(t)} /\ loc'[t].cid = loc[t].cid
         /\ loc'[t].todo = loc[t].todo /\ loc'[t].mounts = loc[t].mounts
         /\ view'.alloc = view.alloc /\ view'.nets = view.nets /\ view'.conts = view.conts
         /\ view'.vols = view.vols /\ view'.vlinks = view.vlinks
<1>1. /\ view \in Databases /\ Finite(view) /\ loc \in [Threads -> LocType] /\ loc[t] \in LocType
      /\ loc[t].rows # {}
  BY DEF Types, SessionT, LocalT, Shapes, Shape, InsertLink
<1>2. loc[t].rows \subseteq RowType /\ loc[t].cid \in Nat BY <1>1, LocFields
<1>3. NextRow(t) \in loc[t].rows /\ NextRow(t) \in RowType BY <1>1, <1>2, NextRowIn
<1>4. Link(t) \in LinkType BY <1>2, <1>3 DEF Link, RowType, LinkType
<1>5. view.links \cup {Link(t)} \in SUBSET LinkType BY <1>1, <1>4, Fields
<1>6. /\ view' = [view EXCEPT !.links = @ \cup {Link(t)}]
      /\ lastrow' = Cardinality(view.links) + 1
      /\ loc' = [loc EXCEPT ![t] = [loc[t] EXCEPT !.rows = loc[t].rows \ {NextRow(t)}]]
  BY DEF InsertLink, Write, Set, Link
<1>7. lastrow' \in Nat BY <1>1, <1>6, FS_CardinalityType DEF Finite
<1>8. loc'[t] = [loc[t] EXCEPT !.rows = loc[t].rows \ {NextRow(t)}] BY <1>1, <1>6
<1>9. /\ loc'[t].rows = loc[t].rows \ {NextRow(t)} /\ loc'[t].cid = loc[t].cid
      /\ loc'[t].todo = loc[t].todo /\ loc'[t].mounts = loc[t].mounts
  BY <1>1, <1>8 DEF LocType
<1> HIDE DEF NextRow, Link
<1>10. view' \in Databases BY <1>1, <1>5, <1>6, Updates
<1>11. view'.links = view.links \cup {Link(t)} BY <1>1, <1>6 DEF Databases
<1> QED BY <1>1, <1>3, <1>4, <1>6, <1>7, <1>9, <1>10, <1>11 DEF Databases

LEMMA VolumeLinkStep ==
  ASSUME Types, NEW t \in Threads, LinkVolume(t)
  PROVE  /\ view' \in Databases /\ lastrow' \in Nat
         /\ view'.vlinks = view.vlinks \cup {VolumeLink(t)} /\ VolumeLink(t) \in VlinkType
         /\ loc[t].mounts # <<>> /\ loc[t].mounts \in Seq(MountType)
         /\ loc'[t].mounts = Tail(loc[t].mounts) /\ loc'[t].cid = loc[t].cid
         /\ view'.alloc = view.alloc /\ view'.nets = view.nets /\ view'.conts = view.conts
         /\ view'.links = view.links /\ view'.vols = view.vols
<1>1. /\ view \in Databases /\ Finite(view) /\ loc \in [Threads -> LocType] /\ loc[t] \in LocType
      /\ loc[t].mounts # <<>>
  BY DEF Types, SessionT, LocalT, Shapes, Shape, LinkVolume
<1>2. loc[t].mounts \in Seq(MountType) /\ loc[t].cid \in Nat BY <1>1, LocFields
<1>3. Head(loc[t].mounts) \in MountType BY <1>1, <1>2, HeadTailProperties
<1>4. VolumeLink(t) \in VlinkType BY <1>2, <1>3 DEF VolumeLink, VlinkType, MountType
<1> DEFINE vlinks == view.vlinks \cup {VolumeLink(t)}
<1>5. vlinks \in SUBSET VlinkType BY <1>1, <1>4, Fields
<1>6. /\ view' = [view EXCEPT !.vlinks = vlinks]
      /\ lastrow' = Cardinality(view.vlinks) + 1
      /\ loc' = [loc EXCEPT ![t] = [loc[t] EXCEPT !.mounts = Tail(@)]]
  BY DEF LinkVolume, Write, Set
<1>7. lastrow' \in Nat BY <1>1, <1>6, FS_CardinalityType DEF Finite
<1>8. loc'[t] = [loc[t] EXCEPT !.mounts = Tail(@)] BY <1>1, <1>6
<1>9. loc'[t].mounts = Tail(loc[t].mounts) /\ loc'[t].cid = loc[t].cid
  BY <1>1, <1>8 DEF LocType
<1> HIDE DEF vlinks
<1>10. view' \in Databases BY <1>1, <1>5, <1>6, Updates
<1>11. view'.vlinks = vlinks BY <1>1, <1>6 DEF Databases
<1> QED BY <1>1, <1>2, <1>4, <1>6, <1>7, <1>9, <1>10, <1>11 DEF Databases, vlinks

LEMMA VolumeWritten ==
  ASSUME Types, NEW v \in VolNames, NEW vols, vols = view.vols \cup {v},
         view' = [view EXCEPT !.vols = vols]
  PROVE  /\ view' \in Databases /\ IsFiniteSet(vols) /\ view'.vols = vols
         /\ view'.alloc = view.alloc /\ view'.nets = view.nets /\ view'.conts = view.conts
         /\ view'.links = view.links /\ view'.vlinks = view.vlinks
<1>1. view \in Databases /\ IsFiniteSet(view.vols) BY DEF Types, SessionT, Finite
<1>2. vols \in SUBSET VolNames BY <1>1, Fields
<1>3. IsFiniteSet(vols) BY <1>1, FS_AddElement
<1>4. view' \in Databases BY <1>1, <1>2, Updates
<1> QED BY <1>1, <1>3, <1>4 DEF Databases

LEMMA VolumeRowStep ==
  ASSUME Types, NEW t \in Threads, InsertVolume(t)
  PROVE  /\ view' \in Databases /\ lastrow' \in Nat /\ IsFiniteSet(view'.vols)
         /\ view'.vols = view.vols \cup {req[t].name}
         /\ view'.alloc = view.alloc /\ view'.nets = view.nets /\ view'.conts = view.conts
         /\ view'.links = view.links /\ view'.vlinks = view.vlinks
<1>1. /\ view \in Databases /\ Finite(view) /\ req[t] \in Requests /\ req[t].op = "volume"
  BY DEF Types, SessionT, Shapes, Shape, InsertVolume
<1>2. req[t].name \in VolNames BY <1>1, RequestFields
<1> DEFINE vols == view.vols \cup {req[t].name}
<1>3. view' = [view EXCEPT !.vols = vols] /\ lastrow' = Cardinality(view.vols) + 1
  BY DEF InsertVolume, Write
<1>4. lastrow' \in Nat BY <1>1, <1>3, FS_CardinalityType DEF Finite
<1>5. vols = view.vols \cup {req[t].name} OBVIOUS
<1> HIDE DEF vols
<1>6. /\ view' \in Databases /\ IsFiniteSet(vols) /\ view'.vols = vols
      /\ view'.alloc = view.alloc /\ view'.nets = view.nets /\ view'.conts = view.conts
      /\ view'.links = view.links /\ view'.vlinks = view.vlinks
  BY <1>2, <1>3, <1>5, VolumeWritten
<1> QED BY <1>4, <1>5, <1>6

(* The volumes that create_container inserts if they are not there.          *)
Ignores(t) == AnonymousVolume(t) \/ InsertMounted(t)
LEMMA IgnoreStep ==
  ASSUME Types, NEW t \in Threads, Ignores(t)
  PROVE  /\ view' \in Databases /\ lastrow' \in Nat /\ IsFiniteSet(view'.vols)
         /\ view.vols \subseteq view'.vols
         /\ view'.alloc = view.alloc /\ view'.nets = view.nets /\ view'.conts = view.conts
         /\ view'.links = view.links /\ view'.vlinks = view.vlinks
         /\ UNCHANGED loc
<1>1. /\ view \in Databases /\ Finite(view) /\ loc[t] \in LocType /\ lastrow \in Nat
  BY DEF Types, SessionT, LocalT
<1>2. PICK v \in VolNames : InsertOrIgnore(t, v)
  <2>1. CASE AnonymousVolume(t) BY <2>1, CatalogAssumption DEF AnonymousVolume
  <2>2. CASE InsertMounted(t)
    <3>1. loc[t].mounts \in Seq(MountType) /\ loc[t].mounts # <<>>
      BY <1>1, <2>2, LocFields DEF InsertMounted
    <3>2. Head(loc[t].mounts) \in MountType BY <3>1, HeadTailProperties
    <3>3. VolumeLink(t).vol \in VolNames BY <3>2 DEF VolumeLink, MountType
    <3> QED BY <2>2, <3>3 DEF InsertMounted
  <2> QED BY <2>1, <2>2 DEF Ignores
<1> DEFINE vols == view.vols \cup {v}
<1>3. /\ view' = [view EXCEPT !.vols = vols]
      /\ lastrow' = (IF v \in view.vols THEN lastrow ELSE Cardinality(vols))
  BY <1>2 DEF InsertOrIgnore, Write
<1>4. vols = view.vols \cup {v} OBVIOUS
<1> HIDE DEF vols
<1>5. /\ view' \in Databases /\ IsFiniteSet(vols) /\ view'.vols = vols
      /\ view'.alloc = view.alloc /\ view'.nets = view.nets /\ view'.conts = view.conts
      /\ view'.links = view.links /\ view'.vlinks = view.vlinks
  BY <1>3, <1>4, VolumeWritten
<1>6. lastrow' \in Nat BY <1>1, <1>3, <1>5, FS_CardinalityType
<1>7. UNCHANGED loc BY DEF Ignores, AnonymousVolume, InsertMounted
<1> QED BY <1>4, <1>5, <1>6, <1>7

LEMMA WriteFrame ==
  ASSUME NEW t \in Threads, Writes(t)
  PROVE  UNCHANGED <<disk, lock, req, seen, created, stranded>> /\ cursor' = t
  BY DEF Writes, Write, InsertAllocated, InsertNetwork, InsertContainer, InsertLink,
     LinkVolume, InsertVolume, AnonymousVolume, InsertMounted, InsertOrIgnore

LEMMA WriteTypes ==
  ASSUME Types, NEW t \in Threads, Writes(t)
  PROVE  view' \in Databases /\ Finite(view') /\ lastrow' \in Nat
<1> USE DEF Finite
<1>1. view \in Databases /\ Finite(view) BY DEF Types, SessionT
<1>2. CASE InsertAllocated(t) BY <1>1, <1>2, AllocatedStep
<1>3. CASE InsertNetwork(t) BY <1>1, <1>3, NetworkRowStep
<1>4. CASE InsertContainer(t)
  <2>1. view.conts \in Seq(ContNames) BY <1>1, Fields
  <2>2. Len(view.conts) + 1 \in Nat BY <2>1
  <2> QED BY <1>1, <1>4, <2>2, ContainerRowStep
<1>5. CASE InsertLink(t)
  <2>1. IsFiniteSet(view.links \cup {Link(t)}) BY <1>1, FS_AddElement
  <2> QED BY <1>1, <1>5, <2>1, LinkStep
<1>6. CASE LinkVolume(t)
  <2>1. IsFiniteSet(view.vlinks \cup {VolumeLink(t)}) BY <1>1, FS_AddElement
  <2> QED BY <1>1, <1>6, <2>1, VolumeLinkStep
<1>7. CASE InsertVolume(t) BY <1>1, <1>7, VolumeRowStep
<1>8. CASE Ignores(t) BY <1>1, <1>8, IgnoreStep
<1> QED BY <1>2, <1>3, <1>4, <1>5, <1>6, <1>7, <1>8 DEF Writes, Ignores

LEMMA ServeSession ==
  ASSUME Types, NEW t \in Threads, Serve(t)
  PROVE  SessionT' /\ (created \subseteq Requests)'
<1>1. SessionT /\ created \subseteq Requests BY DEF Types
<1>2. CASE Writes(t)
  <2>1. UNCHANGED <<disk, created, stranded>> /\ cursor' = t BY <1>2, WriteFrame
  <2>2. view' \in Databases /\ Finite(view') /\ lastrow' \in Nat BY <1>2, WriteTypes
  <2> QED BY <1>1, <2>1, <2>2 DEF SessionT, Finite
<1>3. CASE Commit(t)
  <2>1. /\ disk' = view /\ view' = view /\ lastrow' = lastrow /\ stranded' = FALSE
        /\ cursor' \in {cursor, t} /\ created' \subseteq created \cup {req[t]} /\ pc[t] = "commit"
    BY <1>3 DEF Commit
  <2>2. req[t] \in Requests BY <2>1 DEF Types, Shapes, Shape
  <2> QED BY <1>1, <2>1, <2>2 DEF SessionT, Finite
<1>4. CASE Rollback(t)
  BY <1>1, <1>4 DEF Rollback, SessionT, Finite
<1>5. CASE ~Writes(t) /\ ~Commit(t) /\ ~Rollback(t)
  BY <1>1, <1>5, Quiet DEF SessionT, Finite
<1> QED BY <1>2, <1>3, <1>4, <1>5

LEMMA RestartTypes ==
  ASSUME Types, NEW db \in Databases, Finite(db), Restart(db)
  PROVE  Types'
<1>1. SessionT' BY DEF Restart, SessionT, Finite
<1>2. LocalT' BY NoLocalsType DEF Restart, LocalT, Pcs
<1>3. Shapes' BY DEF Restart, Shapes, Shape
<1> QED BY <1>1, <1>2, <1>3 DEF Types, Restart

LEMMA OthersKeepShape ==
  ASSUME Types, NEW t \in Threads, Keeps(t), Shape(t)'
  PROVE  Shapes'
<1>1. ASSUME NEW s \in Threads \ {t} PROVE Shape(s)'
  <2>1. Shape(s) BY DEF Types, Shapes
  <2>2. pc'[s] = pc[s] /\ req'[s] = req[s] /\ loc'[s] = loc[s] BY DEF Keeps
  <2> QED BY <2>1, <2>2 DEF Shape
<1> QED BY <1>1 DEF Shapes

LEMMA TypesStep ==
  ASSUME Types, [Next]_vars
  PROVE  Types'
<1>1. view \in Databases /\ disk \in Databases /\ Finite(view) /\ Finite(disk)
  BY DEF Types, SessionT
<1>2. CASE UNCHANGED vars
  BY <1>2 DEF Types, SessionT, LocalT, Shapes, Shape, vars, Finite
<1>3. CASE Request
  <2>1. PICK t \in Threads, r \in Requests : Begin(t, r) BY <1>3 DEF Request
  <2>2. LocalT' /\ Shape(t)' /\ Keeps(t) BY <2>1, RequestLocal
  <2>3. SessionT' /\ (created \subseteq Requests)'
    BY <2>1 DEF Begin, session, Types, SessionT, Finite
  <2> QED BY <2>2, <2>3, OthersKeepShape DEF Types
<1>4. ASSUME NEW t \in Threads, Serve(t) PROVE Types'
  <2>1. LocalT' /\ Shape(t)' /\ Keeps(t) BY <1>4, ServeLocal
  <2>2. SessionT' /\ (created \subseteq Requests)' BY <1>4, ServeSession
  <2> QED BY <2>1, <2>2, OthersKeepShape DEF Types
<1>5. CASE Crash \/ Terminate BY <1>1, <1>5, RestartTypes DEF Crash, Terminate
<1> QED BY <1>2, <1>3, <1>4, <1>5 DEF Next

LEMMA TypesInit == Init => Types
<1> SUFFICES ASSUME Init PROVE Types OBVIOUS
<1>1. Finite(EmptyDatabase) BY FS_EmptySet, NothingStored DEF Finite
<1>2. SessionT BY <1>1, NothingStored DEF Init, SessionT
<1>3. LocalT BY NoLocalsType DEF Init, LocalT, Pcs
<1>4. Shapes BY DEF Init, Shapes, Shape
<1> QED BY <1>2, <1>3, <1>4 DEF Types, Init

LEMMA TypesAlways == Spec => []Types
<1>1. Init => Types BY TypesInit
<1>2. Types /\ [Next]_vars => Types' BY TypesStep
<1> QED BY <1>1, <1>2, PTL DEF Spec

(* The database, the rows in every thread's hands and its variables have    *)
(* the types that the statements of the other threads expect of them.       *)
THEOREM TypeCorrect == Spec => []TypeOK
<1>1. Types => TypeOK
  BY DEF Types, SessionT, LocalT, TypeOK, LocType, RowType, MountType
<1> QED BY <1>1, TypesAlways, PTL

-----------------------------------------------------------------------------
(* Open transactions.                                                       *)

(* Where a statement that writes leads, and from where.                      *)
LEMMA WriteGoes ==
  ASSUME Types, NEW t \in Threads, Writes(t)
  PROVE  /\ LocalT' /\ Keeps(t) /\ req'[t] = req[t] /\ Shape(t) /\ req[t] \in Requests
         /\ Pending(t)'
<1>1. /\ LocalT' /\ Keeps(t) /\ LocalT /\ Shape(t) /\ req'[t] = req[t]
  BY ServeLocal, WriteFrame DEF Writes, Serve, NetworkStep, ContainerStep, MountStep, OtherStep,
     Types, Shapes
<1>2. pc \in [Threads -> Pcs] BY <1>1 DEF LocalT
<1>3. req[t] \in Requests
  BY <1>1 DEF Writes, InsertAllocated, InsertNetwork, InsertContainer, InsertLink, LinkVolume,
     InsertVolume, AnonymousVolume, InsertMounted, Shape
<1>4. CASE InsertAllocated(t) \/ InsertNetwork(t) \/ InsertContainer(t) \/ InsertVolume(t)
  <2>1. pc'[t] \in {"insnet", "commit", "rowid", "mkdir"}
    BY <1>2, <1>4 DEF InsertAllocated, InsertNetwork, InsertContainer, InsertVolume, Goto
  <2> QED BY <1>1, <1>3, <2>1 DEF Pending, Inserted
<1>5. CASE InsertLink(t)
  <2> DEFINE rest == loc[t].rows \ {NextRow(t)}
  <2>1. /\ pc[t] = "links" /\ req[t].op \in {"container", "attach"}
        /\ req[t].op = "attach" => \A p, q \in loc[t].rows : p = q
    BY <1>1, <1>5 DEF InsertLink, Shape
  <2>2. req[t].op = "attach" => rest = {} BY <1>5, <2>1, LinkStep
  <2>3. pc'[t] = IF rest # {} THEN "links" ELSE IF req[t].op = "attach" THEN "commit" ELSE "mounts"
    BY <1>2, <1>5 DEF InsertLink, Goto
  <2> HIDE DEF rest
  <2> QED BY <1>1, <1>3, <2>1, <2>2, <2>3 DEF Pending, Inserted
<1>6. CASE LinkVolume(t) \/ AnonymousVolume(t) \/ InsertMounted(t)
  <2>1. pc'[t] \in {"mounts", "noname", "volid"}
    BY <1>2, <1>6 DEF LinkVolume, AnonymousVolume, InsertMounted, Goto
  <2> QED BY <1>1, <1>3, <2>1 DEF Pending, Inserted
<1> QED BY <1>1, <1>3, <1>4, <1>5, <1>6 DEF Writes

LEMMA PendingStep ==
  ASSUME Types, NEW t \in Threads, Serve(t), ~Writes(t), ~Commit(t), ~Rollback(t), Pending(t)
  PROVE  stranded' \/ Pending(t)'
<1>1. /\ LocalT /\ pc \in [Threads -> Pcs] /\ Shape(t)
  BY DEF Types, LocalT, Shapes
<1>2. ASSUME Raise(t), pc[t] \notin {"commit", "rollback"} PROVE stranded'
  BY <1>2 DEF Raise, Pending
<1>3. CASE Acquire(t) \/ Select(t) \/ FetchRaises(t)
  <2>1. CASE Acquire(t) BY <2>1 DEF Acquire, Pending, Inserted
  <2>2. CASE Select(t) BY <2>2 DEF Select, Pending, Inserted
  <2>3. CASE FetchRaises(t) BY <1>2, <2>3 DEF FetchRaises, Selects
  <2> QED BY <1>3, <2>1, <2>2, <2>3
<1>4. CASE NetworkStep(t)
  BY <1>1, <1>4 DEF NetworkStep, Writes, FoundName, NoSuchName, AllocateSubnet, PoolExhausted,
     Fetched, Pending, Inserted
<1>5. CASE ContainerStep(t)
  <2>1. CASE \/ FindNetworks(t) \/ MissingNetworks(t) \/ FindVolumes(t) \/ MissingOptions(t)
             \/ FindImage(t) \/ InvalidImage(t)
    BY <2>1 DEF FindNetworks, MissingNetworks, FindVolumes, MissingOptions, FindImage, InvalidImage,
       Fetched, Pending, Inserted
  <2>2. CASE RowId(t)
    <3>1. pc'[t] \in {"mounts", "used"} /\ req'[t] = req[t] /\ req[t].op = "container"
      BY <1>1, <2>2 DEF RowId, Goto, Shape
    <3> QED BY <3>1 DEF Pending, Inserted
  <2>3. CASE UsedAddresses(t) \/ PickAddress(t)
    <3>1. pc'[t] \in {"links", "used", "subnet"} /\ req'[t] = req[t] /\ pc[t] \in {"used", "subnet"}
      BY <1>1, <2>3 DEF UsedAddresses, PickAddress, SubnetFound, Goto, Fetch, Fetched
    <3>2. req[t].op = "container" BY <3>1 DEF Pending, Inserted
    <3> QED BY <3>1, <3>2 DEF Pending, Inserted
  <2>4. CASE VolumeId(t) \/ VolumesLinked(t) \/ CreateDataset(t)
    <3>1. pc'[t] \in {"vlink", "dataset", "commit", "rollback"}
      BY <1>1, <2>4 DEF VolumeId, VolumesLinked, CreateDataset, Goto
    <3> QED BY <3>1 DEF Pending, Inserted
  <2>5. CASE NoSuchVariable(t) \/ NoSubnet(t) \/ NoVolumeId(t) \/ VolumeRaises(t) \/ NoImageData(t)
    BY <1>2, <2>5 DEF NoSuchVariable, NoSubnet, NoVolumeId, VolumeRaises, NoImageData, Fetched
  <2> QED BY <1>5, <2>1, <2>2, <2>3, <2>4, <2>5 DEF ContainerStep, MountStep, Writes
<1>6. CASE OtherStep(t)
  <2>1. CASE \/ FindContainer(t) \/ FindNetwork(t) \/ NotPresent(t) \/ NotAttachable(t)
             \/ FoundVolume(t) \/ NoSuchVolume(t) \/ UpdateStatus(t)
    BY <2>1 DEF FindContainer, FindNetwork, NotPresent, NotAttachable, FoundVolume, NoSuchVolume,
       UpdateStatus, Fetched, Pending, Inserted
  <2>2. CASE AttachAddress(t)
    BY <2>2 DEF AttachAddress, SubnetFound, Fetched, Pending, Inserted
  <2>3. CASE VolumeDirectory(t)
    <3>1. CASE Raise(t) BY <1>2, <2>3, <3>1 DEF VolumeDirectory
    <3>2. CASE Goto(t, "commit")
      <4>1. pc'[t] = "commit" BY <1>1, <3>2 DEF Goto
      <4> QED BY <4>1 DEF Pending
    <3> QED BY <2>3, <3>1, <3>2 DEF VolumeDirectory
  <2>4. CASE InsertRefused(t)
    <3>1. pc[t] \notin {"commit", "rollback"} BY <2>4 DEF InsertRefused, Refused
    <3> QED BY <1>2, <2>4, <3>1 DEF InsertRefused
  <2>5. CASE LinkRefused(t)
    <3>1. pc'[t] = "rollback" BY <1>1, <2>5 DEF LinkRefused, Goto
    <3> QED BY <3>1 DEF Pending
  <2> QED BY <1>6, <2>1, <2>2, <2>3, <2>4, <2>5 DEF OtherStep, Writes
<1> QED BY <1>3, <1>4, <1>5, <1>6 DEF Serve

LEMMA OthersPending ==
  ASSUME NEW t \in Threads, Keeps(t), NEW s \in Threads \ {t}, Pending(s)
  PROVE  Pending(s)'
  BY DEF Keeps, Pending, Inserted

LEMMA TidyStep ==
  ASSUME Types, Tidy, [Next]_vars
  PROVE  Tidy'
<1>1. CASE UNCHANGED vars BY <1>1 DEF vars, Tidy, Pending, Inserted
<1>2. CASE Request
  <2>1. PICK t \in Threads, r \in Requests : Begin(t, r) BY <1>2 DEF Request
  <2>2. Keeps(t) /\ UNCHANGED session /\ pc[t] = "idle" BY <2>1, RequestLocal DEF Begin
  <2>3. ~Pending(t) BY <2>2 DEF Pending, Inserted
  <2> QED BY <2>2, <2>3, OthersPending DEF Tidy, session
<1>3. ASSUME NEW t \in Threads, Serve(t) PROVE Tidy'
  <2>1. CASE Writes(t) BY <2>1, WriteGoes DEF Tidy
  <2>2. CASE Commit(t) \/ Rollback(t) BY <2>2 DEF Commit, Rollback, Tidy
  <2>3. CASE ~Writes(t) /\ ~Commit(t) /\ ~Rollback(t)
    <3>1. UNCHANGED <<view, disk>> /\ (stranded => stranded') BY <1>3, <2>3, Quiet
    <3>2. Keeps(t) BY <1>3, ServeLocal
    <3> QED BY <1>3, <2>3, <3>1, <3>2, PendingStep, OthersPending DEF Tidy
  <2> QED BY <2>1, <2>2, <2>3
<1>4. CASE Crash \/ Terminate BY <1>4 DEF Crash, Terminate, Restart, Tidy
<1> QED BY <1>1, <1>2, <1>3, <1>4 DEF Next

(* Whatever interleaves, a transaction that is open while no request is     *)
(* served was left by a handler that an exception cut short after an INSERT *)
(* of its own: no refusal, no rollback and no other answer leaves one.      *)
THEOREM NoneLeftOpen == Spec => []NothingPending
<1>1. Init => Tidy BY DEF Init, Tidy
<1>2. Types /\ Tidy /\ [Next]_vars => Tidy' BY TidyStep
<1>3. Types /\ Tidy => NothingPending
  BY DEF Tidy, Pending, Inserted, NothingPending
<1> QED BY <1>1, <1>2, <1>3, TypesAlways, PTL DEF Spec

-----------------------------------------------------------------------------
(* The lock.                                                                *)

LEMMA ServeLocked ==
  ASSUME Types, Locked, NEW t \in Threads, Serve(t)
  PROVE  Locked'
<1>1. Keeps(t) /\ Shape(t) /\ LocalT /\ None \notin Threads
  BY ServeLocal, CatalogAssumption DEF Types, Shapes
<1>2. CASE Acquire(t)
  <2>1. \A s \in Threads : Serving(s) => req[s].op = "network"
    BY <1>1, <1>2 DEF Acquire, Locked
  <2>2. lock' = t /\ req' = req BY <1>2 DEF Acquire
  <2> QED BY <1>1, <2>1, <2>2 DEF Locked, Serving, Keeps
<1>3. CASE Reply(t)
  <2>1. pc'[t] = "idle" /\ lock' = IF lock = t THEN None ELSE lock
    BY <1>1, <1>3, Replies
  <2> QED BY <1>1, <2>1 DEF Locked, Serving, Keeps
<1>4. CASE ~Acquire(t) /\ ~Reply(t)
  <2>1. UNCHANGED <<lock, req>> /\ pc[t] \notin {"idle", "lock"}
    <3>1. CASE Select(t) BY <3>1 DEF Select, Selects
    <3>2. CASE NetworkStep(t)
      BY <1>4, <3>2 DEF NetworkStep, FoundName, NoSuchName, AllocateSubnet, PoolExhausted, Refuse,
         Raise, Fetch, Fetched, InsertAllocated, InsertNetwork, Write
    <3>3. CASE ContainerStep(t)
      <4>1. CASE MountStep(t)
        BY <1>4, <4>1 DEF MountStep, InsertMounted, InsertOrIgnore, VolumeId, NoVolumeId, LinkVolume,
           VolumeRaises, VolumesLinked, Raise, Fetch, Fetched, Write
      <4>2. CASE ~MountStep(t)
        BY <1>4, <3>3, <4>2 DEF ContainerStep, FindNetworks, MissingNetworks, FindVolumes,
           MissingOptions, FindImage, InvalidImage, AnonymousVolume, InsertOrIgnore, NoSuchVariable,
           RowId, UsedAddresses, NoSubnet, PickAddress, SubnetFound, InsertContainer, InsertLink,
           CreateDataset, NoImageData, Refuse, Raise, Fetch, Fetched, Write
      <4> QED BY <4>1, <4>2
    <3>4. CASE OtherStep(t)
      BY <1>4, <3>4 DEF OtherStep, FindContainer, FindNetwork, NotPresent, NotAttachable,
         AttachAddress, SubnetFound, LinkRefused, Refused, FoundVolume, NoSuchVolume, InsertVolume,
         VolumeDirectory, UpdateStatus, InsertRefused, Refuse, Raise, Fetch, Fetched, Write
    <3>5. CASE FetchRaises(t) \/ Commit(t) \/ Rollback(t)
      BY <1>4, <3>5 DEF FetchRaises, Raise, Commit, Rollback
    <3> QED BY <1>4, <3>1, <3>2, <3>3, <3>4, <3>5 DEF Serve
  <2> QED BY <1>1, <2>1 DEF Locked, Serving, Keeps
<1> QED BY <1>2, <1>3, <1>4

LEMMA LockedStep ==
  ASSUME Types, Locked, [Next]_vars
  PROVE  Locked'
<1>1. CASE UNCHANGED vars BY <1>1 DEF vars, Locked, Serving
<1>2. CASE Request
  <2>1. PICK t \in Threads, r \in Requests : Begin(t, r) BY <1>2 DEF Request
  <2>2. Keeps(t) /\ lock' = lock BY <2>1, RequestLocal DEF Begin
  <2>3. req'[t] = r /\ pc'[t] = IF r.op = "network" THEN "names" ELSE "lock"
    BY <2>1 DEF Begin, Goto, Types, LocalT
  <2> QED BY <2>2, <2>3 DEF Locked, Serving, Keeps
<1>3. ASSUME NEW t \in Threads, Serve(t) PROVE Locked' BY <1>3, ServeLocked
<1>4. CASE Crash \/ Terminate BY <1>4 DEF Crash, Terminate, Restart, Locked, Serving
<1> QED BY <1>1, <1>2, <1>3, <1>4 DEF Next

LEMMA LockedAlways == Spec => []Locked
<1>1. Init => Locked BY DEF Init, Locked, Serving
<1>2. Types /\ Locked /\ [Next]_vars => Locked' BY LockedStep
<1> QED BY <1>1, <1>2, TypesAlways, PTL DEF Spec

(* So at most one request is served at a time.                              *)
LEMMA Alone ==
  ASSUME Locked, NetworkAlone, NEW s \in Threads, NEW t \in Threads, Serving(s), Serving(t)
  PROVE  s = t
  BY DEF Locked, NetworkAlone

-----------------------------------------------------------------------------
(* What is stored stays stored, and what a handler knows stays true.        *)

LEMMA StoredGrows ==
  ASSUME NEW r \in Requests, r.op # "status", NEW a, NEW b, Within(a, b), Stored(r, a)
  PROVE  Stored(r, b)
<1>1. /\ \A names : NetIds(a, names) \subseteq NetIds(b, names)
      /\ \A name : ContIds(a, name) \subseteq ContIds(b, name)
      /\ \A i \in DOMAIN a.nets : b.nets[i] = a.nets[i]
  BY DEF Within, NetIds, ContIds
<1>2. a.links \subseteq b.links /\ a.vols \subseteq b.vols /\ a.vlinks \subseteq b.vlinks
  BY DEF Within
<1>3. CASE r.op = "network"
  <2>1. PICK i \in NetIds(a, {r.name}) : r.subnet \in {None, a.nets[i].subnet}
    BY <1>3 DEF Stored
  <2>2. i \in NetIds(b, {r.name}) /\ b.nets[i] = a.nets[i] BY <1>1, <2>1 DEF NetIds
  <2> QED BY <1>3, <2>1, <2>2 DEF Stored
<1>4. CASE r.op = "container"
  <2>1. PICK i \in ContIds(a, r.name) :
          /\ \A n \in r.nets : \E l \in a.links : l.cont = i /\ l.net \in NetIds(a, {n})
          /\ \A m \in Range(r.mounts) : [vol |-> m.source, cont |-> i] \in a.vlinks
    BY <1>4 DEF Stored
  <2>2. /\ i \in ContIds(b, r.name)
        /\ \A n \in r.nets : \E l \in b.links : l.cont = i /\ l.net \in NetIds(b, {n})
        /\ \A m \in Range(r.mounts) : [vol |-> m.source, cont |-> i] \in b.vlinks
    BY <1>1, <1>2, <2>1
  <2> QED BY <1>4, <2>2 DEF Stored
<1>5. CASE r.op = "attach" BY <1>1, <1>2, <1>5 DEF Stored
<1>6. CASE r.op = "volume" BY <1>2, <1>6 DEF Stored
<1> QED BY <1>3, <1>4, <1>5, <1>6, RequestFields

LEMMA SameRows ==
  ASSUME NEW t \in Threads, loc'[t].todo = loc[t].todo, loc'[t].rows = loc[t].rows,
         loc'[t].cid = loc[t].cid, req'[t] = req[t], view'.nets = view.nets,
         view'.links = view.links
  PROVE  /\ Claims(t)' = Claims(t)
         /\ \A n : Ahead(t, n)' = Ahead(t, n) /\ Linked(t, n)' = Linked(t, n)
         /\ Claimed(t)' = Claimed(t) /\ Wanted(t)' = Wanted(t)
<1>1. Claimed(t)' = Claimed(t) BY DEF Claimed
<1>2. \A net : UsedIn(view', net) = UsedIn(view, net) BY DEF UsedIn
<1>3. \A n : NetIds(view', {n}) = NetIds(view, {n}) BY DEF NetIds
<1>4. Claims(t)' = Claims(t) BY <1>1, <1>2 DEF Claims
<1>5. ASSUME NEW n PROVE Ahead(t, n)' = Ahead(t, n) BY <1>1, <1>3 DEF Ahead
<1>6. ASSUME NEW n PROVE Linked(t, n)' = Linked(t, n)
  <2>1. /\ view'.links = view.links /\ loc'[t].cid = loc[t].cid
        /\ NetIds(view', {n}) = NetIds(view, {n})
    BY <1>3
  <2> QED BY <2>1, Zenon DEF Linked
<1> QED BY <1>1, <1>4, <1>5, <1>6 DEF Wanted

LEMMA ValidatedStays ==
  ASSUME NEW t \in Threads, Validated(t), loc'[t] = loc[t], req'[t] = req[t],
         view'.nets = view.nets, view'.links = view.links
  PROVE  Validated(t)'
<1>1. Claims(t)' /\ \A n : Ahead(t, n)' = Ahead(t, n) BY SameRows DEF Validated
<1>2. ASSUME NEW n \in req[t].nets PROVE Ahead(t, n)' BY <1>1 DEF Validated
<1> QED BY <1>1, <1>2 DEF Validated

LEMMA AssigningStays ==
  ASSUME NEW t \in Threads, Assigning(t), req'[t] = req[t], view' = view, pc'[t] # "links",
         loc'[t].todo = loc[t].todo, loc'[t].rows = loc[t].rows, loc'[t].cid = loc[t].cid,
         loc'[t].mounts = loc[t].mounts
  PROVE  Assigning(t)'
<1>1. /\ Claims(t)' = Claims(t) /\ Wanted(t)' = Wanted(t)
      /\ \A n : Ahead(t, n)' = Ahead(t, n) /\ Linked(t, n)' = Linked(t, n)
  BY SameRows
<1>2. ASSUME NEW n \in Wanted(t) PROVE Ahead(t, n)' \/ Linked(t, n)' BY <1>1 DEF Assigning
<1> QED BY <1>1, <1>2 DEF Assigning

LEMMA MountingStays ==
  ASSUME NEW t \in Threads, Mounting(t), loc'[t] = loc[t], req'[t] = req[t],
         view'.nets = view.nets, view'.conts = view.conts, view'.links = view.links,
         view'.vlinks = view.vlinks
  PROVE  Mounting(t)'
<1>1. \A n : Linked(t, n)' = Linked(t, n) BY SameRows
<1>2. ASSUME NEW n \in req[t].nets PROVE Linked(t, n)' BY <1>1 DEF Mounting
<1>3. ASSUME NEW m \in Range(req[t].mounts) PROVE m \in Range(loc'[t].mounts) \/ Mounted(t, m)'
  BY DEF Mounting, Mounted
<1>4. loc'[t].cid \in ContIds(view', req'[t].name) BY DEF Mounting, ContIds
<1> QED BY <1>2, <1>3, <1>4 DEF Mounting

LEMMA ReadsView ==
  ASSUME NEW t \in Threads, NEW p, Progress(t), Fetched(t, p)
  PROVE  Rows(t) = view /\ pc[t] = p
  BY DEF Progress, Current, Fetched, Rows

LEMMA ReplyProgress ==
  ASSUME Types, NEW t \in Threads, Reply(t)
  PROVE  Progress(t)'
<1>1. pc'[t] = "idle" /\ seen'[t] = None /\ loc'[t] = NoLocals BY Replies DEF Types
<1> QED BY <1>1 DEF Progress, Current, Selects

(* A place that asks for nothing.                                           *)
LEMMA PlainPlace ==
  ASSUME NEW t \in Threads, seen'[t] = None,
         pc'[t] \in {"vol", "insvol", "update", "rollback", "anon", "noname"}
                    \cup (IF loc'[t] = NoLocals THEN {"idle", "lock", "names", "nets", "find"} ELSE {})
                    \cup (IF req'[t].subnet = None THEN {"alloc"} ELSE {})
  PROVE  Progress(t)'
  BY DEF Progress, Current

LEMMA NetworkProgress ==
  ASSUME Types, Catalogued, NEW t \in Threads, Progress(t), NetworkStep(t)
  PROVE  Progress(t)'
<1> USE DEF Types
<1>1. /\ LocalT /\ loc[t] \in LocType /\ Shape(t) /\ SessionT /\ Recorded(view)
      /\ view.nets \in Seq(NetType)
  BY Fields DEF LocalT, Shapes, SessionT, Catalogued, Sound
<1>2. CASE FoundName(t) \/ PoolExhausted(t)
  BY <1>2, ReplyProgress DEF FoundName, PoolExhausted, Refuse, Raise
<1>3. CASE NoSuchName(t)
  <2>1. /\ pc'[t] = IF req[t].subnet = None THEN "alloc" ELSE "insalloc"
        /\ seen'[t] = None /\ req'[t] = req[t] /\ loc'[t] = [loc[t] EXCEPT !.subnet = req[t].subnet]
    BY <1>1, <1>3 DEF NoSuchName, Goto, Set, Fetch, LocalT
  <2>2. loc'[t].subnet = req[t].subnet BY <1>1, <2>1 DEF LocType
  <2>3. CASE req[t].subnet = None BY <2>1, <2>3, PlainPlace
  <2>4. CASE req[t].subnet # None
    <3>1. SubnetInHand(t)' BY <2>1, <2>2, <2>4 DEF SubnetInHand
    <3> QED BY <2>1, <2>4, <3>1 DEF Progress, Current
  <2> QED BY <2>3, <2>4
<1>4. CASE AllocateSubnet(t)
  <2> DEFINE x == FirstFree(Range(view.alloc))
  <2>1. pc[t] = "alloc" /\ Rows(t) = view BY <1>4, ReadsView DEF AllocateSubnet
  <2>2. /\ pc'[t] = "insalloc" /\ seen'[t] = None /\ req'[t] = req[t] /\ view' = view /\ x # None
        /\ loc'[t] = [loc[t] EXCEPT !.subnet = x]
    BY <1>1, <1>4, <2>1 DEF AllocateSubnet, Goto, Set, Fetch, LocalT, session
  <2>3. loc'[t].subnet = x
    <3> HIDE DEF x
    <3> QED BY <1>1, <2>2 DEF LocType
  <2>4. req[t].subnet = None BY <2>1 DEF Progress
  <2>5. \A s \in Range(view.alloc) : s \cap x = {} BY <2>2, SubnetChosen
  <2>6. \A i \in DOMAIN view.nets : view.nets[i].subnet \cap x = {} BY <1>1, <2>5 DEF Recorded
  <2>7. SubnetInHand(t)'
    <3> HIDE DEF x
    <3> QED BY <2>2, <2>3, <2>4, <2>6 DEF SubnetInHand
  <2> QED BY <2>2, <2>7 DEF Progress, Current
<1>5. CASE InsertAllocated(t)
  <2>1. /\ pc[t] = "insalloc" /\ pc'[t] = "insnet" /\ seen'[t] = seen[t] /\ req'[t] = req[t]
        /\ loc'[t] = loc[t]
    BY <1>1, <1>5 DEF InsertAllocated, Goto, Write, LocalT
  <2>2. seen[t] = None /\ SubnetInHand(t) BY <2>1 DEF Progress, Selects
  <2>3. view'.nets = view.nets /\ loc[t].subnet \in Range(view'.alloc) BY <1>5, AllocatedStep
  <2>4. SubnetInHand(t)' BY <2>1, <2>2, <2>3 DEF SubnetInHand
  <2> QED BY <2>1, <2>2, <2>4 DEF Progress, Current
<1>6. CASE InsertNetwork(t)
  <2>1. /\ pc[t] = "insnet" /\ pc'[t] = "commit" /\ seen'[t] = seen[t] /\ req'[t] = req[t]
    BY <1>1, <1>6 DEF InsertNetwork, Goto, Write, LocalT
  <2>2. seen[t] = None /\ SubnetInHand(t) /\ req[t].op = "network"
    BY <1>1, <2>1 DEF Progress, Selects, Shape
  <2>3. view'.nets = Append(view.nets, NetworkRow(t)) /\ NetworkRow(t) \in NetType
    BY <1>6, NetworkRowStep
  <2> DEFINE i == Len(view.nets) + 1
  <2>4. i \in DOMAIN view'.nets /\ view'.nets[i] = NetworkRow(t) BY <1>1, <2>3, Appended
  <2> HIDE DEF i
  <2>5. i \in NetIds(view', {req[t].name}) /\ req[t].subnet \in {None, view'.nets[i].subnet}
    BY <2>2, <2>4 DEF NetIds, NetworkRow, SubnetInHand
  <2>6. Stored(req[t], view') BY <2>2, <2>5 DEF Stored
  <2>7. Stored(req[t], view)' BY <2>1, <2>6
  <2> QED BY <2>1, <2>2, <2>7 DEF Progress, Current
<1> QED BY <1>2, <1>3, <1>4, <1>5, <1>6 DEF NetworkStep

LEMMA FindNetworksProgress ==
  ASSUME Types, NEW t \in Threads, Progress(t), FindNetworks(t)
  PROVE  Progress(t)'
<1>1. /\ LocalT /\ loc[t] \in LocType /\ SessionT /\ view.nets \in Seq(NetType)
  BY Fields DEF Types, LocalT, SessionT
<1>2. pc[t] = "nets" /\ Rows(t) = view BY ReadsView DEF FindNetworks
<1> DEFINE todo == IF NetsFound(t, view) THEN NetIds(view, req[t].nets) ELSE {}
<1>3. /\ pc'[t] = (IF req[t].mounts = <<>> THEN "image" ELSE "volumes")
      /\ todo # {} \/ req[t].mounts # <<>>
      /\ seen'[t] = None /\ req'[t] = req[t] /\ view' = view
      /\ loc'[t] = [loc[t] EXCEPT !.todo = todo]
  BY <1>1, <1>2 DEF FindNetworks, Goto, Set, Fetch, LocalT, session
<1>4. loc[t] = NoLocals BY <1>2 DEF Progress
<1>5. loc'[t].todo = todo /\ loc'[t].rows = {}
  <2> HIDE DEF todo
  <2> QED BY <1>1, <1>3, <1>4 DEF LocType, NoLocals
<1>6. CASE NetsFound(t, view)
  <2>1. todo = NetIds(view, req[t].nets) BY <1>6
  <2> HIDE DEF todo
  <2>2. Claimed(t)' = {} BY <1>5 DEF Claimed
  <2>3. Claims(t)' BY <1>3, <1>5, <2>1, <2>2 DEF Claims, NetIds
  <2>4. ASSUME NEW n \in req[t].nets PROVE Ahead(t, n)'
    <3>1. PICK i \in DOMAIN view.nets : view.nets[i].name = n BY <1>6 DEF NetsFound
    <3>2. i \in todo /\ i \in NetIds(view, {n}) BY <2>1, <3>1 DEF NetIds
    <3>3. i \in loc'[t].todo /\ i \in NetIds(view', {n}) BY <1>3, <1>5, <3>2
    <3> QED BY <3>3 DEF Ahead
  <2>5. Validated(t)' BY <1>3, <1>5, <2>3, <2>4 DEF Validated
  <2> QED BY <1>3, <2>5 DEF Progress, Current
<1>7. CASE ~NetsFound(t, view)
  <2>1. todo = {} BY <1>7
  <2>2. pc'[t] = "volumes" /\ loc'[t].todo = {} BY <1>3, <1>5, <2>1
  <2> QED BY <1>3, <2>2 DEF Progress, Current
<1> QED BY <1>6, <1>7

LEMMA OptionsProgress ==
  ASSUME Types, NEW t \in Threads, Progress(t), FindVolumes(t) \/ FindImage(t)
  PROVE  Progress(t)'
<1>1. LocalT BY DEF Types
<1>2. /\ seen'[t] = None /\ req'[t] = req[t] /\ view' = view /\ loc'[t] = loc[t]
      /\ pc'[t] \in {"image", "insert", "anon"}
  BY <1>1 DEF FindVolumes, FindImage, Goto, Fetch, LocalT, session
<1>3. Validated(t) BY DEF FindVolumes, FindImage, Fetched, Progress
<1>4. Validated(t)' BY <1>2, <1>3, ValidatedStays
<1> QED BY <1>2, <1>4 DEF Progress, Current

LEMMA ContainerRowProgress ==
  ASSUME Types, NEW t \in Threads, Progress(t), InsertContainer(t)
  PROVE  Progress(t)'
<1>1. /\ LocalT /\ SessionT /\ view.conts \in Seq(ContNames)
  BY Fields DEF Types, LocalT, SessionT
<1>2. /\ pc[t] = "insert" /\ pc'[t] = "rowid" /\ seen'[t] = seen[t] /\ req'[t] = req[t]
      /\ loc'[t] = loc[t]
  BY <1>1 DEF InsertContainer, Goto, Write, LocalT
<1>3. /\ view'.nets = view.nets /\ view'.links = view.links /\ lastrow' = Len(view.conts) + 1
      /\ view'.conts = Append(view.conts, req[t].name) /\ req[t].name \in ContNames
  BY ContainerRowStep
<1>4. seen[t] = None /\ Validated(t) BY <1>2 DEF Progress, Selects
<1>5. Validated(t)' BY <1>2, <1>3, <1>4, ValidatedStays
<1> DEFINE i == Len(view.conts) + 1
<1>6. i \in DOMAIN view'.conts /\ view'.conts[i] = req[t].name BY <1>1, <1>3, Appended
<1>7. lastrow' \in ContIds(view', req'[t].name) BY <1>2, <1>3, <1>6 DEF ContIds
<1> QED BY <1>2, <1>4, <1>5, <1>7 DEF Progress, Current

LEMMA RowIdProgress ==
  ASSUME Types, NEW t \in Threads, Progress(t), RowId(t)
  PROVE  Progress(t)'
<1>1. LocalT /\ loc[t] \in LocType /\ lastrow \in Nat /\ Shape(t)
  BY DEF Types, LocalT, SessionT, Shapes
<1>2. /\ pc[t] = "rowid" /\ pc'[t] = IF loc[t].todo = {} THEN "mounts" ELSE "used"
      /\ seen'[t] = seen[t] /\ req'[t] = req[t] /\ view' = view
      /\ loc'[t] = [loc[t] EXCEPT !.cid = lastrow, !.mounts = req[t].mounts]
  BY <1>1 DEF RowId, Goto, Set, LocalT, session
<1>3. /\ seen[t] = None /\ Validated(t) /\ lastrow \in ContIds(view, req[t].name)
      /\ req[t].op = "container" /\ req[t] \in Requests
  BY <1>1, <1>2 DEF Progress, Selects, Shape
<1>4. /\ loc'[t].cid = lastrow /\ loc'[t].mounts = req[t].mounts
      /\ loc'[t].todo = loc[t].todo /\ loc'[t].rows = loc[t].rows
  BY <1>1, <1>2 DEF LocType
<1>5. loc'[t].cid \in ContIds(view', req'[t].name) BY <1>2, <1>3, <1>4
<1>6. Claimed(t)' = Claimed(t) BY <1>4 DEF Claimed
<1>7. Claims(t)' BY <1>2, <1>3, <1>4, <1>6 DEF Claims, Validated
<1>8. ASSUME NEW n \in req[t].nets PROVE Ahead(t, n) /\ Ahead(t, n)'
  <2>1. Ahead(t, n) BY <1>3 DEF Validated
  <2> QED BY <1>2, <1>4, <1>6, <2>1 DEF Ahead
<1>9. CASE loc[t].todo = {}
  <2>1. Claimed(t) = {} BY <1>3 DEF Claimed, Validated
  <2>2. \A n \in req[t].nets : FALSE
    <3>1. ASSUME NEW n \in req[t].nets PROVE FALSE BY <1>8, <1>9, <2>1 DEF Ahead
    <3> QED BY <3>1
  <2>3. Mounting(t)' BY <1>2, <1>4, <1>5, <2>2 DEF Mounting
  <2> QED BY <1>2, <1>3, <1>9, <2>3 DEF Progress, Current
<1>10. CASE loc[t].todo # {}
  <2>1. Wanted(t)' = req[t].nets BY <1>2, <1>3 DEF Wanted
  <2>2. \A n \in Wanted(t)' : Ahead(t, n)'
    <3>1. ASSUME NEW n \in req[t].nets PROVE Ahead(t, n)' BY <1>8
    <3> QED BY <2>1, <3>1
  <2>3. Assigning(t)' BY <1>2, <1>3, <1>4, <1>5, <1>7, <1>10, <2>2 DEF Assigning
  <2> QED BY <1>2, <1>3, <1>10, <2>3 DEF Progress, Current
<1> QED BY <1>9, <1>10

(* What is in use in the network that comes next.                           *)
LEMMA UsedProgress ==
  ASSUME Types, NEW t \in Threads, Progress(t), UsedAddresses(t)
  PROVE  Progress(t)'
<1>1. /\ LocalT /\ loc[t] \in LocType BY DEF Types, LocalT
<1>2. /\ pc[t] = "used" /\ Rows(t) = view BY ReadsView DEF UsedAddresses
<1> DEFINE used == UsedIn(view, Min(loc[t].todo))
<1>3. /\ pc'[t] = "subnet" /\ seen'[t] = None /\ req'[t] = req[t] /\ view' = view
      /\ loc'[t] = [loc[t] EXCEPT !.used = used]
  BY <1>1, <1>2 DEF UsedAddresses, Goto, Set, Fetch, LocalT, session
<1>4. /\ loc'[t].used = used /\ loc'[t].todo = loc[t].todo /\ loc'[t].rows = loc[t].rows
      /\ loc'[t].cid = loc[t].cid /\ loc'[t].mounts = loc[t].mounts
  <2> HIDE DEF used
  <2> QED BY <1>1, <1>3 DEF LocType
<1>5. Assigning(t)
  BY <1>2 DEF Progress
<1>6. Assigning(t)' BY <1>3, <1>4, <1>5, AssigningStays
<1>7. loc'[t].used = UsedIn(view', Min(loc'[t].todo)) BY <1>3, <1>4
<1> QED BY <1>3, <1>6, <1>7 DEF Progress, Current

(* An address is picked for a network of which the handler has none yet.    *)
LEMMA PickProgress ==
  ASSUME Types, NEW t \in Threads, Progress(t), PickAddress(t)
  PROVE  Progress(t)'
<1>1. /\ LocalT /\ loc[t] \in LocType /\ Shape(t) BY DEF Types, LocalT, Shapes
<1>2. /\ pc[t] = "subnet" /\ req[t].op = "container"
  BY DEF PickAddress, SubnetFound, Fetched
<1> DEFINE net == Min(loc[t].todo)
           row == [net |-> net, ip |-> FreeAddress(loc[t].used)]
           todo == loc[t].todo \ {net}
<1>3. Assigning(t) /\ loc[t].todo # {} /\ loc[t].used = UsedIn(view, net)
  BY <1>1, <1>2 DEF Progress, Shape
<1>4. net \in loc[t].todo BY <1>1, <1>3, LocFields, MinOf
<1>5. /\ pc'[t] = IF todo = {} THEN "links" ELSE "used"
      /\ seen'[t] = None /\ req'[t] = req[t] /\ view' = view
      /\ loc'[t] = [loc[t] EXCEPT !.todo = todo, !.used = {}, !.rows = @ \cup {row}]
  BY <1>1, <1>2 DEF PickAddress, SubnetFound, Goto, Set, Fetch, LocalT, session
<1>6. /\ row.net = net /\ row.ip # 1
      /\ row.ip # NoAddress => row.ip \notin UsedIn(view, net)
  BY <1>3, AddressType
<1> HIDE DEF row, todo
<1>7. /\ loc'[t].todo = todo /\ loc'[t].rows = loc[t].rows \cup {row}
      /\ loc'[t].cid = loc[t].cid /\ loc'[t].mounts = loc[t].mounts
  BY <1>1, <1>5 DEF LocType
<1>8. /\ Claims(t) /\ loc[t].todo \cup Claimed(t) \subseteq DOMAIN view.nets
      /\ loc[t].todo \cap Claimed(t) = {}
  BY <1>3 DEF Assigning, Claims
<1>9. Claimed(t)' = Claimed(t) \cup {net} BY <1>6, <1>7 DEF Claimed
<1>10. /\ loc'[t].todo \cup Claimed(t)' = loc[t].todo \cup Claimed(t)
       /\ loc'[t].todo \cap Claimed(t)' = {}
  BY <1>4, <1>7, <1>8, <1>9 DEF todo
<1>11. ASSUME NEW r \in loc'[t].rows
       PROVE  /\ r.ip # 1
              /\ r.ip # NoAddress => r.ip \notin UsedIn(view, r.net)
              /\ \A other \in loc'[t].rows : other.net = r.net => other = r
  <2>1. \A q \in loc[t].rows : q.net # net BY <1>4, <1>8 DEF Claimed
  <2>2. CASE r = row BY <1>6, <1>7, <2>1, <2>2
  <2>3. CASE r \in loc[t].rows BY <1>6, <1>7, <1>8, <2>1, <2>3 DEF Claims
  <2> QED BY <1>7, <2>2, <2>3
<1>12. Claims(t)' BY <1>5, <1>8, <1>10, <1>11 DEF Claims
<1>13. ASSUME NEW n \in Wanted(t)' PROVE Ahead(t, n)' \/ Linked(t, n)'
  <2>1. n \in Wanted(t) BY <1>5 DEF Wanted
  <2>2. CASE Ahead(t, n) BY <1>5, <1>10, <2>2 DEF Ahead
  <2>3. CASE Linked(t, n) BY <1>5, <1>7, <2>3 DEF Linked
  <2> QED BY <1>3, <2>1, <2>2, <2>3 DEF Assigning
<1>14. Assigning(t)' BY <1>2, <1>3, <1>5, <1>7, <1>12, <1>13 DEF Assigning
<1> QED BY <1>2, <1>5, <1>14 DEF Progress, Current

LEMMA AttachProgress ==
  ASSUME Types, NEW t \in Threads, Progress(t), AttachAddress(t)
  PROVE  Progress(t)'
<1>1. /\ LocalT /\ loc[t] \in LocType /\ Shape(t) BY DEF Types, LocalT, Shapes
<1>2. /\ pc[t] = "subnet" /\ req[t].op = "attach"
  BY DEF AttachAddress, SubnetFound, Fetched
<1> DEFINE net == Min(loc[t].todo)
           ip == FreeAddress(loc[t].used)
           row == [net |-> net, ip |-> ip]
<1>3. Assigning(t) /\ loc[t].todo # {} /\ loc[t].used = UsedIn(view, net)
  BY <1>1, <1>2 DEF Progress, Shape
<1>4. net \in loc[t].todo BY <1>1, <1>3, LocFields, MinOf
<1>5. /\ pc'[t] = IF ip = NoAddress THEN "rollback" ELSE "links"
      /\ seen'[t] = None /\ req'[t] = req[t] /\ view' = view
      /\ loc'[t] = [loc[t] EXCEPT !.todo = {}, !.used = {}, !.rows = {row}]
  BY <1>1, <1>2 DEF AttachAddress, SubnetFound, Goto, Set, Fetch, LocalT, session
<1>6. /\ row.net = net /\ row.ip = ip /\ ip # 1
      /\ ip # NoAddress => ip \notin UsedIn(view, net)
  BY <1>3, AddressType
<1> HIDE DEF row, ip
<1>7. /\ loc'[t].todo = {} /\ loc'[t].rows = {row}
      /\ loc'[t].cid = loc[t].cid /\ loc'[t].mounts = loc[t].mounts
  BY <1>1, <1>5 DEF LocType
<1>8. CASE ip = NoAddress BY <1>5, <1>8, PlainPlace
<1>9. CASE ip # NoAddress
  <2>1. /\ loc[t].todo \subseteq DOMAIN view.nets
        /\ loc[t].todo \subseteq NetIds(view, {req[t].net})
    BY <1>2, <1>3 DEF Assigning, Claims
  <2>2. Claimed(t)' = {net} BY <1>6, <1>7 DEF Claimed
  <2>3. Claims(t)' BY <1>4, <1>5, <1>6, <1>7, <2>1, <2>2 DEF Claims
  <2>4. Wanted(t)' = {req[t].net} BY <1>2, <1>5 DEF Wanted
  <2>5. net \in NetIds(view', {req[t].net}) /\ net \in Claimed(t)' BY <1>4, <1>5, <2>1, <2>2
  <2>6. Ahead(t, req[t].net)' BY <1>5, <2>5 DEF Ahead
  <2>7. \A n \in Wanted(t)' : n = req[t].net BY <2>4
  <2>8. ASSUME NEW n \in Wanted(t)' PROVE Ahead(t, n)'
    <3>1. net \in NetIds(view', {n}) BY <2>5, <2>7
    <3> QED BY <2>5, <3>1 DEF Ahead
  <2>9. Assigning(t)' BY <1>2, <1>3, <1>5, <1>7, <2>3, <2>8 DEF Assigning
  <2> QED BY <1>2, <1>5, <1>9, <2>9 DEF Progress, Current
<1> QED BY <1>8, <1>9

LEMMA FindContainerProgress ==
  ASSUME Types, NEW t \in Threads, Progress(t), FindContainer(t)
  PROVE  Progress(t)'
<1>1. /\ LocalT /\ loc[t] \in LocType BY DEF Types, LocalT
<1>2. /\ pc[t] = "find" /\ Rows(t) = view /\ Fetched(t, "find") BY ReadsView DEF FindContainer
<1> DEFINE cid == Min(ContIds(view, req[t].name))
<1>3. loc[t] = NoLocals BY <1>2 DEF Progress
<1>4. /\ pc'[t] = "findnet" /\ seen'[t] = None /\ req'[t] = req[t] /\ view' = view
      /\ loc'[t] = [loc[t] EXCEPT !.cid = cid]
  BY <1>1, <1>2 DEF FindContainer, Goto, Set, Fetch, LocalT, session
<1>5. cid \in ContIds(view, req[t].name) BY <1>2, RowsType, MinOf DEF FindContainer
<1>6. /\ loc'[t].todo = {} /\ loc'[t].rows = {} /\ loc'[t].cid = cid
  <2> HIDE DEF cid
  <2> QED BY <1>1, <1>3, <1>4 DEF LocType, NoLocals
<1>7. Chosen(t)' BY <1>4, <1>5, <1>6 DEF Chosen
<1> QED BY <1>4, <1>7 DEF Progress, Current

LEMMA FindNetworkProgress ==
  ASSUME Types, NEW t \in Threads, Progress(t), FindNetwork(t)
  PROVE  Progress(t)'
<1>1. /\ LocalT /\ loc[t] \in LocType /\ Shape(t) BY DEF Types, LocalT, Shapes
<1>2. /\ pc[t] = "findnet" /\ Rows(t) = view BY ReadsView DEF FindNetwork
<1> DEFINE todo == NetIds(view, {req[t].net})
<1>3. req[t].op = "attach" /\ Chosen(t) BY <1>1, <1>2 DEF Progress, Shape
<1>4. /\ pc'[t] = "present" /\ seen'[t] = None /\ req'[t] = req[t] /\ view' = view
      /\ todo # {} /\ loc'[t] = [loc[t] EXCEPT !.todo = todo]
  BY <1>1, <1>2 DEF FindNetwork, Goto, Set, Fetch, LocalT, session
<1>5. /\ loc'[t].todo = todo /\ loc'[t].rows = {} /\ loc'[t].cid = loc[t].cid
  <2> HIDE DEF todo
  <2> QED BY <1>1, <1>3, <1>4 DEF LocType, Chosen
<1>6. Claimed(t)' = {} BY <1>5 DEF Claimed
<1>7. Claims(t)' BY <1>4, <1>5, <1>6 DEF Claims, NetIds
<1>8. ASSUME NEW n \in Wanted(t)' PROVE Ahead(t, n)'
  <2>1. n = req[t].net BY <1>3, <1>4 DEF Wanted
  <2> QED BY <1>4, <1>5, <2>1 DEF Ahead
<1>9. /\ loc'[t].cid \in ContIds(view', req'[t].name)
      /\ loc'[t].todo \subseteq NetIds(view', {req'[t].net})
  BY <1>3, <1>4, <1>5 DEF Chosen
<1>10. Assigning(t)' BY <1>3, <1>4, <1>7, <1>8, <1>9 DEF Assigning
<1> QED BY <1>4, <1>10 DEF Progress, Current

LEMMA NotPresentProgress ==
  ASSUME Types, NEW t \in Threads, Progress(t), NotPresent(t)
  PROVE  Progress(t)'
<1>1. LocalT BY DEF Types
<1>2. /\ pc[t] = "present" /\ pc'[t] = "used" /\ seen'[t] = None /\ req'[t] = req[t]
      /\ view' = view /\ loc'[t] = loc[t]
  BY <1>1 DEF NotPresent, Fetched, Goto, Fetch, LocalT, session
<1>3. Assigning(t) BY <1>2 DEF Progress
<1>4. Assigning(t)' BY <1>2, <1>3, AssigningStays
<1> QED BY <1>2, <1>4 DEF Progress, Current

(* The row that is inserted takes the place of the one that was picked.     *)
LEMMA LinkProgress ==
  ASSUME Types, NEW t \in Threads, Progress(t), InsertLink(t)
  PROVE  Progress(t)'
<1> DEFINE row == NextRow(t)
           rest == loc[t].rows \ {row}
<1>1. LocalT /\ Shape(t) BY DEF Types, LocalT, Shapes
<1>2. /\ pc[t] = "links" /\ seen'[t] = seen[t] /\ req'[t] = req[t]
      /\ pc'[t] = IF rest # {} THEN "links"
                  ELSE IF req[t].op = "attach" THEN "commit" ELSE "mounts"
  BY <1>1 DEF InsertLink, Goto, Write, LocalT
<1>3. /\ row \in loc[t].rows /\ loc'[t].rows = rest /\ loc'[t].cid = loc[t].cid
      /\ loc'[t].todo = loc[t].todo /\ loc'[t].mounts = loc[t].mounts
      /\ view'.links = view.links \cup {Link(t)} /\ view'.nets = view.nets
      /\ view'.conts = view.conts
  BY LinkStep
<1>4. Link(t).net = row.net /\ Link(t).cont = loc[t].cid /\ Link(t).ip = row.ip BY DEF Link
<1> HIDE DEF row, rest
<1>5. /\ seen[t] = None /\ Assigning(t) /\ loc[t].todo = {} /\ Claims(t)
      /\ req[t].op \in {"container", "attach"}
  BY <1>1, <1>2 DEF Progress, Selects, Assigning, Shape
<1>6. \A net : UsedIn(view', net) \subseteq UsedIn(view, net) \cup (IF net = row.net THEN {row.ip} ELSE {})
  BY <1>3, <1>4 DEF UsedIn
<1>7. \A n : NetIds(view', {n}) = NetIds(view, {n}) BY <1>3 DEF NetIds
<1>8. loc[t].cid \in ContIds(view', req[t].name) BY <1>3, <1>5 DEF Assigning, ContIds
<1>9. Claimed(t)' \subseteq Claimed(t) /\ Claimed(t) \subseteq Claimed(t)' \cup {row.net}
  BY <1>3 DEF Claimed, rest
<1>10. Claims(t)'
  <2>1. \A r, q \in loc[t].rows : q.net = r.net => q = r BY <1>5 DEF Claims
  <2>2. ASSUME NEW r \in loc'[t].rows
        PROVE  /\ r.ip # 1
               /\ r.ip # NoAddress => r.ip \notin UsedIn(view', r.net)
               /\ \A other \in loc'[t].rows : other.net = r.net => other = r
    <3>1. r \in loc[t].rows /\ r # row BY <1>3 DEF rest
    <3>2. r.net # row.net BY <1>3, <2>1, <3>1
    <3>3. UsedIn(view', r.net) \subseteq UsedIn(view, r.net) BY <1>6, <3>2
    <3> QED BY <1>3, <1>5, <2>1, <3>1, <3>3 DEF Claims, rest
  <2>3. Claimed(t)' \subseteq DOMAIN view'.nets BY <1>3, <1>5, <1>9 DEF Claims
  <2> QED BY <1>3, <1>5, <2>2, <2>3 DEF Claims
<1>11. ASSUME NEW n \in Wanted(t)
       PROVE  Ahead(t, n)' \/ Linked(t, n)'
  <2>1. CASE Linked(t, n) BY <1>3, <1>7, <2>1 DEF Linked
  <2>2. CASE Ahead(t, n)
    <3>1. PICK x \in Claimed(t) : x \in NetIds(view, {n}) BY <1>5, <2>2 DEF Ahead
    <3>2. CASE x = row.net
      <4>1. Link(t) \in view'.links /\ Link(t).cont = loc'[t].cid /\ Link(t).net \in NetIds(view', {n})
        BY <1>3, <1>4, <1>7, <3>1, <3>2
      <4> QED BY <4>1 DEF Linked
    <3>3. CASE x # row.net
      <4>1. x \in Claimed(t)' /\ x \in NetIds(view', {n}) BY <1>7, <1>9, <3>1, <3>3
      <4> QED BY <4>1 DEF Ahead
    <3> QED BY <3>2, <3>3
  <2> QED BY <1>5, <2>1, <2>2 DEF Assigning
<1>12. Wanted(t)' = Wanted(t) BY <1>2 DEF Wanted
<1>13. CASE rest # {}
  <2>1. Assigning(t)'
    BY <1>2, <1>3, <1>5, <1>8, <1>10, <1>11, <1>12 DEF Assigning
  <2> QED BY <1>2, <1>5, <1>13, <2>1 DEF Progress, Current
<1>14. CASE rest = {}
  <2>1. Claimed(t)' = {} /\ loc'[t].todo = {} BY <1>3, <1>5, <1>14 DEF Claimed
  <2>2. ASSUME NEW n \in Wanted(t) PROVE Linked(t, n)' BY <1>11, <2>1 DEF Ahead
  <2>3. CASE req[t].op = "container"
    <3>1. Mounting(t)'
      BY <1>2, <1>3, <1>5, <1>8, <2>2, <2>3 DEF Mounting, Wanted, Assigning
    <3> QED BY <1>2, <1>5, <1>14, <2>3, <3>1 DEF Progress, Current
  <2>4. CASE req[t].op = "attach"
    <3>1. ASSUME NEW n \in Wanted(t)
          PROVE  \E l \in view'.links : l.cont = loc'[t].cid /\ l.net \in NetIds(view', {n})
      BY <2>2 DEF Linked
    <3>2. \E l \in view'.links : l.cont = loc[t].cid /\ l.net \in NetIds(view', {req[t].net})
      BY <1>3, <2>4, <3>1 DEF Wanted
    <3>3. Stored(req[t], view') BY <1>8, <2>4, <3>2 DEF Stored
    <3>4. Stored(req[t], view)' BY <1>2, <3>3
    <3> QED BY <1>2, <1>5, <1>14, <2>4, <3>4 DEF Progress, Current
  <2> QED BY <1>5, <2>3, <2>4
<1> QED BY <1>13, <1>14

LEMMA HeadOrTail ==
  ASSUME NEW S, NEW s \in Seq(S), s # <<>>, NEW x \in Range(s)
  PROVE  x = Head(s) \/ x \in Range(Tail(s))
<1>1. PICK i \in DOMAIN s : x = s[i] BY DEF Range
<1>2. i \in 1..Len(s) /\ Len(s) \in Nat BY <1>1
<1>3. CASE i = 1 BY <1>1, <1>3
<1>4. CASE i # 1
  <2>1. i - 1 \in DOMAIN Tail(s) /\ Tail(s)[i - 1] = s[i] BY <1>2, <1>4
  <2> QED BY <1>1, <2>1 DEF Range
<1> QED BY <1>3, <1>4

(* The volume that is to be linked is there.                                *)
LEMMA IgnoreProgress ==
  ASSUME Types, NEW t \in Threads, Progress(t), Ignores(t)
  PROVE  Progress(t)'
<1>1. LocalT BY DEF Types
<1>2. /\ seen'[t] = seen[t] /\ req'[t] = req[t] /\ loc'[t] = loc[t]
      /\ view'.nets = view.nets /\ view'.conts = view.conts /\ view'.links = view.links
      /\ view'.vlinks = view.vlinks
  BY IgnoreStep, WriteFrame DEF Ignores, Writes
<1>3. CASE AnonymousVolume(t)
  <2>1. pc[t] = "anon" /\ pc'[t] = "noname"
    BY <1>1, <1>3 DEF AnonymousVolume, Goto, LocalT
  <2>2. seen'[t] = None BY <1>2, <2>1 DEF Progress, Selects
  <2> QED BY <2>1, <2>2, PlainPlace
<1>4. CASE InsertMounted(t)
  <2>1. pc[t] = "mounts" /\ pc'[t] = "volid"
    BY <1>1, <1>4 DEF InsertMounted, Goto, LocalT
  <2>2. seen'[t] = None /\ Mounting(t) BY <1>2, <2>1 DEF Progress, Selects
  <2>3. Mounting(t)' BY <1>2, <2>2, MountingStays
  <2> QED BY <2>1, <2>2, <2>3 DEF Progress, Current
<1> QED BY <1>3, <1>4 DEF Ignores

LEMMA VolumeIdProgress ==
  ASSUME Types, NEW t \in Threads, Progress(t), VolumeId(t)
  PROVE  Progress(t)'
<1>1. LocalT BY DEF Types
<1>2. /\ pc[t] = "volid" /\ Rows(t) = view BY ReadsView DEF VolumeId
<1>3. /\ pc'[t] = "vlink" /\ seen'[t] = None /\ req'[t] = req[t] /\ view' = view
      /\ loc'[t] = loc[t] /\ VolumeLink(t).vol \in view.vols
  BY <1>1, <1>2 DEF VolumeId, Goto, Fetch, LocalT, session
<1>4. Mounting(t) BY <1>2 DEF Progress
<1>5. Mounting(t)' BY <1>3, <1>4, MountingStays
<1>6. (VolumeLink(t).vol \in view.vols)' BY <1>3 DEF VolumeLink
<1> QED BY <1>3, <1>5, <1>6 DEF Progress, Current

LEMMA MountProgress ==
  ASSUME Types, NEW t \in Threads, Progress(t), LinkVolume(t)
  PROVE  Progress(t)'
<1>1. LocalT /\ Shape(t) BY DEF Types, LocalT, Shapes
<1>2. /\ pc[t] = "vlink" /\ pc'[t] = "mounts" /\ seen'[t] = seen[t] /\ req'[t] = req[t]
  BY <1>1 DEF LinkVolume, Write, Goto, LocalT
<1>3. /\ loc[t].mounts # <<>> /\ loc[t].mounts \in Seq(MountType)
      /\ loc'[t].mounts = Tail(loc[t].mounts) /\ loc'[t].cid = loc[t].cid
      /\ view'.vlinks = view.vlinks \cup {VolumeLink(t)}
      /\ view'.nets = view.nets /\ view'.conts = view.conts /\ view'.links = view.links
  BY VolumeLinkStep
<1>4. seen[t] = None /\ Mounting(t) BY <1>2 DEF Progress, Selects
<1>5. loc'[t].cid \in ContIds(view', req'[t].name) BY <1>2, <1>3, <1>4 DEF Mounting, ContIds
<1>6. \A n : NetIds(view', {n}) = NetIds(view, {n}) BY <1>3 DEF NetIds
<1>7. ASSUME NEW n \in req[t].nets PROVE Linked(t, n)'
  <2>1. Linked(t, n) BY <1>4 DEF Mounting
  <2> QED BY <1>3, <1>6, <2>1 DEF Linked
<1>8. ASSUME NEW m \in Range(req[t].mounts) PROVE m \in Range(loc'[t].mounts) \/ Mounted(t, m)'
  <2>1. CASE Mounted(t, m) BY <1>3, <2>1 DEF Mounted
  <2>2. CASE m \in Range(loc[t].mounts)
    <3>1. m = Head(loc[t].mounts) \/ m \in Range(Tail(loc[t].mounts)) BY <1>3, <2>2, HeadOrTail
    <3>2. CASE m = Head(loc[t].mounts)
      <4>1. VolumeLink(t) = [vol |-> m.source, cont |-> loc[t].cid] BY <3>2 DEF VolumeLink
      <4> QED BY <1>3, <4>1 DEF Mounted
    <3> QED BY <1>3, <3>1, <3>2
  <2> QED BY <1>4, <2>1, <2>2 DEF Mounting
<1>9. Mounting(t)' BY <1>2, <1>5, <1>7, <1>8 DEF Mounting
<1> QED BY <1>2, <1>4, <1>9 DEF Progress, Current

LEMMA LinkedProgress ==
  ASSUME Types, NEW t \in Threads, Progress(t), VolumesLinked(t)
  PROVE  Progress(t)'
<1>1. LocalT /\ Shape(t) BY DEF Types, LocalT, Shapes
<1>2. /\ pc[t] = "mounts" /\ pc'[t] = "dataset" /\ seen'[t] = seen[t] /\ req'[t] = req[t]
      /\ view' = view /\ loc[t].mounts = <<>>
  BY <1>1 DEF VolumesLinked, Goto, LocalT, session
<1>3. seen[t] = None /\ Mounting(t) /\ req[t].op = "container"
  BY <1>1, <1>2 DEF Progress, Selects, Shape
<1>4. Range(loc[t].mounts) = {} BY <1>2 DEF Range
<1> DEFINE i == loc[t].cid
<1>5. i \in ContIds(view, req[t].name) BY <1>3 DEF Mounting
<1>6. \A n \in req[t].nets : \E l \in view.links : l.cont = i /\ l.net \in NetIds(view, {n})
  BY <1>3 DEF Mounting, Linked
<1>7. \A m \in Range(req[t].mounts) : [vol |-> m.source, cont |-> i] \in view.vlinks
  BY <1>3, <1>4 DEF Mounting, Mounted
<1>8. Stored(req[t], view)
  <2> HIDE DEF i
  <2> QED BY <1>3, <1>5, <1>6, <1>7 DEF Stored
<1>9. Stored(req[t], view)' BY <1>2, <1>8
<1> QED BY <1>2, <1>3, <1>9 DEF Progress, Current

LEMMA VolumeProgress ==
  ASSUME Types, NEW t \in Threads, Progress(t), InsertVolume(t)
  PROVE  Progress(t)'
<1>1. LocalT /\ Shape(t) BY DEF Types, LocalT, Shapes
<1>2. /\ pc[t] = "insvol" /\ pc'[t] = "mkdir" /\ seen'[t] = seen[t] /\ req'[t] = req[t]
  BY <1>1 DEF InsertVolume, Write, Goto, LocalT
<1>3. seen[t] = None /\ req[t].op = "volume" BY <1>1, <1>2 DEF Progress, Selects, Shape
<1>4. req[t].name \in view'.vols BY VolumeRowStep
<1>5. Stored(req[t], view') BY <1>3, <1>4 DEF Stored
<1>6. Stored(req[t], view)' BY <1>2, <1>5
<1> QED BY <1>2, <1>3, <1>6 DEF Progress, Current

(* What was stored on the way to the commit is stored there.                *)
LEMMA OnwardProgress ==
  ASSUME Types, NEW t \in Threads, Progress(t), Goto(t, "commit"),
         UNCHANGED <<view, req, seen>>,
         pc[t] \in {"dataset", "mkdir"} \/ (pc[t] = "update" /\ req[t].op = "status")
  PROVE  Progress(t)'
<1>1. pc'[t] = "commit" BY DEF Goto, Types, LocalT
<1>2. seen'[t] = None BY DEF Progress, Selects
<1>3. req[t].op # "status" => Stored(req[t], view) BY DEF Progress
<1>4. req'[t].op # "status" => Stored(req[t], view)' BY <1>3
<1> QED BY <1>1, <1>2, <1>4 DEF Progress, Current

LEMMA ContainerProgress ==
  ASSUME Types, NEW t \in Threads, Progress(t), ContainerStep(t)
  PROVE  Progress(t)'
<1>1. CASE \/ MissingNetworks(t) \/ MissingOptions(t) \/ InvalidImage(t) \/ NoSuchVariable(t)
          \/ NoSubnet(t) \/ NoVolumeId(t) \/ VolumeRaises(t) \/ NoImageData(t)
  BY <1>1, ReplyProgress DEF MissingNetworks, MissingOptions, InvalidImage, NoSuchVariable, NoSubnet,
     NoVolumeId, VolumeRaises, NoImageData, Refuse, Raise
<1>2. CASE CreateDataset(t)
  <2>1. CASE Goto(t, "commit") BY <1>2, <2>1, OnwardProgress DEF CreateDataset, session
  <2>2. CASE Goto(t, "rollback")
    <3>1. pc'[t] = "rollback" /\ seen'[t] = None
      BY <1>2, <2>2 DEF CreateDataset, Goto, Types, LocalT, Progress, Selects
    <3> QED BY <3>1, PlainPlace
  <2> QED BY <1>2, <2>1, <2>2 DEF CreateDataset
<1> QED BY <1>1, <1>2, FindNetworksProgress, OptionsProgress, IgnoreProgress, ContainerRowProgress,
           RowIdProgress, UsedProgress, PickProgress, LinkProgress, VolumeIdProgress,
           MountProgress, LinkedProgress DEF ContainerStep, MountStep, Ignores

LEMMA OtherProgress ==
  ASSUME Types, NEW t \in Threads, Progress(t), OtherStep(t)
  PROVE  Progress(t)'
<1>1. CASE NotAttachable(t) \/ FoundVolume(t) \/ InsertRefused(t)
  BY <1>1, ReplyProgress DEF NotAttachable, FoundVolume, InsertRefused, Refuse, Raise
<1>2. CASE NoSuchVolume(t)
  <2>1. pc'[t] = "insvol" /\ seen'[t] = None
    BY <1>2 DEF NoSuchVolume, Goto, Fetch, Types, LocalT
  <2> QED BY <2>1, PlainPlace
<1>3. CASE VolumeDirectory(t)
  BY <1>3, ReplyProgress, OnwardProgress DEF VolumeDirectory, Raise, session
<1>4. CASE UpdateStatus(t)
  <2>1. req[t].op = "status" BY <1>4 DEF UpdateStatus, Types, Shapes, Shape
  <2> QED BY <1>4, <2>1, OnwardProgress DEF UpdateStatus
<1>5. CASE LinkRefused(t)
  <2>1. pc[t] \notin Selects /\ pc'[t] = "rollback" /\ seen'[t] = seen[t]
    BY <1>5 DEF LinkRefused, Refused, Selects, Goto, Types, LocalT
  <2>2. seen'[t] = None BY <2>1 DEF Progress
  <2> QED BY <2>1, <2>2, PlainPlace
<1> QED BY <1>1, <1>2, <1>3, <1>4, <1>5, FindContainerProgress, FindNetworkProgress,
           NotPresentProgress, AttachProgress, VolumeProgress DEF OtherStep

LEMMA AcquireProgress ==
  ASSUME Types, NEW t \in Threads, Progress(t), Acquire(t)
  PROVE  Progress(t)' /\ Serving(t)'
<1>1. LocalT /\ Shape(t) BY DEF Types, LocalT, Shapes
<1> DEFINE p == FirstStatement(req[t])
<1>2. /\ pc[t] = "lock" /\ pc'[t] = p /\ seen'[t] = seen[t] /\ req'[t] = req[t]
      /\ loc'[t] = loc[t] /\ view' = view
  BY <1>1 DEF Acquire, Goto, LocalT, session
<1>3. seen[t] = None /\ loc[t] = NoLocals BY <1>2 DEF Progress, Selects
<1>4. req[t] \in Requests /\ req[t].op # "network" BY <1>1, <1>2 DEF Shape
<1>5. /\ p = (IF req[t].op = "container" THEN IF req[t].nets = {} THEN "image" ELSE "nets"
              ELSE IF req[t].op = "attach" THEN "find"
              ELSE IF req[t].op = "volume" THEN "vol" ELSE "update")
  BY <1>4, RequestFields DEF FirstStatement
<1> HIDE DEF p
<1>6. CASE p # "image"
  <2>1. p \in {"nets", "find", "vol", "update"} BY <1>5, <1>6
  <2> QED BY <1>2, <1>3, <2>1, PlainPlace DEF Serving
<1>7. CASE p = "image"
  <2>1. req[t].nets = {} BY <1>5, <1>7
  <2>2. loc'[t].todo = {} /\ loc'[t].rows = {} BY <1>2, <1>3 DEF NoLocals
  <2>3. Claimed(t)' = {} BY <2>2 DEF Claimed
  <2>4. Claims(t)' BY <2>2, <2>3 DEF Claims
  <2>5. Validated(t)' BY <1>2, <2>1, <2>2, <2>4 DEF Validated
  <2> QED BY <1>2, <1>3, <1>7, <2>5 DEF Progress, Current, Serving
<1> QED BY <1>6, <1>7

LEMMA SelectProgress ==
  ASSUME Types, NEW t \in Threads, Progress(t), Select(t)
  PROVE  Progress(t)'
<1>1. /\ pc' = pc /\ req' = req /\ loc' = loc /\ view' = view /\ lastrow' = lastrow
      /\ pc[t] \in Selects /\ cursor' = t
  BY DEF Select
<1>2. seen'[t] = view' BY DEF Select, Types, LocalT
<1>3. Current(t)' BY <1>1, <1>2 DEF Current
<1>4. SubnetInHand(t)' = SubnetInHand(t) /\ Validated(t)' = Validated(t)
  BY <1>1 DEF SubnetInHand, Validated, Claims, Claimed, Ahead, UsedIn, NetIds
<1>5. Assigning(t)' = Assigning(t)
  BY <1>1 DEF Assigning, Claims, Claimed, Ahead, Linked, Wanted, UsedIn, NetIds, ContIds
<1>6. pc[t] \notin {"rowid", "mounts", "vlink", "dataset", "mkdir", "commit", "insert", "insalloc",
                   "insnet"}
  BY <1>1 DEF Selects
<1>7. Chosen(t)' = Chosen(t) /\ UsedIn(view, Min(loc[t].todo))' = UsedIn(view, Min(loc[t].todo))
  BY <1>1 DEF Chosen, ContIds, UsedIn
<1>8. Mounting(t)' = Mounting(t)
  BY <1>1 DEF Mounting, Linked, Mounted, NetIds, ContIds
<1> QED BY <1>1, <1>3, <1>4, <1>5, <1>6, <1>7, <1>8 DEF Progress

LEMMA ServeProgress ==
  ASSUME Types, Catalogued, NEW t \in Threads, Progress(t), Serve(t)
  PROVE  Progress(t)'
  BY AcquireProgress, SelectProgress, NetworkProgress, ContainerProgress, OtherProgress,
     ReplyProgress DEF Serve, FetchRaises, Raise, Commit, Rollback

(* A thread that is not served knows nothing that could change.             *)
LEMMA WaitingProgress ==
  ASSUME NEW t \in Threads, Keeps(t), NEW s \in Threads \ {t}, Progress(s), ~Serving(s)
  PROVE  Progress(s)'
<1>1. seen[s] = None /\ loc[s] = NoLocals /\ pc[s] \in {"idle", "lock"}
  BY DEF Progress, Serving, Selects
<1>2. seen'[s] = None /\ loc'[s] = NoLocals /\ pc'[s] \in {"idle", "lock"} BY <1>1 DEF Keeps
<1> QED BY <1>2, PlainPlace

-----------------------------------------------------------------------------
(* The database stays sound.                                                *)

LEMMA WithinGrows ==
  ASSUME NEW a, NEW b, NEW c, Within(a, b), Within(b, c)
  PROVE  Within(a, c)
  BY DEF Within

LEMMA WriteKeeps ==
  ASSUME Types, Sound(view), NEW t \in Threads, Progress(t), Writes(t)
  PROVE  Sound(view') /\ Within(view, view')
<1>1. /\ LocalT /\ Shape(t) /\ view.nets \in Seq(NetType) /\ view.conts \in Seq(ContNames)
  BY Fields DEF Types, LocalT, Shapes, SessionT
<1>2. Fresh(view) /\ Closed(view) /\ Recorded(view) BY DEF Sound
<1>3. CASE InsertAllocated(t)
  <2>1. /\ view'.nets = view.nets /\ view'.conts = view.conts /\ view'.links = view.links
        /\ view'.vols = view.vols /\ view'.vlinks = view.vlinks
        /\ Range(view.alloc) \subseteq Range(view'.alloc)
    BY <1>3, AllocatedStep
  <2> QED BY <1>2, <2>1 DEF Sound, Fresh, Closed, Recorded, Within
<1>4. CASE InsertNetwork(t)
  <2>1. /\ view'.nets = Append(view.nets, NetworkRow(t)) /\ NetworkRow(t) \in NetType
        /\ view'.alloc = view.alloc /\ view'.conts = view.conts /\ view'.links = view.links
        /\ view'.vols = view.vols /\ view'.vlinks = view.vlinks
    BY <1>4, NetworkRowStep
  <2> DEFINE n == Len(view.nets) + 1
  <2>2. /\ DOMAIN view'.nets = DOMAIN view.nets \cup {n}
        /\ \A i \in DOMAIN view.nets : view'.nets[i] = view.nets[i]
        /\ view'.nets[n] = NetworkRow(t)
    BY <1>1, <2>1, Appended
  <2> HIDE DEF n
  <2>3. loc[t].subnet \in Range(view.alloc) BY <1>4 DEF InsertNetwork, Progress, SubnetInHand
  <2>4. Fresh(view') /\ Closed(view') BY <1>2, <2>1, <2>2 DEF Fresh, Closed
  <2>5. Recorded(view') BY <1>2, <2>1, <2>2, <2>3 DEF Recorded, NetworkRow
  <2>6. Within(view, view') BY <2>1, <2>2 DEF Within
  <2> QED BY <2>4, <2>5, <2>6 DEF Sound
<1>5. CASE InsertContainer(t)
  <2>1. /\ view'.conts = Append(view.conts, req[t].name) /\ req[t].name \in ContNames
        /\ view'.alloc = view.alloc /\ view'.nets = view.nets /\ view'.links = view.links
        /\ view'.vols = view.vols /\ view'.vlinks = view.vlinks
    BY <1>5, ContainerRowStep
  <2>2. /\ DOMAIN view.conts \subseteq DOMAIN view'.conts
        /\ \A i \in DOMAIN view.conts : view'.conts[i] = view.conts[i]
    BY <1>1, <2>1, Appended
  <2> QED BY <1>2, <2>1, <2>2 DEF Sound, Fresh, Closed, Recorded, Within
<1>6. CASE InsertLink(t)
  <2> DEFINE row == NextRow(t)
  <2>1. /\ view'.links = view.links \cup {Link(t)} /\ row \in loc[t].rows
        /\ view'.alloc = view.alloc /\ view'.nets = view.nets /\ view'.conts = view.conts
        /\ view'.vols = view.vols /\ view'.vlinks = view.vlinks
    BY <1>6, LinkStep
  <2>2. Link(t).net = row.net /\ Link(t).cont = loc[t].cid /\ Link(t).ip = row.ip BY DEF Link
  <2> HIDE DEF row
  <2>3. Claims(t) /\ loc[t].cid \in ContIds(view, req[t].name)
    BY <1>6 DEF InsertLink, Progress, Assigning
  <2>4. row.ip # 1 /\ (row.ip # NoAddress => row.ip \notin UsedIn(view, row.net))
    BY <2>1, <2>3 DEF Claims
  <2>5. row.net \in DOMAIN view.nets BY <2>1, <2>3 DEF Claims, Claimed
  <2>6. \A l \in view.links : l.net = row.net => l.ip \in UsedIn(view, row.net) BY DEF UsedIn
  <2>7. Fresh(view') BY <1>2, <2>1, <2>2, <2>4, <2>6 DEF Fresh
  <2>8. Closed(view') BY <1>2, <2>1, <2>2, <2>3, <2>5 DEF Closed, ContIds
  <2>9. Recorded(view') /\ Within(view, view') BY <1>2, <2>1 DEF Recorded, Within
  <2> QED BY <2>7, <2>8, <2>9 DEF Sound
<1>7. CASE LinkVolume(t)
  <2>1. /\ view'.vlinks = view.vlinks \cup {VolumeLink(t)} /\ VolumeLink(t).cont = loc[t].cid
        /\ view'.alloc = view.alloc /\ view'.nets = view.nets /\ view'.conts = view.conts
        /\ view'.links = view.links /\ view'.vols = view.vols
    BY <1>7, VolumeLinkStep DEF VolumeLink
  <2>2. loc[t].cid \in DOMAIN view.conts /\ VolumeLink(t).vol \in view.vols
    BY <1>7 DEF LinkVolume, Progress, Mounting, ContIds
  <2>3. Fresh(view') /\ Closed(view') BY <1>2, <2>1, <2>2 DEF Fresh, Closed
  <2>4. Recorded(view') /\ Within(view, view') BY <1>2, <2>1 DEF Recorded, Within
  <2> QED BY <2>3, <2>4 DEF Sound
<1>8. CASE InsertVolume(t)
  <2>1. /\ view'.vols = view.vols \cup {req[t].name}
        /\ view'.alloc = view.alloc /\ view'.nets = view.nets /\ view'.conts = view.conts
        /\ view'.links = view.links /\ view'.vlinks = view.vlinks
    BY <1>8, VolumeRowStep
  <2> QED BY <1>2, <2>1 DEF Sound, Fresh, Closed, Recorded, Within
<1>9. CASE Ignores(t)
  BY <1>2, <1>9, IgnoreStep DEF Sound, Fresh, Closed, Recorded, Within
<1> QED BY <1>3, <1>4, <1>5, <1>6, <1>7, <1>8, <1>9 DEF Writes, Ignores

LEMMA ServeCatalogued ==
  ASSUME Types, Catalogued, NEW t \in Threads, Progress(t), Serve(t)
  PROVE  Catalogued'
<1>1. /\ Sound(view) /\ Sound(disk) /\ Within(disk, view) /\ created \subseteq Requests
      /\ \A r \in created : r.op # "status" /\ Stored(r, disk)
  BY DEF Catalogued, Types
<1>2. CASE Writes(t)
  <2>1. Sound(view') /\ Within(view, view') BY <1>1, <1>2, WriteKeeps
  <2>2. disk' = disk /\ created' = created BY <1>2, WriteFrame
  <2>3. Within(disk, view') BY <1>1, <2>1, WithinGrows
  <2> QED BY <1>1, <2>1, <2>2, <2>3 DEF Catalogued
<1>3. CASE Commit(t)
  <2>1. /\ disk' = view /\ view' = view /\ pc[t] = "commit"
        /\ created' = created \cup {r \in {req[t]} : r.op # "status"}
    BY <1>3 DEF Commit
  <2>2. \A r \in created : r.op # "status" /\ Stored(r, view) BY <1>1, StoredGrows
  <2>3. req[t].op # "status" => Stored(req[t], view) BY <2>1 DEF Progress
  <2>4. Within(view, view) BY DEF Within
  <2>5. \A r \in created' : r.op # "status" /\ Stored(r, view) BY <2>1, <2>2, <2>3
  <2> QED BY <1>1, <2>1, <2>4, <2>5 DEF Catalogued
<1>4. CASE Rollback(t)
  <2>1. Within(disk, disk) BY DEF Within
  <2> QED BY <1>1, <1>4, <2>1 DEF Rollback, Catalogued
<1>5. CASE ~Writes(t) /\ ~Commit(t) /\ ~Rollback(t)
  <2>1. view' = view /\ disk' = disk /\ created' = created BY <1>5, Quiet
  <2> QED BY <1>1, <2>1 DEF Catalogued
<1> QED BY <1>2, <1>3, <1>4, <1>5

LEMMA RestartReliable ==
  ASSUME Types, Catalogued, NEW db \in {view, disk}, Restart(db)
  PROVE  Reliable'
<1>1. /\ Sound(db) /\ Within(disk, db) /\ Within(db, db) /\ created \subseteq Requests
      /\ \A r \in created : r.op # "status" /\ Stored(r, disk)
  BY DEF Catalogued, Types, Within
<1>2. \A r \in created : r.op # "status" /\ Stored(r, db) BY <1>1, StoredGrows
<1>3. view' = db /\ disk' = db /\ created' = created BY DEF Restart
<1>4. Catalogued' BY <1>1, <1>2, <1>3 DEF Catalogued
<1>5. ASSUME NEW s \in Threads PROVE Progress(s)'
  <2>1. seen'[s] = None /\ loc'[s] = NoLocals /\ pc'[s] = "idle" BY DEF Restart
  <2> QED BY <2>1, PlainPlace
<1> QED BY <1>4, <1>5 DEF Reliable

(* What a handler knows depends on its own variables and the database.      *)
LEMMA SameProgress ==
  ASSUME NEW t \in Threads, UNCHANGED <<view, cursor, lastrow>>, Progress(t),
         pc'[t] = pc[t], req'[t] = req[t], seen'[t] = seen[t], loc'[t] = loc[t]
  PROVE  Progress(t)'
<1>1. view' = view /\ cursor' = cursor /\ lastrow' = lastrow OBVIOUS
<1>2. SubnetInHand(t)' = SubnetInHand(t) BY <1>1 DEF SubnetInHand
<1>3. /\ Claims(t)' = Claims(t)
      /\ \A n : Ahead(t, n)' = Ahead(t, n) /\ Linked(t, n)' = Linked(t, n)
      /\ Claimed(t)' = Claimed(t) /\ Wanted(t)' = Wanted(t)
  BY <1>1, SameRows
<1>4. Validated(t) => Validated(t)'
  <2> SUFFICES ASSUME Validated(t) PROVE Validated(t)' OBVIOUS
  <2>1. ASSUME NEW n \in req[t].nets PROVE Ahead(t, n)' BY <1>3 DEF Validated
  <2> QED BY <1>3, <2>1 DEF Validated
<1>5. Assigning(t) => Assigning(t)'
  <2> SUFFICES ASSUME Assigning(t) PROVE Assigning(t)' OBVIOUS
  <2>1. ASSUME NEW n \in Wanted(t) PROVE Ahead(t, n)' \/ Linked(t, n)' BY <1>3 DEF Assigning
  <2> QED BY <1>1, <1>3, <2>1 DEF Assigning
<1>6. Mounting(t) => Mounting(t)' BY <1>1, MountingStays
<1>8. Chosen(t)' = Chosen(t) BY <1>1 DEF Chosen
<1>9. (VolumeLink(t).vol \in view.vols) => (VolumeLink(t).vol \in view.vols)'
  BY <1>1 DEF VolumeLink
<1>10. UsedIn(view, Min(loc[t].todo))' = UsedIn(view, Min(loc[t].todo)) BY <1>1
<1>7. Current(t)' BY <1>1 DEF Progress, Current
<1> QED BY <1>1, <1>2, <1>4, <1>5, <1>6, <1>7, <1>8, <1>9, <1>10 DEF Progress

LEMMA ServingServes ==
  ASSUME Types, NEW t \in Threads, Serve(t), ~Acquire(t)
  PROVE  Serving(t)
<1>1. CASE Select(t) \/ FetchRaises(t) \/ Commit(t) \/ Rollback(t)
  BY <1>1 DEF Select, FetchRaises, Commit, Rollback, Selects, Serving
<1>2. CASE NetworkStep(t)
  BY <1>2 DEF NetworkStep, FoundName, NoSuchName, AllocateSubnet, PoolExhausted, Fetched,
     InsertAllocated, InsertNetwork, Serving
<1>3. CASE ContainerStep(t)
  BY <1>3 DEF ContainerStep, MountStep, FindNetworks, MissingNetworks, FindVolumes, MissingOptions,
     FindImage, InvalidImage, AnonymousVolume, NoSuchVariable, InsertContainer, RowId, UsedAddresses,
     NoSubnet, PickAddress, SubnetFound, InsertLink, InsertMounted, VolumeId, NoVolumeId, LinkVolume,
     VolumeRaises, VolumesLinked, CreateDataset, NoImageData, Fetched, Serving
<1>4. CASE OtherStep(t)
  BY <1>4 DEF OtherStep, FindContainer, FindNetwork, NotPresent, NotAttachable, AttachAddress,
     SubnetFound, LinkRefused, FoundVolume, NoSuchVolume, InsertVolume, VolumeDirectory, UpdateStatus,
     InsertRefused, Refused, Fetched, Serving
<1> QED BY <1>1, <1>2, <1>3, <1>4 DEF Serve

LEMMA ReliableStep ==
  ASSUME Types, Locked, NetworkAlone, NetworkAlone', Reliable, [Next]_vars, Types', Locked'
  PROVE  Reliable'
<1>1. Catalogued /\ \A t \in Threads : Progress(t) BY DEF Reliable
<1>2. CASE UNCHANGED vars
  <2>1. Catalogued' BY <1>1, <1>2 DEF vars, Catalogued
  <2>2. ASSUME NEW t \in Threads PROVE Progress(t)'
    <3>1. Progress(t) BY <1>1
    <3>2. UNCHANGED <<view, cursor, lastrow, pc, req, seen, loc>> BY <1>2 DEF vars
    <3> QED BY <3>1, <3>2, SameProgress
  <2> QED BY <2>1, <2>2 DEF Reliable
<1>3. CASE Request
  <2>1. PICK t \in Threads, r \in Requests : Begin(t, r) BY <1>3 DEF Request
  <2>2. /\ Keeps(t) /\ pc[t] = "idle" /\ UNCHANGED <<view, disk, cursor, lastrow, created>>
        /\ seen'[t] = seen[t] /\ loc'[t] = loc[t]
        /\ pc'[t] = (IF r.op = "network" THEN "names" ELSE "lock")
    BY <2>1, RequestLocal DEF Begin, session, Goto, Types, LocalT
  <2>3. Progress(t)'
    <3>1. seen'[t] = None /\ loc'[t] = NoLocals BY <1>1, <2>2 DEF Progress, Selects
    <3> QED BY <2>2, <3>1, PlainPlace
  <2>4. ASSUME NEW s \in Threads \ {t} PROVE Progress(s)'
    <3>1. Progress(s) /\ pc'[s] = pc[s] /\ req'[s] = req[s] /\ seen'[s] = seen[s] /\ loc'[s] = loc[s]
      BY <1>1, <2>2 DEF Keeps
    <3> QED BY <2>2, <3>1, SameProgress
  <2>5. Catalogued' BY <1>1, <2>2 DEF Catalogued
  <2> QED BY <2>3, <2>4, <2>5 DEF Reliable
<1>4. ASSUME NEW t \in Threads, Serve(t) PROVE Reliable'
  <2>1. Catalogued' /\ Progress(t)' /\ Keeps(t) BY <1>1, <1>4, ServeCatalogued, ServeProgress, ServeLocal
  <2>2. ASSUME NEW s \in Threads \ {t} PROVE ~Serving(s)
    <3>1. CASE Acquire(t)
      <4>1. Serving(t)' BY <1>1, <3>1, AcquireProgress
      <4>2. Serving(s)' => Serving(t)' /\ s = t
        BY <4>1 DEF Locked, NetworkAlone
      <4> QED BY <2>1, <4>2 DEF Serving, Keeps
    <3>2. CASE ~Acquire(t)
      <4>1. Serving(t) BY <1>4, <3>2, ServingServes
      <4> QED BY <4>1, Alone
    <3> QED BY <3>1, <3>2
  <2>3. \A s \in Threads \ {t} : Progress(s)' BY <1>1, <2>1, <2>2, WaitingProgress
  <2> QED BY <2>1, <2>3 DEF Reliable
<1>5. CASE Crash \/ Terminate BY <1>1, <1>5, RestartReliable DEF Crash, Terminate
<1> QED BY <1>2, <1>3, <1>4, <1>5 DEF Next

LEMMA ReliableAlways == Spec /\ []NetworkAlone => []Reliable
<1>1. Init => Reliable
  <2> SUFFICES ASSUME Init PROVE Reliable OBVIOUS
  <2>1. Sound(EmptyDatabase) BY NothingStored DEF Sound, Fresh, Closed, Recorded
  <2>2. Within(EmptyDatabase, EmptyDatabase) BY DEF Within
  <2>3. Catalogued BY <2>1, <2>2 DEF Init, Catalogued
  <2>4. ASSUME NEW t \in Threads PROVE Progress(t)
    BY DEF Init, Progress, Current, Selects
  <2> QED BY <2>3, <2>4 DEF Reliable
<1>2. Types /\ Locked /\ NetworkAlone /\ NetworkAlone' /\ Reliable /\ [Next]_vars
      /\ Types' /\ Locked' => Reliable'
  BY ReliableStep
<1> QED BY <1>1, <1>2, TypesAlways, LockedAlways, PTL DEF Spec

-----------------------------------------------------------------------------
(* What holds of every run in which add_network, which takes no lock, is    *)
(* not served while another request is.                                     *)

(* Two containers of a network never get the same address, nor the          *)
(* gateway's, whichever handlers fail, raise or are cut off by a crash:     *)
(* what get_free_ip_for_network found free stays free until it is inserted. *)
THEOREM AddressesFresh == Spec /\ []NetworkAlone => []FreshAddresses
<1>1. Reliable => FreshAddresses
  BY DEF Reliable, Catalogued, Sound, Fresh, FreshAddresses
<1> QED BY <1>1, ReliableAlways, PTL

(* No link names a network, a container or a volume that is not there.      *)
THEOREM LinksAreClosed == Spec /\ []NetworkAlone => []LinksClosed
<1>1. Reliable => LinksClosed
  BY DEF Reliable, Catalogued, Sound, Closed, LinksClosed
<1> QED BY <1>1, ReliableAlways, PTL

(* What was answered with 201 is on the disk, with all of its networks and  *)
(* volumes, and no rollback of another request and no crash takes it away.  *)
THEOREM AnswersAreStored == Spec /\ []NetworkAlone => []AnsweredIsStored
<1>1. Reliable => AnsweredIsStored BY DEF Reliable, Catalogued, AnsweredIsStored
<1> QED BY <1>1, ReliableAlways, PTL

(* The subnet that SubnetAllocator chose still overlaps no network when its *)
(* network is inserted.                                                     *)
THEOREM ChosenSubnetsDisjoint == Spec /\ []NetworkAlone => AutoSubnetsDisjoint
<1> DEFINE Disjoint ==
      \A t \in Threads : InsertsNetwork(t) /\ req[t].subnet = None =>
        \A i \in DOMAIN view.nets : view.nets[i].subnet \cap loc[t].subnet = {}
<1>1. Reliable => [Disjoint]_vars
  <2> SUFFICES ASSUME Reliable PROVE Disjoint OBVIOUS
  <2> SUFFICES ASSUME NEW t \in Threads, InsertsNetwork(t), req[t].subnet = None
               PROVE  \A i \in DOMAIN view.nets : view.nets[i].subnet \cap loc[t].subnet = {}
    OBVIOUS
  <2>1. SubnetInHand(t) BY DEF InsertsNetwork, Reliable, Progress
  <2> QED BY <2>1 DEF SubnetInHand
<1> QED BY <1>1, ReliableAlways, PTL DEF AutoSubnetsDisjoint
=============================================================================
