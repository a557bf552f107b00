------------------------------ MODULE Catalog ------------------------------
(***************************************************************************)
(* The catalog of dockermock: networks, subnets, containers, addresses and *)
(* volumes in one sqlite database (app2/JailManager_.py).                  *)
(*                                                                         *)
(* All request threads share one connection and one cursor.  So they share *)
(* the open transaction (`view' is what the connection sees, `disk' what   *)
(* was committed), the rows of the last SELECT (`cursor' says whose they   *)
(* are) and lastrowid.  Every handler holds server.lock except add_network, *)
(* which may run between any two statements of another one.                *)
(*                                                                         *)
(* A row's id is its position: ids are AUTOINCREMENT and no handler of     *)
(* this program succeeds in deleting a row.  A subnet is the set of cells  *)
(* it covers, an address is its number within the subnet, 1 the gateway's. *)
(***************************************************************************)
EXTENDS Naturals, Sequences, FiniteSets, Functions, FiniteSetsExt

CONSTANTS
  Threads,      \* concurrent requests
  NetNames, ContNames, VolNames,   \* names a client may use
  MountLists,   \* what a client may mount: sequences of [key, source]
  Anonymous,    \* volume names that are UUIDs: the server makes them up for the
                \* volumes of an image, and a client may use one for a source
  Pool,         \* the /24 candidates of the base network, in order
  UserSubnets,  \* the subnets a client may ask for
  Hosts,        \* number of host addresses of a subnet
  Faults,       \* the failures the environment may inject, see CatalogFaults
  None

(* "clone": the dataset of the image cannot be cloned; "image": it is gone; *)
(* "mkdir": a directory cannot be made; "crash": the server is killed;      *)
(* "term": SIGTERM is delivered to it.                                      *)
CatalogFaults == {"clone", "image", "mkdir", "crash", "term"}

ASSUME CatalogAssumption ==
  /\ Pool \in Seq((SUBSET UNION Range(Pool)) \ {{}})
  /\ {} \notin UserSubnets
  /\ MountLists \subseteq Seq([key : VolNames, source : VolNames])
  /\ Anonymous \subseteq VolNames
  /\ Hosts \in Nat \ {0}
  /\ Faults \subseteq CatalogFaults
  /\ None \notin Threads \cup UserSubnets

VARIABLES
  view,      \* the database as the connection sees it
  disk,      \* the database as it was committed last
  cursor,    \* the thread whose statement the shared cursor ran last
  lastrow,   \* cursor.lastrowid
  lock,      \* the thread that holds server.lock
  pc,        \* the next statement of each request thread
  req,       \* the request it serves
  seen,      \* what its SELECT found, until it fetches the rows
  loc,       \* the local variables of its handler
  created,   \* requests that were answered 201 (history)
  stranded   \* a handler ended after an INSERT of its own, with neither commit
             \* nor rollback (history)

vars == <<view, disk, cursor, lastrow, lock, pc, req, seen, loc,
          created, stranded>>
session == <<view, disk, cursor, lastrow, stranded>>

-----------------------------------------------------------------------------
(* Value sets.                                                             *)

Subnets == Range(Pool) \cup UserSubnets
NoAddress == 0     \* the string 'None' in container_networks.ip_address
Requests ==
       [op : {"network"}, name : NetNames, subnet : UserSubnets \cup {None}]
  \cup [op : {"container"}, name : ContNames, nets : SUBSET NetNames,
        mounts : MountLists]
  \cup [op : {"attach"}, name : ContNames, net : NetNames]
  \cup [op : {"volume"}, name : VolNames]
  \cup [op : {"status"}]

Selects == {"names", "alloc", "nets", "volumes", "image", "used", "subnet",
            "volid", "find", "findnet", "present", "vol"}
Pcs == Selects \cup
  {"idle", "lock", "insalloc", "insnet", "anon", "noname", "insert", "rowid",
   "links", "mounts", "vlink", "dataset", "insvol", "mkdir", "update",
   "commit", "rollback"}

Databases ==
  [alloc : Seq(Subnets),
   nets  : Seq([name : NetNames, subnet : Subnets]),
   conts : Seq(ContNames),
   links : SUBSET [net : Nat, cont : Nat, ip : 0..Hosts],
   vols  : SUBSET VolNames,
   vlinks : SUBSET [vol : VolNames, cont : Nat]]

EmptyDatabase ==
  [alloc |-> <<>>, nets |-> <<>>, conts |-> <<>>, links |-> {},
   vols |-> {}, vlinks |-> {}]

(* subnet: chosen for a network; cid: the row of the container; todo: ids   *)
(* of the networks that still need an address; used: the addresses in the   *)
(* first of them; rows: links to insert; mounts: volume mounts not yet      *)
(* linked.                                                                  *)
NoLocals == [subnet |-> None, cid |-> 0, todo |-> {}, used |-> {}, rows |-> {},
             mounts |-> <<>>]

TypeOK ==
  /\ view \in Databases /\ disk \in Databases
  /\ cursor \in Threads \cup {None}
  /\ lastrow \in Nat
  /\ lock \in Threads \cup {None}
  /\ pc \in [Threads -> Pcs]
  /\ req \in [Threads -> Requests \cup {None}]
  /\ seen \in [Threads -> Databases \cup {None}]
  /\ loc \in [Threads -> [subnet : Subnets \cup {None}, cid : Nat,
                          todo : SUBSET Nat, used : SUBSET (0..Hosts),
                          rows : SUBSET [net : Nat, ip : 0..Hosts],
                          mounts : Seq([key : VolNames, source : VolNames])]]
  /\ created \subseteq Requests
  /\ stranded \in BOOLEAN

Init ==
  /\ view = EmptyDatabase /\ disk = EmptyDatabase
  /\ cursor = None /\ lastrow = 0 /\ lock = None
  /\ pc = [t \in Threads |-> "idle"]
  /\ req = [t \in Threads |-> None]
  /\ seen = [t \in Threads |-> None]
  /\ loc = [t \in Threads |-> NoLocals]
  /\ created = {} /\ stranded = FALSE

-----------------------------------------------------------------------------
(* Helpers.                                                                *)

NetIds(db, names) == {i \in DOMAIN db.nets : db.nets[i].name \in names}
ContIds(db, name) == {i \in DOMAIN db.conts : db.conts[i] = name}
BugUsedIn(db, net) == {l.ip : l \in {k \in db.links : k.cont = net}}
UsedIn(db, net) == {l.ip : l \in {k \in db.links : k.net = net}}

(* SubnetAllocator: the first candidate that overlaps nothing allocated.    *)
BugOverlaps(a, b) == a = b
Overlaps(a, b) == a \cap b # {}
FreeCandidates(allocated) ==
  {i \in DOMAIN Pool : \A s \in allocated : ~Overlaps(Pool[i], s)}
FirstFree(allocated) ==
  LET free == FreeCandidates(allocated)
  IN  IF free = {} THEN None ELSE Pool[Min(free)]

(* The first address of the subnet that no row uses, the gateway's skipped. *)
BugFreeAddress(used) ==
  LET free == 2..(Hosts + 1) \ used
  IN  IF free = {} THEN NoAddress ELSE Min(free)
FreeAddress(used) ==
  LET free == 2..Hosts \ used
  IN  IF free = {} THEN NoAddress ELSE Min(free)

Goto(t, p) == pc' = [pc EXCEPT ![t] = p]
Set(t, l) == loc' = [loc EXCEPT ![t] = l]

(* The handler returns or raises, and releases the lock if it has it.       *)
Reply(t) ==
  /\ Goto(t, "idle")
  /\ Set(t, NoLocals)
  /\ seen' = [seen EXCEPT ![t] = None]
  /\ req' = [req EXCEPT ![t] = None]
  /\ lock' = IF lock = t THEN None ELSE lock

(* The answer is an error, before the first INSERT of the handler.          *)
Refuse(t) ==
  /\ Reply(t)
  /\ UNCHANGED <<view, disk, cursor, lastrow, created, stranded>>

(* The handler ends with an exception, or with an error answer for one that *)
(* it has caught (create_network, create_volume).  Neither ends the         *)
(* transaction.                                                             *)
Inserted(t) ==
  \/ pc[t] \in {"insnet", "noname", "rowid", "mounts", "volid", "vlink",
                 "dataset", "mkdir"}
  \/ pc[t] \in {"used", "subnet", "links"} /\ req[t].op = "container"
Raise(t) ==
  /\ Reply(t)
  /\ stranded' = (stranded \/ Inserted(t))
  /\ UNCHANGED <<view, disk, cursor, lastrow, created>>

(* An INSERT or UPDATE: it changes what the connection sees, and the cursor *)
(* keeps the id of the new row.                                             *)
Write(t, db, id) ==
  /\ view' = db /\ cursor' = t /\ lastrow' = id
  /\ UNCHANGED <<disk, lock, req, seen, created, stranded>>

(* INSERT OR IGNORE INTO volumes.                                           *)
InsertOrIgnore(t, v) ==
  LET vols == view.vols \cup {v} IN
  Write(t, [view EXCEPT !.vols = vols],
        IF v \in view.vols THEN lastrow ELSE Cardinality(vols))

-----------------------------------------------------------------------------
(* Requests and the lock.                                                  *)

Begin(t, r) ==
  /\ pc[t] = "idle"
  /\ req' = [req EXCEPT ![t] = r]
  /\ Goto(t, IF r.op = "network" THEN "names" ELSE "lock")
  /\ UNCHANGED <<session, lock, seen, loc, created>>

FirstStatement(r) ==
  CASE r.op = "container" -> IF r.nets = {} THEN "image" ELSE "nets"
    [] r.op = "attach" -> "find"
    [] r.op = "volume" -> "vol"
    [] r.op = "status" -> "update"

Acquire(t) ==
  /\ pc[t] = "lock" /\ lock = None
  /\ lock' = t
  /\ Goto(t, FirstStatement(req[t]))
  /\ UNCHANGED <<session, req, seen, loc, created>>

(* execute(SELECT ...): the shared cursor now holds this thread's rows.     *)
Select(t) ==
  /\ pc[t] \in Selects /\ seen[t] = None
  /\ seen' = [seen EXCEPT ![t] = view]
  /\ cursor' = t
  /\ UNCHANGED <<view, disk, lastrow, stranded, lock, pc, req, loc, created>>

(* fetchone(), fetchall(): if another thread has used the cursor meanwhile, *)
(* the rows are not this thread's: none of them means anything to it.       *)
Fetched(t, p) == pc[t] = p /\ seen[t] # None
Rows(t) == IF cursor = t THEN seen[t] ELSE EmptyDatabase
Fetch(t) ==
  /\ seen' = [seen EXCEPT ![t] = None]
  /\ UNCHANGED <<session, lock, req, created>>

(* Or they cannot even be unpacked, and the handler raises.                 *)
FetchRaises(t) ==
  /\ pc[t] \in Selects /\ seen[t] # None /\ cursor # t
  /\ Raise(t)

-----------------------------------------------------------------------------
(* add_network, create_network: without the lock.                          *)

FoundName(t) ==
  /\ Fetched(t, "names")
  /\ NetIds(Rows(t), {req[t].name}) # {}
  /\ Refuse(t)

NoSuchName(t) ==
  /\ Fetched(t, "names")
  /\ NetIds(Rows(t), {req[t].name}) = {}
  /\ Set(t, [loc[t] EXCEPT !.subnet = req[t].subnet])
  /\ Goto(t, IF req[t].subnet = None THEN "alloc" ELSE "insalloc")
  /\ Fetch(t)

AllocateSubnet(t) ==
  LET subnet == FirstFree(Range(Rows(t).alloc)) IN
  /\ Fetched(t, "alloc")
  /\ subnet # None
  /\ Set(t, [loc[t] EXCEPT !.subnet = subnet])
  /\ Goto(t, "insalloc")
  /\ Fetch(t)

(* allocate_subnet returns None, which cannot be unpacked into a pair.      *)
PoolExhausted(t) ==
  /\ Fetched(t, "alloc")
  /\ FirstFree(Range(Rows(t).alloc)) = None
  /\ Raise(t)

InsertAllocated(t) ==
  LET alloc == Append(view.alloc, loc[t].subnet) IN
  /\ pc[t] = "insalloc"
  /\ loc[t].subnet \notin Range(view.alloc)
  /\ Write(t, [view EXCEPT !.alloc = alloc], Len(alloc))
  /\ Goto(t, "insnet")
  /\ UNCHANGED loc

NetworkRow(t) == [name |-> req[t].name, subnet |-> loc[t].subnet]

InsertNetwork(t) ==
  LET nets == Append(view.nets, NetworkRow(t)) IN
  /\ pc[t] = "insnet"
  /\ NetIds(view, {req[t].name}) = {}
  /\ Write(t, [view EXCEPT !.nets = nets], Len(nets))
  /\ Goto(t, "commit")
  /\ UNCHANGED loc

-----------------------------------------------------------------------------
(* create_container.                                                       *)

(* validate_container_options: networks and volumes must exist; volumes are *)
(* checked only if there are networks.  A missing network leaves nothing to *)
(* do, and is reported after the volumes have been looked up.               *)
NetsFound(t, db) == req[t].nets \subseteq {db.nets[i].name : i \in DOMAIN db.nets}
VolumesFound(t, db) == {m.key : m \in Range(req[t].mounts)} \subseteq db.vols

FindNetworks(t) ==
  LET todo == IF NetsFound(t, Rows(t)) THEN NetIds(Rows(t), req[t].nets) ELSE {}
  IN  /\ Fetched(t, "nets")
      /\ todo # {} \/ req[t].mounts # <<>>
      /\ Set(t, [loc[t] EXCEPT !.todo = todo])
      /\ Goto(t, IF req[t].mounts = <<>> THEN "image" ELSE "volumes")
      /\ Fetch(t)

MissingNetworks(t) ==
  /\ Fetched(t, "nets")
  /\ ~NetsFound(t, Rows(t)) /\ req[t].mounts = <<>>
  /\ Refuse(t)

FindVolumes(t) ==
  /\ Fetched(t, "volumes")
  /\ loc[t].todo # {} /\ VolumesFound(t, Rows(t))
  /\ Goto(t, "image")
  /\ Fetch(t)
  /\ UNCHANGED loc

MissingOptions(t) ==
  /\ Fetched(t, "volumes")
  /\ loc[t].todo = {} \/ ~VolumesFound(t, Rows(t))
  /\ Refuse(t)

(* The image, if it is there; it may ask for volumes of its own.            *)
FindImage(t) ==
  LET asked == {m.source : m \in Range(req[t].mounts)} \cap Anonymous IN
  /\ Fetched(t, "image") /\ cursor = t
  /\ \/ asked = {} /\ Goto(t, "insert")
     \/ Anonymous # {} /\ Goto(t, "anon")
  /\ Fetch(t)
  /\ UNCHANGED loc

InvalidImage(t) == Fetched(t, "image") /\ Refuse(t)

(* create_anamous_volumes, for the first volume whose name is a UUID: the   *)
(* directory, the row, and then a variable that does not exist.             *)
AnonymousVolume(t) ==
  /\ pc[t] = "anon"
  /\ \E v \in Anonymous : InsertOrIgnore(t, v)
  /\ Goto(t, "noname")
  /\ UNCHANGED loc

NoSuchVariable(t) ==
  \/ pc[t] = "noname" /\ Raise(t)
  \/ pc[t] = "anon" /\ "mkdir" \in Faults /\ Raise(t)

InsertContainer(t) ==
  LET conts == Append(view.conts, req[t].name) IN
  /\ pc[t] = "insert"
  /\ ContIds(view, req[t].name) = {}
  /\ Write(t, [view EXCEPT !.conts = conts], Len(conts))
  /\ Goto(t, "rowid")
  /\ UNCHANGED loc

(* inserted_id = cursor.lastrowid, whoever inserted last.                   *)
BugRowIdBefore(t) ==
  /\ pc[t] = "rowid"
  /\ Set(t, [loc[t] EXCEPT !.cid = lastrow - 1, !.mounts = req[t].mounts])
  /\ Goto(t, IF loc[t].todo = {} THEN "mounts" ELSE "used")
  /\ UNCHANGED <<session, lock, req, seen, created>>
RowId(t) ==
  /\ pc[t] = "rowid"
  /\ Set(t, [loc[t] EXCEPT !.cid = lastrow, !.mounts = req[t].mounts])
  /\ Goto(t, IF loc[t].todo = {} THEN "mounts" ELSE "used")
  /\ UNCHANGED <<session, lock, req, seen, created>>

(* get_free_ip_for_network, for one of the networks after the other: the    *)
(* addresses in use, the subnet, the first that is free.  A full network    *)
(* gives None, which is stored as a string.                                 *)
UsedAddresses(t) ==
  /\ Fetched(t, "used")
  /\ Set(t, [loc[t] EXCEPT !.used = UsedIn(Rows(t), Min(loc[t].todo))])
  /\ Goto(t, "subnet")
  /\ Fetch(t)

SubnetFound(t) ==
  Fetched(t, "subnet") /\ Min(loc[t].todo) \in DOMAIN Rows(t).nets
NoSubnet(t) ==
  /\ Fetched(t, "subnet") /\ Min(loc[t].todo) \notin DOMAIN Rows(t).nets
  /\ Raise(t)

BugOneNetwork(t) ==
  LET row == [net |-> Min(loc[t].todo), ip |-> FreeAddress(loc[t].used)]
  IN  /\ SubnetFound(t)
      /\ req[t].op = "container"
      /\ Set(t, [loc[t] EXCEPT !.todo = {}, !.used = {}, !.rows = {row}])
      /\ Goto(t, "links")
      /\ Fetch(t)
PickAddress(t) ==
  LET net == Min(loc[t].todo)
      row == [net |-> net, ip |-> FreeAddress(loc[t].used)]
      todo == loc[t].todo \ {net}
  IN  /\ SubnetFound(t)
      /\ req[t].op = "container"
      /\ Set(t, [loc[t] EXCEPT !.todo = todo, !.used = {}, !.rows = @ \cup {row}])
      /\ Goto(t, IF todo = {} THEN "links" ELSE "used")
      /\ Fetch(t)

LinkExists(net, cid) == \E l \in view.links : l.net = net /\ l.cont = cid
NextRow(t) == CHOOSE r \in loc[t].rows : \A q \in loc[t].rows : r.net <= q.net

(* One row of executemany, or the row that attach_network inserts.          *)
InsertLink(t) ==
  LET row == NextRow(t)
      link == [net |-> row.net, cont |-> loc[t].cid, ip |-> row.ip]
      rest == loc[t].rows \ {row}
  IN  /\ pc[t] = "links"
      /\ ~LinkExists(row.net, loc[t].cid)
      /\ Write(t, [view EXCEPT !.links = @ \cup {link}],
               Cardinality(view.links) + 1)
      /\ Set(t, [loc[t] EXCEPT !.rows = rest])
      /\ Goto(t, IF rest # {} THEN "links"
                 ELSE IF req[t].op = "attach" THEN "commit" ELSE "mounts")

(* link_container_volumes: the directory, the volume if there is none, its  *)
(* id, its link.                                                            *)
VolumeLink(t) == [vol |-> Head(loc[t].mounts).source, cont |-> loc[t].cid]

InsertMounted(t) ==
  /\ pc[t] = "mounts" /\ loc[t].mounts # <<>>
  /\ InsertOrIgnore(t, VolumeLink(t).vol)
  /\ Goto(t, "volid")
  /\ UNCHANGED loc

VolumeId(t) ==
  /\ Fetched(t, "volid")
  /\ VolumeLink(t).vol \in Rows(t).vols
  /\ Goto(t, "vlink")
  /\ Fetch(t)
  /\ UNCHANGED loc

NoVolumeId(t) ==
  /\ Fetched(t, "volid")
  /\ VolumeLink(t).vol \notin Rows(t).vols
  /\ Raise(t)

LinkVolume(t) ==
  /\ pc[t] = "vlink"
  /\ VolumeLink(t) \notin view.vlinks
  /\ Write(t, [view EXCEPT !.vlinks = @ \cup {VolumeLink(t)}],
           Cardinality(view.vlinks) + 1)
  /\ Set(t, [loc[t] EXCEPT !.mounts = Tail(@)])
  /\ Goto(t, "mounts")

VolumeRaises(t) ==
  /\ pc[t] = "mounts" /\ loc[t].mounts # <<>>
  /\ "mkdir" \in Faults
  /\ Raise(t)

VolumesLinked(t) ==
  /\ pc[t] = "mounts" /\ loc[t].mounts = <<>>
  /\ Goto(t, "dataset")
  /\ UNCHANGED <<session, lock, req, seen, loc, created>>

(* create_dataset: done, or an error that is reported.                      *)
BugNoRollback(t) ==
  /\ pc[t] = "dataset"
  /\ \/ /\ Goto(t, "commit")
        /\ UNCHANGED <<session, lock, req, seen, loc, created>>
     \/ "clone" \in Faults /\ Refuse(t)
CreateDataset(t) ==
  /\ pc[t] = "dataset"
  /\ \/ Goto(t, "commit")
     \/ "clone" \in Faults /\ Goto(t, "rollback")
  /\ UNCHANGED <<session, lock, req, seen, loc, created>>

(* The message for an image without data names an undefined variable.       *)
NoImageData(t) ==
  /\ pc[t] = "dataset"
  /\ "image" \in Faults
  /\ Raise(t)

-----------------------------------------------------------------------------
(* attach_network.                                                         *)

(* The container, the network, and no row that links them.                  *)
Present(t, db) ==
  \E l \in db.links : l.net \in loc[t].todo /\ l.cont = loc[t].cid

FindContainer(t) ==
  LET found == ContIds(Rows(t), req[t].name) IN
  /\ Fetched(t, "find")
  /\ found # {}
  /\ Set(t, [loc[t] EXCEPT !.cid = Min(found)])
  /\ Goto(t, "findnet")
  /\ Fetch(t)

FindNetwork(t) ==
  LET found == NetIds(Rows(t), {req[t].net}) IN
  /\ Fetched(t, "findnet")
  /\ found # {}
  /\ Set(t, [loc[t] EXCEPT !.todo = found])
  /\ Goto(t, "present")
  /\ Fetch(t)

NotPresent(t) ==
  /\ Fetched(t, "present")
  /\ ~Present(t, Rows(t))
  /\ Goto(t, "used")
  /\ Fetch(t)
  /\ UNCHANGED loc

NotAttachable(t) ==
  /\ \/ Fetched(t, "find") /\ ContIds(Rows(t), req[t].name) = {}
     \/ Fetched(t, "findnet") /\ NetIds(Rows(t), {req[t].net}) = {}
     \/ Fetched(t, "present") /\ Present(t, Rows(t))
  /\ Refuse(t)

AttachAddress(t) ==
  LET ip == FreeAddress(loc[t].used)
      row == [net |-> Min(loc[t].todo), ip |-> ip]
  IN  /\ SubnetFound(t)
      /\ req[t].op = "attach"
      /\ Set(t, [loc[t] EXCEPT !.todo = {}, !.used = {}, !.rows = {row}])
      /\ Goto(t, IF ip = NoAddress THEN "rollback" ELSE "links")
      /\ Fetch(t)

-----------------------------------------------------------------------------
(* create_volume; start_jail and update_exit_code, which change a status    *)
(* (see ContainerLifecycle) and commit.                                    *)

FoundVolume(t) ==
  /\ Fetched(t, "vol")
  /\ req[t].name \in Rows(t).vols
  /\ Refuse(t)

NoSuchVolume(t) ==
  /\ Fetched(t, "vol")
  /\ req[t].name \notin Rows(t).vols
  /\ Goto(t, "insvol")
  /\ Fetch(t)
  /\ UNCHANGED loc

InsertVolume(t) ==
  /\ pc[t] = "insvol"
  /\ req[t].name \notin view.vols
  /\ Write(t, [view EXCEPT !.vols = @ \cup {req[t].name}],
           Cardinality(view.vols) + 1)
  /\ Goto(t, "mkdir")
  /\ UNCHANGED loc

VolumeDirectory(t) ==
  /\ pc[t] = "mkdir"
  /\ \/ /\ Goto(t, "commit")
        /\ UNCHANGED <<session, lock, req, seen, loc, created>>
     \/ "mkdir" \in Faults /\ Raise(t)

UpdateStatus(t) ==
  /\ pc[t] = "update"
  /\ cursor' = t
  /\ Goto(t, "commit")
  /\ UNCHANGED <<view, disk, lastrow, stranded,
                 lock, req, seen, loc, created>>

-----------------------------------------------------------------------------
(* UNIQUE constraints: sqlite refuses the row.  The IntegrityError leaves   *)
(* the handler, or becomes the error answer of create_network and           *)
(* create_volume; what was inserted before stays in the transaction either  *)
(* way.  attach_network alone rolls back.                                   *)

Refused(t) ==
  CASE pc[t] = "insalloc" -> loc[t].subnet \in Range(view.alloc)
    [] pc[t] = "insnet" -> NetIds(view, {req[t].name}) # {}
    [] pc[t] = "insert" -> ContIds(view, req[t].name) # {}
    [] pc[t] = "links" -> LinkExists(NextRow(t).net, loc[t].cid)
    [] pc[t] = "vlink" -> VolumeLink(t) \in view.vlinks
    [] pc[t] = "insvol" -> req[t].name \in view.vols
    [] OTHER -> FALSE

BugTriesAgain(t) == Refused(t) /\ UNCHANGED vars
InsertRefused(t) == Refused(t) /\ req[t].op # "attach" /\ Raise(t)

LinkRefused(t) ==
  /\ Refused(t) /\ req[t].op = "attach"
  /\ Goto(t, "rollback")
  /\ UNCHANGED <<session, lock, req, seen, loc, created>>

-----------------------------------------------------------------------------
(* The ends of a transaction: whatever is in it, whoever put it there.      *)
(* (create_volume reads its row once more before it answers.)               *)

Commit(t) ==
  /\ pc[t] = "commit"
  /\ disk' = view
  /\ stranded' = FALSE
  /\ created' = created \cup {r \in {req[t]} : r.op # "status"}
  /\ cursor' = IF req[t].op = "volume" THEN t ELSE cursor
  /\ Reply(t)
  /\ UNCHANGED <<view, lastrow>>

Rollback(t) ==
  /\ pc[t] = "rollback"
  /\ view' = disk
  /\ stranded' = FALSE
  /\ Reply(t)
  /\ UNCHANGED <<disk, cursor, lastrow, created>>

(* The server ends and is started again on the database db: the requests    *)
(* are gone.                                                                *)
Restart(db) ==
  /\ view' = db /\ disk' = db
  /\ cursor' = None /\ lastrow' = 0 /\ lock' = None
  /\ pc' = [t \in Threads |-> "idle"]
  /\ req' = [t \in Threads |-> None]
  /\ seen' = [t \in Threads |-> None]
  /\ loc' = [t \in Threads |-> NoLocals]
  /\ stranded' = FALSE
  /\ UNCHANGED created

(* Killed, it loses the open transaction.  Told to end, it commits it:      *)
(* mark_all_exited ends with a commit and takes no lock.                    *)
Crash == "crash" \in Faults /\ Restart(disk)
Terminate == "term" \in Faults /\ Restart(view)

NetworkStep(t) ==
  \/ FoundName(t) \/ NoSuchName(t) \/ AllocateSubnet(t) \/ PoolExhausted(t)
  \/ InsertAllocated(t) \/ InsertNetwork(t)

MountStep(t) ==
  \/ InsertMounted(t) \/ VolumeId(t) \/ NoVolumeId(t) \/ LinkVolume(t)
  \/ VolumeRaises(t) \/ VolumesLinked(t)

ContainerStep(t) ==
  \/ FindNetworks(t) \/ MissingNetworks(t) \/ FindVolumes(t)
  \/ MissingOptions(t) \/ FindImage(t) \/ InvalidImage(t)
  \/ AnonymousVolume(t) \/ NoSuchVariable(t)
  \/ InsertContainer(t) \/ RowId(t)
  \/ UsedAddresses(t) \/ NoSubnet(t) \/ PickAddress(t) \/ InsertLink(t)
  \/ MountStep(t)
  \/ CreateDataset(t) \/ NoImageData(t)

OtherStep(t) ==
  \/ FindContainer(t) \/ FindNetwork(t) \/ NotPresent(t)
  \/ NotAttachable(t) \/ AttachAddress(t) \/ LinkRefused(t)
  \/ FoundVolume(t) \/ NoSuchVolume(t) \/ InsertVolume(t)
  \/ VolumeDirectory(t) \/ UpdateStatus(t) \/ InsertRefused(t)

Serve(t) ==
  \/ Acquire(t) \/ Select(t) \/ FetchRaises(t)
  \/ NetworkStep(t) \/ ContainerStep(t) \/ OtherStep(t)
  \/ Commit(t) \/ Rollback(t)

Request == \E t \in Threads, r \in Requests : Begin(t, r)

Next ==
  \/ Request
  \/ \E t \in Threads : Serve(t)
  \/ Crash
  \/ Terminate

Spec == Init /\ [][Next]_vars

-----------------------------------------------------------------------------
(* Safety.                                                                 *)

(* Two containers of a network have different addresses, and none has the   *)
(* gateway's, whatever was rolled back or lost before.  (A container of a   *)
(* full network has none.)  get_free_ip_for_network, JailManager_.py:550.   *)
FreshAddresses ==
  \A k, l \in view.links :
    /\ k.ip # 1
    /\ k # l /\ k.net = l.net /\ k.ip # NoAddress => k.ip # l.ip

(* Links belong to a network and a container that exist: the code passes    *)
(* ids from one statement to the next, and sqlite does not check them.      *)
LinksClosed ==
  /\ \A l \in view.links :
       l.net \in DOMAIN view.nets /\ l.cont \in DOMAIN view.conts
  /\ \A l \in view.vlinks :
       l.vol \in view.vols /\ l.cont \in DOMAIN view.conts

(* Between two requests no transaction is open, unless a handler was cut    *)
(* short after an INSERT of its own, by an exception it let out or, in      *)
(* create_network and create_volume, caught: the error paths that roll back *)
(* miss nothing, and a request that is refused opens no transaction.        *)
NothingPending ==
  (\A t \in Threads : pc[t] \in {"idle", "lock"}) /\ ~stranded => view = disk

Stored(r, db) ==
  CASE r.op = "network" ->
         \E i \in NetIds(db, {r.name}) :
           r.subnet \in {None, db.nets[i].subnet}
    [] r.op = "container" ->
         \E i \in ContIds(db, r.name) :
           /\ \A n \in r.nets : \E l \in db.links :
                l.cont = i /\ l.net \in NetIds(db, {n})
           /\ \A m \in Range(r.mounts) :
                [vol |-> m.source, cont |-> i] \in db.vlinks
    [] r.op = "attach" ->
         \E l \in db.links : /\ l.cont \in ContIds(db, r.name)
                             /\ l.net \in NetIds(db, {r.net})
    [] r.op = "volume" -> r.name \in db.vols

(* What was answered with 201 is committed, with every network and volume   *)
(* that was asked for, and survives rollbacks and crashes.                  *)
AnsweredIsStored == \A r \in created : Stored(r, disk)

(* A subnet that the allocator chose overlaps no network there is when its  *)
(* network is inserted.  "Find the first available subnet",                 *)
(* SubnetAllocator.py:34.                                                   *)
InsertsNetwork(t) ==
  pc[t] = "insnet" /\ Len(view'.nets) > Len(view.nets)
AutoSubnetsDisjoint ==
  [][\A t \in Threads :
       InsertsNetwork(t) /\ req[t].subnet = None =>
         \A i \in DOMAIN view.nets :
           view.nets[i].subnet \cap loc[t].subnet = {}]_vars

-----------------------------------------------------------------------------
(* Liveness.  Threads are scheduled; the lock is not fair, so requests must *)
(* stop arriving (see ContainerLifecycle).                                  *)

Fairness == \A t \in Threads : WF_vars(Serve(t))
ClientsFallSilent == <>[][~Request]_vars
LiveSpec == Spec /\ Fairness /\ ClientsFallSilent

(* Every request is answered, whichever way its handler ends: none keeps    *)
(* the lock, none loops.                                                    *)
RequestsAnswered == \A t \in Threads : pc[t] # "idle" ~> pc[t] = "idle"
=============================================================================
