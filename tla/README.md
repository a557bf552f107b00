# dockermock in TLA+

dockermock runs containers on FreeBSD as jails. This directory models it in
TLA+: TLC checks the models on small instances, and TLAPS proves the theorems
for every value of the constants. Paths below are relative to `src/`.

## 1. Inventory

The live system is `server.py` and what it imports. `parent.py`,
`app2/JailManager.py`, `app2/Jail.py`, `client.py`, `app2/network/setup.py` and
`app2/pf/script.py` are an earlier implementation that nothing live reaches.

| Part | State | Operations | Talks to |
|---|---|---|---|
| HTTP server (`server.py`) | `lock`, `parent_sock`, `child_pid`; one Flask thread per request | a handler per route, `mark_all_exited`, `shutdown`, `handle_close` | `JailManager`, worker (socketpair), DNS objects |
| `JailManager` (`app2/JailManager_.py`) | one sqlite connection and one cursor for all threads | `start_jail`, `stop_jail`, `update_exit_code`, `create_container`, `create_network`, `start_network`, `attach_network`, `create_volume`, `remove_container`, `add_rdr_ports` | sqlite, worker socket, host, `pf` |
| Worker (`kqueue_parent.py`) | `JAIL_DICT`, kqueue registrations, receive buffer | `run`, `process_container`, `start_container`, `track_process`, `remove_container`, `clean_all_jails` | the server over HTTP, jails, processes |
| Jail object (`app2/Jail_.py`, `app2/helpers.py`) | `jid`, `epair`, mounts | `create_jail`, `destroy_jail`, `child` | kernel, `jail.pid` |
| Jail resources (`app2/Jail_.py`, `app2/wrappers.py`, `app2/network/`) | interfaces, mounts and jails, in the kernel | create, bridge, move, address, mount, and their undoing | kernel |
| Packet filter (`app2/pf/`) | rulesets of each anchor `cni-rdr/<network>`, in the kernel | append and remove redirection and NAT rules, clear an anchor | `/dev/pf` |
| Name service (`app2/dns/`) | `DnsTree`, `SubnetTrie`, one socket for all forwarders | `insert`, `find`, `collect_from`, `resolve` | handlers insert, the DNS thread reads |
| Subnet allocator (`app2/network/SubnetAllocator.py`) | none: pure | `allocate_subnet` | `create_network` |
| Command line (`bin/`) | none | a client of the API | the server |

The parts share: the database (request threads and, through `exit_code`, the
worker), the jail name space of the kernel (threads look jails up and remove
them by name while the worker creates and destroys them), `jail.pid` (the child
writes it, a request thread reads and truncates it), and `server.lock` (request
threads hold it while they send to the worker and while they poll for a jail;
the worker's HTTP calls need it).

### What is hard

* *Interleaving.* A start, a stop and the natural end of the same container run
  in a server thread, another server thread, the worker and the container's own
  process. Only the threads share a lock.
* *Callbacks.* The worker is driven by the server and calls back into it. If a
  thread ever waited for the worker with the lock held, both would stop.
* *Ordering.* Send before commit, destroy before notify, close before mark.
* *Failure.* Any step of a start may fail; a failure must be reported or the row
  says `running` for ever. The worker or the server may die at any step.
* *Shutdown.* It runs while request threads, the worker and young children run.
* *Stale data.* `jail.pid` outlives its process; pids are reused.

### What makes each part correct

* *Lifecycle* (server, worker, jails): a container is never queued or run twice;
  its row says `running` exactly while it is in the pipeline; it says `exited`
  only after the teardown; nothing leaks; every request is answered, every start
  settles; shutdown ends and cleans.
* *Catalog*: two networks never share a subnet, two containers of a network never
  an address, and an operation that fails leaves nothing behind.
* *Packet filter*: a published port leads to the container that runs and
  publishes it; a stop removes every rule of its ports and no others; a NAT rule
  stands beside a redirection.
* *Name service*: a name stays resolvable once its registration was answered, a
  running container can be found in each of its networks, an answer is complete
  although inserts go on beside it, and a query leaves the host only if the name
  was unknown.
* *Jail resources*: a program runs with its interfaces, addresses, routes and
  mounts in place; when the worker has done with a container, nothing of it is
  left on the host.

The list of hazards, each at its line, is in `PROJECT.json`.

## 2. Plan

1. `ContainerLifecycle`, with the abstract `ContainerStatus` it implements: the
   core, done (section 3), its safety and the refinement proved (section 10).
2. `Catalog`: networks, subnets, addresses, containers and volumes in sqlite:
   modelled, checked (section 4) and, but for its liveness, proved (section 10).
3. The subnet allocator (first-fit, `FirstFree` in `Catalog`): pure, and modelled
   where it is called.
4. `PacketFilter`: the rules of the anchors, and the requests that append, remove
   and clear them: modelled, checked (section 5) and proved (section 10).
5. `NameService`: trie and tree, the insert locked and the lookup not: modelled,
   checked (section 6) and, but for its liveness, proved (section 10).
6. `JailResources`: jails, interfaces and mounts through every error path of
   `create_jail` and `destroy_jail`: modelled, checked (section 7) and proved
   (section 10).
7. Left: the liveness properties, which TLC alone checks; compositions of the last three
   modules with the lifecycle.

The three last modules each model one part beside the lifecycle: of the lifecycle
they repeat only the steps that touch their state (a start, a fork, an end, a
stop). That their steps agree with those of `ContainerLifecycle` is by reading the
code, not checked by a composition.

## 3. The lifecycle model

`ContainerStatus` is the promise to a client of the API: per container a row and
the phase of its run. `Accept` admits a start, `Announce` writes `running`,
`Launch` or `Abandon` decide the start, `End` ends the run and `Record` writes
`exited`. One run at a time, `running` before it is up, `exited` only after it
is over.

`ContainerLifecycle` is the code. Its variables:

| Variable | In the code |
|---|---|
| `status` | `containers.status` |
| `server` | `up`; `closing` (SIGTERM arrived), `closed` (`parent_sock.close()`), `marked` (`mark_all_exited`), then `down`; or `crashed` |
| `lock`, `cpc`, `ctarget`, `polls` | `server.lock`; each request thread's place in `start_jail` or `stop_jail`, its container, the rounds of the poll loop |
| `sock`, `buffer` | names in the socketpair; names `run` has received and not processed |
| `wpc`, `wcont`, `wpid` | the worker's place, container and pid |
| `jailDict`, `tracked` | keys of `JAIL_DICT`; pids registered with kqueue |
| `jail`, `proc`, `owner`, `pidfile`, `termed` | kernel jails by name, processes by pid, whose they are, `jail.pid`, pending SIGTERMs |

Each critical section is split where another party can act between two steps: a
send that blocks, a file that the child writes meanwhile, a signal, a poll. What
only the lock holder can see stays in one step. Actions by party:

* *request thread*: `Request`, `StartCheck`, `StartSend` or `StartSendFails`,
  `StartCommit`; `StopCheck`, `StopNoPidFile`, `StopOpenFails`,
  `StopEmptyPidFile`, `StopKill`, `StopTruncate`, `StopPoll`, `StopRemove`;
* *worker, starting*: `Receive`, `TakeName`, `GetConnect`, `GetContainer` (or
  `GetFails`, `GetRaises`), `CreateJail` (or `CreateRefused`, whose report may end in
  `RefusalRaises`, or `CreateRaises`),
  `RegisterNetwork`, `PortsConnect`, `RegisterPorts`, `Fork` (or `ForkFails`),
  `Track`, `BufferDone`;
* *worker, ending*: `ExitEvent`, `Reap`, `Destroy`, `NotifyConnect`, `Notify`,
  `NotifyRaises`; in shutdown `EndOfFile`, `CleanEvent`, `CleanDestroy`,
  `CleanDone`; `WorkerAtExit` when an exception leaves `run`;
* *the child*: `WritePid`, `Attach`, `Exit`;
* *server process*: `Sigterm`, `CloseSocket`, `MarkExited`, `WaitWorker`,
  `Crash`, `Boot`.

An HTTP call of the worker is two steps, the connection (accepted while the
server listens) and the service (which needs the lock). A child ignores SIGTERM
until it has restored `SIG_DFL`, because rfork passes on the worker's `SIG_IGN`, and
the programs of the containers in `Deaf` catch or ignore it for ever: `Signalled` loses
a signal to a process that does not heed it (`Heeds`). `stop_jail` removes the jail
then, `clean_all_jails` does not.

The notify of a refused jail is made inside the `try` of `start_container`: if it raises,
`destroy_jail` removes whatever jail has the name and a second notify follows
(`RefusalRaises`). The exit handler a dying worker inherits marks the rows
(`WorkerAtExit`) and clears the packet filter's anchors, which is in `PacketFilter`.

Failures come from the constant `Faults`, so that each run names the ones it
allows. `ContainerLifecycle` lists them at `FaultKinds`.

Definitions whose names start with `Bug` are slips in the code that no action
uses; substituted for the definition that follows them they break the property
named in `PROJECT.json`, which shows that the property depends on that line.

## 4. The catalog model

All threads share one sqlite connection and one cursor, and with them three
things that belong to no request: the open transaction, the rows of the last
SELECT and `lastrowid`. `Catalog` makes each a variable, and each statement of a
handler an action, a SELECT two: `execute` and `fetch`.

| Variable | In the code |
|---|---|
| `view`, `disk` | the database as the connection sees it, and as committed last: `allocated_subnets`, `networks`, `containers`, `container_networks`, `volumes`, `volume_containers` |
| `cursor`, `lastrow` | who ran the last statement on `JailManager.cursor`; its `lastrowid` |
| `lock`, `pc`, `req`, `loc`, `seen` | `server.lock`; each handler's place, request and locals; what its SELECT found, until it fetches the rows |
| `created`, `stranded` | history: requests answered 201; a handler has ended after its first INSERT by an exception, or by an error answer for one it caught (`create_network`, `create_volume`), and the transaction is open |

* *every handler*: `Begin`, `Acquire` (not `add_network`), `Select` and a fetch.
  A fetch after another thread has used the cursor finds nothing of its own
  (`Rows`) or raises (`FetchRaises`). `InsertRefused`: a UNIQUE constraint, after which
  only `attach_network` rolls back (`LinkRefused`);
  `Commit` and `Rollback` end the transaction of everybody.
* *add_network*: `FoundName`, `NoSuchName`, `AllocateSubnet`, `PoolExhausted`,
  `InsertAllocated`, `InsertNetwork`.
* *create_container*: `FindNetworks`, `MissingNetworks`, `FindVolumes`, `MissingOptions`,
  `FindImage`, `InvalidImage`, `AnonymousVolume`, `NoSuchVariable`, `InsertContainer`,
  `RowId`; `UsedAddresses`, `PickAddress` or `NoSubnet` for each network, `InsertLink`;
  `InsertMounted`, `VolumeId` or `NoVolumeId`, `LinkVolume` for each volume,
  `VolumeRaises`, `VolumesLinked`; `CreateDataset`, `NoImageData`.
* *attach_network*: `FindContainer`, `FindNetwork`, `NotPresent` or `NotAttachable`,
  `UsedAddresses`, `AttachAddress`, `InsertLink`;
  *create_volume*: `FoundVolume`, `NoSuchVolume`, `InsertVolume`,
  `VolumeDirectory`; *start and exit_code*: `UpdateStatus`.
* *the server*: `Crash` loses the open transaction; `Terminate` commits it,
  because `mark_all_exited` commits without the lock.

A row's id is its position: ids are AUTOINCREMENT and nothing deletes a row
(`remove_container` raises before it would). A subnet is the set of cells it
covers, so that subnets of different sizes overlap; an address is its number in
the subnet. Checks that only refuse a request before its first statement (an invalid
subnet, the shape of the JSON) are left out.

`create_anamous_volumes` inserts a row for a volume whose name is a UUID (`Anonymous`),
the request's or the image's, and then raises a `NameError`: the volume's row stays in
the open transaction, and no container is made (`AnonymousVolume`, `NoSuchVariable`).

## 5. The packet filter model

`PacketFilter` models the anchors `cni-rdr/<network>`, the calls of
`app2/pf/pf_util.c` that `server.py` reaches, and their callers: the ports
handler (`add_rdr_ports`), the last part of `stop_jail`, `start_network` and
`clear_ruleset_before_close`.

| Variable | In the code |
|---|---|
| `rules` | the rules of each kind (`rdr`, `nat`) in the anchor of a network, in order |
| `row`, `queue` | rows that say `running`; containers sent to the worker |
| `job`, `up` | the container in `start_container` and its networks still to register; containers forked |
| `req` | the critical section of `server.lock`: who, for which container, which calls of pf are still to be made, and whether one failed; of a removal, `rule_positions` less what is done, and how many are gone |
| `server`, `toClear` | `up`, `ending` (SIGTERM; it waits for the worker), `closing` (it clears the anchors), `down`, `killed`; the anchors not yet cleared |
| `whole` | history: containers and host ports, registered without a failure while no other container's rule had the port, and not stopped since |
| `torn`, `robbed` | history: a stop of it was cut short; a container that shares a host port with it was stopped, and it was not since |

* *worker*: `TakeUp`, `NotStarted`, `RegisterPorts` (one POST per network, whose
  answer nobody reads), `Fork`, `Ended`;
* *requests*: `Start`, `StopBegins`, `StartNetwork`, `Answer`;
* *pf*: `DoAppend`; `DoRemove`, the search, which clears the anchor when every rule
  matches and otherwise notes the positions of those that do; `RemoveNth`, one of these
  rules, at its position less the number already gone, or `NoSuchRule`, when the shutdown,
  which takes no lock, has emptied the anchor since the search. Their failures: a NAT append
  is logged and passed over, anything else leaves the loop, and `clear_ruleset` ignores
  its transactions' answers (`RemoveFailsSilently`);
* *server*: `Sigterm`, `Terminate` (the worker has ended), `ClearAnchor`,
  `ClearAnchorFails`, `Close`, `Crash`, `Boot`. A worker that dies of a `ConnectionError`
  clears the anchors as well (`WorkerClears`), for it inherits `handle_close`.

What the code does, and the properties therefore say with these exceptions:

* Two containers of a network with the same container port have equal NAT rules,
  and a stop of one removes both (`StopTakesOnlyItsPorts` allows it). A container
  that publishes 53/udp takes the redirection to the resolver with it; the
  instance has such a container, and `Reachable` skips the resolver's rules.
* Nothing keeps clients from publishing one host port for two containers. The first
  rule of a port is the one that counts, a stop finds redirections by their host port
  alone, and when all redirections match it clears the NAT rules too. So `Reachable` is
  about the ports no rule of another container had at the registration, none of whose
  publishers was stopped since (`whole`), and `NatHasRdr` and `StopTakesOnlyItsPorts`
  except containers that a rival's stop has `robbed`.
* A container that ends by itself keeps its rules until it is stopped, which the row
  'exited' prevents, or the server shuts down. They shadow those of a rival that
  starts later: the rival runs and is not reached.
* `start_network` adds its redirection again each time it is called.
* A stop that runs while the worker registers the container misses the rules
  that come after it: hence `whole`.
* `clear_ruleset` empties NAT and filter rules as well, although its comment says
  "Clear rdr ruleset" (`app2/pf/pf_util.c:289-291`). `NatHasRdr` is what makes this
  harmless.

## 6. The name service model

`NameService` runs the DNS thread beside two writers, the worker (through its
requests `subnet` and `dns`) and a client that starts networks. A node of the
tree is the path that leads to it, labels from the right; a subnet is the bits of
its prefix.

| Variable | In the code |
|---|---|
| `nodes`, `named` | `DnsTree`: the children dictionary of each node, in insertion order; nodes whose `ip` is set |
| `treeLock`, `ins` | `DnsTree.lock`; the place of each writer in `insert` |
| `trie` | `SubnetTrie`: the name stored at each node |
| `wk`, `forked` | the worker's registration of a container; containers it forked |
| `q` | the query in `resolve`: the stage, the place in trie or tree, the iterators of `collect_all`, the addresses found, the forwarder |
| `flight`, `sock` | requests the forwarders may yet answer; replies in the resolver's one socket |
| `answered`, `late` | history: names whose registration was answered 201; a forwarder was given up |

* *insert*: `LockTree`, `Step` (the test for a child), `Create` (a separate step:
  the lookup takes no lock), `SetName`; `StartNetwork`;
* *worker*: `TakeUp`, `InsertBit`, `InsertSubnet`, `RegisterName`, `Registered`,
  `PostFails`, `Fork`, `Ended`;
* *resolver*: `Ask`; `FindBit`, `Found`; `Walk`, `Reached`; `Child`, `Return`, `Raise`
  (a dictionary that grew under its iterator); `Send`, `Receive`, `NoForwarderLeft`;
  `SendFails`, `Unparsable` and `Timeout`, after each of which the next forwarder is
  tried;
* *forwarders*: `Reply`, or never. A reply that is lost is one that never comes.

What the code does here: nothing is ever removed (`clear_ip` has no caller, and
would raise), so the name of a container that ended is answered until the server
restarts, and a restart forgets every name. The resolver takes the first datagram
in its socket (`app2/dns/DnsServer.py:45-47`), so after a timeout the late reply
goes to the next query: `ReplyMatches` holds until `late`. A `sendto` that fails sends
nothing and an unparsable reply is taken out of the socket, so neither leaves one
behind. `PostFails` is a request of the worker that fails before it is carried out or
after it: the name may be registered and the container not started. A subnet that was stored
twice resolves to the network stored last, and 0.0.0.0/0 is the root, which
`find` never reports; the module assumes distinct, nonempty prefixes. A query for
`web` also returns the addresses of `db.web`, and `AnswerIsComplete` counts them as
the code does.

## 7. The jail resources model

`JailResources` makes and destroys jails call by call. A run is one start of a
container; an epair is named by its run and its position in `Jail.epair`. A container
has a list of networks of any driver: epairs are made for the bridges in it, and for
none if the first is the host's (`Bridges`).

| Variable | In the code |
|---|---|
| `jail` | the kernel's jails by name, and the run that made each |
| `iface` | each epair: the jail of its a end (or the host, or a jail that is `Dying`), the bridge of its b end, its address, which ends are up |
| `mounts` | what is mounted below the root of each container, in order |
| `obj`, `dict` | the `Jail` object of each run: `jid`, `epair`, `devfs_mounted`; `JAIL_DICT` |
| `w`, `child` | the worker's place in `create_jail` or `destroy_jail`; each child's place in `child` and `setup_network`, and its routes |
| `spoilt`, `dirty` | history: a call failed while the run was made, or it was stopped; something of the container may be left |

* *create_jail*: `JailSet` or `JailRefused`, `PassOver` or `CreateEpair`, `AddToBridge`,
  `Attach`, `MountDevfs`, `MountTmpfs`, `MountUser`, `Register`, `Fork`, each with its
  failure (`GiveUp` is the return for a refused jail, `RefusalRaises` the notify of it
  that raises); *destroy_jail*: `Reap`, `Deattach`, `StopJail`, `DestroyEpair`,
  `UnmountDevfs`, `UnmountTmpfs`, `UnmountUser`, with theirs;
* *the child*: `Enter`, `Configure`, `OtherNetwork` or `NoSuchEpair`, `NetworkRoute`,
  `DefaultRoute`, `Exec`, `Exit`;
* *the kernel*: `ComeHome`, when the last process of a removed jail has ended;
* *others*: `Stop` removes a jail by its name at any moment; `Kill` ends the worker.

What the code does here: `jail_set`'s result is looked at only when epairs and
mounts are made (`kqueue_parent.py:123`), so with an older jail of the name they
are attached to that one and nothing is destroyed; if an epair fails as well,
`destroy_jail` removes the older jail. Mounts are undone in the order they were
made, so of two nested ones the outer stays (`app2/Jail_.py:312-320`;
`Nested`). A mount or an unmount that failed is only logged. An epair that a dying
jail still keeps when it is to be destroyed is forgotten (`app2/Jail_.py:195-202`), and if
`jexec` raises the rest of `destroy_jail` is not done (`304`, `335`). A failed `rfork` stores the object
under the key -1, in the place of an earlier one. `NothingLeft` and `ReadyToRun`
hold but for these cases, which `dirty`, `spoilt` and `Nested` name.

The child takes the position of a network in the whole list for that of its epair
(`app2/Jail_.py:249-256`). With a network of another driver before a bridge (not
`Aligned`) it gives the bridge's address to the epair of the next one and ends with an
`IndexError` at the last, so that the container never runs; the instance has such lists,
`ReadyToRun` and `AddressOnItsBridge` cover them for running programs, and the latter says
more of aligned lists. No operation writes a driver other than the default `bridge`, so
such a list takes a row written by other means.

## 8. Runs

The first six are instances of `MCLifecycle`, the next three of `MCCatalog`, and the
last three of the module of their name.

| Run | Instance | Shows |
|---|---|---|
| `lifecycle_safety` | 2 containers (one networked), 2 clients, 3 pids, no failures; threads and pids symmetric | types, `OneRunPerContainer`, `RunningIffInFlight`, `SendNeverBlocks`, `JailsAccountedFor`, `ExitedAfterTeardown`, and that the system implements `ContainerStatus!Spec` |
| `lifecycle_liveness` | 2 containers, 1 client, 2 pids; refused jails and raising creations | `RequestsAnswered`, `StartSettles`, and that it implements `ContainerStatus!FairSpec` |
| `lifecycle_shutdown` | the same with SIGTERM; the program of one container ignores it, here and in the two runs above | `ShutdownEndsOrUnheard`, `OrderlyExitLeavesNothing` |
| `lifecycle_faults` | 1 container, 2 clients, 2 pids, every failure, crash and restart | `OneRunPerContainer`, `SendNeverBlocks` |
| `lifecycle_shutdown_hangs` | 1 container, SIGTERM | `ShutdownEnds` is violated |
| `lifecycle_jails_left` | 2 containers, SIGTERM | `ShutdownCleansJails` is violated |
| `catalog_serial` | 1 thread, 2 networks, 2 containers, 2 volumes, one of them named by a UUID, 2 candidates and a subnet that covers both, 1 free address; all failures, crashes; networks and containers symmetric | types, `FreshAddresses`, `LinksClosed`, `NothingPending`, `AnsweredIsStored`, `AutoSubnetsDisjoint` |
| `catalog_race` | 2 threads, 1 network, 1 container; failed clones, SIGTERM | `RequestsAnswered` |
| `catalog_subnet_twice` | 2 threads, 2 networks, 1 container; failed clones | `AutoSubnetsDisjoint` is violated |
| `packet_filter` | 2 containers of 1 network that share the host port 53 (for container ports 80 and 81) and the container port 80 (of which one publishes it at 8082); at most 3 rules of a kind in the anchor; pf failures, SIGTERM, crashes | types, `NatHasRdr`, `Reachable`, `StoppedIsUnpublished`, `ShutdownUnpublishes`, `StopTakesOnlyItsPorts` |
| `name_service` | 1 container on 2 networks, one subnet within the other, its name below the host's; an address query and another one; 2 forwarders; failing registrations, sends and replies; the client starts each network once | types, `RegistrationKept`, `RunningIsResolvable`, `ReplyMatches`, `AnswerIsComplete`, `ForwardedIsUnknown`, `QueriesEnd` |
| `jail_resources` | 3 containers: on a bridge and then a host network; on a host network first, with 2 mounts, one below another; on another driver's network and then 2 bridges; 2 starts; every failure | types, `NothingLeft`, `ReadyToRun`, `AddressOnItsBridge` |

*Bounds.* Two containers let one run while the other starts or stops; two
clients give every race for one container; a third pid lets a container run again
while the two others are in use, and with two pids the host must reuse them.
`SockCap` is the number of containers, the least the theorem `SendFindsRoom`
allows. `PollLimit` is 1 for the code's 10: the loop either sees the jail gone or
runs out, and both happen. No other counter is bounded: the state space of
the lifecycle is finite. In the catalog, names are unique and bound every table; two candidates
are enough to run out of subnets, and one free address (`Hosts = 2`) to fill a
network with the first container. What holds in `catalog_serial` is what the
handlers do when they do not overlap: with two threads `FreshAddresses`,
`LinksClosed`, `AnsweredIsStored` and `AutoSubnetsDisjoint` are violated, for the
lock that `add_network` does not take.

*Bounds of the last three runs.* `RuleCap` is a guard of the requests that append: three
rules let both containers' rules and the resolver's stand together in any order. One
network: two exceed the time a run may take, and the loops over networks are covered by
the proofs. The array of 16
positions in `remove_rdr_port_rule` (`app2/pf/pf_util.c:1653`) is not reached.
Addresses of 2 bits (`Width`) tell a subnet, one within it and an address apart; the
second query is what a late reply of the first can reach; a name below another
makes a subtree that grows while it is collected. `StartedOnce` (a CONSTRAINT of the
instance) lets the client start each network once; the worker registers a container
again and again. With 2 starts (`MaxRuns`) the
same container starts again over what its first run left, or two containers
interleave; three add no new pair. Of the pairs of different containers the instance
has one, in one order (`Pairs`).

*Deadlock* is checked except in the two shutdown instances, where the system is
meant to stop at `server = "down"`, in `lifecycle_jails_left`, for the same reason,
and in `jail_resources`, which stops when its runs are used up.

*What the violations show.*

* `ShutdownEnds`: a child forked just before the shutdown gets its only SIGTERM
  while it still ignores it (`kqueue_parent.py:263-267`, `283-284`, `151`); the
  worker and the server wait for it for ever. `ShutdownEndsOrUnheard` says that
  the only other thing they ever wait for is a program that ignores the signal.
* `ShutdownCleansJails`: a name still in the socket is processed before the end
  of file is seen; its GET raises, the worker dies and cleans nothing.
* `AutoSubnetsDisjoint` with two threads: while `create_container` holds the lock and
  clones, `add_network` inserts its allocation into the same transaction
  (`server.py:180`); the clone fails, the rollback removes the allocation, and
  `add_network` commits its network without it. The next network gets the same
  subnet.

## 9. Fairness

`LiveSpec` assumes that each request thread, the worker, the shutdown code and a child
before its `exec` go on while they can: they are threads of an operating system that
schedules every runnable one. A process that heeded a SIGTERM exits; one of a container
in `Deaf`, whose program catches or ignores it, need not. Nothing makes a container exit
by itself, no failure has to happen, no client has to ask. `server.lock` is a
`threading.Lock`, which is not fair: a stream of requests could overtake a waiting
thread without end. So the liveness properties are stated for executions in which the
clients fall silent at last (`ClientsFallSilent`), and weak fairness is then enough. The
same holds of `Catalog!LiveSpec`: each request thread goes on while it can.
`NameService!Spec` assumes `WF_vars(Resolve)`: the DNS thread is scheduled, and its wait
for a forwarder ends because the socket has a timeout of two seconds. No forwarder has
to answer.

## 10. Proofs

`ContainerLifecycleProofs` proves, for every set of containers, clients and pids,
every capacity and every set of failures, from `LifecycleAssumption` only:

* `TypeCorrect`: `Spec => []TypeOK`. `TypeOK` alone is not inductive, since a
  busy thread may append its container to the socket and `Track` adds the pid in
  hand: `Targets` and `PidInHand` complete it to `TypeInv`.
* `OneRun`: `Spec => []OneRunPerContainer`. The inductive invariant is
  `TypeInv /\ Control /\ Hands /\ Pipeline`. `Control`: the lock belongs to the
  one thread in its critical section. `Hands`: what the worker holds at each
  place; its buffer is empty whenever it waits for events. `Pipeline`: the places
  of a container are disjoint (`Once`); while a name can still be sent, the row of
  whatever is in flight says so or a thread is about to commit it (`RowKnows`);
  and a thread about to send has a row that does not (`SendFresh`). `RowKnows` is
  conditioned on `SockOpen`: after a crash or in shutdown rows and pipeline
  disagree, and what saves the invariant is that nothing can be sent then. This
  is why `shutdown` must close the socket before it marks the rows.
* `SendFindsRoom`: if `Cardinality(Containers) <= SockCap`,
  `Spec => []SendNeverBlocks`. The same invariant, and the pigeonhole principle:
  the socket holds distinct names, none of them the sender's.

`ContainerStatusProofs` builds on it. Its theorems are about what the pipeline tells the
server, which failures do break, so each states which it excludes; TLC shows by a
counterexample that the property is false with each of them, but for the two named below.

* `CleanExit` (`OrderlyExitLeavesNothing`), without `destroy`, `worker` and `boot`. `Reaped`:
  a pid of JAIL_DICT has no process left from the moment it is waited for, and from
  then on it is in the worker's hands. `Known`: until the worker leaves, every process
  is in JAIL_DICT, and every jail belongs to a container that is there or being made.
* `JailsAccounted` (`JailsAccountedFor`) and `TornDownFirst` (`ExitedAfterTeardown`), with no
  failure but `http`, `jid`, `create` and `track`: the same, and `Serving`, server and worker
  are up. For `TornDownFirst` the exclusion of `fork` and `worker` is more than TLC finds
  necessary: the invariants that carry the proof need it, the property does not.
* `RowsAgree` (`RunningIffInFlight`) and `Refines` (`ImplementsContainerStatus`), with no
  failure but `jid`, `create`, `track` and `destroy`. `Rows`: the row of the container the worker
  has asked about and of each in JAIL_DICT says 'running', a row about to be committed
  does not yet, and what says so is in flight. The refinement maps each container to the
  phase its places in the pipeline make up; there is one lemma for each kind of step,
  on what it does to the container it is about (`PhaseMoves`, `PhaseStays`), and
  `PhaseFrame` says that no other container moves.

`JailResourcesProofs` proves, for all containers, networks, mounts and sets of failures
(a killed worker included), from `ResourceAssumption` only:

* `TypeCorrect` (`TypeOK`) and `OwnBridge` (`AddressOnItsBridge`). The address is the
  child's doing and the bridge the worker's, by positions in two lists, so the invariant
  `Types /\ Structure` has to say how the lists agree at every place: `Objects`, the
  list of a run names its epairs in order and never more than it has bridges;
  `WorkerInv`, the position of the worker exists in the list it goes by; `ChildInv`, so
  does the child's, and a child that got past its networks has no other network before a
  bridge network (`Aligned`), for it ends with the IndexError otherwise
  (`AlignedCount`); `Whole`, what was forked has each epair on its bridge, and while it
  is made all but the newest are. `OneActive`, one run of a container at a time, makes
  the run in hand the only one whose list the worker changes.

`JailRunProofs` adds `GivenAll` (`ReadyToRun`), under the same assumption. The invariant is
`Types /\ Structure /\ Ready`. `MakingReady`: while a run is made and none of its calls has
failed, its jail is its own, each epair but the newest is on its bridge, up at that end and
where the place of the worker says, and the mounts are made as far as that place.
`RunsReady`: from the fork on, each epair is in the jail, and it is addressed and up, and
its route is there, exactly as far as the child has come. What makes this inductive is
that every other step that could undo it marks the run as `spoilt` or belongs to a
teardown, and a run is torn down only after its child has ended or one of its calls has
failed.

`LeavesNothing` (`NothingLeft`), of the same module, adds `Tidy` to `Types /\ Structure`.
`RefusedKept`: a jail that was refused has marked its container. `JailKept`: every jail is
of a run that is in the worker's hands or JAIL_DICT, and is gone once the worker is past
its removal. `EpairsKept`: every epair is in the list of such a run and, while they are
destroyed, at or behind the position of the worker. `DevfsDone` and `MountsLeft`: a
directory that lies neither above nor below another one is mounted at most as often as the
worker still has to unmount it (`Covered`, `Owed`). Mounts are counted, since a directory
may be mounted several times and an unmount takes away only the last; nested ones are left
out because the upper hides the lower, and the code then leaves one of the two.

`CatalogProofs` proves every safety property of `Catalog`, for all threads, names, mounts,
subnets and failures, from `CatalogAssumption` only:

* `TypeCorrect` (`TypeOK`), in every interleaving. `Shape` completes it: what a handler's
  place says of its request and of its variables, such as that a row to insert exists.
* `NoneLeftOpen` (`NothingPending`), in every interleaving. `Tidy`: a transaction is
  open only while some handler is between its first INSERT and the end of its
  transaction, or after an exception, let out or caught (create_network and
  create_volume answer an error). Each statement that writes leads to such a place, each
  statement from there stays in one or raises, and COMMIT and ROLLBACK end the
  transaction of everybody.
* `AddressesFresh`, `LinksAreClosed`, `AnswersAreStored` and `ChosenSubnetsDisjoint`
  (`FreshAddresses`, `LinksClosed`, `AnsweredIsStored`, `AutoSubnetsDisjoint`), of the
  executions with `[]NetworkAlone`: add_network, the handler without the lock, is not served
  while another request is. The others may come in any number and at any time, since
  `Locked` shows that the lock keeps them apart. Without the hypothesis the properties are
  false: cursor and transaction are shared, which is what `catalog_subnet_twice` shows of
  the last one. `Reliable` is the invariant: `Catalogued`, both databases are sound and the
  open transaction only adds to what was committed, so neither its commit nor its rollback
  can take away what was answered (`StoredGrows`); and `Progress`, what a handler has
  learnt is still so, place by place: rows it has read are those there are (`Current`), the
  subnet in hand is disjoint from every network (`SubnetInHand`), the addresses it has
  picked are free, one for each network (`Claims`), and each network and volume it was
  asked for is linked or still ahead (`Assigning`, `Mounting`).

`PacketFilterProofs` proves every property of `PacketFilter`, for all containers,
networks, ports, rule limits and sets of failures, from `PortAssumption` only.
Containers may share host ports in any way; of the clients it assumes no more than that
each container of the model publishes a port, as the others leave pf alone. The
invariant is `Sound`:

* `Types /\ Control`: whose calls a request is made of (`Registers`, `Stops`, `Serves`), where
  a container is (`PlaceInv`), what a server that closes still does (`ServerInv`), and
  `Owners`: a rule leads to the resolver, or to a container of the network that publishes
  its port. `TypeCorrect` (`TypeOK`) needs `Fits` as well: an anchor has room for what it
  holds and for what the request in progress still asks for.
* `Marks`: the positions found and not yet removed, less the number gone, are exactly
  those of the rules of the port. Each removal shortens the list and moves the rules
  behind it, so this is what makes removal by position right, and the shutdown can only
  empty the list. From it `Loses`: what a step takes from an anchor, counted with
  repetitions. `OnlyOwnPorts` (`StopTakesOnlyItsPorts`) follows with `Owners` and
  `NatHasRdr`, which the case of `clear_ruleset` needs: all redirections left are of one
  port, hence of the container that is stopped or of a rival, which the stop has
  `robbed`, and a NAT rule stands beside a redirection to its container.
* `StopLeft`: as long as no call has failed, each rule of the container being stopped is
  asked for by a call still to be made; when none is left no rule is (`StopUnpublishes`,
  for `StoppedIsUnpublished`). `Emptied` says the same of the anchors a server that closes
  has cleared (`NothingPublished`, for `ShutdownUnpublishes`).
* `Begun`: when a NAT rule is about to be appended, its redirection is there
  (`RdrBesideNat`, for `NatHasRdr`). The redirection goes only with a stop of its
  container, a rival's, or the anchor (`RdrStays`).
* `Given` and `Full`: a container that is being registered without a failure has its
  redirections in the networks done, or they are asked for. For a port that no rule of
  another container had when it was forked they are the first of that port then, and
  stay so (`PublishedReachable`, for `Reachable`): a rival's rule is appended behind
  them (`LeadsAppend`), and a removal of other ports keeps the order (`LeadsRemove`).

`NameServiceProofs` and `NameServiceQueries` prove every safety property of
`NameService`, for all containers, networks, names, subnets, address widths, questions
and numbers of forwarders, from `NameAssumption` only. Each part adds a layer to the
inductive invariant:

* `NameServiceProofs`: `NamesKept` (`RegistrationKept`) and `StartedResolvable`
  (`RunningIsResolvable`). `RegisteredInv` is `TreeInv /\ RegInv`. `TreeInv`: the tree is
  rooted, a label is among the children of a node exactly if it leads to a node, and
  is there once; and an insert that stands on its path holds the lock, so that what
  it found missing is missing until it creates it. This is why `Create` never
  replaces a subtree, and why the lock is needed: every step only adds nodes and
  names (`Grows`). `RegInv`: the networks the worker has done resolve (`SoFar`), and
  the one in hand is as far as the worker's place says (`AtWork`).
* `NameServiceQueries`: `TypeCorrect` (`TypeOK`) and `OwnReply` (`ReplyMatches`).
  `QueryInv` adds that the trie only grows and names known networks, the shape of a
  query, and `Replies`: until a forwarder is given up for a timeout, at most one reply
  is outstanding, and it is to the query in hand.
* The second part of `NameServiceQueries`: `CompleteAnswers` (`AnswerIsComplete`) and `OnlyUnknownForwarded`
  (`ForwardedIsUnknown`). `LookupInv` adds `FindInv`, on the way down the trie the most
  specific network known so far has been noted, and `CollectInv`, the iterators lie
  on one path, and an address registered before the query is either collected or
  ahead of an iterator and never both. A child added meanwhile comes after those an
  iterator has still to visit, so an insert takes nothing away from what is ahead.

Only model-checked: the liveness properties (`RequestsAnswered`, `StartSettles`,
`ShutdownEndsOrUnheard`, `QueriesEnd` and the fairness of the abstract container status),
which are out of the prover's reach.

## 11. Not modelled

* Handlers that only read.
* pf tables and address pools of `app2/pf/pf.py`, and `longest_prefix_node`, `clear_ip` and
  `estimate_memory` of the name service: they have no caller. Enabling pf and the
  sysctls set no rule.
* Calls of a worker that outlived its server and reach the restarted one.
* rctl limits: `R_LIMITS` is set nowhere, so no rule is ever made. `resolv.conf`: it is
  written and not read again. A bridge created in part by `start_network`.
* A restart of the server while a worker of the previous one still cleans up, and a
  second SIGTERM during `waitpid`.
* Statuses no code writes (`stopped`, `paused`; `started` is read only).
* Renames and deletions of rows: `remove_container` fails before its first
  statement (it reads `res` before assigning it).
* Datasets: calls of zfs(8) and cp(1), whose failure is an input of `Catalog`. The
  command line, a client without state. Structures and encodings of the system
  call wrappers. The earlier implementation, which nothing live reaches.
