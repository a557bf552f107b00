---------------------------- MODULE NameService ----------------------------
(***************************************************************************)
(* The name service of the server: the subnet trie, the tree of names and  *)
(* the thread that answers DNS queries from them (app2/dns).               *)
(*                                                                         *)
(* Request threads insert while the resolver looks up.  The tree's lock is *)
(* taken by inserts only; the trie has none, and only the worker, which    *)
(* makes one request at a time, inserts into it.  So a lookup can meet any *)
(* insert half done, and the steps here are those another thread can see.  *)
(*                                                                         *)
(* The path of a name is the sequence of its labels from the right, that of *)
(* `db.kafka' in network n being <<n, "kafka", "db">>: a node of the tree  *)
(* is the path that leads to it, and as a name has one address for ever, a *)
(* path also stands for the address it gives.  Addresses and subnets are   *)
(* sequences of bits.  Nothing is ever taken out of the tree or the trie.  *)
(***************************************************************************)
EXTENDS Naturals, Sequences, FiniteSets, Functions, SequencesExt

CONSTANTS
  Containers, Networks,
  NetsOf,      \* the networks of each container, in order
  NameOf,      \* the labels of its name, from the right
  HostName,    \* those of `host.jail.internal'
  Subnet,      \* the bits of each network's prefix
  Width,       \* bits of an address (32)
  Questions,   \* Questions[i]: what query i may ask, [addr, name, type]
  Forwarders,  \* number of system resolvers
  Faults,      \* "post": a request of the worker fails, "send": sendto
               \* raises, "parse": a reply that cannot be parsed
  None

(* No two networks share a subnet.  0.0.0.0/0 is the root, never reported. *)
ASSUME NameAssumption ==
  /\ \A c \in Containers : NetsOf[c] \in Seq(Networks)
  /\ \A c \in Containers : NameOf[c] \in Seq(STRING)
  /\ HostName \in Seq(STRING)
  /\ \A n \in Networks : Subnet[n] \in Seq({0, 1})
  /\ Width \in Nat
  /\ \A n, m \in Networks : Subnet[n] = Subnet[m] => n = m
  /\ \A n \in Networks : Subnet[n] # <<>> /\ Len(Subnet[n]) <= Width
  /\ Questions \in Seq(SUBSET [addr : [1..Width -> {0, 1}],
                              name : Seq(STRING), type : {"A", "other"}])
  /\ Forwarders \in Nat
  /\ None \notin Networks \cup {"worker", "client"}

VARIABLES
  nodes,     \* nodes[p]: the labels of p's children, in the order they came
  named,     \* nodes whose ip is set
  treeLock,  \* the thread that holds DnsTree.lock
  ins,       \* the insert of each thread: [pc, path, at]
  trie,      \* trie[p]: the name at the node p, or None
  wk,        \* the worker: [pc, cont, nets, at]
  forked,    \* containers registered and started
  q,         \* the query in the resolver's hands
  flight,    \* flight[i]: requests of query i the forwarders may yet answer
  sock,      \* replies that arrived at the resolver's socket: query numbers
  answered,  \* names whose registration was answered 201 (history)
  late       \* a forwarder was given up before it replied (history)

vars == <<nodes, named, treeLock, ins, trie, wk, forked, q, flight, sock,
          answered, late>>
treeVars == <<nodes, named, treeLock, ins, answered>>
queryVars == <<q, flight, sock, late>>

MaxQueries == Len(Questions)    \* bound of the model
Writers == {"worker", "client"}
HostPath(n) == <<n>> \o HostName
Path(c, n) == <<n>> \o NameOf[c]
Under(p, S) == {r \in S : IsPrefix(p, r)}

(* The networks of a client's address that are in the trie.                *)
Known(addr) == {n \in Networks : /\ IsPrefix(Subnet[n], addr)
                                 /\ Subnet[n] \in DOMAIN trie
                                 /\ trie[Subnet[n]] = n}

NoQuery == [pc |-> "idle", n |-> 0, ask |-> None, at |-> <<>>, found |-> None,
            stack |-> <<>>, ips |-> <<>>, tries |-> 0, reply |-> 0,
            before |-> {}, known |-> {}]
Done == {"answered", "forwarded", "empty", "raised"}

TypeOK ==
  /\ named \cup answered \subseteq DOMAIN nodes
  /\ \A p \in DOMAIN nodes : \A l \in Range(nodes[p]) :
       Append(p, l) \in DOMAIN nodes
  /\ \A w \in Writers : /\ ins[w].pc \in {"idle", "lock", "step", "create"}
                        /\ ins[w].pc \in {"step", "create"} <=> treeLock = w
                        /\ IsPrefix(ins[w].at, ins[w].path)
  /\ Range(trie) \subseteq Networks \cup {None}
  /\ wk.pc \in {"idle", "subnet", "dns", "insert", "fork"}
  /\ wk.at \in DOMAIN trie
  /\ forked \subseteq Containers
  /\ q.pc \in {"idle", "find", "walk", "collect", "send", "recv"} \cup Done
  /\ q.found \in Networks \cup {None} /\ q.n \in 0..MaxQueries
  /\ flight \in [1..MaxQueries -> 0..Forwarders]
  /\ \A i \in DOMAIN sock : sock[i] \in 1..MaxQueries

NoInsert == [pc |-> "idle", path |-> <<>>, at |-> <<>>]
NoStart == [pc |-> "idle", cont |-> None, nets |-> <<>>, at |-> <<>>]

Init ==
  /\ nodes = [p \in {<<>>} |-> <<>>] /\ named = {} /\ treeLock = None
  /\ ins = [w \in Writers |-> NoInsert]
  /\ trie = [p \in {<<>>} |-> None]
  /\ wk = NoStart
  /\ forked = {} /\ q = NoQuery
  /\ flight = [i \in 1..MaxQueries |-> 0] /\ sock = <<>>
  /\ answered = {} /\ late = FALSE

-----------------------------------------------------------------------------
(* DnsTree.insert.                                                         *)

OnlyTree == UNCHANGED <<trie, wk, forked, queryVars>>
Begin(w, path) == ins' = [ins EXCEPT ![w] = [pc |-> "lock", path |-> path,
                                             at |-> <<>>]]
NextNode(w) == SubSeq(ins[w].path, 1, Len(ins[w].at) + 1)
NextLabel(w) == Last(NextNode(w))

LockTree(w) ==
  /\ ins[w].pc = "lock" /\ treeLock = None
  /\ treeLock' = w
  /\ ins' = [ins EXCEPT ![w].pc = "step"]
  /\ UNCHANGED <<nodes, named, answered>> /\ OnlyTree

(* Mutant: a node is made without looking for the one that is there.       *)
BugCreateAnyway(w) ==
  /\ ins[w].pc = "step" /\ ins[w].at # ins[w].path
  /\ ins' = [ins EXCEPT ![w].pc = "create"]
  /\ UNCHANGED <<nodes, named, treeLock, answered>> /\ OnlyTree

(* `part not in node.children' and `node = node.children[part]'.           *)
Step(w) ==
  /\ ins[w].pc = "step" /\ ins[w].at # ins[w].path
  /\ ins' = IF NextLabel(w) \in Range(nodes[ins[w].at])
            THEN [ins EXCEPT ![w].at = NextNode(w)]
            ELSE [ins EXCEPT ![w].pc = "create"]
  /\ UNCHANGED <<nodes, named, treeLock, answered>> /\ OnlyTree

(* The new node takes the place of what the dictionary holds by now.       *)
Create(w) ==
  /\ ins[w].pc = "create"
  /\ LET at == ins[w].at
         new == NextNode(w)
         kept == DOMAIN nodes \ Under(new, DOMAIN nodes)
     IN  /\ nodes' = [p \in kept \cup {new} |->
              IF p = new THEN <<>>
              ELSE IF p = at /\ NextLabel(w) \notin Range(nodes[at])
              THEN Append(nodes[at], NextLabel(w))
              ELSE nodes[p]]
         /\ named' = named \cap kept
         /\ ins' = [ins EXCEPT ![w].pc = "step", ![w].at = new]
  /\ UNCHANGED <<treeLock, answered>> /\ OnlyTree

(* Mutant: the lock is not released.                                       *)
BugLockKept(w) ==
  /\ ins[w].pc = "step" /\ ins[w].at = ins[w].path
  /\ named' = named \cup {ins[w].path}
  /\ answered' = answered \cup {ins[w].path}
  /\ ins' = [ins EXCEPT ![w] = NoInsert]
  /\ UNCHANGED <<nodes, treeLock>> /\ OnlyTree

(* The address is set, the lock released and the request answered 201.     *)
SetName(w) ==
  /\ ins[w].pc = "step" /\ ins[w].at = ins[w].path
  /\ named' = named \cup {ins[w].path}
  /\ answered' = answered \cup {ins[w].path}
  /\ treeLock' = None
  /\ ins' = [ins EXCEPT ![w] = NoInsert]
  /\ UNCHANGED nodes /\ OnlyTree

(* POST /api/networks/<n>/start, one at a time: it holds server.lock.      *)
StartNetwork(n) ==
  /\ ins["client"].pc = "idle"
  /\ Begin("client", HostPath(n))
  /\ UNCHANGED <<nodes, named, treeLock, answered>> /\ OnlyTree

-----------------------------------------------------------------------------
(* The worker registers a container: per network a subnet, then a name.    *)

Net == Head(wk.nets)
NotTree == UNCHANGED <<treeVars, queryVars>>

TakeUp(c) ==
  /\ wk.pc = "idle" /\ c \notin forked
  /\ wk' = [pc |-> IF NetsOf[c] = <<>> THEN "fork" ELSE "subnet", cont |-> c,
            nets |-> NetsOf[c], at |-> <<>>]
  /\ UNCHANGED <<trie, forked>> /\ NotTree

(* SubnetTrie.insert: a bit at a time, then the name.                      *)
InsertBit ==
  /\ wk.pc = "subnet" /\ wk.at # Subnet[Net]
  /\ LET next == SubSeq(Subnet[Net], 1, Len(wk.at) + 1) IN
     /\ trie' = [p \in DOMAIN trie \cup {next} |->
                   IF p \in DOMAIN trie THEN trie[p] ELSE None]
     /\ wk' = [wk EXCEPT !.at = next]
  /\ UNCHANGED forked /\ NotTree

InsertSubnet ==
  /\ wk.pc = "subnet" /\ wk.at = Subnet[Net]
  /\ trie' = [trie EXCEPT ![wk.at] = Net]
  /\ wk' = [wk EXCEPT !.pc = "dns", !.at = <<>>]
  /\ UNCHANGED forked /\ NotTree

RegisterName ==
  /\ wk.pc = "dns"
  /\ Begin("worker", Path(wk.cont, Net))
  /\ wk' = [wk EXCEPT !.pc = "insert"]
  /\ UNCHANGED <<nodes, named, treeLock, trie, forked, answered, queryVars>>

Registered ==
  /\ wk.pc = "insert" /\ ins["worker"].pc = "idle"
  /\ wk' = [wk EXCEPT !.nets = Tail(@),
                      !.pc = IF Len(wk.nets) = 1 THEN "fork" ELSE "subnet"]
  /\ UNCHANGED <<trie, forked>> /\ NotTree

(* Mutant: a failed request is not noticed, as register_ports does it.     *)
BugFailureIgnored ==
  /\ "post" \in Faults
  /\ wk.pc \in {"subnet", "dns"} /\ wk.at = <<>>
  /\ wk' = [wk EXCEPT !.nets = Tail(@),
                      !.pc = IF Len(wk.nets) = 1 THEN "fork" ELSE "subnet"]
  /\ UNCHANGED <<trie, forked>> /\ NotTree

(* A request is refused or raises, before it is carried out or after it    *)
(* (that of the subnet at "dns"): the container is not started.            *)
PostFails ==
  /\ "post" \in Faults
  /\ \/ wk.pc \in {"subnet", "dns"} /\ wk.at = <<>>
     \/ wk.pc = "insert" /\ ins["worker"].pc = "idle"
  /\ wk' = NoStart
  /\ UNCHANGED <<trie, forked>> /\ NotTree

Fork ==
  /\ wk.pc = "fork"
  /\ forked' = forked \cup {wk.cont}
  /\ wk' = NoStart
  /\ UNCHANGED trie /\ NotTree

(* The container ends; its names stay.                                     *)
Ended(c) ==
  /\ c \in forked
  /\ forked' = forked \ {c}
  /\ UNCHANGED <<trie, wk>> /\ NotTree

-----------------------------------------------------------------------------
(* DynamicResolver.resolve, in the one thread of the DNS server.           *)

OnlyQuery == UNCHANGED <<treeVars, trie, wk, forked>>
Looks == OnlyQuery /\ UNCHANGED <<flight, sock, late>>
LookedUp(pc) == [NoQuery EXCEPT !.pc = pc, !.n = q.n]

Ask(x) ==
  /\ q.pc \in {"idle"} \cup Done
  /\ q' = [NoQuery EXCEPT !.pc = IF x.type = "A" THEN "find" ELSE "send",
             !.n = q.n + 1, !.ask = x,
             !.before = named, !.known = Known(x.addr)]
  /\ Looks

(* SubnetTrie.find.                                                        *)
NextBits == SubSeq(q.ask.addr, 1, Len(q.at) + 1)
FindBit ==
  /\ q.pc = "find" /\ Len(q.at) < Width /\ NextBits \in DOMAIN trie
  /\ q' = [q EXCEPT !.at = NextBits,
             !.found = IF trie[NextBits] # None THEN trie[NextBits] ELSE @]
  /\ Looks

(* Mutant: an address that leaves the trie has no network.                 *)
BugExactMatch ==
  /\ q.pc = "find"
  /\ Len(q.at) < Width => NextBits \notin DOMAIN trie
  /\ q' = IF trie[q.at] = None THEN LookedUp("send")
          ELSE [q EXCEPT !.at = <<>>, !.pc = "walk"]
  /\ Looks

Found ==
  /\ q.pc = "find"
  /\ Len(q.at) < Width => NextBits \notin DOMAIN trie
  /\ q' = IF q.found = None THEN LookedUp("send")
          ELSE [q EXCEPT !.at = <<>>, !.pc = "walk"]
  /\ Looks

(* collect_from.                                                           *)
Asked == <<q.found>> \o q.ask.name
NextAsked == SubSeq(Asked, 1, Len(q.at) + 1)
Walk ==
  /\ q.pc = "walk" /\ q.at # Asked
  /\ q' = IF Last(NextAsked) \in Range(nodes[q.at])
          THEN [q EXCEPT !.at = NextAsked] ELSE LookedUp("send")
  /\ Looks

(* collect_all reads the address of a node and opens an iterator over its  *)
(* children, which remembers how many there are.                           *)
Frame(p) == [node |-> p, size |-> Len(nodes[p]), i |-> 0]
Visit(query, p) ==
  [query EXCEPT !.stack = Append(@, Frame(p)),
                !.ips = IF p \in named THEN Append(@, p) ELSE @]
Top == Last(q.stack)
Advanced == [q EXCEPT !.stack[Len(q.stack)].i = @ + 1]
Grown == Len(nodes[Top.node]) # Top.size

(* Mutant: a node with an address is taken for a leaf.                     *)
BugLeaf ==
  /\ q.pc = "collect" /\ ~Grown /\ Top.i < Top.size
  /\ q' = IF Top.node \in named
          THEN [q EXCEPT !.stack[Len(q.stack)].i = Top.size]
          ELSE Visit(Advanced, Append(Top.node, nodes[Top.node][Top.i + 1]))
  /\ Looks

Reached ==
  /\ q.pc = "walk" /\ q.at = Asked
  /\ q' = Visit([q EXCEPT !.pc = "collect"], q.at)
  /\ Looks

Child ==
  /\ q.pc = "collect" /\ ~Grown /\ Top.i < Top.size
  /\ q' = Visit(Advanced, Append(Top.node, nodes[Top.node][Top.i + 1]))
  /\ Looks

Return ==
  /\ q.pc = "collect" /\ ~Grown /\ Top.i = Top.size
  /\ q' = IF Len(q.stack) > 1 THEN [q EXCEPT !.stack = Front(@)]
          ELSE LookedUp(IF q.ips = <<>> THEN "send" ELSE "answered")
  /\ Looks

(* Mutant: the query goes out twice.                                       *)
BugSentTwice ==
  /\ q.pc = "send" /\ q.tries < Forwarders
  /\ flight' = [flight EXCEPT ![q.n] = @ + 2]
  /\ q' = [q EXCEPT !.pc = "recv", !.tries = @ + 1]
  /\ UNCHANGED <<sock, late>> /\ OnlyQuery

(* RuntimeError: dictionary changed size during iteration.                 *)
Raise ==
  /\ q.pc = "collect" /\ Grown
  /\ q' = LookedUp("raised")
  /\ Looks

Send ==
  /\ q.pc = "send" /\ q.tries < Forwarders
  /\ flight' = [flight EXCEPT ![q.n] = @ + 1]
  /\ q' = [q EXCEPT !.pc = "recv", !.tries = @ + 1]
  /\ UNCHANGED <<sock, late>> /\ OnlyQuery

(* Whatever the forwarding of a query raises, the next forwarder is tried: *)
(* sendto fails, a reply cannot be parsed, or nothing comes (Timeout).     *)
SendFails ==
  /\ "send" \in Faults
  /\ q.pc = "send" /\ q.tries < Forwarders
  /\ q' = [q EXCEPT !.tries = @ + 1]
  /\ Looks

Unparsable ==
  /\ "parse" \in Faults
  /\ q.pc = "recv" /\ sock # <<>>
  /\ q' = [q EXCEPT !.pc = "send"]
  /\ sock' = Tail(sock)
  /\ UNCHANGED <<flight, late>> /\ OnlyQuery

NoForwarderLeft ==
  /\ q.pc = "send" /\ q.tries = Forwarders
  /\ q' = LookedUp("empty")
  /\ Looks

(* The first datagram in the socket is the answer, whatever it answers.    *)
Receive ==
  /\ q.pc = "recv" /\ sock # <<>>
  /\ q' = [LookedUp("forwarded") EXCEPT !.reply = Head(sock)]
  /\ sock' = Tail(sock)
  /\ UNCHANGED <<flight, late>> /\ OnlyQuery

(* Mutant: the socket has no timeout.                                      *)
BugNoTimeout == FALSE /\ UNCHANGED vars

(* Nothing arrived for two seconds.                                        *)
Timeout ==
  /\ q.pc = "recv" /\ sock = <<>>
  /\ q' = [q EXCEPT !.pc = "send"]
  /\ late' = TRUE
  /\ UNCHANGED <<flight, sock>> /\ OnlyQuery

(* A forwarder replies, at any time, or never does, or its reply is lost.  *)
Reply(i) ==
  /\ flight[i] > 0
  /\ flight' = [flight EXCEPT ![i] = @ - 1]
  /\ sock' = Append(sock, i)
  /\ UNCHANGED <<q, late>> /\ OnlyQuery

-----------------------------------------------------------------------------
Insert(w) == LockTree(w) \/ Step(w) \/ Create(w) \/ SetName(w)
Worker ==
  \/ InsertBit \/ InsertSubnet \/ RegisterName \/ Registered
  \/ PostFails \/ Fork
Resolve ==
  \/ FindBit \/ Found \/ Walk \/ Reached \/ Child \/ Return \/ Raise
  \/ Send \/ SendFails \/ Unparsable \/ NoForwarderLeft \/ Receive \/ Timeout

Next ==
  \/ \E w \in Writers : Insert(w)
  \/ \E n \in Networks : StartNetwork(n)
  \/ \E c \in Containers : TakeUp(c) \/ Ended(c)
  \/ Worker \/ Resolve
  \/ q.n < MaxQueries /\ \E x \in Questions[q.n + 1] : Ask(x)
  \/ \E i \in 1..MaxQueries : Reply(i)

(* Threads are scheduled; forwarders, clients and containers need not act. *)
Spec == Init /\ [][Next]_vars /\ WF_vars(Resolve)

-----------------------------------------------------------------------------
(* Properties.                                                             *)

(* A lookup that runs beside inserts tells every address registered under  *)
(* the name before it began, none twice and none of another name, and looks *)
(* in a network at least as specific as any known when it began.           *)
AnswerIsComplete ==
  [][q.pc = "collect" /\ q'.pc = "answered" =>
      /\ Under(Asked, q.before) \subseteq Range(q.ips)
      /\ Range(q.ips) \subseteq Under(Asked, named)
      /\ Cardinality(Range(q.ips)) = Len(q.ips)
      /\ \A n \in q.known : Len(Subnet[q.found]) >= Len(Subnet[n])
    ]_vars

(* An address query goes to the forwarders only if the client's network was *)
(* unknown or nothing was registered under the name when it was asked.     *)
ForwardedIsUnknown ==
  [][q.pc \in {"find", "walk", "collect"} /\ q'.pc = "send" =>
      IF q.found = None THEN q.known = {}
      ELSE Under(Asked, q.before) = {}]_vars

(* A name whose registration was answered stays resolvable while others    *)
(* insert beside it: no node on its path is replaced.                      *)
RegistrationKept == answered \subseteq named

(* A container that was started can be found under its name from each of   *)
(* its networks, and its own queries are answered there.                   *)
RunningIsResolvable ==
  \A c \in forked : \A n \in Range(NetsOf[c]) :
    Path(c, n) \in named /\ trie[Subnet[n]] = n

(* The reply handed on answers this query, as long as no forwarder was ever *)
(* given up: replies share one socket, and are not told apart.             *)
ReplyMatches == q.pc = "forwarded" /\ ~late => q.reply = q.n

(* Every query is answered, forwarded, left empty or dropped.              *)
QueriesEnd == q.pc # "idle" ~> q.pc \in Done
=============================================================================
