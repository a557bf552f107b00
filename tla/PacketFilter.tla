--------------------------- MODULE PacketFilter ---------------------------
(***************************************************************************)
(* Published ports: the rules in the pf anchors `cni-rdr/<network>'.     *)
(*                                                                       *)
(* The worker asks for the redirections of a container it starts (one POST *)
(* /api/ports per network), a stop removes them, and the start of a network *)
(* adds the redirection of port 53 to the resolver.  All three run with  *)
(* server.lock held; `req' is the critical section in progress, a list of  *)
(* pfctl calls still to be made.  Only the shutdown, which clears every  *)
(* anchor, does not take the lock, and it can overlap with a request.    *)
(*                                                                       *)
(* A port stands for a number and a protocol.  A rule is what the lookup *)
(* compares (`port', dst.port and proto) and where it leads (`to'; the   *)
(* address of a container in a network never changes).                   *)
(***************************************************************************)
EXTENDS Naturals, Sequences, FiniteSets, Functions, SequencesExt

CONSTANTS
  Containers, Networks,
  NetsOf,      \* the networks of each container, in order
  PortsOf,     \* its ports, in order: [host, cont]
  DnsPort,     \* 53, udp
  Resolver,    \* 127.0.0.11, where DNS redirections lead
  RuleCap,     \* bound of the model: rules of one kind in one anchor
  Faults,      \* "pf": a call of pf may fail; "crash": the server is killed
  None

HostPorts(c) == {p.host : p \in Range(PortsOf[c])}
ContPorts(c) == {p.cont : p \in Range(PortsOf[c])}

(* Nothing keeps clients from publishing one host port for two containers. *)
(* The rivals of a container share a host port with it.                   *)
Rivals(c) ==
  {d \in Containers \ {c} : HostPorts(c) \cap HostPorts(d) # {}}

ASSUME PortAssumption ==
  /\ \A c \in Containers : /\ NetsOf[c] \in Seq(Networks)
                           /\ PortsOf[c] \in Seq([host : Nat, cont : Nat])
  /\ RuleCap \in [Networks -> Nat]
  /\ Faults \subseteq {"pf", "crash"}
  /\ \A c \in Containers : PortsOf[c] # <<>>
  /\ None \notin Containers /\ Resolver \notin Containers

VARIABLES
  rules,      \* rules[kind][n]: the rules of a kind in the anchor of n
  row,        \* containers whose row says 'running'
  queue,      \* started, and not yet taken up by the worker
  job,        \* the container the worker registers, and its networks left
  up,         \* forked: the worker will report their exit
  req,        \* the critical section in progress
  server,     \* "up", "ending" (it waits for the worker), "closing" (it
              \* clears the anchors), "down" (it ended) or "killed"
  toClear,    \* anchors clear_ruleset_before_close has yet to clear
  whole,      \* <<c, port>>: registered without a failure, when no other
              \* container's rule had the port, nor stopped since (history)
  torn,       \* their stop was cut short (history)
  robbed      \* a rival was stopped, themselves not since (history)

vars == <<rules, row, queue, job, up, req, server, toClear,
          whole, torn, robbed>>

-----------------------------------------------------------------------------
(* The calls of pf and the programs the handlers make of them.           *)

Kinds == {"rdr", "nat"}
Append1(kind, n, port, to) ==
  [op |-> "append", kind |-> kind, net |-> n, port |-> port, to |-> to]
Remove1(kind, n, port) ==
  [op |-> "remove", kind |-> kind, net |-> n, port |-> port, to |-> None]

(* For each port a redirection and a NAT rule.                           *)
AddPorts(c, n) ==
  [k \in 1..2 * Len(PortsOf[c]) |->
    IF k % 2 = 1 THEN Append1("rdr", n, PortsOf[c][(k + 1) \div 2].host, c)
                 ELSE Append1("nat", n, PortsOf[c][k \div 2].cont, c)]

(* For each port, and for each network, one removal of each.  The k-th pair *)
(* of calls, from 0:                                                     *)
PortAt(c, k) == PortsOf[c][(k \div Len(NetsOf[c])) + 1]
NetAt(c, k) == NetsOf[c][(k % Len(NetsOf[c])) + 1]
RemovePorts(c) ==
  [k \in 1..2 * (Len(NetsOf[c]) * Len(PortsOf[c])) |->
    IF k % 2 = 1
    THEN Remove1("rdr", NetAt(c, k \div 2), PortAt(c, k \div 2).host)
    ELSE Remove1("nat", NetAt(c, k \div 2 - 1), PortAt(c, k \div 2 - 1).cont)]

(* A request: who makes it, the container it is about, the calls to be   *)
(* made, whether none has failed.  While the first of them removes rules:  *)
(* the positions it has found and not yet removed, how many it has.      *)
Free == [by |-> "none", cont |-> None, todo |-> <<>>, ok |-> TRUE,
         found |-> {}, gone |-> 0]
NoJob == [cont |-> None, nets |-> <<>>, ok |-> TRUE]

Rules == [port : {DnsPort} \cup
                   UNION {HostPorts(c) \cup ContPorts(c) : c \in Containers},
          to : Containers \cup {Resolver}]
Calls == [op : {"append", "remove"}, kind : Kinds, net : Networks,
          port : {r.port : r \in Rules},
          to : Containers \cup {Resolver, None}]

TypeOK ==
  /\ rules \in [Kinds -> [Networks -> Seq(Rules)]]
  /\ \A k \in Kinds, n \in Networks : Len(rules[k][n]) <= RuleCap[n]
  /\ toClear \subseteq Networks
  /\ row \subseteq Containers /\ queue \subseteq row
  /\ up \cup torn \cup robbed \subseteq Containers
  /\ whole \subseteq UNION {{c} \X HostPorts(c) : c \in Containers}
  /\ job \in [cont : Containers \cup {None}, nets : Seq(Networks),
              ok : BOOLEAN]
  /\ req \in [by : {"none", "ports", "stop", "network"},
              cont : Containers \cup {None}, todo : Seq(Calls), ok : BOOLEAN,
              found : SUBSET Nat, gone : Nat]
  /\ server \in {"up", "ending", "closing", "down", "killed"}

Init ==
  /\ rules = [k \in Kinds |-> [n \in Networks |-> <<>>]]
  /\ toClear = {} /\ server = "up"
  /\ row = {} /\ queue = {} /\ up = {} /\ job = NoJob /\ req = Free
  /\ whole = {} /\ torn = {} /\ robbed = {}

Alive == server \in {"up", "ending", "closing"}
Room(n, k) ==
  \A kind \in Kinds : Len(rules[kind][n]) + k <= RuleCap[n]

-----------------------------------------------------------------------------
(* Containers and the worker.                                            *)

Start(c) ==
  /\ server = "up" /\ req = Free /\ c \notin row
  /\ row' = row \cup {c}
  /\ queue' = queue \cup {c}
  /\ UNCHANGED <<rules, job, up, req, server, toClear, whole, torn, robbed>>

TakeUp(c) ==
  /\ server = "up" /\ req = Free
  /\ c \in queue /\ job = NoJob
  /\ queue' = queue \ {c}
  /\ job' = [cont |-> c, nets |-> NetsOf[c], ok |-> TRUE]
  /\ UNCHANGED <<rules, row, up, req, server, toClear, whole, torn, robbed>>

(* Mutant: the name is not taken out of the buffer.                      *)
BugNameStays(c) ==
  /\ server = "up" /\ req = Free
  /\ c \in queue /\ job = NoJob
  /\ row' = row \ {c}
  /\ UNCHANGED <<rules, queue, job, up, req, server, toClear, whole, torn, robbed>>

(* The jail or a registration made before the ports has failed.          *)
NotStarted(c) ==
  /\ server = "up" /\ req = Free
  /\ c \in queue /\ job = NoJob
  /\ queue' = queue \ {c}
  /\ row' = row \ {c}
  /\ UNCHANGED <<rules, job, up, req, server, toClear, whole, torn, robbed>>

(* register_ports: one POST per network.  Its answer is not looked at.   *)
RegisterPorts ==
  /\ server = "up" /\ req = Free
  /\ job # NoJob /\ job.nets # <<>>
  /\ Room(Head(job.nets), Len(PortsOf[job.cont]))
  /\ req' = [Free EXCEPT !.by = "ports", !.cont = job.cont,
                         !.todo = AddPorts(job.cont, Head(job.nets))]
  /\ job' = [job EXCEPT !.nets = Tail(@)]
  /\ UNCHANGED <<rules, row, queue, up, server, toClear, whole, torn, robbed>>

(* The host ports of c that no rule of another container has in a network  *)
(* of c: pf takes the first rule that matches.                           *)
Unclaimed(c) ==
  {port \in HostPorts(c) :
     \A n \in Range(NetsOf[c]) : \A r \in Range(rules["rdr"][n]) :
       r.port = port => r.to \in {c, Resolver}}

Fork ==
  /\ job # NoJob /\ job.nets = <<>> /\ req.by # "ports"
  /\ up' = up \cup {job.cont}
  /\ whole' = IF job.ok THEN whole \cup ({job.cont} \X Unclaimed(job.cont))
              ELSE whole
  /\ job' = NoJob
  /\ UNCHANGED <<rules, row, queue, req, server, toClear, torn, robbed>>

(* The container ends and the worker reports it.  The rules stay.        *)
Ended(c) ==
  /\ Alive /\ req = Free
  /\ c \in up
  /\ up' = up \ {c}
  /\ row' = row \ {c}
  /\ whole' = {w \in whole : w[1] # c}
  /\ UNCHANGED <<rules, queue, job, req, server, toClear, torn, robbed>>

-----------------------------------------------------------------------------
(* Requests.                                                             *)

(* stop_jail, from the end of its wait for the jail on.  While a container *)
(* is queued or being registered its stop finds little to remove.  The    *)
(* redirections are found by their port, a rival's as well.              *)
StopBegins(c) ==
  /\ Alive /\ req = Free /\ c \in row
  /\ req' = [Free EXCEPT !.by = "stop", !.cont = c, !.todo = RemovePorts(c)]
  /\ whole' = {w \in whole : w[2] \notin HostPorts(c)}
  /\ torn' = torn \cup {c}
  /\ robbed' = robbed \cup Rivals(c)
  /\ job' = IF job.cont \in {c} \cup Rivals(c) THEN [job EXCEPT !.ok = FALSE]
            ELSE job
  /\ UNCHANGED <<rules, row, queue, up, server, toClear>>

(* start_network appends its redirection on every call, whether it has just *)
(* made the bridge or found it.                                          *)
StartNetwork(n) ==
  /\ Alive /\ req = Free
  /\ Room(n, 1)
  /\ req' = [Free EXCEPT !.by = "network",
                         !.todo = <<Append1("rdr", n, DnsPort, Resolver)>>]
  /\ UNCHANGED <<rules, row, queue, job, up, server, toClear, whole, torn, robbed>>

(* The last call is made, the lock is released.                          *)
Answer ==
  /\ req # Free /\ req.todo = <<>>
  /\ req' = Free
  /\ job' = IF req.by = "ports" /\ ~req.ok THEN [job EXCEPT !.ok = FALSE]
            ELSE job
  /\ IF req.by = "stop" /\ req.ok
     THEN torn' = torn \ {req.cont} /\ robbed' = robbed \ {req.cont}
     ELSE UNCHANGED <<torn, robbed>>
  /\ UNCHANGED <<rules, row, queue, up, server, toClear, whole>>

-----------------------------------------------------------------------------
(* pf_util.c.  An anchor exists while it holds a rule of some kind.      *)

(* Mutant: an existing anchor is filled anew, as a missing one is.       *)
BugReplaced(kind, n, rule) == <<rule>>

Exists(n) == \E k \in Kinds : rules[k][n] # <<>>

(* Mutant: the search ends at the first rule of the port.                *)
BugFirst(kind, n, port) ==
  {i \in DOMAIN rules[kind][n] : /\ rules[kind][n][i].port = port
                                 /\ \A j \in 1..(i - 1) :
                                      rules[kind][n][j].port # port}

Appended(kind, n, rule) ==
  IF Exists(n) THEN Append(rules[kind][n], rule) ELSE <<rule>>

Positions(kind, n, port) ==
  {i \in DOMAIN rules[kind][n] : rules[kind][n][i].port = port}

AllMatch(kind, n, port) ==
  Positions(kind, n, port) = DOMAIN rules[kind][n]

Cleared(n, kinds) ==
  [k \in Kinds |-> IF k \in kinds THEN [rules[k] EXCEPT ![n] = <<>>]
                   ELSE rules[k]]

Call == Head(req.todo)
Busy == Alive /\ req # Free /\ req.todo # <<>>
NextCall == req' = [req EXCEPT !.todo = Tail(@), !.found = {}, !.gone = 0]
BreakOff == req' = [req EXCEPT !.todo = <<>>, !.found = {}, !.gone = 0,
                               !.ok = FALSE]

DoAppend ==
  /\ Busy /\ Call.op = "append"
  /\ rules' = [rules EXCEPT ![Call.kind][Call.net] =
       Appended(Call.kind, Call.net, [port |-> Call.port, to |-> Call.to])]
  /\ NextCall
  /\ UNCHANGED <<row, queue, job, up, server, toClear, whole, torn, robbed>>

(* When every rule matches the whole anchor is cleared; for rdr rules that *)
(* is clear_ruleset, which empties the NAT rules as well.                *)
DoRemove ==
  /\ Busy /\ Call.op = "remove" /\ req.found = {}
  /\ LET ps == Positions(Call.kind, Call.net, Call.port) IN
     \/ ~Exists(Call.net) /\ UNCHANGED rules /\ NextCall
     \/ /\ Exists(Call.net) /\ AllMatch(Call.kind, Call.net, Call.port)
        /\ rules' = Cleared(Call.net, IF Call.kind = "rdr" THEN Kinds
                                      ELSE {Call.kind})
        /\ NextCall
     \/ /\ Exists(Call.net) /\ ~AllMatch(Call.kind, Call.net, Call.port)
        /\ UNCHANGED rules
        /\ IF ps = {} THEN NextCall ELSE req' = [req EXCEPT !.found = ps]
  /\ UNCHANGED <<row, queue, job, up, server, toClear, whole, torn, robbed>>

(* Mutant: the position is used as it was found.                         *)
BugNotShifted(i) == i

(* Where the rule found at position i is once those before it are removed. *)
Shifted(i) == i - req.gone

(* The first position left, as the loop takes them in order.             *)
NextFound(i) == i \in req.found /\ \A j \in req.found : i <= j

(* remove_nth_rule; the rules behind it move up.  Without the lock only the *)
(* shutdown can have emptied the anchor in between.                      *)
RemoveNth ==
  /\ Busy /\ Call.op = "remove"
  /\ \E i \in req.found :
       /\ NextFound(i) /\ Shifted(i) \in DOMAIN rules[Call.kind][Call.net]
       /\ rules' = [rules EXCEPT ![Call.kind][Call.net] =
                      RemoveAt(@, Shifted(i))]
       /\ IF req.found = {i} THEN NextCall
          ELSE req' = [req EXCEPT !.found = @ \ {i}, !.gone = @ + 1]
  /\ UNCHANGED <<row, queue, job, up, server, toClear, whole, torn, robbed>>

NoSuchRule ==
  /\ Busy /\ Call.op = "remove"
  /\ \E i \in req.found :
       NextFound(i) /\ Shifted(i) \notin DOMAIN rules[Call.kind][Call.net]
  /\ BreakOff
  /\ UNCHANGED <<rules, row, queue, job, up, server, toClear, whole, torn, robbed>>

(* A call of pf is refused.  The shutdown can make any of them fail, for it *)
(* changes the tickets.                                                  *)
MayFail == "pf" \in Faults \/ server \in {"ending", "closing"}

(* A NAT rule that cannot be appended is logged and the loop goes on.    *)
AppendNatFails ==
  /\ Busy /\ MayFail
  /\ Call.op = "append" /\ Call.kind = "nat"
  /\ req' = [req EXCEPT !.todo = Tail(@), !.ok = FALSE]
  /\ UNCHANGED <<rules, row, queue, job, up, server, toClear, whole, torn, robbed>>

(* Mutant: a redirection that cannot be appended is logged too.          *)
BugRdrCaught ==
  /\ Busy /\ MayFail
  /\ Call.op = "append" /\ Call.kind = "rdr"
  /\ req' = [req EXCEPT !.todo = Tail(@), !.ok = FALSE]
  /\ UNCHANGED <<rules, row, queue, job, up, server, toClear, whole, torn, robbed>>

(* Any other failure leaves the loop: add_rdr_ports raises, stop_jail logs *)
(* it, start_network has only one call.                                  *)
AppendRdrFails ==
  /\ Busy /\ MayFail
  /\ Call.op = "append" /\ Call.kind = "rdr"
  /\ BreakOff
  /\ UNCHANGED <<rules, row, queue, job, up, server, toClear, whole, torn, robbed>>

(* The search or a removal fails; what was removed before stays removed. *)
RemoveFails ==
  /\ Busy /\ MayFail
  /\ Call.op = "remove"
  /\ BreakOff
  /\ UNCHANGED <<rules, row, queue, job, up, server, toClear, whole, torn, robbed>>

(* clear_ruleset ignores what its transactions answer and always succeeds: *)
(* the rules of some kinds stay.                                         *)
RemoveFailsSilently ==
  /\ Busy /\ MayFail
  /\ Call.op = "remove" /\ Call.kind = "rdr" /\ req.found = {}
  /\ Exists(Call.net) /\ AllMatch("rdr", Call.net, Call.port)
  /\ \E kinds \in (SUBSET Kinds) \ {Kinds} : rules' = Cleared(Call.net, kinds)
  /\ req' = [req EXCEPT !.todo = Tail(@), !.ok = FALSE]
  /\ UNCHANGED <<row, queue, job, up, server, toClear, whole, torn, robbed>>

-----------------------------------------------------------------------------
(* Shutdown, crash and restart.                                          *)

(* A worker that still has to ask the server for something dies of the    *)
(* ConnectionError, unless it has just been answered, and runs the        *)
(* handle_close it inherited: it clears the anchors, too.                 *)
WorkerClears ==
  IF queue # {} \/ job.nets # <<>> \/ req.by = "ports" THEN {{}, Networks}
  ELSE {{}}

(* mark_all_exited.  A stop that found its row before may still wait for its *)
(* jail, with the lock held.                                             *)
Marked == {{}} \cup {{c} : c \in row}

WorkerStops ==
  queue' = {} /\ up' = {} /\ whole' = {} /\ job' = NoJob

(* Mutant: the anchors are cleared without waiting for the worker.       *)
BugNotAwaited ==
  /\ server = "up"
  /\ server' = "ending"
  /\ toClear' \in WorkerClears
  /\ row' \in Marked
  /\ WorkerStops
  /\ UNCHANGED <<rules, req, torn, robbed>>

(* SIGTERM.  A registration of ports is answered first, for the worker waits *)
(* for it; any other request may still be under way.                     *)
Sigterm ==
  /\ server = "up" /\ req.by # "ports"
  /\ server' = "ending"
  /\ toClear' \in WorkerClears
  /\ row' \in Marked
  /\ WorkerStops
  /\ UNCHANGED <<rules, req, torn, robbed>>

(* The worker has ended.                                                 *)
Terminate ==
  /\ server = "ending" /\ toClear = {}
  /\ server' = "closing"
  /\ toClear' = Networks
  /\ UNCHANGED <<rules, row, queue, job, up, req, whole, torn, robbed>>

(* clear_ruleset_before_close, of the worker or of the server, does not take *)
(* the lock.                                                             *)
ClearAnchor(n) ==
  /\ n \in toClear
  /\ toClear' = toClear \ {n}
  /\ rules' = Cleared(n, Kinds)
  /\ UNCHANGED <<row, queue, job, up, req, server, whole, torn, robbed>>

ClearAnchorFails(n) ==
  /\ "pf" \in Faults
  /\ n \in toClear
  /\ toClear' = toClear \ {n}
  /\ \E kinds \in (SUBSET Kinds) \ {Kinds} : rules' = Cleared(n, kinds)
  /\ torn' = torn \cup (Containers \cap
       {r.to : r \in UNION {Range(rules[k][n]) : k \in Kinds}})
  /\ UNCHANGED <<row, queue, job, up, req, server, whole, robbed>>

(* The process ends, and with it the threads of its requests.            *)
Close ==
  /\ server = "closing" /\ toClear = {}
  /\ server' = "down"
  /\ row' = {} /\ req' = Free
  /\ UNCHANGED <<rules, queue, job, up, toClear, whole, torn, robbed>>

(* The rules outlive a crash, and the rows unless a worker that dies of it *)
(* or a shutdown under way has marked them.  The worker and the containers *)
(* end: it cleans up when its socket is closed.                          *)
Crash ==
  /\ "crash" \in Faults
  /\ Alive
  /\ server' = "killed"
  /\ toClear' \in IF server = "up" THEN WorkerClears
                  ELSE IF server = "ending" THEN {toClear} ELSE {{}}
  /\ row' = IF server = "up" /\ toClear' = {} THEN row ELSE {}
  /\ req' = Free
  /\ WorkerStops
  /\ UNCHANGED <<rules, torn, robbed>>

(* The worker is taken to have ended by then.                            *)
Boot ==
  /\ ~Alive /\ toClear = {}
  /\ server' = "up"
  /\ UNCHANGED <<rules, row, queue, job, up, req, toClear, whole, torn, robbed>>

-----------------------------------------------------------------------------
PfCall ==
  \/ DoAppend \/ DoRemove \/ RemoveNth \/ NoSuchRule
  \/ AppendNatFails \/ AppendRdrFails \/ RemoveFails \/ RemoveFailsSilently

Next ==
  \/ \E c \in Containers : \/ Start(c) \/ TakeUp(c) \/ NotStarted(c)
                           \/ Ended(c) \/ StopBegins(c)
  \/ \E n \in Networks : \/ StartNetwork(n)
                         \/ ClearAnchor(n) \/ ClearAnchorFails(n)
  \/ RegisterPorts \/ Fork \/ PfCall \/ Answer
  \/ Sigterm \/ Terminate \/ Close \/ Crash \/ Boot

Spec == Init /\ [][Next]_vars

-----------------------------------------------------------------------------
(* Properties.                                                           *)

(* Every NAT rule stands beside a redirection to the same container, though *)
(* the two are appended and removed by separate calls that may fail, unless *)
(* a stop of that container was cut short or a rival's stop may have taken *)
(* its redirections.  clear_ruleset relies on it: it empties the NAT rules *)
(* when the last redirection of an anchor goes.                          *)
NatHasRdr ==
  \A n \in Networks : \A r \in Range(rules["nat"][n]) :
    \/ r.to \in torn \cup robbed
    \/ \E s \in Range(rules["rdr"][n]) : s.to = r.to

(* A host port of a container that runs leads to it in each of its networks, *)
(* whatever was started, stopped or cut short since, its rivals' starts   *)
(* included, if no rule of another container had the port when it was     *)
(* registered and none that publishes the port was stopped since.  (Else it *)
(* need not: a container that ends by itself leaves its rules, and the    *)
(* first rule of a port is the one that counts.)                         *)
LeadsTo(n, port, c) ==
  LET s == rules["rdr"][n] IN
  \E i \in DOMAIN s :
    /\ s[i].port = port /\ s[i].to = c
    /\ \A j \in 1..(i - 1) : s[j].port = port => s[j].to \in {c, Resolver}
Reachable ==
  \A c \in up : \A n \in Range(NetsOf[c]), port \in HostPorts(c) :
    <<c, port>> \in whole => LeadsTo(n, port, c)

(* A stop of which no call failed leaves no redirection to its container,  *)
(* however often its ports were registered.                              *)
StoppedIsUnpublished ==
  req.by = "stop" /\ req.ok /\ req.todo = <<>> =>
    \A n \in Networks : \A r \in Range(rules["rdr"][n]) : r.to # req.cont

(* A server that shut down in order has left rules of containers only where *)
(* a stop or the clearing of an anchor failed.                           *)
ShutdownUnpublishes ==
  server = "down" =>
    \A k \in Kinds, n \in Networks : \A r \in Range(rules[k][n]) :
      r.to \in torn \cup {Resolver}

(* Unless the shutdown clears its anchor, a rule is lost only to a stop of  *)
(* a container that publishes its port: a redirection to the same host   *)
(* port, a NAT rule to the same container port, or one whose redirections *)
(* a stop cut short or a rival's stop may have taken before (the anchor is *)
(* then cleared as a whole).  The rules are removed by position, and     *)
(* positions move.                                                       *)
Count(s, r) == Cardinality({i \in DOMAIN s : s[i] = r})
Lost(kind, n) ==
  {r \in Range(rules[kind][n]) : Count(rules'[kind][n], r)
                                   < Count(rules[kind][n], r)}
StopTakesOnlyItsPorts ==
  [][\A n \in Networks : n \in toClear \ toClear' \/
       /\ \A r \in Lost("rdr", n) :
            req.by = "stop" /\ r.port \in HostPorts(req.cont)
       /\ \A r \in Lost("nat", n) :
            req.by = "stop" /\ (r.port \in ContPorts(req.cont)
                                \/ r.to \in torn \cup robbed)]_vars
=============================================================================
