------------------------ MODULE PacketFilterProofs ------------------------
(***************************************************************************)
(* Proofs about the rules of the anchors.                                *)
(***************************************************************************)
EXTENDS PacketFilter, FiniteSetTheorems, SequenceTheorems, TLAPS

(* The types.                                                            *)
RulesT == rules \in [Kinds -> [Networks -> Seq(Rules)]]
Held == UNION {{c} \X HostPorts(c) : c \in Containers}
SetsT == /\ toClear \subseteq Networks
         /\ row \subseteq Containers /\ queue \subseteq row
         /\ up \cup torn \cup robbed \subseteq Containers
         /\ whole \subseteq Held
         /\ server \in {"up", "ending", "closing", "down", "killed"}
JobT == job \in [cont : Containers \cup {None}, nets : Seq(Networks), ok : BOOLEAN]
ReqType == [by : {"none", "ports", "stop", "network"},
            cont : Containers \cup {None}, todo : Seq(Calls), ok : BOOLEAN,
            found : SUBSET Nat, gone : Nat]
ReqT == req \in ReqType
Types == RulesT /\ SetsT /\ JobT /\ ReqT

(* What a request is made of.                                            *)
Publishes(c, a) == \/ a.kind = "rdr" /\ a.port \in HostPorts(c)
                   \/ a.kind = "nat" /\ a.port \in ContPorts(c)
Registers == /\ server = "up" /\ req.cont \in Containers /\ req.cont = job.cont
             /\ \A i \in 1..Len(req.todo) :
                  /\ req.todo[i].op = "append" /\ req.todo[i].to = req.cont
                  /\ req.todo[i].net \in Range(NetsOf[req.cont])
                  /\ req.todo[i].net = req.todo[1].net
                  /\ Publishes(req.cont, req.todo[i])
                  /\ req.todo[i].kind = "nat" <=> (Len(req.todo) - i) % 2 = 0
Stops == /\ req.cont \in Containers /\ req.cont \in torn
         /\ Rivals(req.cont) \subseteq robbed
         /\ \A w \in whole : w[2] \notin HostPorts(req.cont)
         /\ job.cont \in {req.cont} \cup Rivals(req.cont) => ~job.ok
         /\ \A i \in 1..Len(req.todo) : /\ req.todo[i].op = "remove"
                                         /\ Publishes(req.cont, req.todo[i])
Serves == /\ Len(req.todo) <= 1
          /\ \A i \in 1..Len(req.todo) :
               /\ req.todo[i].op = "append" /\ req.todo[i].kind = "rdr"
               /\ req.todo[i].port = DnsPort /\ req.todo[i].to = Resolver
ReqInv ==
  /\ req.by = "none" => req = Free
  /\ req.by = "ports" => Registers
  /\ req.by = "stop" => Stops
  /\ req.by = "network" => Serves
  /\ req.found = {} => req.gone = 0
  /\ req.found # {} => req.todo # <<>> /\ req.by = "stop"

(* Where a container is, and what a server that closes still does.       *)
PlaceInv ==
  /\ job.cont = None => job = NoJob
  /\ job.cont # None => /\ job.cont \in row /\ job.cont \notin queue \cup up
                        /\ Range(job.nets) \subseteq Range(NetsOf[job.cont])
  /\ queue \cap up = {} /\ up \subseteq row /\ \A w \in whole : w[1] \in up
ServerInv ==
  /\ server # "up" => job = NoJob /\ up = {} /\ queue = {}
  /\ server \in {"down", "killed"} => req = Free
  /\ server \in {"up", "down"} => toClear = {}

(* A rule belongs to a container that publishes its port, or to the      *)
(* resolver.                                                             *)
Owned(k, n, r) == /\ r.to \in Containers /\ n \in Range(NetsOf[r.to])
                  /\ r.port \in IF k = "rdr" THEN HostPorts(r.to) ELSE ContPorts(r.to)
Owners == \A n \in Networks :
  /\ \A r \in Range(rules["rdr"][n]) : r.to = Resolver \/ Owned("rdr", n, r)
  /\ \A r \in Range(rules["nat"][n]) : Owned("nat", n, r)

Control == ReqInv /\ PlaceInv /\ ServerInv /\ Owners

-----------------------------------------------------------------------------
(* Sequences.                                                            *)

LEMMA TailFacts ==
  ASSUME NEW S, NEW t \in Seq(S), t # <<>>
  PROVE  /\ Head(t) = t[1] /\ 1 \in 1..Len(t) /\ Len(t) \in Nat
         /\ Tail(t) \in Seq(S) /\ Len(Tail(t)) = Len(t) - 1
         /\ \A i \in 1..Len(Tail(t)) : i + 1 \in 1..Len(t) /\ Tail(t)[i] = t[i + 1]
         /\ \A i \in 1..Len(t) : i = 1 \/ (i - 1 \in 1..Len(Tail(t)) /\ Tail(t)[i - 1] = t[i])
OBVIOUS

LEMMA RangeIs ==
  ASSUME NEW S, NEW t \in Seq(S)
  PROVE  /\ Range(t) = {t[i] : i \in 1..Len(t)} /\ Range(t) \subseteq S
         /\ DOMAIN t = 1..Len(t) /\ Len(t) \in Nat
BY DEF Range

LEMMA AppendFacts ==
  ASSUME NEW S, NEW t \in Seq(S), NEW x \in S
  PROVE  /\ Append(t, x) \in Seq(S) /\ Len(Append(t, x)) = Len(t) + 1
         /\ \A i \in 1..Len(t) : Append(t, x)[i] = t[i]
         /\ Append(t, x)[Len(t) + 1] = x
OBVIOUS

LEMMA AppendRange ==
  ASSUME NEW S, NEW t \in Seq(S), NEW x \in S
  PROVE  Range(Append(t, x)) = Range(t) \cup {x}
<1>1. /\ Append(t, x) \in Seq(S) /\ Len(Append(t, x)) = Len(t) + 1
      /\ \A i \in 1..Len(t) : Append(t, x)[i] = t[i]
      /\ Append(t, x)[Len(t) + 1] = x /\ Len(t) \in Nat
  BY AppendFacts
<1>2. Range(Append(t, x)) = {Append(t, x)[i] : i \in 1..Len(t) + 1}
      /\ Range(t) = {t[i] : i \in 1..Len(t)}
  BY <1>1, RangeIs
<1>3. \A i \in 1..Len(t) + 1 : i \in 1..Len(t) \/ i = Len(t) + 1 BY <1>1
<1>4. \A i \in 1..Len(t) : i \in 1..Len(t) + 1 BY <1>1
<1>5. Len(t) + 1 \in 1..Len(t) + 1 BY <1>1
<1> QED BY <1>1, <1>2, <1>3, <1>4, <1>5

LEMMA RemoveAtFacts ==
  ASSUME NEW S, NEW t \in Seq(S), NEW i \in 1..Len(t)
  PROVE  /\ RemoveAt(t, i) \in Seq(S) /\ Len(RemoveAt(t, i)) = Len(t) - 1
         /\ \A j \in 1..(Len(t) - 1) :
              RemoveAt(t, i)[j] = IF j < i THEN t[j] ELSE t[j + 1]
<1> DEFINE a == SubSeq(t, 1, i - 1)
           b == SubSeq(t, i + 1, Len(t))
<1>0. Len(t) \in Nat /\ i \in Nat OBVIOUS
<1>1. a \in Seq(S) /\ Len(a) = i - 1 /\ \A j \in 1..(i - 1) : a[j] = t[j] OBVIOUS
<1>2. b \in Seq(S) /\ Len(b) = Len(t) - i /\ \A j \in 1..(Len(t) - i) : b[j] = t[i + j] OBVIOUS
<1>3. RemoveAt(t, i) = a \o b BY DEF RemoveAt
<1> HIDE DEF a, b
<1>4. /\ a \o b \in Seq(S) /\ Len(a \o b) = Len(a) + Len(b)
      /\ \A j \in 1..(Len(a) + Len(b)) :
           (a \o b)[j] = IF j <= Len(a) THEN a[j] ELSE b[j - Len(a)]
  BY <1>1, <1>2, ConcatProperties
<1>5. ASSUME NEW j \in 1..(Len(t) - 1)
      PROVE  (a \o b)[j] = IF j < i THEN t[j] ELSE t[j + 1]
  <2>1. CASE j < i BY <1>1, <1>2, <1>4, <2>1
  <2>2. CASE j >= i
    <3>1. j - (i - 1) \in 1..(Len(t) - i) /\ i + (j - (i - 1)) = j + 1 BY <2>2
    <3>2. b[j - (i - 1)] = t[i + (j - (i - 1))] BY <1>2, <3>1
    <3> QED BY <1>1, <1>2, <1>4, <2>2, <3>1, <3>2
  <2>3. j < i \/ j >= i BY <1>0
  <2> QED BY <2>1, <2>2, <2>3
<1>6. Len(a) + Len(b) = Len(t) - 1 BY <1>1, <1>2
<1> QED BY <1>3, <1>4, <1>5, <1>6

-----------------------------------------------------------------------------
(* The calls of the two loops.                                           *)

LEMMA DivMod ==
  ASSUME NEW m \in Nat \ {0}, NEW a \in Nat
  PROVE  a \div m \in Nat /\ a % m \in 0..(m - 1) /\ a = m * (a \div m) + (a % m)
OBVIOUS

LEMMA DivBound ==
  ASSUME NEW m \in Nat \ {0}, NEW p \in Nat, NEW a \in Nat, a < m * p
  PROVE  a \div m < p
<1>1. a \div m \in Nat /\ a % m \in 0..(m - 1) /\ a = m * (a \div m) + (a % m) BY DivMod
<1>2. ASSUME a \div m >= p PROVE FALSE
  <2>1. \A q \in Nat : q >= p => m * q >= m * p OBVIOUS
  <2> QED BY <1>1, <1>2, <2>1
<1> QED BY <1>1, <1>2

LEMMA DivOf ==
  ASSUME NEW m \in Nat \ {0}, NEW i \in Nat, NEW j \in 0..(m - 1)
  PROVE  (m * i + j) \div m = i /\ (m * i + j) % m = j
OBVIOUS

LEMMA ProductBound ==
  ASSUME NEW m \in Nat, NEW p \in Nat, NEW i \in 0..(p - 1), NEW j \in 0..(m - 1)
  PROVE  m * i + j \in Nat /\ m * i + j < m * p
<1>1. m * (i + 1) <= m * p OBVIOUS
<1>2. m * (i + 1) = m * i + m OBVIOUS
<1> QED BY <1>1, <1>2

LEMMA ProductNat == ASSUME NEW m \in Nat, NEW p \in Nat PROVE m * p \in Nat
OBVIOUS

LEMMA Halves ==
  ASSUME NEW L \in Nat, NEW k \in 1..2 * L
  PROVE  /\ k % 2 = 1 => /\ (k + 1) \div 2 \in 1..L /\ (2 * L - k) % 2 # 0
                         /\ k \div 2 \in Nat /\ k \div 2 < L
         /\ k % 2 # 1 => /\ k \div 2 \in 1..L /\ (2 * L - k) % 2 = 0
                         /\ k \div 2 - 1 \in Nat /\ k \div 2 - 1 < L
OBVIOUS

LEMMA Doubles ==
  ASSUME NEW L \in Nat, NEW a \in Nat, a < L
  PROVE  /\ 2 * a + 1 \in 1..2 * L /\ 2 * a + 2 \in 1..2 * L
         /\ (2 * a + 1) % 2 = 1 /\ (2 * a + 1) \div 2 = a
         /\ (2 * a + 2) % 2 # 1 /\ (2 * a + 2) \div 2 - 1 = a
OBVIOUS

LEMMA PortFacts ==
  ASSUME NEW c \in Containers
  PROVE  /\ NetsOf[c] \in Seq(Networks) /\ Len(NetsOf[c]) \in Nat
         /\ Len(PortsOf[c]) \in Nat /\ Len(PortsOf[c]) # 0
         /\ \A i \in 1..Len(NetsOf[c]) : NetsOf[c][i] \in Range(NetsOf[c]) \cap Networks
         /\ \A n \in Range(NetsOf[c]) : \E i \in 1..Len(NetsOf[c]) : NetsOf[c][i] = n
         /\ \A i \in 1..Len(PortsOf[c]) : /\ PortsOf[c][i].host \in HostPorts(c)
                                          /\ PortsOf[c][i].cont \in ContPorts(c)
         /\ \A p \in HostPorts(c) : \E i \in 1..Len(PortsOf[c]) : PortsOf[c][i].host = p
         /\ \A p \in ContPorts(c) : \E i \in 1..Len(PortsOf[c]) : PortsOf[c][i].cont = p
<1>1. NetsOf[c] \in Seq(Networks) /\ PortsOf[c] \in Seq([host : Nat, cont : Nat])
      /\ PortsOf[c] # <<>>
  BY PortAssumption
<1>2. Range(NetsOf[c]) = {NetsOf[c][i] : i \in 1..Len(NetsOf[c])}
      /\ Range(NetsOf[c]) \subseteq Networks
  BY <1>1, RangeIs
<1>3. Range(PortsOf[c]) = {PortsOf[c][i] : i \in 1..Len(PortsOf[c])} BY SMTT(20), <1>1, RangeIs
<1>4. Len(PortsOf[c]) \in Nat /\ Len(PortsOf[c]) # 0 BY <1>1
<1> QED BY SMTT(20), <1>1, <1>2, <1>3, <1>4 DEF HostPorts, ContPorts

LEMMA RulesAre ==
  /\ \A r \in Rules : r = [port |-> r.port, to |-> r.to]
  /\ \A c \in Containers : \A p \in HostPorts(c) \cup ContPorts(c) :
       [port |-> p, to |-> c] \in Rules
  /\ [port |-> DnsPort, to |-> Resolver] \in Rules
  /\ \A c \in Containers, n \in Networks : \A p \in HostPorts(c) :
       Append1("rdr", n, p, c) \in Calls /\ Remove1("rdr", n, p) \in Calls
  /\ \A c \in Containers, n \in Networks : \A p \in ContPorts(c) :
       Append1("nat", n, p, c) \in Calls /\ Remove1("nat", n, p) \in Calls
  /\ \A n \in Networks : Append1("rdr", n, DnsPort, Resolver) \in Calls
<1> DEFINE P == {DnsPort} \cup UNION {HostPorts(c) \cup ContPorts(c) : c \in Containers}
<1>1. \A c \in Containers : HostPorts(c) \cup ContPorts(c) \subseteq P OBVIOUS
<1>2. DnsPort \in P OBVIOUS
<1> HIDE DEF P
<1>3. Rules = [port : P, to : Containers \cup {Resolver}] BY DEF Rules, P
<1>4. \A p \in P : p \in {r.port : r \in Rules}
  <2> TAKE p \in P
  <2>1. [port |-> p, to |-> Resolver] \in Rules BY <1>3
  <2> QED BY <2>1
<1>5. Kinds = {"rdr", "nat"} BY DEF Kinds
<1> QED BY <1>1, <1>2, <1>3, <1>4, <1>5 DEF Calls, Append1, Remove1

(* What add_rdr_ports asks for: redirections and NAT rules in turn, one of *)
(* each for every port.                                                  *)
LEMMA AddPortsIs ==
  ASSUME NEW c \in Containers, NEW n \in Networks
  PROVE  /\ AddPorts(c, n) \in Seq(Calls) /\ Len(AddPorts(c, n)) = 2 * Len(PortsOf[c])
         /\ AddPorts(c, n) # <<>>
         /\ \A k \in 1..Len(AddPorts(c, n)) :
              /\ AddPorts(c, n)[k].op = "append" /\ AddPorts(c, n)[k].to = c
              /\ AddPorts(c, n)[k].net = n /\ Publishes(c, AddPorts(c, n)[k])
              /\ AddPorts(c, n)[k].kind = "nat" <=> (Len(AddPorts(c, n)) - k) % 2 = 0
         /\ AddPorts(c, n)[1].kind = "rdr"
         /\ \A p \in HostPorts(c) : \E k \in 1..Len(AddPorts(c, n)) :
              AddPorts(c, n)[k].kind = "rdr" /\ AddPorts(c, n)[k].port = p
<1> DEFINE L == Len(PortsOf[c])
           f(k) == IF k % 2 = 1 THEN Append1("rdr", n, PortsOf[c][(k + 1) \div 2].host, c)
                                ELSE Append1("nat", n, PortsOf[c][k \div 2].cont, c)
<1>1. L \in Nat /\ L # 0 BY PortFacts
<1>2. AddPorts(c, n) = [k \in 1..2 * L |-> f(k)] BY DEF AddPorts
<1>3. ASSUME NEW k \in 1..2 * L
      PROVE  /\ f(k) \in Calls /\ f(k).op = "append" /\ f(k).to = c /\ f(k).net = n
             /\ Publishes(c, f(k))
             /\ f(k).kind = "nat" <=> (2 * L - k) % 2 = 0
  <2>1. CASE k % 2 = 1
    <3>1. (k + 1) \div 2 \in 1..L /\ (2 * L - k) % 2 # 0 BY <1>1, <2>1, Halves
    <3>2. PortsOf[c][(k + 1) \div 2].host \in HostPorts(c) BY <3>1, PortFacts
    <3> QED BY <2>1, <3>1, <3>2, RulesAre DEF Publishes, Append1
  <2>2. CASE k % 2 # 1
    <3>1. k \div 2 \in 1..L /\ (2 * L - k) % 2 = 0 BY <1>1, <2>2, Halves
    <3>2. PortsOf[c][k \div 2].cont \in ContPorts(c) BY <3>1, PortFacts
    <3> QED BY <2>2, <3>1, <3>2, RulesAre DEF Publishes, Append1
  <2> QED BY <2>1, <2>2
<1>4. \A i \in 1..L : /\ 2 * i - 1 \in 1..2 * L
                      /\ f(2 * i - 1).kind = "rdr" /\ f(2 * i - 1).port = PortsOf[c][i].host
  <2> TAKE i \in 1..L
  <2>1. 2 * i - 1 \in 1..2 * L /\ (2 * i - 1) % 2 = 1 /\ (2 * i - 1 + 1) \div 2 = i BY <1>1
  <2> QED BY <2>1 DEF Append1
<1>5. 2 * L \in Nat /\ 2 * L # 0 /\ 1 \in 1..2 * L /\ 1 % 2 = 1 BY <1>1
<1> HIDE DEF f, L
<1>6. AddPorts(c, n) \in Seq(Calls) /\ Len(AddPorts(c, n)) = 2 * L
  BY <1>2, <1>3, <1>5
<1>7. \A k \in 1..2 * L : AddPorts(c, n)[k] = f(k) BY <1>2
<1>8. f(1).kind = "rdr" BY <1>5 DEF f, Append1
<1>9. \A p \in HostPorts(c) : \E k \in 1..2 * L : f(k).kind = "rdr" /\ f(k).port = p
  BY <1>4, PortFacts DEF L
<1>10. AddPorts(c, n) # <<>> BY <1>5, <1>6
<1>11. Len(AddPorts(c, n)) = 2 * Len(PortsOf[c]) BY <1>6 DEF L
<1>12. \A k \in 1..Len(AddPorts(c, n)) :
         /\ AddPorts(c, n)[k].op = "append" /\ AddPorts(c, n)[k].to = c
         /\ AddPorts(c, n)[k].net = n /\ Publishes(c, AddPorts(c, n)[k])
         /\ AddPorts(c, n)[k].kind = "nat" <=> (Len(AddPorts(c, n)) - k) % 2 = 0
  <2> TAKE k \in 1..Len(AddPorts(c, n))
  <2>1. k \in 1..2 * L /\ AddPorts(c, n)[k] = f(k) BY <1>6, <1>7
  <2>2. (f(k).kind = "nat") <=> ((Len(AddPorts(c, n)) - k) % 2 = 0) BY <1>3, <1>6, <2>1
  <2> QED BY <1>3, <2>1, <2>2
<1>13. AddPorts(c, n)[1].kind = "rdr" BY <1>5, <1>7, <1>8
<1>14. \A p \in HostPorts(c) : \E k \in 1..Len(AddPorts(c, n)) :
         AddPorts(c, n)[k].kind = "rdr" /\ AddPorts(c, n)[k].port = p
  BY <1>6, <1>7, <1>9
<1> QED BY <1>6, <1>10, <1>11, <1>12, <1>13, <1>14

(* What stop_jail asks for: the removal of every port in every network.  *)
LEMMA RemovePortsIs ==
  ASSUME NEW c \in Containers
  PROVE  /\ RemovePorts(c) \in Seq(Calls)
         /\ \A k \in 1..Len(RemovePorts(c)) :
              RemovePorts(c)[k].op = "remove" /\ Publishes(c, RemovePorts(c)[k])
         /\ \A n \in Range(NetsOf[c]) :
              /\ \A p \in HostPorts(c) : \E k \in 1..Len(RemovePorts(c)) :
                   RemovePorts(c)[k] = Remove1("rdr", n, p)
              /\ \A p \in ContPorts(c) : \E k \in 1..Len(RemovePorts(c)) :
                   RemovePorts(c)[k] = Remove1("nat", n, p)
<1> DEFINE m == Len(NetsOf[c])
           q == Len(PortsOf[c])
           f(k) == IF k % 2 = 1
                   THEN Remove1("rdr", NetAt(c, k \div 2), PortAt(c, k \div 2).host)
                   ELSE Remove1("nat", NetAt(c, k \div 2 - 1), PortAt(c, k \div 2 - 1).cont)
<1>1. m \in Nat /\ q \in Nat /\ m * q \in Nat BY PortFacts, ProductNat
<1>2. RemovePorts(c) = [k \in 1..2 * (m * q) |-> f(k)] BY DEF RemovePorts
<1>0. /\ \A i \in 1..m : NetsOf[c][i] \in Range(NetsOf[c]) \cap Networks
      /\ \A n \in Range(NetsOf[c]) : \E i \in 1..m : NetsOf[c][i] = n
      /\ \A i \in 1..q : PortsOf[c][i].host \in HostPorts(c) /\ PortsOf[c][i].cont \in ContPorts(c)
      /\ \A p \in HostPorts(c) : \E i \in 1..q : PortsOf[c][i].host = p
      /\ \A p \in ContPorts(c) : \E i \in 1..q : PortsOf[c][i].cont = p
  BY PortFacts
<1>9. /\ \A a : PortAt(c, a) = PortsOf[c][(a \div m) + 1]
      /\ \A a : NetAt(c, a) = NetsOf[c][(a % m) + 1]
  BY DEF PortAt, NetAt
<1> HIDE DEF m, q
<1>3. ASSUME NEW a \in Nat, a < m * q
      PROVE  /\ NetAt(c, a) \in Range(NetsOf[c]) /\ NetAt(c, a) \in Networks
             /\ PortAt(c, a).host \in HostPorts(c) /\ PortAt(c, a).cont \in ContPorts(c)
  <2>1. m # 0
    <3>1. \A x \in Nat : 0 * x = 0 OBVIOUS
    <3> QED BY <1>1, <1>3, <3>1
  <2>2. a % m \in 0..(m - 1) /\ a \div m \in Nat /\ a \div m < q
    BY <1>1, <1>3, <2>1, DivMod, DivBound
  <2>3. (a % m) + 1 \in 1..m /\ (a \div m) + 1 \in 1..q BY <1>1, <2>2
  <2> QED BY <1>0, <1>9, <2>3
<1>4. ASSUME NEW k \in 1..2 * (m * q)
      PROVE  f(k) \in Calls /\ f(k).op = "remove" /\ Publishes(c, f(k))
  <2>1. CASE k % 2 = 1
    <3>1. k \div 2 \in Nat /\ k \div 2 < m * q BY <1>1, <2>1, Halves
    <3> QED BY <1>3, <2>1, <3>1, RulesAre DEF Publishes, Remove1
  <2>2. CASE k % 2 # 1
    <3>1. k \div 2 - 1 \in Nat /\ k \div 2 - 1 < m * q BY <1>1, <2>2, Halves
    <3> QED BY <1>3, <2>2, <3>1, RulesAre DEF Publishes, Remove1
  <2> QED BY <2>1, <2>2
<1>5. ASSUME NEW i \in 1..m, NEW j \in 1..q
      PROVE  \E k, l \in 1..2 * (m * q) :
               /\ f(k) = Remove1("rdr", NetsOf[c][i], PortsOf[c][j].host)
               /\ f(l) = Remove1("nat", NetsOf[c][i], PortsOf[c][j].cont)
  <2> DEFINE a == m * (j - 1) + (i - 1)
  <2>0. j - 1 \in 0..(q - 1) /\ i - 1 \in 0..(m - 1) /\ j - 1 \in Nat /\ m \in Nat \ {0}
    BY <1>1
  <2>1. a \in Nat /\ a < m * q BY <1>1, <2>0, ProductBound
  <2>2. a \div m = j - 1 /\ a % m = i - 1 BY <1>1, <2>0, DivOf
  <2> HIDE DEF a
  <2>3. NetAt(c, a) = NetsOf[c][i] /\ PortAt(c, a) = PortsOf[c][j]
    <3>1. (j - 1) + 1 = j /\ (i - 1) + 1 = i BY <1>1
    <3> QED BY <1>9, <2>2, <3>1
  <2>4. /\ 2 * a + 1 \in 1..2 * (m * q) /\ 2 * a + 2 \in 1..2 * (m * q)
        /\ (2 * a + 1) % 2 = 1 /\ (2 * a + 1) \div 2 = a
        /\ (2 * a + 2) % 2 # 1 /\ (2 * a + 2) \div 2 - 1 = a
    BY <1>1, <2>1, Doubles
  <2>5. f(2 * a + 1) = Remove1("rdr", NetsOf[c][i], PortsOf[c][j].host) BY <2>3, <2>4
  <2>6. f(2 * a + 2) = Remove1("nat", NetsOf[c][i], PortsOf[c][j].cont) BY <2>3, <2>4
  <2> QED BY <2>4, <2>5, <2>6
<1> HIDE DEF f
<1>6. RemovePorts(c) \in Seq(Calls) /\ Len(RemovePorts(c)) = 2 * (m * q)
      /\ \A k \in 1..2 * (m * q) : RemovePorts(c)[k] = f(k)
  <2>1. 2 * (m * q) \in Nat BY <1>1
  <2> QED BY <1>2, <1>4, <2>1
<1>7. ASSUME NEW n \in Range(NetsOf[c]), NEW p \in HostPorts(c)
      PROVE  \E k \in 1..Len(RemovePorts(c)) : RemovePorts(c)[k] = Remove1("rdr", n, p)
  <2>1. PICK i \in 1..m, j \in 1..q : NetsOf[c][i] = n /\ PortsOf[c][j].host = p BY <1>0
  <2> QED BY <1>5, <1>6, <2>1
<1>8. ASSUME NEW n \in Range(NetsOf[c]), NEW p \in ContPorts(c)
      PROVE  \E k \in 1..Len(RemovePorts(c)) : RemovePorts(c)[k] = Remove1("nat", n, p)
  <2>1. PICK i \in 1..m, j \in 1..q : NetsOf[c][i] = n /\ PortsOf[c][j].cont = p BY <1>0
  <2> QED BY <1>5, <1>6, <2>1
<1> QED BY <1>4, <1>6, <1>7, <1>8

-----------------------------------------------------------------------------
(* What a step does to the request in progress and to the rules.         *)

LEMMA KindsAre == Kinds = {"rdr", "nat"}
BY DEF Kinds

LEMMA CallIs ==
  ASSUME Types, Busy
  PROVE  /\ Call = req.todo[1] /\ Call \in Calls /\ req.todo # <<>>
         /\ Call.kind \in Kinds /\ Call.net \in Networks
         /\ Call.kind \in {"rdr", "nat"} /\ Call.op \in {"append", "remove"}
         /\ Call.port \in {r.port : r \in Rules}
         /\ 1 \in 1..Len(req.todo) /\ Len(req.todo) \in Nat
         /\ Tail(req.todo) \in Seq(Calls) /\ Len(Tail(req.todo)) = Len(req.todo) - 1
         /\ \A i \in 1..Len(Tail(req.todo)) : i + 1 \in 1..Len(req.todo)
                                             /\ Tail(req.todo)[i] = req.todo[i + 1]
         /\ \A i \in 1..Len(req.todo) :
              i = 1 \/ (i - 1 \in 1..Len(Tail(req.todo)) /\ Tail(req.todo)[i - 1] = req.todo[i])
<1>1. req.todo \in Seq(Calls) /\ req.todo # <<>> BY DEF Types, ReqT, ReqType, Busy
<1>2. req.todo[1] \in Calls BY <1>1
<1>3. Head(req.todo) = req.todo[1] BY <1>1
<1> QED BY <1>1, <1>2, <1>3, TailFacts, KindsAre DEF Call, Calls

(* A record of a request is its six fields.                              *)
LEMMA FreeIs ==
  /\ Free \in ReqType /\ Free.by = "none" /\ Free.cont = None /\ Free.todo = <<>>
  /\ Free.ok = TRUE /\ Free.found = {} /\ Free.gone = 0
BY DEF Free, ReqType

Onward == /\ Busy /\ req'.by = req.by /\ req'.cont = req.cont /\ req'.todo = Tail(req.todo)
          /\ req'.found = {} /\ req'.gone = 0 /\ (req'.ok => req.ok)
GivenUp == /\ Busy /\ req'.by = req.by /\ req'.cont = req.cont /\ req'.todo = <<>>
           /\ req'.found = {} /\ req'.gone = 0 /\ req'.ok = FALSE
Searched == /\ Busy /\ req'.by = req.by /\ req'.cont = req.cont /\ req'.todo = req.todo
            /\ req'.ok = req.ok /\ req'.found # {} /\ Call.op = "remove"
LEMMA NextCallIs ==
  ASSUME Types, Busy, NextCall
  PROVE  Onward /\ req' \in ReqType /\ req'.ok = req.ok
<1>1. Tail(req.todo) \in Seq(Calls) BY CallIs
<1> QED BY <1>1 DEF Types, ReqT, ReqType, Onward, NextCall

LEMMA BreakOffIs ==
  ASSUME Types, Busy, BreakOff
  PROVE  GivenUp /\ req' \in ReqType
<1>1. <<>> \in Seq(Calls) /\ {} \in SUBSET Nat /\ 0 \in Nat OBVIOUS
<1> QED BY <1>1 DEF Types, ReqT, ReqType, GivenUp, BreakOff

Others == <<row, queue, job, up, server, toClear, whole, torn, robbed>>
Quiet == \/ \E c \in Containers : Start(c) \/ TakeUp(c) \/ NotStarted(c) \/ Ended(c)
         \/ Fork \/ Sigterm \/ Terminate \/ Boot
Clears(n) == ClearAnchor(n) \/ ClearAnchorFails(n)

LEMMA Steps ==
  ASSUME Next
  PROVE  \/ Quiet \/ RegisterPorts \/ Answer \/ Close \/ Crash \/ PfCall
         \/ \E c \in Containers : StopBegins(c)
         \/ \E n \in Networks : StartNetwork(n) \/ Clears(n)
BY DEF Next, Quiet, Clears

LEMMA QuietIs ==
  ASSUME Quiet
  PROVE  UNCHANGED <<rules, req, torn, robbed>>
BY DEF Quiet, Start, TakeUp, NotStarted, Ended, Fork, Sigterm, Terminate, Boot

LEMMA PfCallIs ==
  ASSUME Types, ReqInv, PfCall
  PROVE  /\ Busy /\ UNCHANGED Others /\ req' \in ReqType
         /\ \/ Onward \/ GivenUp
            \/ Searched /\ (DoRemove \/ RemoveNth)
<1>1. CASE DoAppend
  BY <1>1, NextCallIs DEF DoAppend, Others
<1>2. CASE DoRemove
  <2>1. CASE NextCall BY <1>2, <2>1, NextCallIs DEF DoRemove, Others
  <2>2. ASSUME NEW ps, ps = Positions(Call.kind, Call.net, Call.port), ps # {},
               req' = [req EXCEPT !.found = ps]
        PROVE  Searched /\ req' \in ReqType
    <3>1. rules[Call.kind][Call.net] \in Seq(Rules)
      BY <1>2, CallIs DEF Types, RulesT, DoRemove
    <3>2. ps \subseteq Nat BY <2>2, <3>1 DEF Positions
    <3> QED BY <1>2, <2>2, <3>2 DEF Types, ReqT, ReqType, Searched, DoRemove
  <2> QED BY <1>2, <2>1, <2>2 DEF DoRemove, Others
<1>3. CASE RemoveNth
  <2>1. CASE NextCall BY <1>3, <2>1, NextCallIs DEF RemoveNth, Others
  <2>2. ASSUME NEW i \in req.found, req.found # {i},
               req' = [req EXCEPT !.found = @ \ {i}, !.gone = @ + 1]
        PROVE  Searched /\ req' \in ReqType
    <3>1. req.found \ {i} # {} /\ req.found \ {i} \in SUBSET Nat /\ req.gone + 1 \in Nat
      BY <2>2 DEF Types, ReqT, ReqType
    <3> QED BY <1>3, <2>2, <3>1 DEF Types, ReqT, ReqType, Searched, RemoveNth
  <2> QED BY <1>3, <2>1, <2>2 DEF RemoveNth, Others
<1>4. CASE NoSuchRule \/ RemoveFails \/ AppendRdrFails
  BY <1>4, BreakOffIs DEF NoSuchRule, RemoveFails, AppendRdrFails, Others
<1>5. CASE AppendNatFails \/ RemoveFailsSilently
  <2>1. Busy BY <1>5 DEF AppendNatFails, RemoveFailsSilently
  <2>2. Tail(req.todo) \in Seq(Calls) /\ Call = req.todo[1] /\ 1 \in 1..Len(req.todo)
    BY <2>1, CallIs
  <2>3. req.found = {} /\ req.gone = 0
    BY <1>5, <2>2 DEF ReqInv, Stops, AppendNatFails, RemoveFailsSilently
  <2>4. req' = [req EXCEPT !.todo = Tail(@), !.ok = FALSE] /\ UNCHANGED Others
    BY <1>5 DEF AppendNatFails, RemoveFailsSilently, Others
  <2>5. Onward BY <2>1, <2>3, <2>4 DEF Types, ReqT, ReqType, Onward
  <2>6. req' \in ReqType BY <2>2, <2>4 DEF Types, ReqT, ReqType
  <2> QED BY <2>1, <2>4, <2>5, <2>6
<1> QED BY <1>1, <1>2, <1>3, <1>4, <1>5 DEF PfCall

LEMMA ClearedIs ==
  ASSUME RulesT, NEW n \in Networks, NEW K
  PROVE  /\ Cleared(n, K) \in [Kinds -> [Networks -> Seq(Rules)]]
         /\ \A k \in Kinds, m \in Networks :
              Cleared(n, K)[k][m] = IF k \in K /\ m = n THEN <<>> ELSE rules[k][m]
<1>1. <<>> \in Seq(Rules) OBVIOUS
<1>2. ASSUME NEW k \in Kinds
      PROVE  /\ [rules[k] EXCEPT ![n] = <<>>] \in [Networks -> Seq(Rules)]
             /\ \A m \in Networks :
                  [rules[k] EXCEPT ![n] = <<>>][m] = IF m = n THEN <<>> ELSE rules[k][m]
  BY <1>1 DEF RulesT
<1>3. \A k \in Kinds : Cleared(n, K)[k] = IF k \in K THEN [rules[k] EXCEPT ![n] = <<>>]
                                          ELSE rules[k]
  BY DEF Cleared
<1>4. Cleared(n, K) \in [Kinds -> [Networks -> Seq(Rules)]]
  BY <1>2 DEF Cleared, RulesT
<1> QED BY <1>2, <1>3, <1>4

(* The ways in which the rules change.                                   *)
LEMMA RulesMove ==
  ASSUME Types, ReqInv, Next
  PROVE  \/ rules' = rules
         \/ DoAppend
         \/ RemoveNth
         \/ \E K \in SUBSET Kinds :
              /\ rules' = Cleared(Call.net, K) /\ Busy /\ Call.op = "remove" /\ PfCall
              /\ AllMatch(Call.kind, Call.net, Call.port)
              /\ Call.kind = "nat" => K \subseteq {"nat"}
         \/ \E n \in Networks, K \in SUBSET Kinds : Clears(n) /\ rules' = Cleared(n, K)
<1>1. CASE Quiet BY <1>1, QuietIs
<1>2. CASE RegisterPorts \/ Answer \/ Close \/ Crash
  BY <1>2 DEF RegisterPorts, Answer, Close, Crash
<1>3. CASE \E c \in Containers : StopBegins(c) BY <1>3 DEF StopBegins
<1>4. ASSUME NEW n \in Networks, StartNetwork(n) \/ Clears(n)
      PROVE  \/ rules' = rules
             \/ \E K \in SUBSET Kinds : Clears(n) /\ rules' = Cleared(n, K)
  BY <1>4 DEF StartNetwork, Clears, ClearAnchor, ClearAnchorFails
<1>5. CASE PfCall
  <2>1. CASE DoRemove
    <3>1. Busy /\ Call.op = "remove" /\ {"rdr", "nat"} = Kinds BY <2>1, KindsAre DEF DoRemove
    <3>2. Call.kind \in {"rdr", "nat"} BY <3>1, CallIs
    <3>3. {Call.kind} \in SUBSET Kinds /\ Kinds \in SUBSET Kinds BY <3>1, <3>2
    <3> QED BY <1>5, <2>1, <3>1, <3>2, <3>3 DEF DoRemove
  <2>2. CASE RemoveFailsSilently BY <1>5, <2>2, KindsAre DEF RemoveFailsSilently
  <2> QED BY <1>5, <2>1, <2>2 DEF PfCall, NoSuchRule, AppendNatFails, AppendRdrFails, RemoveFails
<1> QED BY <1>1, <1>2, <1>3, <1>4, <1>5, Steps

-----------------------------------------------------------------------------
(* Appending and removing.                                               *)

LEMMA AppendIs ==
  ASSUME Types, ReqInv, Busy, Call.op = "append"
  PROVE  /\ \/ /\ req.by = "ports" /\ server = "up" /\ req.cont \in Containers
               /\ req.cont = job.cont /\ Call.to = req.cont
               /\ Call.net \in Range(NetsOf[req.cont]) /\ Publishes(req.cont, Call)
            \/ /\ req.by = "network" /\ Call.kind = "rdr" /\ Call.port = DnsPort
               /\ Call.to = Resolver /\ Len(req.todo) = 1
         /\ [port |-> Call.port, to |-> Call.to] \in Rules /\ req.found = {}
<1>1. Call = req.todo[1] /\ 1 \in 1..Len(req.todo) /\ req.todo # <<>> /\ Len(req.todo) \in Nat
  BY CallIs
<1>2. req.by \in {"none", "ports", "stop", "network"} BY DEF Types, ReqT, ReqType
<1>3. req.by \in {"ports", "network"} BY <1>1, <1>2, FreeIs DEF ReqInv, Stops
<1>4. CASE req.by = "ports"
  <2>1. /\ server = "up" /\ req.cont \in Containers /\ req.cont = job.cont
        /\ Call.to = req.cont /\ Call.net \in Range(NetsOf[req.cont]) /\ Publishes(req.cont, Call)
    BY <1>1, <1>4 DEF ReqInv, Registers
  <2>2. [port |-> Call.port, to |-> Call.to] \in Rules BY <2>1, RulesAre DEF Publishes
  <2> QED BY <1>4, <2>1, <2>2 DEF ReqInv
<1>5. CASE req.by = "network"
  <2>1. /\ Call.kind = "rdr" /\ Call.port = DnsPort /\ Call.to = Resolver
        /\ Len(req.todo) = 1
    <3>1. Serves BY <1>5 DEF ReqInv
    <3>2. /\ Len(req.todo) <= 1
          /\ req.todo[1].kind = "rdr" /\ req.todo[1].port = DnsPort
          /\ req.todo[1].to = Resolver
      BY <1>1, <3>1 DEF Serves
    <3>3. \A l \in Nat : 1 \in 1..l /\ l <= 1 => l = 1 OBVIOUS
    <3>4. Len(req.todo) = 1 BY <1>1, <3>2, <3>3
    <3> QED BY <1>1, <3>2, <3>4
  <2>2. req.found = {} BY <1>5 DEF ReqInv
  <2> QED BY <1>5, <2>1, <2>2, RulesAre
<1> QED BY <1>3, <1>4, <1>5

LEMMA RemoveIs ==
  ASSUME Types, ReqInv, Busy, Call.op = "remove"
  PROVE  req.by = "stop" /\ Stops /\ Publishes(req.cont, Call)
<1>1. Call = req.todo[1] /\ 1 \in 1..Len(req.todo) /\ req.todo # <<>> /\ Len(req.todo) \in Nat
  BY CallIs
<1>2. req.by \in {"none", "ports", "stop", "network"} BY DEF Types, ReqT, ReqType
<1>3. req.by = "stop" BY <1>1, <1>2, FreeIs DEF ReqInv, Registers, Serves
<1> QED BY <1>1, <1>3 DEF ReqInv, Stops

LEMMA Appending ==
  ASSUME Types, ReqInv, DoAppend
  PROVE  LET new == [port |-> Call.port, to |-> Call.to] IN
         /\ new \in Rules /\ Call.kind \in Kinds /\ Call.net \in Networks
         /\ rules' \in [Kinds -> [Networks -> Seq(Rules)]]
         /\ \A k \in Kinds, n \in Networks :
              rules'[k][n] = IF k = Call.kind /\ n = Call.net THEN Append(rules[k][n], new)
                             ELSE rules[k][n]
<1> DEFINE new == [port |-> Call.port, to |-> Call.to]
           s == rules[Call.kind][Call.net]
<1>1. new \in Rules /\ Call.kind \in Kinds /\ Call.net \in Networks
  BY AppendIs, CallIs DEF DoAppend
<1>2. s \in Seq(Rules) BY <1>1 DEF Types, RulesT
<1> HIDE DEF new
<1>3. Appended(Call.kind, Call.net, new) = Append(s, new)
  <2>1. CASE Exists(Call.net) BY <2>1 DEF Appended
  <2>2. CASE ~Exists(Call.net)
    <3>1. s = <<>> BY <1>1, <2>2 DEF Exists
    <3> QED BY <1>1, <2>2, <3>1 DEF Appended
  <2> QED BY <2>1, <2>2
<1>4. Append(s, new) \in Seq(Rules) BY <1>1, <1>2
<1>5. rules' = [rules EXCEPT ![Call.kind][Call.net] = Append(s, new)]
  BY <1>3 DEF DoAppend, new
<1> HIDE DEF s
<1>6. rules' \in [Kinds -> [Networks -> Seq(Rules)]]
  BY <1>1, <1>4, <1>5 DEF Types, RulesT
<1>7. \A k \in Kinds, n \in Networks :
        rules'[k][n] = IF k = Call.kind /\ n = Call.net THEN Append(s, new) ELSE rules[k][n]
  BY <1>1, <1>5 DEF Types, RulesT
<1> QED BY <1>1, <1>6, <1>7 DEF new, s

LEMMA Removing ==
  ASSUME Types, ReqInv, RemoveNth
  PROVE  /\ Call.kind \in Kinds /\ Call.net \in Networks
         /\ rules' \in [Kinds -> [Networks -> Seq(Rules)]]
         /\ \E i \in req.found :
              /\ NextFound(i) /\ Shifted(i) \in 1..Len(rules[Call.kind][Call.net])
              /\ \A k \in Kinds, n \in Networks :
                   rules'[k][n] = IF k = Call.kind /\ n = Call.net
                                  THEN RemoveAt(rules[k][n], Shifted(i)) ELSE rules[k][n]
              /\ IF req.found = {i} THEN NextCall
                 ELSE req' = [req EXCEPT !.found = @ \ {i}, !.gone = @ + 1]
<1> DEFINE s == rules[Call.kind][Call.net]
<1>1. Call.kind \in Kinds /\ Call.net \in Networks BY CallIs DEF RemoveNth
<1>2. s \in Seq(Rules) BY <1>1 DEF Types, RulesT
<1>3. PICK i \in req.found :
        /\ NextFound(i) /\ Shifted(i) \in DOMAIN s
        /\ rules' = [rules EXCEPT ![Call.kind][Call.net] = RemoveAt(@, Shifted(i))]
        /\ IF req.found = {i} THEN NextCall
           ELSE req' = [req EXCEPT !.found = @ \ {i}, !.gone = @ + 1]
  BY DEF RemoveNth
<1>4. Shifted(i) \in 1..Len(s) BY <1>2, <1>3
<1> DEFINE t == RemoveAt(s, Shifted(i))
<1>5. t \in Seq(Rules) BY <1>2, <1>4, RemoveAtFacts
<1>6. rules' = [rules EXCEPT ![Call.kind][Call.net] = t] BY <1>1, <1>3 DEF Types, RulesT
<1> HIDE DEF t
<1>7. rules' \in [Kinds -> [Networks -> Seq(Rules)]]
  BY <1>1, <1>5, <1>6 DEF Types, RulesT
<1>8. \A k \in Kinds, n \in Networks :
        rules'[k][n] = IF k = Call.kind /\ n = Call.net THEN t ELSE rules[k][n]
  BY <1>1, <1>6 DEF Types, RulesT
<1> QED BY ZenonT(40), <1>1, <1>3, <1>4, <1>7, <1>8 DEF t

(* A step adds to an anchor only what the first call of the request asks *)
(* for, at the end.                                                      *)
Adds(k, n) == /\ DoAppend /\ k = Call.kind /\ n = Call.net
              /\ rules'[k][n] = Append(rules[k][n], [port |-> Call.port, to |-> Call.to])
LEMMA Gains ==
  ASSUME Types, ReqInv, Next
  PROVE  /\ rules' \in [Kinds -> [Networks -> Seq(Rules)]]
         /\ \A k \in Kinds, n \in Networks :
              \/ /\ Len(rules'[k][n]) <= Len(rules[k][n])
                 /\ Range(rules'[k][n]) \subseteq Range(rules[k][n])
              \/ Adds(k, n)
<1> USE DEF Types
<1>0. ASSUME NEW k \in Kinds, NEW n \in Networks
      PROVE  rules[k][n] \in Seq(Rules) /\ Len(rules[k][n]) \in Nat
  BY DEF RulesT
<1>1. CASE rules' = rules BY <1>0, <1>1 DEF RulesT
<1>2. CASE DoAppend
  <2>1. /\ rules' \in [Kinds -> [Networks -> Seq(Rules)]]
        /\ \A k \in Kinds, n \in Networks :
             rules'[k][n] = IF k = Call.kind /\ n = Call.net
                            THEN Append(rules[k][n], [port |-> Call.port, to |-> Call.to])
                            ELSE rules[k][n]
    BY <1>2, Appending
  <2>2. ASSUME NEW k \in Kinds, NEW n \in Networks
        PROVE  \/ /\ Len(rules'[k][n]) <= Len(rules[k][n])
                  /\ Range(rules'[k][n]) \subseteq Range(rules[k][n])
               \/ Adds(k, n)
    <3>1. CASE k = Call.kind /\ n = Call.net BY <1>2, <2>1, <3>1 DEF Adds
    <3>2. CASE ~(k = Call.kind /\ n = Call.net)
      <4>1. rules'[k][n] = rules[k][n] BY <2>1, <3>2
      <4> QED BY <1>0, <4>1
    <3> QED BY <3>1, <3>2
  <2> QED BY <2>1, <2>2
<1>3. CASE RemoveNth
  <2>1. PICK i \in req.found :
          /\ Shifted(i) \in 1..Len(rules[Call.kind][Call.net])
          /\ \A k \in Kinds, n \in Networks :
               rules'[k][n] = IF k = Call.kind /\ n = Call.net
                              THEN RemoveAt(rules[k][n], Shifted(i)) ELSE rules[k][n]
    BY <1>3, Removing
  <2>2. ASSUME NEW k \in Kinds, NEW n \in Networks
        PROVE  /\ Len(rules'[k][n]) <= Len(rules[k][n])
               /\ Range(rules'[k][n]) \subseteq Range(rules[k][n])
    <3>1. CASE k = Call.kind /\ n = Call.net
      <4> DEFINE s == rules[k][n]
                 t == rules'[k][n]
      <4>1. s \in Seq(Rules) /\ t = RemoveAt(s, Shifted(i)) /\ Shifted(i) \in 1..Len(s)
        BY <1>0, <2>1, <3>1
      <4>2. /\ t \in Seq(Rules) /\ Len(t) = Len(s) - 1 /\ Len(s) \in Nat
            /\ \A j \in 1..(Len(s) - 1) : t[j] = IF j < Shifted(i) THEN s[j] ELSE s[j + 1]
        BY <1>0, <4>1, RemoveAtFacts
      <4> HIDE DEF s, t
      <4>3. \A j \in 1..(Len(s) - 1) : j \in 1..Len(s) /\ j + 1 \in 1..Len(s) BY <4>2
      <4>4. Range(t) = {t[j] : j \in 1..Len(t)} /\ Range(s) = {s[j] : j \in 1..Len(s)}
        BY <4>1, <4>2, RangeIs
      <4>5. \A j \in 1..Len(t) : t[j] \in Range(s)
        <5> TAKE j \in 1..Len(t)
        <5>1. j \in 1..(Len(s) - 1) BY <4>2
        <5> QED BY <4>2, <4>3, <4>4, <5>1
      <4>6. Len(t) <= Len(s) BY <4>2
      <4> QED BY <4>4, <4>5, <4>6 DEF s, t
    <3>2. CASE ~(k = Call.kind /\ n = Call.net) BY <1>0, <2>1, <3>2
    <3> QED BY <3>1, <3>2
  <2> QED BY <1>3, <2>2, Removing
<1>4. ASSUME NEW n \in Networks, NEW K \in SUBSET Kinds, rules' = Cleared(n, K)
      PROVE  /\ rules' \in [Kinds -> [Networks -> Seq(Rules)]]
             /\ \A k \in Kinds, m \in Networks :
                  /\ Len(rules'[k][m]) <= Len(rules[k][m])
                  /\ Range(rules'[k][m]) \subseteq Range(rules[k][m])
  <2>1. Len(<<>>) = 0 /\ Range(<<>>) = {} BY DEF Range
  <2> QED BY <1>0, <1>4, <2>1, ClearedIs
<1> QED BY <1>1, <1>2, <1>3, <1>4, CallIs, RulesMove

-----------------------------------------------------------------------------
(* Requests, places and owners.                                          *)

LEMMA JobIs ==
  ASSUME Types, PlaceInv, job # NoJob
  PROVE  job.cont \in Containers /\ job.cont \in row /\ job.cont \notin queue \cup up
         /\ job.nets \in Seq(Networks) /\ Range(job.nets) \subseteq Range(NetsOf[job.cont])
BY DEF Types, JobT, PlaceInv

LEMMA NetsLeft ==
  ASSUME Types, PlaceInv, job # NoJob, job.nets # <<>>
  PROVE  /\ Head(job.nets) \in Networks /\ Head(job.nets) \in Range(NetsOf[job.cont])
         /\ Tail(job.nets) \in Seq(Networks)
         /\ Range(job.nets) = {Head(job.nets)} \cup Range(Tail(job.nets))
<1> DEFINE s == job.nets
           t == Tail(s)
<1>1. s \in Seq(Networks) /\ s # <<>> /\ Range(s) \subseteq Range(NetsOf[job.cont]) BY JobIs
<1>2. /\ Head(s) = s[1] /\ 1 \in 1..Len(s) /\ t \in Seq(Networks)
      /\ \A i \in 1..Len(t) : i + 1 \in 1..Len(s) /\ t[i] = s[i + 1]
      /\ \A i \in 1..Len(s) : i = 1 \/ (i - 1 \in 1..Len(t) /\ t[i - 1] = s[i])
  BY <1>1, TailFacts
<1> HIDE DEF s, t
<1>3. Range(s) = {s[i] : i \in 1..Len(s)} /\ Range(s) \subseteq Networks
      /\ Range(t) = {t[i] : i \in 1..Len(t)}
  BY <1>1, <1>2, RangeIs
<1>4. Head(s) \in Range(s) BY <1>2, <1>3
<1>5. Range(t) \subseteq Range(s) BY <1>2, <1>3
<1>6. \A x \in Range(s) : x = Head(s) \/ x \in Range(t) BY <1>2, <1>3
<1> QED BY <1>1, <1>2, <1>3, <1>4, <1>5, <1>6 DEF s, t

LEMMA RegisterIs ==
  ASSUME Types, PlaceInv, RegisterPorts
  PROVE  /\ req' \in ReqType /\ req'.by = "ports" /\ req'.cont = job.cont
         /\ req'.todo = AddPorts(job.cont, Head(job.nets)) /\ req'.ok = TRUE
         /\ req'.found = {} /\ req'.gone = 0
         /\ job.cont \in Containers /\ Head(job.nets) \in Networks
         /\ Head(job.nets) \in Range(NetsOf[job.cont])
<1>1. /\ job.cont \in Containers /\ Head(job.nets) \in Networks
      /\ Head(job.nets) \in Range(NetsOf[job.cont])
  BY JobIs, NetsLeft DEF RegisterPorts
<1>2. AddPorts(job.cont, Head(job.nets)) \in Seq(Calls) BY <1>1, AddPortsIs
<1>3. req' = [Free EXCEPT !.by = "ports", !.cont = job.cont,
                          !.todo = AddPorts(job.cont, Head(job.nets))]
  BY DEF RegisterPorts
<1> QED BY <1>1, <1>2, <1>3, FreeIs DEF ReqType

LEMMA StopIs ==
  ASSUME Types, NEW c \in Containers, StopBegins(c)
  PROVE  /\ req' \in ReqType /\ req'.by = "stop" /\ req'.cont = c
         /\ req'.todo = RemovePorts(c) /\ req'.ok = TRUE /\ req'.found = {} /\ req'.gone = 0
<1>1. RemovePorts(c) \in Seq(Calls) BY RemovePortsIs
<1>2. req' = [Free EXCEPT !.by = "stop", !.cont = c, !.todo = RemovePorts(c)]
  BY DEF StopBegins
<1> QED BY <1>1, <1>2, FreeIs DEF ReqType

LEMMA NetworkIs ==
  ASSUME Types, NEW n \in Networks, StartNetwork(n)
  PROVE  /\ req' \in ReqType /\ req'.by = "network" /\ req'.ok = TRUE
         /\ req'.todo = <<Append1("rdr", n, DnsPort, Resolver)>> /\ req'.found = {}
         /\ req'.gone = 0 /\ Len(req'.todo) = 1
         /\ req'.todo[1] = Append1("rdr", n, DnsPort, Resolver)
<1> DEFINE a == Append1("rdr", n, DnsPort, Resolver)
<1>1. a \in Calls BY RulesAre
<1>2. req' = [Free EXCEPT !.by = "network", !.todo = <<a>>] BY DEF StartNetwork
<1> HIDE DEF a
<1>3. <<a>> \in Seq(Calls) /\ Len(<<a>>) = 1 /\ <<a>>[1] = a BY <1>1
<1>4. /\ req' \in ReqType /\ req'.by = "network" /\ req'.ok = TRUE /\ req'.todo = <<a>>
      /\ req'.found = {} /\ req'.gone = 0
  BY <1>2, <1>3, FreeIs DEF ReqType
<1> QED BY <1>3, <1>4 DEF a

LEMMA HeldIs ==
  /\ \A c \in Containers : \A P \in SUBSET HostPorts(c) : {c} \X P \subseteq Held
  /\ \A w \in Held : /\ w = <<w[1], w[2]>> /\ w[1] \in Containers
                      /\ w[2] \in HostPorts(w[1])
  /\ \A c \in Containers : Unclaimed(c) \subseteq HostPorts(c)
<1>1. ASSUME NEW c \in Containers, NEW P \in SUBSET HostPorts(c)
      PROVE  {c} \X P \subseteq Held
  BY <1>1 DEF Held
<1>2. ASSUME NEW w \in Held
      PROVE  w = <<w[1], w[2]>> /\ w[1] \in Containers /\ w[2] \in HostPorts(w[1])
  <2>1. PICK c \in Containers : w \in {c} \X HostPorts(c) BY <1>2 DEF Held
  <2> QED BY <2>1
<1>3. \A c \in Containers : Unclaimed(c) \subseteq HostPorts(c) BY DEF Unclaimed
<1> QED BY <1>1, <1>2, <1>3

(* What is held whole after a fork.                                      *)
LEMMA ForkIs ==
  ASSUME Types, PlaceInv, Fork
  PROVE  /\ job.cont \in Containers /\ job.cont # None /\ job' = NoJob /\ job # NoJob
         /\ up' = up \cup {job.cont} /\ UNCHANGED <<row, queue, server, toClear>>
         /\ whole' \subseteq Held
         /\ \A w \in whole' : \/ w \in whole
                               \/ /\ job.ok /\ w[1] = job.cont
                                  /\ w[2] \in Unclaimed(job.cont)
                                  /\ w[2] \in HostPorts(job.cont)
<1>1. job # NoJob /\ job.cont \in Containers /\ job.cont # None
  BY JobIs, PortAssumption DEF Fork
<1>2. \A w \in {job.cont} \X Unclaimed(job.cont) :
        w[1] = job.cont /\ w[2] \in Unclaimed(job.cont)
  OBVIOUS
<1>3. /\ Unclaimed(job.cont) \subseteq HostPorts(job.cont)
      /\ {job.cont} \X Unclaimed(job.cont) \subseteq Held
  BY <1>1, HeldIs
<1>4. /\ whole' = IF job.ok THEN whole \cup ({job.cont} \X Unclaimed(job.cont)) ELSE whole
      /\ job' = NoJob /\ up' = up \cup {job.cont} /\ UNCHANGED <<row, queue, server, toClear>>
  BY DEF Fork
<1>5. whole \subseteq Held BY DEF Types, SetsT
<1> QED BY <1>1, <1>2, <1>3, <1>4, <1>5

LEMMA TypesStep ==
  ASSUME Types, Control, Next
  PROVE  Types'
<1> USE DEF Control
<1>1. RulesT' BY Gains DEF RulesT
<1>2. ReqT'
  <2>1. CASE Quiet BY <2>1, QuietIs DEF Types, ReqT
  <2>2. CASE Answer \/ Close \/ Crash BY <2>2, FreeIs DEF Answer, Close, Crash, ReqT
  <2>3. ASSUME NEW n \in Networks, Clears(n) PROVE ReqT'
    BY <2>3 DEF Types, ReqT, Clears, ClearAnchor, ClearAnchorFails
  <2> QED BY <2>1, <2>2, <2>3, Steps, RegisterIs, StopIs, NetworkIs, PfCallIs DEF ReqT
<1>3. SetsT' /\ JobT'
  <2> USE DEF Types, SetsT, JobT
  <2>1. CASE Quiet
    <3>1. ASSUME NEW c \in Containers, Start(c) \/ TakeUp(c) \/ NotStarted(c) \/ Ended(c)
          PROVE  SetsT' /\ JobT'
      <4>1. CASE TakeUp(c) BY <4>1, PortAssumption DEF TakeUp
      <4>2. CASE Start(c) BY <4>2 DEF Start
      <4>3. CASE NotStarted(c) BY <4>3 DEF NotStarted
      <4>4. CASE Ended(c)
        <5>1. c \notin queue BY <4>4 DEF Ended, PlaceInv
        <5> QED BY <4>4, <5>1 DEF Ended
      <4> QED BY <3>1, <4>1, <4>2, <4>3, <4>4
    <3>2. NoJob \in [cont : Containers \cup {None}, nets : Seq(Networks), ok : BOOLEAN]
      BY DEF NoJob
    <3>3. CASE Fork
      <4>1. UNCHANGED <<torn, robbed>> BY <3>3 DEF Fork
      <4> QED BY <3>2, <3>3, <4>1, ForkIs
    <3>4. CASE Terminate \/ Boot BY <3>4 DEF Terminate, Boot
    <3>5. CASE Sigterm BY <3>2, <3>5 DEF Sigterm, WorkerStops, WorkerClears, Marked
    <3> QED BY <2>1, <3>1, <3>3, <3>4, <3>5 DEF Quiet
  <2>2. CASE RegisterPorts BY <2>2, NetsLeft DEF RegisterPorts
  <2>3. CASE Answer BY <2>3 DEF Answer
  <2>4. CASE Close \/ Crash
    <3>1. NoJob \in [cont : Containers \cup {None}, nets : Seq(Networks), ok : BOOLEAN]
      BY DEF NoJob
    <3>2. CASE Close BY <3>2 DEF Close, PlaceInv, ServerInv
    <3>3. CASE Crash BY <3>1, <3>3 DEF Crash, WorkerStops, WorkerClears
    <3> QED BY <2>4, <3>2, <3>3
  <2>5. ASSUME NEW c \in Containers, StopBegins(c) PROVE SetsT' /\ JobT'
    <3>1. Rivals(c) \subseteq Containers BY DEF Rivals
    <3> QED BY <2>5, <3>1 DEF StopBegins
  <2>6. ASSUME NEW n \in Networks, StartNetwork(n) \/ Clears(n) PROVE SetsT' /\ JobT'
    BY <2>6 DEF StartNetwork, Clears, ClearAnchor, ClearAnchorFails
  <2>7. CASE PfCall BY <2>7, PfCallIs DEF Others
  <2> QED BY <2>1, <2>2, <2>3, <2>4, <2>5, <2>6, <2>7, Steps
<1> QED BY <1>1, <1>2, <1>3 DEF Types

(* A request that goes on has the calls it had, but for the first.       *)
LEMMA Fewer ==
  ASSUME Types, Onward
  PROVE  /\ Len(req'.todo) = Len(req.todo) - 1 /\ Len(req.todo) \in Nat
         /\ 1 \in 1..Len(req.todo)
         /\ \A i \in 1..Len(req'.todo) : /\ i + 1 \in 1..Len(req.todo)
                                         /\ req'.todo[i] = req.todo[i + 1]
BY CallIs DEF Onward

LEMMA RegistersStep ==
  ASSUME Types, Control, Types', Next, req'.by = "ports"
  PROVE  Registers'
<1> USE DEF Control
<1>1. CASE Quiet
  <2>1. req' = req /\ Registers BY <1>1, QuietIs DEF ReqInv
  <2>2. server = "up" /\ req # Free BY <2>1, FreeIs DEF Registers
  <2>3. server' = "up" /\ job' = job
    BY <1>1, <2>1, <2>2 DEF Quiet, Start, TakeUp, NotStarted, Ended, Fork, Sigterm, Terminate,
       Boot, Alive
  <2> QED BY <2>1, <2>3 DEF Registers
<1>2. CASE RegisterPorts
  <2> DEFINE a == AddPorts(job.cont, Head(job.nets))
  <2>1. /\ req'.cont = job.cont /\ req'.todo = a /\ job.cont \in Containers
        /\ Head(job.nets) \in Networks /\ Head(job.nets) \in Range(NetsOf[job.cont])
    BY <1>2, RegisterIs
  <2>2. server' = "up" /\ job'.cont = job.cont
    BY <1>2 DEF RegisterPorts, Types, JobT
  <2>3. /\ Len(a) \in Nat /\ 1 \in 1..Len(a)
        /\ \A i \in 1..Len(a) : /\ a[i].op = "append" /\ a[i].to = job.cont
                                /\ a[i].net = Head(job.nets) /\ Publishes(job.cont, a[i])
                                /\ a[i].kind = "nat" <=> (Len(a) - i) % 2 = 0
    <3>1. a \in Seq(Calls) /\ a # <<>> BY <2>1, AddPortsIs
    <3>2. Len(a) \in Nat /\ 1 \in 1..Len(a) BY <3>1
    <3> QED BY ZenonT(40), <2>1, <3>2, AddPortsIs
  <2> HIDE DEF a
  <2> QED BY <2>1, <2>2, <2>3 DEF Registers
<1>3. CASE Answer \/ Close \/ Crash BY <1>3, FreeIs DEF Answer, Close, Crash
<1>4. ASSUME NEW c \in Containers, StopBegins(c) PROVE FALSE BY <1>4, StopIs
<1>5. ASSUME NEW n \in Networks, StartNetwork(n) PROVE FALSE BY <1>5, NetworkIs
<1>6. ASSUME NEW n \in Networks, Clears(n) PROVE FALSE
  <2>1. req' = req /\ toClear # {}
    BY <1>6 DEF Clears, ClearAnchor, ClearAnchorFails
  <2> QED BY <2>1 DEF ReqInv, Registers, ServerInv
<1>7. CASE PfCall
  <2>1. /\ Busy /\ UNCHANGED Others /\ req' \in ReqType
        /\ Onward \/ GivenUp \/ Searched
    BY <1>7, PfCallIs
  <2>2. server' = server /\ job' = job BY <2>1 DEF Others
  <2>3. CASE Onward
    <3>1. Registers /\ req'.cont = req.cont BY <2>3 DEF ReqInv, Onward
    <3>2. /\ Len(req'.todo) = Len(req.todo) - 1 /\ Len(req.todo) \in Nat
          /\ 1 \in 1..Len(req.todo)
          /\ \A i \in 1..Len(req'.todo) : /\ i + 1 \in 1..Len(req.todo)
                                          /\ req'.todo[i] = req.todo[i + 1]
      BY <2>3, Fewer
    <3>3. ASSUME NEW i \in 1..Len(req'.todo)
          PROVE  /\ req'.todo[i].op = "append" /\ req'.todo[i].to = req.cont
                 /\ req'.todo[i].net \in Range(NetsOf[req.cont])
                 /\ req'.todo[i].net = req'.todo[1].net
                 /\ Publishes(req.cont, req'.todo[i])
                 /\ req'.todo[i].kind = "nat" <=> (Len(req'.todo) - i) % 2 = 0
      <4>1. i + 1 \in 1..Len(req.todo) /\ req'.todo[i] = req.todo[i + 1] BY <3>2
      <4>2. 1 \in 1..Len(req'.todo) BY <3>2
      <4>3. 1 + 1 \in 1..Len(req.todo) /\ req'.todo[1] = req.todo[1 + 1] BY <3>2, <4>2
      <4>4. Len(req'.todo) - i = Len(req.todo) - (i + 1) BY <3>2
      <4>5. /\ req.todo[i + 1].op = "append" /\ req.todo[i + 1].to = req.cont
            /\ req.todo[i + 1].net \in Range(NetsOf[req.cont])
            /\ req.todo[i + 1].net = req.todo[1].net
            /\ req.todo[1 + 1].net = req.todo[1].net
            /\ Publishes(req.cont, req.todo[i + 1])
        BY <3>1, <4>1, <4>3 DEF Registers
      <4>6. (req.todo[i + 1].kind = "nat") <=> ((Len(req.todo) - (i + 1)) % 2 = 0)
        BY <3>1, <4>1 DEF Registers
      <4> QED BY <4>1, <4>3, <4>4, <4>5, <4>6
    <3> QED BY <2>2, <3>1, <3>3 DEF Registers
  <2>4. CASE GivenUp
    <3>1. req'.todo = <<>> /\ req'.cont = req.cont /\ req.by = "ports" BY <2>4 DEF GivenUp
    <3>2. Len(req'.todo) = 0 BY <3>1
    <3>3. Registers BY <3>1 DEF ReqInv
    <3>4. 1..Len(req'.todo) = {} BY <3>2
    <3> QED BY <2>2, <3>1, <3>3, <3>4 DEF Registers
  <2>5. CASE Searched
    <3>1. req.by = "stop" /\ req'.by = req.by BY <2>5, RemoveIs DEF Searched
    <3> QED BY <3>1
  <2> QED BY <2>1, <2>3, <2>4, <2>5
<1> QED BY <1>1, <1>2, <1>3, <1>4, <1>5, <1>6, <1>7, Steps

LEMMA StopsStep ==
  ASSUME Types, Control, Types', Next, req'.by = "stop"
  PROVE  Stops'
<1> USE DEF Control
<1>1. CASE Quiet
  <2>1. req' = req /\ torn' = torn /\ robbed' = robbed /\ Stops BY <1>1, QuietIs DEF ReqInv
  <2>2. req # Free BY <2>1, FreeIs
  <2>3. /\ \A w \in whole' : w[2] \notin HostPorts(req.cont)
        /\ job'.cont \in {req.cont} \cup Rivals(req.cont) => ~job'.ok
    <3>0. NoJob.cont \notin {req.cont} \cup Rivals(req.cont)
      BY <2>1, PortAssumption DEF NoJob, Stops, Rivals
    <3>1. CASE Fork
      <4>1. ASSUME NEW w \in whole', w \notin whole, w[2] \in HostPorts(req.cont) PROVE FALSE
        <5>1. job.ok /\ w[2] \in HostPorts(job.cont) /\ job.cont \in Containers
          BY <3>1, <4>1, ForkIs
        <5>2. job.cont \in {req.cont} \cup Rivals(req.cont) BY <4>1, <5>1 DEF Rivals
        <5> QED BY <2>1, <5>1, <5>2 DEF Stops
      <4> QED BY <2>1, <3>0, <3>1, <4>1, ForkIs DEF Stops
    <3>2. CASE Sigterm BY <3>0, <3>2 DEF Sigterm, WorkerStops
    <3>3. CASE ~Fork /\ ~Sigterm
      <4>1. whole' = whole /\ job' = job
        BY <1>1, <2>2, <3>3 DEF Quiet, Start, TakeUp, NotStarted, Ended, Terminate, Boot
      <4> QED BY <2>1, <4>1 DEF Stops
    <3> QED BY <3>1, <3>2, <3>3
  <2> QED BY <2>1, <2>3 DEF Stops
<1>2. CASE RegisterPorts BY <1>2, RegisterIs
<1>3. CASE Answer \/ Close \/ Crash BY <1>3, FreeIs DEF Answer, Close, Crash
<1>4. ASSUME NEW c \in Containers, StopBegins(c) PROVE Stops'
  <2>1. req'.cont = c /\ req'.todo = RemovePorts(c) BY <1>4, StopIs
  <2>2. /\ c \in torn' /\ Rivals(c) \subseteq robbed'
        /\ \A w \in whole' : w[2] \notin HostPorts(c)
    BY <1>4 DEF StopBegins
  <2>3. job'.cont \in {c} \cup Rivals(c) => ~job'.ok BY <1>4 DEF StopBegins, Types, JobT
  <2>4. \A k \in 1..Len(RemovePorts(c)) :
          RemovePorts(c)[k].op = "remove" /\ Publishes(c, RemovePorts(c)[k])
    BY RemovePortsIs
  <2> QED BY <2>1, <2>2, <2>3, <2>4 DEF Stops
<1>5. ASSUME NEW n \in Networks, StartNetwork(n) PROVE FALSE BY <1>5, NetworkIs
<1>6. ASSUME NEW n \in Networks, Clears(n) PROVE Stops'
  <2>1. /\ req' = req /\ job' = job /\ whole' = whole /\ robbed' = robbed
        /\ torn \subseteq torn'
    BY <1>6 DEF Clears, ClearAnchor, ClearAnchorFails
  <2> QED BY <2>1 DEF ReqInv, Stops
<1>7. CASE PfCall
  <2>1. /\ Busy /\ UNCHANGED Others /\ req' \in ReqType
        /\ Onward \/ GivenUp \/ Searched
    BY <1>7, PfCallIs
  <2>2. job' = job /\ whole' = whole /\ torn' = torn /\ robbed' = robbed
    BY <2>1 DEF Others
  <2>3. req'.by = req.by /\ req'.cont = req.cont BY <2>1 DEF Onward, GivenUp, Searched
  <2>4. Stops BY <2>3 DEF ReqInv
  <2>5. \A i \in 1..Len(req'.todo) : req'.todo[i].op = "remove" /\ Publishes(req.cont, req'.todo[i])
    <3>1. CASE Onward BY <2>4, <3>1, Fewer DEF Stops
    <3>2. CASE GivenUp
      <4>1. req'.todo = <<>> BY <3>2 DEF GivenUp
      <4>2. 1..Len(req'.todo) = {} BY <4>1
      <4> QED BY <4>2
    <3>3. CASE Searched BY <2>4, <3>3 DEF Searched, Stops
    <3> QED BY <2>1, <3>1, <3>2, <3>3
  <2> QED BY <2>2, <2>3, <2>4, <2>5 DEF Stops
<1> QED BY <1>1, <1>2, <1>3, <1>4, <1>5, <1>6, <1>7, Steps

LEMMA ServesStep ==
  ASSUME Types, Control, Types', Next, req'.by = "network"
  PROVE  Serves'
<1> USE DEF Control
<1>1. CASE Quiet BY <1>1, QuietIs DEF ReqInv, Serves
<1>2. CASE RegisterPorts BY <1>2, RegisterIs
<1>3. CASE Answer \/ Close \/ Crash BY <1>3, FreeIs DEF Answer, Close, Crash
<1>4. ASSUME NEW c \in Containers, StopBegins(c) PROVE FALSE BY <1>4, StopIs
<1>5. ASSUME NEW n \in Networks, StartNetwork(n) PROVE Serves'
  <2>1. Len(req'.todo) = 1 /\ req'.todo[1] = Append1("rdr", n, DnsPort, Resolver)
    BY <1>5, NetworkIs
  <2>2. \A i \in 1..Len(req'.todo) : i = 1 BY <2>1
  <2> QED BY <2>1, <2>2 DEF Serves, Append1
<1>6. ASSUME NEW n \in Networks, Clears(n) PROVE Serves'
  <2>1. req' = req BY <1>6 DEF Clears, ClearAnchor, ClearAnchorFails
  <2> QED BY <2>1 DEF ReqInv, Serves
<1>7. CASE PfCall
  <2>1. /\ Busy /\ UNCHANGED Others /\ req' \in ReqType
        /\ Onward \/ GivenUp \/ Searched
    BY <1>7, PfCallIs
  <2>2. CASE Onward
    <3>1. Serves BY <2>2 DEF Onward, ReqInv
    <3>2. Len(req'.todo) = Len(req.todo) - 1 /\ Len(req.todo) \in Nat BY <2>2, Fewer
    <3>3. Len(req'.todo) <= 1 BY <3>1, <3>2 DEF Serves
    <3> QED BY <2>2, <3>1, <3>3, Fewer DEF Serves
  <2>3. CASE GivenUp
    <3>1. req'.todo = <<>> BY <2>3 DEF GivenUp
    <3>2. Len(req'.todo) = 0 /\ 1..Len(req'.todo) = {} BY <3>1
    <3> QED BY <3>2 DEF Serves
  <2>4. CASE Searched
    <3>1. req.by = "stop" /\ req'.by = req.by BY <2>4, RemoveIs DEF Searched
    <3> QED BY <3>1
  <2> QED BY <2>1, <2>2, <2>3, <2>4
<1> QED BY <1>1, <1>2, <1>3, <1>4, <1>5, <1>6, <1>7, Steps

LEMMA ReqStep ==
  ASSUME Types, Control, Types', Next
  PROVE  ReqInv'
<1> USE DEF Control
<1> DEFINE Rest == /\ req'.by = "none" => req' = Free
                   /\ req'.found = {} => req'.gone = 0
                   /\ req'.found # {} => req'.todo # <<>> /\ req'.by = "stop"
<1>0. Rest
  <2>1. CASE Quiet BY <2>1, QuietIs DEF ReqInv
  <2>2. CASE RegisterPorts BY <2>2, RegisterIs
  <2>3. CASE Answer \/ Close \/ Crash BY <2>3, FreeIs DEF Answer, Close, Crash
  <2>4. ASSUME NEW c \in Containers, StopBegins(c) PROVE Rest BY <2>4, StopIs
  <2>5. ASSUME NEW n \in Networks, StartNetwork(n) PROVE Rest BY <2>5, NetworkIs
  <2>6. ASSUME NEW n \in Networks, Clears(n) PROVE Rest
    <3>1. req' = req BY <2>6 DEF Clears, ClearAnchor, ClearAnchorFails
    <3> QED BY <3>1 DEF ReqInv
  <2>7. CASE PfCall
    <3>1. Busy /\ (Onward \/ GivenUp \/ Searched) BY <2>7, PfCallIs
    <3>2. req.by # "none" BY <3>1 DEF Busy, ReqInv
    <3>3. CASE Searched BY <3>1, <3>2, <3>3, CallIs, RemoveIs DEF Searched
    <3> QED BY <3>1, <3>2, <3>3 DEF Onward, GivenUp
  <2> QED BY <2>1, <2>2, <2>3, <2>4, <2>5, <2>6, <2>7, Steps
<1> QED BY <1>0, RegistersStep, StopsStep, ServesStep DEF ReqInv

LEMMA PlaceStep ==
  ASSUME Types, Control, Types', Next
  PROVE  PlaceInv'
<1> USE DEF Control
<1>0. NoJob.cont = None /\ NoJob.nets = <<>> /\ None \notin Containers
      /\ (job.cont = None <=> job = NoJob)
  BY PortAssumption DEF NoJob, PlaceInv
<1>1. ASSUME NEW c \in Containers, Start(c) PROVE PlaceInv'
  <2>1. c \notin row /\ row' = row \cup {c} /\ queue' = queue \cup {c}
        /\ UNCHANGED <<job, up, whole>>
    BY <1>1 DEF Start
  <2>2. c # job.cont \/ job.cont = None BY <2>1 DEF PlaceInv
  <2> QED BY <1>0, <2>1, <2>2 DEF PlaceInv
<1>2. ASSUME NEW c \in Containers, TakeUp(c) PROVE PlaceInv'
  <2>1. /\ c \in queue /\ queue' = queue \ {c} /\ job' = [cont |-> c, nets |-> NetsOf[c], ok |-> TRUE]
        /\ UNCHANGED <<row, up, whole>>
    BY <1>2 DEF TakeUp
  <2>2. c \in row /\ c \notin up BY <2>1 DEF PlaceInv, Types, SetsT
  <2>3. job'.cont = c /\ job'.nets = NetsOf[c] BY <2>1
  <2> QED BY <1>0, <2>1, <2>2, <2>3 DEF PlaceInv
<1>3. ASSUME NEW c \in Containers, NotStarted(c) \/ Ended(c) PROVE PlaceInv'
  <2>1. c # job.cont /\ (c \in queue => c \notin up)
    BY <1>0, <1>3 DEF NotStarted, Ended, PlaceInv
  <2> QED BY <1>3, <2>1 DEF NotStarted, Ended, PlaceInv
<1>4. CASE Fork
  <2>1. job.cont \in row /\ job.cont \notin queue BY <1>4, JobIs DEF Fork
  <2>2. /\ up' = up \cup {job.cont} /\ job' = NoJob /\ UNCHANGED <<row, queue>>
        /\ \A w \in whole' : w \in whole \/ w[1] = job.cont
    BY <1>4, ForkIs
  <2> QED BY <1>0, <2>1, <2>2 DEF PlaceInv
<1>5. CASE Sigterm \/ Terminate \/ Close \/ Crash \/ Boot
  <2>1. CASE Sigterm \/ Crash
    <3>1. job' = NoJob /\ queue' = {} /\ up' = {} /\ whole' = {}
      BY <2>1 DEF Sigterm, Crash, WorkerStops
    <3> QED BY <1>0, <3>1 DEF PlaceInv
  <2>2. CASE Close
    <3>1. server # "up" /\ UNCHANGED <<queue, job, up, whole>> BY <2>2 DEF Close
    <3> QED BY <1>0, <3>1 DEF PlaceInv, ServerInv
  <2>3. CASE Terminate \/ Boot
    <3>1. UNCHANGED <<row, queue, job, up, whole>> BY <2>3 DEF Terminate, Boot
    <3> QED BY <3>1 DEF PlaceInv
  <2> QED BY <1>5, <2>1, <2>2, <2>3
<1>6. CASE RegisterPorts
  <2>1. /\ job # NoJob /\ job.nets # <<>> /\ job' = [job EXCEPT !.nets = Tail(@)]
        /\ UNCHANGED <<row, queue, up, whole>>
    BY <1>6 DEF RegisterPorts
  <2>2. job'.cont = job.cont /\ job'.nets = Tail(job.nets) BY <2>1 DEF Types, JobT
  <2>3. Range(Tail(job.nets)) \subseteq Range(job.nets) BY <2>1, NetsLeft
  <2> QED BY <1>0, <2>1, <2>2, <2>3 DEF PlaceInv
<1>7. CASE Answer \/ \E c \in Containers : StopBegins(c)
  <2>1. /\ job' = [job EXCEPT !.ok = FALSE] \/ job' = job
        /\ UNCHANGED <<row, queue, up>> /\ whole' \subseteq whole
    BY <1>7 DEF Answer, StopBegins
  <2>2. job'.cont = job.cont /\ job'.nets = job.nets BY <2>1 DEF Types, JobT
  <2>3. job.cont = None => job' = job
    <3>1. CASE Answer
      <4>1. req.by = "ports" => job.cont # None BY <1>0 DEF ReqInv, Registers
      <4> QED BY <3>1, <4>1 DEF Answer
    <3>2. ASSUME NEW c \in Containers, StopBegins(c) PROVE job.cont = None => job' = job
      <4>1. None # c /\ None \notin Rivals(c) BY <1>0 DEF Rivals
      <4> QED BY <3>2, <4>1 DEF StopBegins
    <3> QED BY <1>7, <3>1, <3>2
  <2> QED BY <2>1, <2>2, <2>3 DEF PlaceInv
<1>8. ASSUME NEW n \in Networks, StartNetwork(n) \/ Clears(n) PROVE PlaceInv'
  <2>1. UNCHANGED <<row, queue, job, up, whole>>
    BY <1>8 DEF StartNetwork, Clears, ClearAnchor, ClearAnchorFails
  <2> QED BY <2>1 DEF PlaceInv
<1>9. CASE PfCall
  <2>1. UNCHANGED <<row, queue, job, up, whole>> BY <1>9, PfCallIs DEF Others
  <2> QED BY <2>1 DEF PlaceInv
<1> QED BY <1>1, <1>2, <1>3, <1>4, <1>5, <1>6, <1>7, <1>8, <1>9, Steps DEF Quiet

LEMMA ServerStep ==
  ASSUME Types, Control, Types', Next
  PROVE  ServerInv'
<1> USE DEF Control
<1>0. server \in {"up", "ending", "closing", "down", "killed"} /\ NoJob.cont = None /\ None \notin Containers
  BY PortAssumption DEF Types, SetsT, NoJob
<1>1. CASE Quiet
  <2>1. ASSUME NEW c \in Containers, Start(c) \/ TakeUp(c) \/ NotStarted(c) \/ Ended(c)
        PROVE  ServerInv'
    BY <1>0, <2>1 DEF Start, TakeUp, NotStarted, Ended, ServerInv, Alive
  <2>2. CASE Fork \/ Sigterm \/ Terminate \/ Boot
    BY <1>0, <2>2 DEF Fork, Sigterm, WorkerStops, Terminate, Boot, ServerInv, Alive
  <2> QED BY <1>1, <2>1, <2>2 DEF Quiet
<1>2. CASE RegisterPorts BY <1>2 DEF RegisterPorts, ServerInv
<1>3. CASE Answer
  <2>1. req.by = "ports" => server = "up" BY DEF ReqInv, Registers
  <2> QED BY <1>3, <2>1 DEF Answer, ServerInv
<1>4. CASE Close \/ Crash BY <1>0, <1>4 DEF Close, Crash, WorkerStops, ServerInv
<1>5. ASSUME NEW c \in Containers, StopBegins(c) PROVE ServerInv'
  <2>1. server # "up" => job.cont # c /\ job.cont \notin Rivals(c)
    BY <1>0 DEF ServerInv, Rivals
  <2> QED BY <1>0, <1>5, <2>1 DEF StopBegins, ServerInv, Alive
<1>6. ASSUME NEW n \in Networks, StartNetwork(n) PROVE ServerInv'
  BY <1>0, <1>6 DEF StartNetwork, ServerInv, Alive
<1>7. ASSUME NEW n \in Networks, Clears(n) PROVE ServerInv'
  BY <1>7 DEF Clears, ClearAnchor, ClearAnchorFails, ServerInv
<1>8. CASE PfCall
  <2>1. Busy /\ UNCHANGED Others BY <1>8, PfCallIs
  <2>2. server \in {"up", "ending", "closing"} BY <2>1 DEF Busy, Alive
  <2> QED BY <2>1, <2>2 DEF Others, ServerInv
<1> QED BY <1>1, <1>2, <1>3, <1>4, <1>5, <1>6, <1>7, <1>8, Steps

LEMMA OwnersStep ==
  ASSUME Types, Control, Types', Next
  PROVE  Owners'
<1> USE DEF Control
<1> DEFINE Own(k, n, r) == IF k = "rdr" THEN r.to = Resolver \/ Owned("rdr", n, r)
                           ELSE Owned("nat", n, r)
<1>1. \A k \in Kinds, n \in Networks : \A r \in Range(rules[k][n]) : Own(k, n, r)
  BY KindsAre DEF Owners
<1>2. ASSUME NEW k \in Kinds, NEW n \in Networks, NEW r \in Range(rules'[k][n])
      PROVE  Own(k, n, r)
  <2>1. CASE r \in Range(rules[k][n]) BY <1>1, <2>1
  <2>2. CASE r \notin Range(rules[k][n])
    <3> DEFINE new == [port |-> Call.port, to |-> Call.to]
    <3>1. Adds(k, n) BY <2>2, Gains
    <3>2. Busy /\ Call.op = "append" /\ k = Call.kind /\ n = Call.net BY <3>1 DEF Adds, DoAppend
    <3>3. rules[k][n] \in Seq(Rules) /\ new \in Rules /\ rules'[k][n] = Append(rules[k][n], new)
      BY <3>1, <3>2, AppendIs DEF Types, RulesT, Adds
    <3>4. Range(Append(rules[k][n], new)) = Range(rules[k][n]) \cup {new} BY <3>3, AppendRange
    <3>5. r = new BY <2>2, <3>3, <3>4
    <3>6. r.port = Call.port /\ r.to = Call.to BY <3>5
    <3> QED BY <3>2, <3>6, AppendIs DEF Owned, Publishes
  <2> QED BY <2>1, <2>2
<1> HIDE DEF Own
<1>3. ASSUME NEW n \in Networks, NEW r \in Range(rules'["rdr"][n])
      PROVE  r.to = Resolver \/ Owned("rdr", n, r)
  BY <1>2, KindsAre DEF Own
<1>4. ASSUME NEW n \in Networks, NEW r \in Range(rules'["nat"][n])
      PROVE  Owned("nat", n, r)
  BY <1>2, KindsAre DEF Own
<1>5. \A k, n, r : Owned(k, n, r)' <=> Owned(k, n, r) BY DEF Owned
<1> QED BY <1>3, <1>4, <1>5 DEF Owners, Owned

LEMMA ControlStep ==
  ASSUME Types, Control, [Next]_vars
  PROVE  Types' /\ Control'
<1>1. CASE Next
  <2>1. Types' BY <1>1, TypesStep
  <2> QED BY <1>1, <2>1, ReqStep, PlaceStep, ServerStep, OwnersStep DEF Control
<1>2. CASE UNCHANGED vars
  BY ZenonT(40), <1>2 DEF vars, Types, RulesT, SetsT, JobT, ReqT, Control, ReqInv, Registers, Stops, Serves,
     PlaceInv, ServerInv, Owners
<1> QED BY <1>1, <1>2

LEMMA ControlInit ==
  ASSUME Init
  PROVE  Types /\ Control
<1>1. <<>> \in Seq(Rules) /\ <<>> \in Seq(Networks) /\ Range(<<>>) = {} BY DEF Range
<1>2. NoJob \in [cont : Containers \cup {None}, nets : Seq(Networks), ok : BOOLEAN]
      /\ NoJob.cont = None
  BY DEF NoJob
<1>3. rules = [k \in Kinds |-> [n \in Networks |-> <<>>]] /\ Kinds = {"rdr", "nat"}
  BY KindsAre DEF Init
<1>4. \A k \in {"rdr", "nat"}, n \in Networks : rules[k][n] = <<>> BY <1>3
<1>5. RulesT BY <1>1, <1>3 DEF RulesT
<1>6. Types BY <1>2, <1>5, FreeIs DEF Init, Types, SetsT, JobT, ReqT
<1>7. Owners BY <1>1, <1>4 DEF Owners
<1>8. ReqInv /\ PlaceInv /\ ServerInv BY <1>2, FreeIs DEF Init, ReqInv, PlaceInv, ServerInv
<1> QED BY <1>6, <1>7, <1>8 DEF Control

-----------------------------------------------------------------------------
(* The bound of the model: what is there and what is still asked for.    *)

Left(k) == IF req.by = "network" THEN IF k = "rdr" THEN 1 ELSE 0
           ELSE IF k = "rdr" THEN Len(req.todo) \div 2 ELSE (Len(req.todo) + 1) \div 2
Asked(k, n) == IF /\ req.by \in {"ports", "network"} /\ req.todo # <<>>
                  /\ req.todo[1].net = n
               THEN Left(k) ELSE 0
Fits == \A k \in Kinds, n \in Networks : Len(rules[k][n]) + Asked(k, n) <= RuleCap[n]

LEMMA HalfLess ==
  ASSUME NEW l \in Nat, l # 0
  PROVE  /\ (l - 1) \div 2 \in Nat /\ l \div 2 \in Nat /\ (l + 1) \div 2 \in Nat
         /\ (l - 1 + 1) \div 2 \in Nat
         /\ (l - 1) \div 2 <= l \div 2 /\ (l - 1 + 1) \div 2 <= (l + 1) \div 2
         /\ (l - 1) % 2 # 0 => (l - 1) \div 2 = (l \div 2) - 1
         /\ (l - 1) % 2 = 0 => (l - 1 + 1) \div 2 = ((l + 1) \div 2) - 1
OBVIOUS

LEMMA AskedIs ==
  ASSUME Types, NEW k \in Kinds, NEW n
  PROVE  Asked(k, n) \in Nat
<1>1. Len(req.todo) \in Nat BY DEF Types, ReqT, ReqType
<1>2. \A l \in Nat : l \div 2 \in Nat /\ (l + 1) \div 2 \in Nat OBVIOUS
<1>3. Left(k) \in Nat BY <1>1, <1>2 DEF Left
<1> QED BY <1>3 DEF Asked

LEMMA AskedLess ==
  ASSUME Types, Control, Types', Control', Next, NEW k \in Kinds, NEW n \in Networks,
         ~RegisterPorts, \A m \in Networks : ~StartNetwork(m)
  PROVE  /\ Asked(k, n)' <= Asked(k, n)
         /\ Adds(k, n) => Asked(k, n)' <= Asked(k, n) - 1
<1> USE DEF Control
<1>0. Asked(k, n) \in Nat BY AskedIs
<1>1. CASE ~PfCall
  <2>1. ~Adds(k, n) BY <1>1 DEF Adds, PfCall
  <2>2. req' = req \/ req' = Free \/ req'.by = "stop"
    BY <1>1, Steps, QuietIs, StopIs DEF Answer, Close, Crash, Clears, ClearAnchor, ClearAnchorFails
  <2>3. Asked(k, n)' = Asked(k, n) \/ Asked(k, n)' = 0 BY <2>2, FreeIs DEF Asked, Left
  <2> QED BY <1>0, <2>1, <2>3
<1>2. CASE PfCall /\ req.by \notin {"ports", "network"}
  <2>1. req'.by = req.by /\ Busy BY <1>2, PfCallIs DEF Onward, GivenUp, Searched
  <2>2. Asked(k, n)' = 0 BY <1>2, <2>1 DEF Asked
  <2>3. ~Adds(k, n) BY <1>2, <2>1, AppendIs DEF Adds, DoAppend
  <2> QED BY <1>0, <2>2, <2>3
<1>3. CASE PfCall /\ req.by = "network"
  <2>1. req'.by = req.by /\ Busy /\ (Onward \/ GivenUp)
    BY <1>3, PfCallIs, RemoveIs DEF Onward, GivenUp, Searched
  <2>2. Serves /\ Call = req.todo[1] /\ Len(req.todo) \in Nat /\ 1 \in 1..Len(req.todo)
        /\ req.todo # <<>>
    BY <1>3, <2>1, CallIs DEF ReqInv
  <2>3. req'.todo = <<>>
    <3>1. CASE Onward
      <4>1. Len(req'.todo) = Len(req.todo) - 1 /\ Len(req.todo) <= 1 BY <2>2, <3>1, Fewer DEF Serves
      <4>2. req'.todo \in Seq(Calls) BY DEF Types, ReqT, ReqType
      <4>5. Len(req'.todo) \in Nat BY <4>2
      <4>3. \A l, m \in Nat : l = m - 1 /\ m <= 1 => l = 0 OBVIOUS
      <4>4. Len(req'.todo) = 0 BY <2>2, <4>1, <4>3, <4>5
      <4> QED BY <4>2, <4>4
    <3> QED BY <2>1, <3>1 DEF GivenUp
  <2>4. Asked(k, n)' = 0 BY <2>3 DEF Asked
  <2>5. Adds(k, n) => Asked(k, n) = 1
    <3>1. ASSUME Adds(k, n) PROVE req.todo[1].net = n /\ k = "rdr"
      BY <1>3, <2>2, <3>1, AppendIs DEF Adds, DoAppend
    <3> QED BY <1>3, <2>2, <3>1 DEF Asked, Left
  <2> QED BY <1>0, <2>4, <2>5
<1>4. CASE PfCall /\ req.by = "ports"
  <2>1. req'.by = req.by /\ Busy /\ (Onward \/ GivenUp)
    BY <1>4, PfCallIs, RemoveIs DEF Onward, GivenUp, Searched
  <2>2. Registers /\ Call = req.todo[1] /\ Len(req.todo) \in Nat /\ 1 \in 1..Len(req.todo)
        /\ req.todo # <<>> /\ Len(req.todo) # 0
    BY <1>4, <2>1, CallIs DEF ReqInv
  <2>3. ~(req.todo[1].net = n) => Asked(k, n) = 0 /\ Asked(k, n)' = 0 /\ ~Adds(k, n)
    <3>1. ASSUME req.todo[1].net # n PROVE Asked(k, n)' = 0
      <4>1. CASE req'.todo = <<>> BY <4>1 DEF Asked
      <4>2. CASE req'.todo # <<>> /\ Onward
        <5>1. req'.todo[1] = req.todo[1 + 1] /\ 1 + 1 \in 1..Len(req.todo)
          <6>1. req'.todo \in Seq(Calls) BY DEF Types, ReqT, ReqType
          <6>2. 1 \in 1..Len(req'.todo) BY <4>2, <6>1
          <6> QED BY <4>2, <6>2, Fewer
        <5>2. req'.todo[1].net = req.todo[1].net BY <2>2, <5>1 DEF Registers
        <5> QED BY <3>1, <5>2 DEF Asked
      <4> QED BY <2>1, <4>1, <4>2 DEF GivenUp
    <3> QED BY <2>2, <3>1 DEF Asked, Adds
  <2>4. CASE req.todo[1].net = n
    <3> DEFINE l == Len(req.todo)
    <3>1. /\ (req.todo[1].kind = "nat") <=> ((l - 1) % 2 = 0)
          /\ l \in Nat /\ l # 0
      BY <2>2 DEF Registers
    <3>2. Asked(k, n) = IF k = "rdr" THEN l \div 2 ELSE (l + 1) \div 2
      BY <1>4, <2>2, <2>4 DEF Asked, Left
    <3>3. \/ Asked(k, n)' = 0
          \/ Asked(k, n)' = IF k = "rdr" THEN (l - 1) \div 2 ELSE (l - 1 + 1) \div 2
      <4>1. CASE req'.todo = <<>> BY <4>1 DEF Asked
      <4>2. CASE Onward
        <5>1. Len(req'.todo) = l - 1 BY <4>2, Fewer
        <5> QED BY <1>4, <2>1, <5>1 DEF Asked, Left
      <4> QED BY <2>1, <4>1, <4>2 DEF GivenUp
    <3>4. Adds(k, n) => req.todo[1].kind = k BY <2>2 DEF Adds
    <3> HIDE DEF l
    <3>5. /\ (l - 1) \div 2 \in Nat /\ l \div 2 \in Nat /\ (l + 1) \div 2 \in Nat
          /\ (l - 1 + 1) \div 2 \in Nat
          /\ (l - 1) \div 2 <= l \div 2 /\ (l - 1 + 1) \div 2 <= (l + 1) \div 2
          /\ (l - 1) % 2 # 0 => (l - 1) \div 2 = (l \div 2) - 1
          /\ (l - 1) % 2 = 0 => (l - 1 + 1) \div 2 = ((l + 1) \div 2) - 1
      BY <3>1, HalfLess
    <3>6. k = "rdr" \/ k = "nat" BY KindsAre
    <3>7. Asked(k, n)' <= Asked(k, n) BY <1>0, <3>2, <3>3, <3>5, <3>6
    <3>8. ASSUME Adds(k, n) PROVE Asked(k, n)' <= Asked(k, n) - 1
      <4>1. CASE k = "rdr" BY <3>1, <3>2, <3>3, <3>4, <3>5, <3>8, <4>1
      <4>2. CASE k = "nat" BY <3>1, <3>2, <3>3, <3>4, <3>5, <3>8, <4>2
      <4> QED BY <3>6, <4>1, <4>2
    <3> QED BY <3>7, <3>8
  <2> QED BY <1>0, <2>3, <2>4
<1>5. req.by \in {"none", "ports", "stop", "network"} BY DEF Types, ReqT, ReqType
<1> QED BY <1>1, <1>2, <1>3, <1>4, <1>5

LEMMA FitsStep ==
  ASSUME Types, Control, Fits, Types', Control', [Next]_vars
  PROVE  Fits'
<1> SUFFICES ASSUME NEW k \in Kinds, NEW n \in Networks
             PROVE  Len(rules'[k][n]) + Asked(k, n)' <= RuleCap[n]
  BY DEF Fits
<1> USE DEF Control
<1>1. /\ Len(rules[k][n]) + Asked(k, n) <= RuleCap[n] /\ RuleCap[n] \in Nat
      /\ Len(rules[k][n]) \in Nat /\ Len(rules'[k][n]) \in Nat
      /\ Asked(k, n) \in Nat /\ Asked(k, n)' \in Nat
  <2>1. rules[k][n] \in Seq(Rules) /\ rules'[k][n] \in Seq(Rules) BY DEF Types, RulesT
  <2>2. Asked(k, n)' \in Nat
    <3>1. req'.todo \in Seq(Calls) BY DEF Types, ReqT, ReqType
    <3>2. \A l \in Nat : l \div 2 \in Nat /\ (l + 1) \div 2 \in Nat OBVIOUS
    <3>4. Len(req'.todo) \in Nat BY <3>1
    <3>3. Left(k)' \in Nat BY <3>2, <3>4 DEF Left
    <3> QED BY <3>3 DEF Asked
  <2> QED BY <2>1, <2>2, AskedIs, PortAssumption DEF Fits
<1>2. CASE RegisterPorts
  <2> DEFINE c == job.cont
             m == Head(job.nets)
             P == Len(PortsOf[c])
  <2>1. /\ req'.by = "ports" /\ req'.todo = AddPorts(c, m) /\ c \in Containers /\ m \in Networks
        /\ rules' = rules /\ Room(m, P)
    BY <1>2, RegisterIs DEF RegisterPorts
  <2>2. P \in Nat BY <2>1, PortFacts
  <2>3. /\ Len(AddPorts(c, m)) = 2 * P /\ AddPorts(c, m) \in Seq(Calls)
        /\ AddPorts(c, m) # <<>>
        /\ \A i \in 1..Len(AddPorts(c, m)) : AddPorts(c, m)[i].net = m
    BY <2>1, AddPortsIs
  <2>4. 1 \in 1..Len(AddPorts(c, m)) BY <2>3
  <2>5. AddPorts(c, m)[1].net = m BY <2>3, <2>4
  <2> HIDE DEF c, m, P
  <2>6. CASE n = m
    <3>1. Asked(k, n)' = IF k = "rdr" THEN (2 * P) \div 2 ELSE (2 * P + 1) \div 2
      BY <2>1, <2>3, <2>5, <2>6 DEF Asked, Left
    <3>2. (2 * P) \div 2 = P /\ (2 * P + 1) \div 2 = P BY <2>2
    <3>3. Len(rules[k][n]) + P <= RuleCap[n] BY <2>1, <2>6 DEF Room
    <3> QED BY <2>1, <3>1, <3>2, <3>3
  <2>7. CASE n # m
    <3>1. Asked(k, n)' = 0 BY <2>1, <2>5, <2>7 DEF Asked
    <3> QED BY <1>1, <2>1, <3>1
  <2> QED BY <2>6, <2>7
<1>3. ASSUME NEW m \in Networks, StartNetwork(m)
      PROVE  Len(rules'[k][n]) + Asked(k, n)' <= RuleCap[n]
  <2>1. /\ req'.by = "network" /\ req'.todo # <<>> /\ req'.todo[1].net = m
        /\ rules' = rules /\ Room(m, 1)
    <3>1. /\ req'.by = "network" /\ req'.todo = <<Append1("rdr", m, DnsPort, Resolver)>>
          /\ req'.todo[1] = Append1("rdr", m, DnsPort, Resolver)
      BY <1>3, NetworkIs
    <3>2. req'.todo # <<>> /\ req'.todo[1].net = m BY <3>1 DEF Append1
    <3> QED BY <1>3, <3>1, <3>2 DEF StartNetwork
  <2>2. CASE n = m
    <3>1. Asked(k, n)' <= 1 BY <2>1 DEF Asked, Left
    <3>2. Len(rules[k][n]) + 1 <= RuleCap[n] BY <2>1, <2>2 DEF Room
    <3> QED BY <1>1, <2>1, <3>1, <3>2
  <2>3. CASE n # m
    <3>1. Asked(k, n)' = 0 BY <2>1, <2>3 DEF Asked
    <3> QED BY <1>1, <2>1, <3>1
  <2> QED BY <2>2, <2>3
<1>4. CASE Next /\ ~RegisterPorts /\ \A m \in Networks : ~StartNetwork(m)
  <2>1. Asked(k, n)' <= Asked(k, n) /\ (Adds(k, n) => Asked(k, n)' <= Asked(k, n) - 1)
    BY <1>4, AskedLess
  <2>4. \A a, b, x, y, z \in Nat : a + x <= z /\ b <= a /\ y <= x => b + y <= z OBVIOUS
  <2>2. CASE Len(rules'[k][n]) <= Len(rules[k][n]) BY <1>1, <2>1, <2>2, <2>4
  <2>3. CASE Adds(k, n)
    <3>1. Len(rules'[k][n]) = Len(rules[k][n]) + 1
      <4>1. rules[k][n] \in Seq(Rules) /\ [port |-> Call.port, to |-> Call.to] \in Rules
        BY <2>3, AppendIs DEF Types, RulesT, Adds, DoAppend
      <4> QED BY <2>3, <4>1, AppendFacts DEF Adds
    <3> QED BY <1>1, <2>1, <2>3, <3>1
  <2> QED BY <1>4, <2>2, <2>3, Gains
<1>5. CASE UNCHANGED vars
  <2>1. Asked(k, n)' = Asked(k, n) /\ rules' = rules BY <1>5 DEF vars, Asked, Left
  <2> QED BY <1>1, <2>1
<1> QED BY <1>2, <1>3, <1>4, <1>5

(* TypeOK, of every variable and of the bound of the model: whatever fails *)
(* and whatever the shutdown does in between, no anchor holds more rules *)
(* than there was room for when a request began.                         *)
THEOREM TypeCorrect == Spec => []TypeOK
<1>1. Init => Types /\ Control /\ Fits
  <2> SUFFICES ASSUME Init PROVE Types /\ Control /\ Fits OBVIOUS
  <2>1. Types /\ Control BY ControlInit
  <2>2. ASSUME NEW k \in Kinds, NEW n \in Networks
        PROVE  Len(rules[k][n]) + Asked(k, n) <= RuleCap[n]
    <3>1. rules[k][n] = <<>> /\ req.by = "none" BY FreeIs DEF Init
    <3>2. Len(rules[k][n]) = 0 /\ Asked(k, n) = 0 BY <3>1 DEF Asked
    <3>3. RuleCap[n] \in Nat BY PortAssumption
    <3> QED BY <3>2, <3>3
  <2> QED BY <2>1, <2>2 DEF Fits
<1>2. Types /\ Control /\ Fits /\ [Next]_vars => (Types /\ Control /\ Fits)'
  BY ControlStep, FitsStep
<1>3. Types /\ Control /\ Fits => TypeOK
  <2> SUFFICES ASSUME Types, Control, Fits PROVE TypeOK OBVIOUS
  <2>1. ASSUME NEW k \in Kinds, NEW n \in Networks
        PROVE  Len(rules[k][n]) <= RuleCap[n]
    <3>1. /\ Len(rules[k][n]) + Asked(k, n) <= RuleCap[n] /\ RuleCap[n] \in Nat
          /\ Len(rules[k][n]) \in Nat /\ Asked(k, n) \in Nat
      BY AskedIs, PortAssumption DEF Fits, Types, RulesT
    <3> QED BY <3>1
  <2> QED BY <2>1 DEF Types, RulesT, SetsT, Held, JobT, ReqT, ReqType, TypeOK
<1> QED BY <1>1, <1>2, <1>3, PTL DEF Spec

-----------------------------------------------------------------------------
(* How often a rule is in a list.                                        *)

Places(s, r) == {i \in 1..Len(s) : s[i] = r}
LEMMA CountIs ==
  ASSUME NEW S, NEW s \in Seq(S), NEW r
  PROVE  /\ Count(s, r) = Cardinality(Places(s, r)) /\ IsFiniteSet(Places(s, r))
         /\ Count(s, r) \in Nat /\ (r \in Range(s) <=> Count(s, r) # 0)
<1>1. DOMAIN s = 1..Len(s) /\ Len(s) \in Nat /\ Range(s) = {s[i] : i \in 1..Len(s)}
  BY RangeIs
<1>2. {i \in DOMAIN s : s[i] = r} = Places(s, r) BY <1>1 DEF Places
<1>3. Count(s, r) = Cardinality(Places(s, r))
  <2>1. Count(s, r) = Cardinality({i \in DOMAIN s : s[i] = r}) BY DEF Count
  <2>2. Cardinality({i \in DOMAIN s : s[i] = r}) = Cardinality(Places(s, r)) BY ONLY <1>2
  <2> QED BY <2>1, <2>2
<1>4. IsFiniteSet(1..Len(s)) BY <1>1, FS_Interval
<1>5. IsFiniteSet(Places(s, r))
  <2>1. Places(s, r) \in SUBSET (1..Len(s)) BY DEF Places
  <2> QED BY <1>4, <2>1, FS_Subset
<1>6. r \in Range(s) <=> Places(s, r) # {} BY <1>1 DEF Places
<1>7. Cardinality(Places(s, r)) = 0 <=> Places(s, r) = {} BY <1>5, FS_EmptySet
<1>8. Cardinality(Places(s, r)) \in Nat BY <1>5, FS_CardinalityType
<1> QED BY <1>3, <1>5, <1>6, <1>7, <1>8

LEMMA CountAppend ==
  ASSUME NEW S, NEW s \in Seq(S), NEW x \in S, NEW r
  PROVE  Count(Append(s, x), r) >= Count(s, r)
<1> DEFINE t == Append(s, x)
<1>1. t \in Seq(S) /\ Len(t) = Len(s) + 1 /\ Len(s) \in Nat /\ \A i \in 1..Len(s) : t[i] = s[i]
  BY AppendFacts
<1> HIDE DEF t
<1>2. Places(s, r) \in SUBSET Places(t, r)
  <2>1. \A i \in 1..Len(s) : i \in 1..Len(t) BY <1>1
  <2> QED BY <1>1, <2>1 DEF Places
<1>3. IsFiniteSet(Places(t, r)) BY <1>1, CountIs
<1>4. Cardinality(Places(s, r)) <= Cardinality(Places(t, r)) BY <1>2, <1>3, FS_Subset
<1>5. Count(t, r) = Cardinality(Places(t, r)) /\ Count(s, r) = Cardinality(Places(s, r))
      /\ Count(t, r) \in Nat /\ Count(s, r) \in Nat
  BY <1>1, CountIs
<1>6. Count(t, r) >= Count(s, r) BY <1>4, <1>5
<1> QED BY <1>6 DEF t

LEMMA CountRemove ==
  ASSUME NEW S, NEW s \in Seq(S), NEW i \in 1..Len(s), NEW r, s[i] # r
  PROVE  Count(RemoveAt(s, i), r) >= Count(s, r)
<1> DEFINE t == RemoveAt(s, i)
           P == Places(s, r)
           down == [j \in P |-> IF j < i THEN j ELSE j - 1]
<1>0. Len(s) \in Nat /\ i \in Nat OBVIOUS
<1>1. /\ t \in Seq(S) /\ Len(t) = Len(s) - 1
      /\ \A j \in 1..(Len(s) - 1) : t[j] = IF j < i THEN s[j] ELSE s[j + 1]
  BY RemoveAtFacts
<1> HIDE DEF t
<1>2. ASSUME NEW j \in P
      PROVE  /\ down[j] \in Places(t, r) /\ j \in Nat
             /\ j < i => down[j] = j
             /\ ~(j < i) => down[j] = j - 1 /\ j > i
  <2>1. j \in 1..Len(s) /\ s[j] = r /\ j # i BY DEF Places
  <2>2. CASE j < i
    <3>1. j \in 1..(Len(s) - 1) /\ down[j] = j BY <1>0, <2>1, <2>2
    <3>2. t[j] = r BY <1>1, <2>1, <2>2, <3>1
    <3>3. j \in 1..Len(t) BY <1>0, <1>1, <3>1
    <3> QED BY <2>2, <3>1, <3>2, <3>3 DEF Places
  <2>3. CASE ~(j < i)
    <3>1. j - 1 \in 1..(Len(s) - 1) /\ down[j] = j - 1 /\ ~(j - 1 < i) /\ j > i /\ (j - 1) + 1 = j
      BY <1>0, <2>1, <2>3
    <3>2. t[j - 1] = r BY <1>1, <2>1, <3>1
    <3>3. j - 1 \in 1..Len(t) BY <1>0, <1>1, <3>1
    <3> QED BY <2>1, <2>3, <3>1, <3>2, <3>3 DEF Places
  <2> QED BY <2>2, <2>3
<1>3. down \in [P -> Places(t, r)] BY <1>2
<1>4. ASSUME NEW a \in P, NEW b \in P, down[a] = down[b]
      PROVE  a = b
  <2>1. a \in Nat /\ b \in Nat BY <1>2
  <2>2. (a < i /\ down[a] = a) \/ (a > i /\ down[a] = a - 1) BY <1>2
  <2>3. (b < i /\ down[b] = b) \/ (b > i /\ down[b] = b - 1) BY <1>2
  <2> HIDE DEF down, P
  <2> QED BY <1>0, <1>4, <2>1, <2>2, <2>3
<1>5. down \in Injection(P, Places(t, r)) BY <1>3, <1>4 DEF Injection, IsInjective
<1>6. IsFiniteSet(Places(t, r)) BY <1>1, CountIs
<1> HIDE DEF down, P
<1>7. Cardinality(P) <= Cardinality(Places(t, r)) BY <1>5, <1>6, FS_Injection
<1>8. Count(t, r) = Cardinality(Places(t, r)) /\ Count(s, r) = Cardinality(P)
      /\ Count(t, r) \in Nat /\ Count(s, r) \in Nat
  BY <1>1, CountIs DEF P
<1>9. Count(t, r) >= Count(s, r) BY <1>7, <1>8
<1> QED BY <1>9 DEF t

-----------------------------------------------------------------------------
(* The positions found, less what was removed of them, are those of the  *)
(* rules of the port: every removal moves both.                          *)

Marks == req.found # {} =>
  /\ Call.op = "remove" /\ Call.kind \in Kinds /\ Call.net \in Networks
  /\ \A j \in 1..Len(rules[Call.kind][Call.net]) :
       rules[Call.kind][Call.net][j].port = Call.port <=> j + req.gone \in req.found

LEMMA MarksStep ==
  ASSUME Types, Control, Marks, Types', Control', [Next]_vars
  PROVE  Marks'
<1> USE DEF Control
<1>1. CASE req' = req /\ rules' = rules BY <1>1 DEF Marks, Call
<1>2. CASE Quiet BY <1>1, <1>2, QuietIs
<1>3. CASE req'.found = {} BY <1>3 DEF Marks
<1>4. ASSUME NEW n \in Networks, Clears(n) PROVE Marks'
  <2>1. req' = req /\ \E K \in SUBSET Kinds : rules' = Cleared(n, K)
    BY <1>4 DEF Clears, ClearAnchor, ClearAnchorFails
  <2>2. Call' = Call BY <2>1 DEF Call
  <2>3. \A k \in Kinds, m \in Networks : rules'[k][m] = <<>> \/ rules'[k][m] = rules[k][m]
    BY <2>1, ClearedIs DEF Types
  <2>4. 1..Len(<<>>) = {} OBVIOUS
  <2> QED BY <2>1, <2>2, <2>3, <2>4 DEF Marks
<1>5. CASE Searched /\ DoRemove /\ PfCall
  <2> DEFINE s == rules[Call.kind][Call.net]
  <2>1. /\ rules' = rules /\ req' = [req EXCEPT !.found = Positions(Call.kind, Call.net, Call.port)]
        /\ req.found = {}
    BY <1>5 DEF Searched, DoRemove, NextCall, Types, ReqT, ReqType
  <2>2. req'.found = Positions(Call.kind, Call.net, Call.port) /\ req'.gone = 0 /\ Call' = Call
    BY <2>1 DEF Types, ReqT, ReqType, ReqInv, Call
  <2>3. Call.kind \in Kinds /\ Call.net \in Networks BY <1>5, CallIs DEF Searched
  <2>4. s \in Seq(Rules) /\ DOMAIN s = 1..Len(s) BY <2>3 DEF Types, RulesT
  <2>5. \A j \in 1..Len(s) : s[j].port = Call.port <=> j + 0 \in req'.found
    BY <2>2, <2>4 DEF Positions
  <2> QED BY <1>5, <2>1, <2>2, <2>3, <2>5 DEF Marks, Searched
<1>6. CASE Searched /\ RemoveNth /\ PfCall
  <2> DEFINE s == rules[Call.kind][Call.net]
             t == rules'[Call.kind][Call.net]
  <2>1. PICK i \in req.found :
          /\ NextFound(i) /\ Shifted(i) \in 1..Len(s) /\ t = RemoveAt(s, Shifted(i))
          /\ IF req.found = {i} THEN NextCall
             ELSE req' = [req EXCEPT !.found = @ \ {i}, !.gone = @ + 1]
    BY <1>6, Removing
  <2>2. req' = [req EXCEPT !.found = @ \ {i}, !.gone = @ + 1]
    BY <1>6, <2>1 DEF Searched, NextCall, Types, ReqT, ReqType
  <2>3. req'.found = req.found \ {i} /\ req'.gone = req.gone + 1 /\ Call' = Call
    BY <2>2 DEF Types, ReqT, ReqType, Call
  <2>4. /\ Call.kind \in Kinds /\ Call.net \in Networks /\ Call.op = "remove"
        /\ \A j \in 1..Len(s) : s[j].port = Call.port <=> j + req.gone \in req.found
    BY <2>1 DEF Marks
  <2>5. s \in Seq(Rules) BY <2>4 DEF Types, RulesT
  <2> DEFINE g == req.gone
             F == req.found
  <2>6. i \in Nat /\ g \in Nat /\ F \subseteq Nat /\ i - g \in 1..Len(s) /\ \A j \in F : i <= j
    BY <2>1 DEF Types, ReqT, ReqType, NextFound, Shifted
  <2>7. /\ Len(t) = Len(s) - 1 /\ Len(s) \in Nat
        /\ \A j \in 1..(Len(s) - 1) : t[j] = IF j < i - g THEN s[j] ELSE s[j + 1]
    <3> DEFINE q == i - g
    <3>1. q \in 1..Len(s) /\ t = RemoveAt(s, q) BY <2>1 DEF Shifted
    <3> HIDE DEF q, s
    <3>2. /\ Len(RemoveAt(s, q)) = Len(s) - 1 /\ Len(s) \in Nat
          /\ \A j \in 1..(Len(s) - 1) : RemoveAt(s, q)[j] = IF j < q THEN s[j] ELSE s[j + 1]
      BY <2>5, <3>1, RemoveAtFacts
    <3> HIDE DEF t
    <3> QED BY <3>1, <3>2 DEF q
  <2> HIDE DEF s, t, g, F
  <2>8. ASSUME NEW j \in 1..Len(t)
        PROVE  t[j].port = Call.port <=> j + (g + 1) \in F \ {i}
    <3>1. j \in 1..(Len(s) - 1) /\ j \in Nat BY <2>7
    <3>2. CASE j < i - g
      <4>1. t[j] = s[j] /\ j \in 1..Len(s) BY <2>7, <3>1, <3>2
      <4>2. j + g \notin F BY <2>6, <3>1, <3>2
      <4>3. j + (g + 1) \notin F \ {i} BY <2>6, <3>1, <3>2
      <4>4. s[j].port = Call.port <=> j + g \in F BY <2>4, <4>1 DEF s, g, F
      <4> QED BY <4>1, <4>2, <4>3, <4>4
    <3>3. CASE ~(j < i - g)
      <4>1. t[j] = s[j + 1] /\ j + 1 \in 1..Len(s) BY <2>7, <3>1, <3>3
      <4>2. s[j + 1].port = Call.port <=> (j + 1) + g \in F BY <2>4, <4>1 DEF s, g, F
      <4>3. (j + 1) + g = j + (g + 1) /\ j + (g + 1) # i BY <2>6, <3>1, <3>3
      <4> QED BY <4>1, <4>2, <4>3
    <3> QED BY <3>2, <3>3
  <2> QED BY <2>3, <2>4, <2>8 DEF Marks, t, g, F
<1>7. CASE PfCall BY <1>3, <1>5, <1>6, <1>7, PfCallIs DEF Onward, GivenUp
<1>8. CASE Answer \/ Close \/ Crash BY <1>3, <1>8, FreeIs DEF Answer, Close, Crash
<1>9. CASE UNCHANGED vars BY <1>1, <1>9 DEF vars
<1> QED BY <1>2, <1>3, <1>4, <1>7, <1>8, <1>9, Steps, RegisterIs, StopIs, NetworkIs

-----------------------------------------------------------------------------
(* What is lost.                                                         *)

(* The first call removes rules, and this is one of those it may take: the *)
(* rules of its port or, when only redirections of that port are left, the *)
(* NAT rules with them.                                                  *)
Takes(k, n, r) ==
  /\ PfCall /\ Busy /\ req.by = "stop" /\ Stops
  /\ Publishes(req.cont, Call) /\ n = Call.net
  /\ \/ k = Call.kind /\ r.port = Call.port
     \/ /\ k = "nat" /\ Call.kind = "rdr"
        /\ \A s \in Range(rules["rdr"][n]) : s.port = Call.port

LEMMA Loses ==
  ASSUME Types, Control, Marks, Next,
         NEW k \in Kinds, NEW n \in Networks, NEW r \in Range(rules[k][n])
  PROVE  \/ Count(rules'[k][n], r) >= Count(rules[k][n], r)
         \/ Clears(n) \/ Takes(k, n, r)
<1> USE DEF Control
<1> DEFINE s == rules[k][n]
<1>0. s \in Seq(Rules) /\ Range(s) = {s[i] : i \in 1..Len(s)} /\ Count(s, r) \in Nat
  <2>1. s \in Seq(Rules) BY DEF Types, RulesT
  <2> QED BY <2>1, RangeIs, CountIs
<1>1. CASE rules'[k][n] = s BY <1>0, <1>1
<1>2. CASE DoAppend
  <2> DEFINE new == [port |-> Call.port, to |-> Call.to]
  <2>1. new \in Rules /\ (rules'[k][n] = s \/ rules'[k][n] = Append(s, new))
    BY <1>2, Appending
  <2> HIDE DEF new, s
  <2>2. Count(Append(s, new), r) >= Count(s, r) BY <1>0, <2>1, CountAppend
  <2> QED BY <1>1, <2>1, <2>2 DEF s
<1>3. CASE RemoveNth
  <2>1. /\ Call.kind \in Kinds /\ Call.net \in Networks
        /\ \E i \in req.found :
             /\ NextFound(i) /\ Shifted(i) \in 1..Len(rules[Call.kind][Call.net])
             /\ rules'[k][n] = IF k = Call.kind /\ n = Call.net
                               THEN RemoveAt(s, Shifted(i)) ELSE s
    BY <1>3, Removing
  <2>2. CASE ~(k = Call.kind /\ n = Call.net) BY <1>1, <2>1, <2>2
  <2>3. CASE k = Call.kind /\ n = Call.net
    <3>1. PICK i \in req.found : Shifted(i) \in 1..Len(s) /\ rules'[k][n] = RemoveAt(s, Shifted(i))
      BY <2>1, <2>3
    <3>2. i \in Nat /\ req.gone \in Nat BY DEF Types, ReqT, ReqType
    <3>3. Shifted(i) + req.gone = i BY <3>2 DEF Shifted
    <3> DEFINE q == Shifted(i)
    <3>4. s[q].port = Call.port BY <2>3, <3>1, <3>3 DEF Marks
    <3>5. q \in 1..Len(s) BY <3>1
    <3>6. rules'[k][n] = RemoveAt(s, q) BY <3>1
    <3>7. PfCall /\ Busy /\ Call.op = "remove" BY <1>3 DEF PfCall, RemoveNth
    <3>8. CASE s[q] = r
      <4>1. r.port = Call.port BY <3>4, <3>8
      <4> QED BY <2>3, <3>7, <4>1, RemoveIs DEF Takes
    <3>9. CASE s[q] # r
      <4> HIDE DEF q, s
      <4>1. Count(RemoveAt(s, q), r) >= Count(s, r) BY <1>0, <3>5, <3>9, CountRemove
      <4> QED BY <3>6, <4>1 DEF s
    <3> QED BY <3>8, <3>9
  <2> QED BY <2>2, <2>3
<1>4. ASSUME NEW K \in SUBSET Kinds, rules' = Cleared(Call.net, K), Busy, Call.op = "remove",
             PfCall, AllMatch(Call.kind, Call.net, Call.port), Call.kind = "nat" => K \subseteq {"nat"},
             rules'[k][n] # s
      PROVE  Takes(k, n, r)
  <2>1. Call.kind \in {"rdr", "nat"} /\ Call.net \in Networks BY <1>4, CallIs
  <2>2. k \in K /\ n = Call.net BY <1>4, <2>1, ClearedIs DEF Types
  <2>3. \A t \in Range(rules[Call.kind][n]) : t.port = Call.port
    <3>1. rules[Call.kind][n] \in Seq(Rules) BY <2>1, KindsAre DEF Types, RulesT
    <3>2. Range(rules[Call.kind][n]) = {rules[Call.kind][n][i] : i \in DOMAIN rules[Call.kind][n]}
      BY <3>1, RangeIs
    <3> QED BY <1>4, <2>2, <3>2 DEF AllMatch, Positions
  <2>4. req.by = "stop" /\ Stops /\ Publishes(req.cont, Call) BY <1>4, RemoveIs
  <2>5. CASE k = Call.kind BY <1>4, <2>2, <2>3, <2>4, <2>5 DEF Takes
  <2>6. CASE k # Call.kind
    <3>1. Call.kind = "rdr" /\ k = "nat" BY <1>4, <2>1, <2>2, <2>6, KindsAre
    <3> QED BY <1>4, <2>2, <2>3, <2>4, <3>1 DEF Takes
  <2> QED BY <2>5, <2>6
<1>5. ASSUME NEW m \in Networks, NEW K \in SUBSET Kinds, Clears(m), rules' = Cleared(m, K)
      PROVE  Clears(n) \/ rules'[k][n] = s
  BY <1>5, ClearedIs DEF Types
<1> QED BY <1>1, <1>2, <1>3, <1>4, <1>5, RulesMove

(* Where a rule of a container leads when its port is the port of another. *)
LEMMA OwnPort ==
  ASSUME Owners, NEW n \in Networks, NEW r \in Range(rules["rdr"][n]), r.to # Resolver,
         NEW c \in Containers, r.port \in HostPorts(c)
  PROVE  r.to = c \/ r.to \in Rivals(c)
<1>1. r.to \in Containers /\ r.port \in HostPorts(r.to) BY DEF Owners, Owned
<1> QED BY <1>1 DEF Rivals

(* A redirection is lost only to a stop of the container it leads to or of  *)
(* a rival, and with it those of the same port, or with its anchor.      *)
LEMMA RdrLost ==
  ASSUME Types, Control, Marks, Next, NEW n \in Networks,
         NEW r \in Range(rules["rdr"][n]), r.to # Resolver, r \notin Range(rules'["rdr"][n]),
         rules' \in [Kinds -> [Networks -> Seq(Rules)]]
  PROVE  \/ Clears(n)
         \/ /\ Busy /\ req.by = "stop" /\ Stops /\ r.port \in HostPorts(req.cont)
            /\ r.to = req.cont \/ r.to \in Rivals(req.cont)
            /\ PfCall
<1>1. rules["rdr"][n] \in Seq(Rules) /\ rules'["rdr"][n] \in Seq(Rules) BY KindsAre DEF Types, RulesT
<1>2. Count(rules["rdr"][n], r) \in Nat /\ Count(rules["rdr"][n], r) # 0 BY <1>1, CountIs
<1>3. Count(rules'["rdr"][n], r) = 0 BY <1>1, CountIs
<1>4. ~(Count(rules'["rdr"][n], r) >= Count(rules["rdr"][n], r)) BY <1>2, <1>3
<1>5. Clears(n) \/ Takes("rdr", n, r) BY <1>4, Loses, KindsAre
<1>6. ASSUME Takes("rdr", n, r)
      PROVE  /\ r.port \in HostPorts(req.cont)
             /\ r.to = req.cont \/ r.to \in Rivals(req.cont)
  <2>1. Call.kind = "rdr" /\ r.port = Call.port /\ Publishes(req.cont, Call) /\ req.cont \in Containers
    BY <1>6 DEF Takes, Stops
  <2>2. r.port \in HostPorts(req.cont) BY <2>1 DEF Publishes
  <2> QED BY <2>1, <2>2, OwnPort DEF Control
<1> QED BY <1>5, <1>6 DEF Takes

-----------------------------------------------------------------------------
(* Stopped containers.                                                   *)

(* Every rule of the container that is being stopped is asked for by a call *)
(* still to be made, as long as none has failed.                         *)
Listed(k, n, r) == \E i \in 1..Len(req.todo) :
  req.todo[i].kind = k /\ req.todo[i].net = n /\ req.todo[i].port = r.port
StopLeft == req.by = "stop" /\ req.ok =>
  \A k \in Kinds, n \in Networks : \A r \in Range(rules[k][n]) :
    r.to = req.cont => Listed(k, n, r)

(* A stop leaves no rule of the port and the anchor of a call it has made. *)
LEMMA CallDone ==
  ASSUME Types, Control, Marks, PfCall, Onward, req.by = "stop", req'.ok,
         rules' \in [Kinds -> [Networks -> Seq(Rules)]],
         NEW r \in Range(rules'[Call.kind][Call.net])
  PROVE  r.port # Call.port
<1> USE DEF Control
<1>1. Busy /\ req.ok /\ Call.kind \in {"rdr", "nat"} /\ Call.net \in Networks
  <2>1. Busy /\ req.ok BY DEF Onward
  <2> QED BY <2>1, CallIs
<1> DEFINE s == rules[Call.kind][Call.net]
           t == rules'[Call.kind][Call.net]
<1>2. s \in Seq(Rules) /\ t \in Seq(Rules) BY <1>1, KindsAre DEF Types, RulesT
<1>3. /\ DOMAIN s = 1..Len(s) /\ Range(s) = {s[i] : i \in 1..Len(s)}
      /\ DOMAIN t = 1..Len(t) /\ Range(t) = {t[i] : i \in 1..Len(t)} /\ Len(s) \in Nat
  <2> HIDE DEF s, t
  <2> QED BY <1>2, RangeIs
<1>4. Call.op = "remove"
  <2>1. Call.op \in {"append", "remove"} BY <1>1, CallIs
  <2> QED BY <1>1, <2>1, AppendIs
<1>5. req' \in ReqType BY PfCallIs
<1>6. CASE DoRemove
  <2>1. CASE ~Exists(Call.net) /\ UNCHANGED rules
    <3>1. t = <<>> BY <1>1, <2>1, KindsAre DEF Exists
    <3> QED BY <1>3, <3>1
  <2>2. CASE rules' = Cleared(Call.net, IF Call.kind = "rdr" THEN Kinds ELSE {Call.kind})
    <3>1. t = <<>> BY <1>1, <2>2, KindsAre, ClearedIs DEF Types
    <3> QED BY <1>3, <3>1
  <2>3. CASE /\ UNCHANGED rules
             /\ IF Positions(Call.kind, Call.net, Call.port) = {} THEN NextCall
                ELSE req' = [req EXCEPT !.found = Positions(Call.kind, Call.net, Call.port)]
    <3>1. Positions(Call.kind, Call.net, Call.port) = {}
      BY <2>3 DEF Onward, Types, ReqT, ReqType
    <3> QED BY <1>3, <2>3, <3>1 DEF Positions
  <2> QED BY <1>6, <2>1, <2>2, <2>3 DEF DoRemove
<1>7. CASE RemoveNth
  <2>1. PICK i \in req.found :
          /\ Shifted(i) \in 1..Len(s) /\ t = RemoveAt(s, Shifted(i))
          /\ IF req.found = {i} THEN NextCall
             ELSE req' = [req EXCEPT !.found = @ \ {i}, !.gone = @ + 1]
    BY <1>7, Removing
  <2>2. req.found = {i}
    <3>1. CASE req' = [req EXCEPT !.found = @ \ {i}, !.gone = @ + 1]
      <4>1. req'.found = req.found \ {i} BY <3>1 DEF Types, ReqT, ReqType
      <4>2. req'.found = {} BY DEF Onward
      <4> QED BY <4>1, <4>2
    <3> QED BY <2>1, <3>1
  <2>3. i \in Nat /\ req.gone \in Nat BY DEF Types, ReqT, ReqType
  <2> DEFINE q == Shifted(i)
  <2>4. q \in 1..Len(s) /\ t = RemoveAt(s, q) BY <2>1
  <2>5. \A j \in 1..Len(s) : s[j].port = Call.port => j = q
    <3>1. ASSUME NEW j \in 1..Len(s), s[j].port = Call.port PROVE j = q
      <4>1. j + req.gone = i BY <2>2, <3>1 DEF Marks
      <4> QED BY <2>3, <3>1, <4>1 DEF Shifted
    <3> QED BY <3>1
  <2>6. q \in Nat BY <1>3, <2>4
  <2> HIDE DEF q, s
  <2>7. /\ Len(RemoveAt(s, q)) = Len(s) - 1
        /\ \A j \in 1..(Len(s) - 1) : RemoveAt(s, q)[j] = IF j < q THEN s[j] ELSE s[j + 1]
    BY <1>2, <2>4, RemoveAtFacts
  <2>8. PICK j \in 1..Len(t) : r = t[j] BY <1>3
  <2>9. j \in 1..(Len(s) - 1) /\ r = IF j < q THEN s[j] ELSE s[j + 1] BY <2>4, <2>7, <2>8
  <2>10. CASE j < q
    <3>1. j \in 1..Len(s) /\ j # q BY <1>3, <2>6, <2>9, <2>10
    <3> QED BY <2>5, <2>9, <2>10, <3>1
  <2>11. CASE ~(j < q)
    <3>1. j + 1 \in 1..Len(s) /\ j + 1 # q BY <1>3, <2>6, <2>9, <2>11
    <3> QED BY <2>5, <2>9, <2>11, <3>1
  <2> QED BY <2>10, <2>11
<1>8. CASE NoSuchRule \/ AppendNatFails \/ AppendRdrFails \/ RemoveFails \/ RemoveFailsSilently
  <2>1. Call.op = "remove" /\ req'.ok = FALSE
    BY <1>4, <1>8 DEF NoSuchRule, AppendNatFails, AppendRdrFails, RemoveFails,
                      RemoveFailsSilently, BreakOff, Types, ReqT, ReqType
  <2> QED BY <2>1
<1>9. CASE DoAppend BY <1>4, <1>9 DEF DoAppend
<1> QED BY <1>6, <1>7, <1>8, <1>9 DEF PfCall

LEMMA StopLeftStep ==
  ASSUME Types, Control, Marks, StopLeft, Types', Control', [Next]_vars
  PROVE  StopLeft'
<1> USE DEF Control
<1> SUFFICES ASSUME req'.by = "stop", req'.ok, NEW k \in Kinds, NEW n \in Networks,
                    NEW r \in Range(rules'[k][n]), r.to = req'.cont
             PROVE  Listed(k, n, r)'
  BY DEF StopLeft
<1>1. CASE rules' = rules /\ req' = req BY <1>1 DEF StopLeft, Listed
<1>2. ASSUME NEW c \in Containers, StopBegins(c) PROVE Listed(k, n, r)'
  <2>1. rules' = rules /\ req'.todo = RemovePorts(c) /\ req'.cont = c
    BY <1>2, StopIs DEF StopBegins
  <2>2. Owned(k, n, r)
    <3>1. r.to # Resolver BY <2>1, PortAssumption
    <3> QED BY <2>1, <3>1, KindsAre DEF Owners
  <2>3. n \in Range(NetsOf[c]) /\ r.port \in IF k = "rdr" THEN HostPorts(c) ELSE ContPorts(c)
    BY <2>1, <2>2 DEF Owned
  <2>4. \E i \in 1..Len(RemovePorts(c)) : RemovePorts(c)[i] = Remove1(k, n, r.port)
    <3>1. CASE k = "rdr" BY <2>3, <3>1, RemovePortsIs
    <3>2. CASE k = "nat" BY <2>3, <3>2, RemovePortsIs
    <3> QED BY <3>1, <3>2, KindsAre
  <2> QED BY <2>1, <2>4 DEF Listed, Remove1
<1>3. CASE Next /\ Range(rules'[k][n]) \subseteq Range(rules[k][n]) /\ req.by = "stop"
           /\ req.ok /\ req'.cont = req.cont /\ req'.todo = req.todo
  BY <1>3 DEF StopLeft, Listed
<1>4. CASE PfCall
  <2>1. Busy /\ req' \in ReqType /\ (Onward \/ Searched) /\ Next
    BY <1>4, PfCallIs DEF GivenUp, Next
  <2>2. req.by = "stop" /\ req.ok /\ req'.cont = req.cont BY <2>1 DEF Onward, Searched
  <2>3. ~DoAppend BY <2>2, AppendIs DEF DoAppend
  <2>4. Range(rules'[k][n]) \subseteq Range(rules[k][n]) BY <2>1, <2>3, Gains DEF Adds
  <2>5. CASE Searched BY <1>3, <2>1, <2>2, <2>4, <2>5 DEF Searched
  <2>6. CASE Onward
    <3>1. PICK i \in 1..Len(req.todo) :
            req.todo[i].kind = k /\ req.todo[i].net = n /\ req.todo[i].port = r.port
      BY <2>2, <2>4 DEF StopLeft, Listed
    <3>2. CASE i = 1
      <4>1. Call.kind = k /\ Call.net = n /\ Call.port = r.port BY <2>1, <3>1, <3>2, CallIs
      <4>2. rules' \in [Kinds -> [Networks -> Seq(Rules)]] BY DEF Types, RulesT
      <4> QED BY <1>4, <2>2, <2>6, <4>1, <4>2, CallDone
    <3>3. CASE i # 1
      <4>1. i - 1 \in 1..Len(req'.todo) /\ req'.todo[i - 1] = req.todo[i]
        BY <2>1, <2>6, <3>3, CallIs DEF Onward
      <4> QED BY <3>1, <4>1 DEF Listed
    <3> QED BY <3>2, <3>3
  <2> QED BY <2>1, <2>5, <2>6
<1>5. CASE Quiet BY <1>1, <1>5, QuietIs
<1>6. CASE RegisterPorts \/ Answer \/ Close \/ Crash \/ \E m \in Networks : StartNetwork(m)
  BY <1>6, RegisterIs, NetworkIs, FreeIs DEF Answer, Close, Crash
<1>7. ASSUME NEW m \in Networks, Clears(m) PROVE Listed(k, n, r)'
  <2>1. req' = req BY <1>7 DEF Clears, ClearAnchor, ClearAnchorFails
  <2>2. Next BY <1>7 DEF Clears, Next
  <2>3. ~DoAppend BY <1>7, <2>1 DEF Clears, ClearAnchor, ClearAnchorFails, DoAppend, NextCall, Busy,
                                    Types, ReqT, ReqType
  <2> QED BY <1>3, <2>1, <2>2, <2>3, Gains DEF Adds
<1>8. CASE UNCHANGED vars BY <1>1, <1>8 DEF vars
<1> QED BY <1>2, <1>4, <1>5, <1>6, <1>7, <1>8, Steps

(* A stop that is answered, and of which no call failed, leaves no rule. *)
LEMMA NoneLeft ==
  ASSUME Types, StopLeft, req.by = "stop", req.ok, req.todo = <<>>,
         NEW k \in Kinds, NEW n \in Networks, NEW r \in Range(rules[k][n])
  PROVE  r.to # req.cont
<1>1. 1..Len(req.todo) = {} OBVIOUS
<1> QED BY <1>1 DEF StopLeft, Listed

(* Which stops count as cut short.                                       *)
LEMMA TornStep ==
  ASSUME Types, StopLeft, [Next]_vars
  PROVE  \/ torn \subseteq torn' /\ robbed \subseteq robbed'
         \/ /\ torn' = torn \ {req.cont} /\ robbed' = robbed \ {req.cont}
            /\ UNCHANGED <<rules, server, toClear, whole>>
            /\ req' = Free
            /\ \A k \in Kinds, n \in Networks : \A r \in Range(rules[k][n]) : r.to # req.cont
<1>1. CASE Answer
  <2>1. CASE req.by = "stop" /\ req.ok
    <3>1. \A k \in Kinds, n \in Networks : \A r \in Range(rules[k][n]) : r.to # req.cont
      BY <1>1, <2>1, NoneLeft DEF Answer
    <3> QED BY <1>1, <2>1, <3>1 DEF Answer
  <2>2. CASE ~(req.by = "stop" /\ req.ok) BY <1>1, <2>2 DEF Answer
  <2> QED BY <2>1, <2>2
<1>2. CASE Quiet BY <1>2, QuietIs
<1>3. CASE RegisterPorts \/ Close \/ Crash \/ \E n \in Networks : StartNetwork(n)
  BY <1>3 DEF RegisterPorts, Close, Crash, StartNetwork
<1>4. CASE \E c \in Containers : StopBegins(c) BY <1>4 DEF StopBegins
<1>5. CASE \E n \in Networks : Clears(n) BY <1>5 DEF Clears, ClearAnchor, ClearAnchorFails
<1>6. CASE PfCall
  BY <1>6 DEF PfCall, DoAppend, DoRemove, RemoveNth, NoSuchRule, AppendNatFails, AppendRdrFails,
              RemoveFails, RemoveFailsSilently
<1>7. CASE UNCHANGED vars BY <1>7 DEF vars
<1> QED BY <1>1, <1>2, <1>3, <1>4, <1>5, <1>6, <1>7, Steps

(* After the clearing of an anchor.                                      *)
LEMMA ClearedAnchor ==
  ASSUME Types, NEW n \in Networks, Clears(n)
  PROVE  /\ req' = req /\ server' = server /\ n \in toClear /\ toClear' = toClear \ {n}
         /\ \A k \in Kinds, m \in Networks :
              m # n => rules'[k][m] = rules[k][m]
         /\ \A k \in Kinds : \A r \in Range(rules'[k][n]) : r.to \in torn' \cup {Resolver}
         /\ \A k \in Kinds : Range(rules'[k][n]) \subseteq Range(rules[k][n])
<1>1. PICK K \in SUBSET Kinds :
        /\ rules' = Cleared(n, K)
        /\ \/ K = Kinds
           \/ torn' = torn \cup (Containers \cap
                        {r.to : r \in UNION {Range(rules[k][n]) : k \in Kinds}})
  BY DEF Clears, ClearAnchor, ClearAnchorFails
<1>2. /\ req' = req /\ server' = server /\ n \in toClear /\ toClear' = toClear \ {n}
  BY DEF Clears, ClearAnchor, ClearAnchorFails
<1>3. \A k \in Kinds, m \in Networks : rules'[k][m] = IF k \in K /\ m = n THEN <<>> ELSE rules[k][m]
  BY <1>1, ClearedIs DEF Types
<1>4. Range(<<>>) = {} BY DEF Range
<1>5. ASSUME NEW k \in Kinds, NEW r \in Range(rules'[k][n])
      PROVE  r.to \in torn' \cup {Resolver} /\ r \in Range(rules[k][n])
  <2>1. k \notin K /\ r \in Range(rules[k][n]) BY <1>3, <1>4, <1>5
  <2>2. rules[k][n] \in Seq(Rules) BY DEF Types, RulesT
  <2>3. r \in Rules BY <2>1, <2>2, RangeIs
  <2>4. r.to \in Containers \cup {Resolver} BY <2>3 DEF Rules
  <2> QED BY <1>1, <2>1, <2>4
<1> QED BY <1>2, <1>3, <1>5

(* The anchors that a server which closes has cleared.                   *)
Emptied == server \in {"closing", "down"} =>
  \A k \in Kinds, n \in Networks \ toClear : \A r \in Range(rules[k][n]) :
    r.to \in torn \cup {Resolver}

LEMMA EmptiedStep ==
  ASSUME Types, Control, StopLeft, Emptied, Types', Control', [Next]_vars
  PROVE  Emptied'
<1> USE DEF Control
<1> SUFFICES ASSUME server' \in {"closing", "down"}, NEW k \in Kinds,
                    NEW n \in Networks, n \notin toClear', NEW r \in Range(rules'[k][n])
             PROVE  r.to \in torn' \cup {Resolver}
  BY DEF Emptied
<1>1. CASE server \in {"closing", "down"} /\ n \notin toClear /\ r \in Range(rules[k][n])
  <2>1. r.to \in torn \cup {Resolver} BY <1>1 DEF Emptied
  <2> QED BY <1>1, <2>1, TornStep
<1>2. CASE UNCHANGED <<rules, server, toClear>> BY <1>1, <1>2
<1>3. CASE Quiet
  <2>1. CASE Terminate
    <3>1. toClear' = Networks BY <2>1 DEF Terminate
    <3> QED BY <3>1
  <2>2. CASE Boot BY <2>2 DEF Boot
  <2>4. CASE Sigterm BY <2>4 DEF Sigterm
  <2>3. CASE ~Sigterm /\ ~Terminate /\ ~Boot
    BY <1>2, <1>3, <2>3 DEF Quiet, Start, TakeUp, NotStarted, Ended, Fork
  <2> QED BY <2>1, <2>2, <2>3, <2>4
<1>4. CASE RegisterPorts \/ Answer \/ (\E c \in Containers : StopBegins(c))
           \/ \E m \in Networks : StartNetwork(m)
  BY <1>2, <1>4 DEF RegisterPorts, Answer, StopBegins, StartNetwork
<1>5. CASE Close BY <1>1, <1>5 DEF Close
<1>6. CASE Crash BY <1>6 DEF Crash
<1>7. CASE \E m \in Networks : Clears(m)
  <2>1. PICK m \in Networks : Clears(m) BY <1>7
  <2>2. CASE n = m BY <2>1, <2>2, ClearedAnchor
  <2>3. CASE n # m BY <1>1, <2>1, <2>3, ClearedAnchor
  <2> QED BY <2>2, <2>3
<1>8. CASE PfCall
  <2>1. Next /\ server' = server /\ toClear' = toClear BY <1>8, PfCallIs DEF Next, Others
  <2>2. CASE Range(rules'[k][n]) \subseteq Range(rules[k][n]) BY <1>1, <2>1, <2>2
  <2>3. CASE Adds(k, n)
    <3>1. rules[k][n] \in Seq(Rules) BY DEF Types, RulesT
    <3>2. Busy /\ Call.op = "append" BY <2>3 DEF Adds, DoAppend
    <3>3. [port |-> Call.port, to |-> Call.to] \in Rules /\ Call.to = Resolver
      BY <2>1, <3>2, AppendIs
    <3>4. Range(rules'[k][n]) = Range(rules[k][n]) \cup {[port |-> Call.port, to |-> Call.to]}
      BY <2>3, <3>1, <3>3, AppendRange DEF Adds
    <3> QED BY <1>1, <2>1, <3>3, <3>4
  <2> QED BY <2>1, <2>2, <2>3, Gains
<1>9. CASE UNCHANGED vars BY <1>2, <1>9 DEF vars
<1> QED BY <1>3, <1>4, <1>5, <1>6, <1>7, <1>8, <1>9, Steps

-----------------------------------------------------------------------------
(* NAT rules beside redirections.                                        *)

(* The redirection of a port has been appended when its NAT rule is.     *)
HasRdr(R, n, c) == \E s \in Range(R["rdr"][n]) : s.to = c
Begun == req.by = "ports" /\ req.todo # <<>> /\ req.todo[1].kind = "nat" =>
  HasRdr(rules, req.todo[1].net, req.cont)

(* The last redirection to a container goes only with its stop, a rival's  *)
(* or its anchor.                                                        *)
LEMMA RdrStays ==
  ASSUME Types, Control, Marks, Types', Next, NEW n \in Networks, NEW c \in Containers,
         HasRdr(rules, n, c), \A m \in Networks : ~Clears(m)
  PROVE  \/ HasRdr(rules', n, c)
         \/ /\ req.by = "stop" /\ Stops /\ PfCall
            /\ c = req.cont \/ c \in Rivals(req.cont)
<1>1. PICK s \in Range(rules["rdr"][n]) : s.to = c BY DEF HasRdr
<1>2. s.to # Resolver BY <1>1, PortAssumption
<1>3. rules' \in [Kinds -> [Networks -> Seq(Rules)]] BY DEF Types, RulesT
<1> QED BY <1>1, <1>2, <1>3, RdrLost DEF HasRdr

LEMMA BegunStep ==
  ASSUME Types, Control, Marks, Begun, Types', Control', [Next]_vars
  PROVE  Begun'
<1> USE DEF Control
<1> SUFFICES ASSUME req'.by = "ports", req'.todo # <<>>, req'.todo[1].kind = "nat"
             PROVE  HasRdr(rules', req'.todo[1].net, req'.cont)
  BY DEF Begun
<1>1. CASE rules' = rules /\ req' = req BY <1>1 DEF Begun, HasRdr
<1>2. CASE PfCall
  <2>1. Busy /\ Next /\ Onward BY <1>2, PfCallIs DEF ReqInv, GivenUp, Searched, Next
  <2>2. req.by = "ports" /\ req'.cont = req.cont BY <2>1 DEF Onward
  <2>3. Registers BY <2>2 DEF ReqInv
  <2>4. /\ 1 \in 1..Len(req.todo) /\ 2 \in 1..Len(req.todo) /\ req'.todo[1] = req.todo[2]
        /\ req.todo[2] \in Calls
    <3>1. Len(req'.todo) # 0 /\ Len(req'.todo) = Len(req.todo) - 1 /\ Len(req.todo) \in Nat
      <4>1. req' \in ReqType BY DEF Types, ReqT
      <4>2. req'.todo \in Seq(Calls) BY <4>1 DEF ReqType
      <4> QED BY <2>1, <4>2, Fewer
    <3>2. 1 \in 1..Len(req'.todo) /\ 2 \in 1..Len(req.todo) /\ 1 \in 1..Len(req.todo) BY <3>1
    <3>3. req'.todo[1] = req.todo[1 + 1] BY <2>1, <3>2, Fewer
    <3>4. req.todo \in Seq(Calls) BY DEF Types, ReqT, ReqType
    <3> QED BY <3>2, <3>3, <3>4
  <2>5. req.cont \in Containers /\ req'.todo[1].net = Call.net /\ Call.op = "append"
    <3>1. Call = req.todo[1] BY <2>1, CallIs
    <3> QED BY <2>3, <2>4, <3>1 DEF Registers
  <2>6. Call.net \in Networks /\ Call.kind \in {"rdr", "nat"} BY <2>1, CallIs
  <2>7. CASE Call.kind = "nat"
    <3>1. HasRdr(rules, Call.net, req.cont) BY <2>1, <2>2, <2>7, CallIs DEF Begun
    <3>2. \A m \in Networks : ~Clears(m)
      BY <2>3 DEF Registers, ServerInv, Clears, ClearAnchor, ClearAnchorFails
    <3>3. HasRdr(rules', Call.net, req.cont) BY <2>1, <2>2, <2>5, <2>6, <3>1, <3>2, RdrStays
    <3> QED BY <2>2, <2>5, <3>3 DEF HasRdr
  <2>8. CASE Call.kind = "rdr"
    <3>1. DoAppend
      <4>1. ~AppendRdrFails
        BY <2>1, <2>8 DEF AppendRdrFails, BreakOff, Types, ReqT, ReqType
      <4> QED BY <1>2, <2>5, <2>8, <4>1
               DEF PfCall, DoRemove, RemoveNth, NoSuchRule, AppendNatFails, RemoveFails,
                   RemoveFailsSilently
    <3> DEFINE new == [port |-> Call.port, to |-> Call.to]
    <3>2. new \in Rules /\ rules'["rdr"][Call.net] = Append(rules["rdr"][Call.net], new)
      BY <2>6, <2>8, <3>1, Appending, KindsAre
    <3>3. rules["rdr"][Call.net] \in Seq(Rules) BY <2>6, KindsAre DEF Types, RulesT
    <3>4. new \in Range(rules'["rdr"][Call.net]) BY <3>2, <3>3, AppendRange
    <3>5. Call.to = req.cont BY <2>1, <2>3, <2>4, CallIs DEF Registers
    <3> QED BY <2>2, <2>5, <3>4, <3>5 DEF HasRdr
  <2> QED BY <2>6, <2>7, <2>8
<1>3. CASE Quiet BY <1>1, <1>3, QuietIs
<1>4. CASE RegisterPorts
  <2>1. /\ req'.todo = AddPorts(job.cont, Head(job.nets))
        /\ job.cont \in Containers /\ Head(job.nets) \in Networks
    BY <1>4, RegisterIs
  <2>2. req'.todo[1].kind = "rdr" BY <2>1, AddPortsIs
  <2> QED BY <2>2
<1>5. CASE Answer \/ Close \/ Crash \/ (\E c \in Containers : StopBegins(c))
           \/ \E n \in Networks : StartNetwork(n)
  BY <1>5, FreeIs, StopIs, NetworkIs DEF Answer, Close, Crash
<1>6. CASE \E n \in Networks : Clears(n)
  <2>1. req' = req /\ toClear # {} BY <1>6, ClearedAnchor
  <2> QED BY <2>1 DEF ReqInv, Registers, ServerInv
<1>7. CASE UNCHANGED vars BY <1>1, <1>7 DEF vars
<1> QED BY <1>2, <1>3, <1>4, <1>5, <1>6, <1>7, Steps

LEMMA NatHasRdrStep ==
  ASSUME Types, Control, Marks, StopLeft, Begun, NatHasRdr, Types', Control', [Next]_vars
  PROVE  NatHasRdr'
<1> USE DEF Control
<1> SUFFICES ASSUME NEW n \in Networks, NEW r \in Range(rules'["nat"][n]),
                    r.to \notin torn' \cup robbed'
             PROVE  HasRdr(rules', n, r.to)
  BY DEF NatHasRdr, HasRdr
<1>1. r.to \in Containers BY DEF Owners, Owned
<1>2. CASE UNCHANGED vars BY <1>2 DEF vars, NatHasRdr, HasRdr
<1>3. CASE Next /\ \E m \in Networks : Clears(m)
  <2>1. PICK m \in Networks : Clears(m) BY <1>3
  <2>2. CASE m = n BY <1>1, <2>1, <2>2, ClearedAnchor, KindsAre, PortAssumption
  <2>3. CASE m # n
    <3>1. rules'["nat"][n] = rules["nat"][n] /\ rules'["rdr"][n] = rules["rdr"][n]
      BY <2>1, <2>3, ClearedAnchor, KindsAre
    <3>2. torn \subseteq torn' /\ robbed' = robbed
      BY <2>1 DEF Clears, ClearAnchor, ClearAnchorFails
    <3> QED BY <3>1, <3>2 DEF NatHasRdr, HasRdr
  <2> QED BY <2>2, <2>3
<1>4. CASE Next /\ (\A m \in Networks : ~Clears(m)) /\ r \in Range(rules["nat"][n])
  <2>1. r.to \notin torn \cup robbed
    <3>1. CASE torn \subseteq torn' /\ robbed \subseteq robbed' BY <3>1
    <3>2. CASE /\ torn' = torn \ {req.cont} /\ robbed' = robbed \ {req.cont}
               /\ \A t \in Range(rules["nat"][n]) : t.to # req.cont
      BY <1>4, <3>2
    <3> QED BY <3>1, <3>2, TornStep, KindsAre
  <2>2. HasRdr(rules, n, r.to) BY <1>4, <2>1 DEF NatHasRdr, HasRdr
  <2>3. ~(Stops /\ (r.to = req.cont \/ r.to \in Rivals(req.cont))) BY <2>1 DEF Stops
  <2> QED BY <1>1, <1>4, <2>2, <2>3, RdrStays
<1>5. CASE Next /\ (\A m \in Networks : ~Clears(m)) /\ Adds("nat", n) /\ r \notin Range(rules["nat"][n])
  <2>1. Call.kind = "nat" /\ Call.net = n /\ Call.op = "append" /\ Busy /\ PfCall
    BY <1>5 DEF Adds, DoAppend, PfCall
  <2>2. req.by = "ports" /\ Call.to = req.cont /\ [port |-> Call.port, to |-> Call.to] \in Rules
    BY <2>1, AppendIs
  <2>3. rules["nat"][n] \in Seq(Rules) BY KindsAre DEF Types, RulesT
  <2>4. r = [port |-> Call.port, to |-> Call.to] BY <1>5, <2>2, <2>3, AppendRange DEF Adds
  <2>5. r.to = req.cont BY <2>2, <2>4
  <2>6. HasRdr(rules, n, req.cont) BY <2>1, <2>2, CallIs DEF Begun
  <2> QED BY <1>1, <1>5, <2>2, <2>5, <2>6, RdrStays
<1> QED BY <1>2, <1>3, <1>4, <1>5, Gains, KindsAre

-----------------------------------------------------------------------------
(* Published ports.                                                      *)

To(p, c) == [port |-> p, to |-> c]

(* The first rule of a port leads to the container, but for the resolver's. *)
Leads(s, port, c) ==
  \E i \in 1..Len(s) :
    /\ s[i].port = port /\ s[i].to = c
    /\ \A j \in 1..(i - 1) : s[j].port = port => s[j].to \in {c, Resolver}

(* The ports that a container registered in full keep leading to it; a   *)
(* container that is being registered, and has met no failure, has the    *)
(* redirections of the networks done, and those of the request in progress *)
(* are there or asked for.                                               *)
Full == \A w \in whole : \A n \in Range(NetsOf[w[1]]) :
  Leads(rules["rdr"][n], w[2], w[1])
Asks(n, p) == req.by = "ports" /\ (~req.ok \/ \E i \in 1..Len(req.todo) :
  req.todo[i].kind = "rdr" /\ req.todo[i].net = n /\ req.todo[i].port = p)
Given == job # NoJob /\ job.ok =>
  \A n \in Range(NetsOf[job.cont]), p \in HostPorts(job.cont) :
    n \in Range(job.nets) \/ To(p, job.cont) \in Range(rules["rdr"][n]) \/ Asks(n, p)

(* The redirections of a port stay unless a container that publishes it is *)
(* stopped.                                                              *)
LEMMA ToStays ==
  ASSUME Types, Control, Marks, Types', Next, server' = "up", NEW c \in Containers,
         NEW n \in Networks, NEW p \in HostPorts(c),
         ~(req.by = "stop" /\ p \in HostPorts(req.cont)),
         To(p, c) \in Range(rules["rdr"][n])
  PROVE  To(p, c) \in Range(rules'["rdr"][n])
<1>1. ~Clears(n)
  <2>1. ASSUME Clears(n) PROVE FALSE
    <3>1. server' = server /\ n \in toClear BY <2>1, ClearedAnchor
    <3> QED BY <3>1 DEF Control, ServerInv
  <2> QED BY <2>1
<1>2. To(p, c).to = c /\ To(p, c).to # Resolver /\ To(p, c).port = p
  BY PortAssumption DEF To
<1>3. rules' \in [Kinds -> [Networks -> Seq(Rules)]] BY DEF Types, RulesT
<1> QED BY <1>1, <1>2, <1>3, RdrLost

(* A rule that is appended, or a rule of another port that is removed, does *)
(* not change where a port leads.                                        *)
LEMMA LeadsAppend ==
  ASSUME NEW s \in Seq(Rules), NEW x \in Rules, NEW p, NEW c, Leads(s, p, c)
  PROVE  Leads(Append(s, x), p, c)
<1> DEFINE t == Append(s, x)
<1>1. Len(t) = Len(s) + 1 /\ Len(s) \in Nat /\ \A i \in 1..Len(s) : t[i] = s[i]
  BY AppendFacts
<1>2. PICK i \in 1..Len(s) :
        /\ s[i].port = p /\ s[i].to = c
        /\ \A j \in 1..(i - 1) : s[j].port = p => s[j].to \in {c, Resolver}
  BY DEF Leads
<1> HIDE DEF t
<1>3. i \in 1..Len(t) /\ t[i] = s[i] BY <1>1
<1>4. \A j \in 1..(i - 1) : t[j] = s[j] BY <1>1
<1>5. Leads(t, p, c) BY <1>2, <1>3, <1>4 DEF Leads
<1> QED BY <1>5 DEF t

LEMMA LeadsRemove ==
  ASSUME NEW s \in Seq(Rules), NEW q \in 1..Len(s), NEW p, NEW c, Leads(s, p, c),
         s[q].port # p
  PROVE  Leads(RemoveAt(s, q), p, c)
<1> DEFINE t == RemoveAt(s, q)
<1> HIDE DEF t
<1>1. /\ Len(t) = Len(s) - 1 /\ Len(s) \in Nat
      /\ \A j \in 1..(Len(s) - 1) : t[j] = IF j < q THEN s[j] ELSE s[j + 1]
  <2>1. t = RemoveAt(s, q) /\ Len(s) \in Nat BY DEF t
  <2>2. /\ Len(RemoveAt(s, q)) = Len(s) - 1
        /\ \A j \in 1..(Len(s) - 1) :
             RemoveAt(s, q)[j] = IF j < q THEN s[j] ELSE s[j + 1]
    BY RemoveAtFacts
  <2> QED BY <2>1, <2>2
<1>2. PICK i \in 1..Len(s) :
        /\ s[i].port = p /\ s[i].to = c
        /\ \A j \in 1..(i - 1) : s[j].port = p => s[j].to \in {c, Resolver}
  BY DEF Leads
<1>3. i # q BY <1>2
<1>4. CASE i < q
  <2>1. i \in 1..Len(t) /\ t[i] = s[i] /\ \A j \in 1..(i - 1) : t[j] = s[j] BY <1>1, <1>4
  <2>2. Leads(t, p, c) BY <1>2, <2>1 DEF Leads
  <2> QED BY <2>2 DEF t
<1>5. CASE i > q
  <2>1. i - 1 \in 1..Len(t) /\ t[i - 1] = s[i]
    <3>1. i - 1 \in 1..(Len(s) - 1) /\ ~(i - 1 < q) /\ (i - 1) + 1 = i BY <1>1, <1>5
    <3> QED BY <1>1, <3>1
  <2>2. ASSUME NEW j \in 1..((i - 1) - 1), t[j].port = p PROVE t[j].to \in {c, Resolver}
    <3>1. j \in 1..(Len(s) - 1) /\ j \in 1..(i - 1) /\ j + 1 \in 1..(i - 1) BY <1>1
    <3>2. t[j] = s[j] \/ t[j] = s[j + 1] BY <1>1, <3>1
    <3> QED BY <1>2, <2>2, <3>1, <3>2
  <2>3. Leads(t, p, c) BY <1>2, <2>1, <2>2 DEF Leads
  <2> QED BY <2>3 DEF t
<1> QED BY <1>3, <1>4, <1>5

(* A port leads where it did, if no container that publishes it is stopped *)
(* and no anchor cleared.                                                *)
LEMMA LeadsStays ==
  ASSUME Types, Control, Marks, Next, toClear = {}, NEW n \in Networks, NEW p, NEW c,
         Leads(rules["rdr"][n], p, c), ~(req.by = "stop" /\ p \in HostPorts(req.cont))
  PROVE  Leads(rules'["rdr"][n], p, c)
<1> USE DEF Control
<1> DEFINE s == rules["rdr"][n]
<1>1. s \in Seq(Rules) /\ DOMAIN s = 1..Len(s) BY KindsAre DEF Types, RulesT
<1>2. CASE DoAppend
  <2>1. /\ [port |-> Call.port, to |-> Call.to] \in Rules
        /\ rules'["rdr"][n] = s
           \/ rules'["rdr"][n] = Append(s, [port |-> Call.port, to |-> Call.to])
    BY <1>2, Appending, KindsAre
  <2> QED BY <1>1, <2>1, LeadsAppend
<1>3. CASE RemoveNth
  <2>1. PICK i \in req.found :
          /\ NextFound(i) /\ Shifted(i) \in 1..Len(rules[Call.kind][Call.net])
          /\ rules'["rdr"][n] = IF "rdr" = Call.kind /\ n = Call.net
                                THEN RemoveAt(s, Shifted(i)) ELSE s
    BY <1>3, Removing, KindsAre
  <2>2. CASE "rdr" = Call.kind /\ n = Call.net
    <3>1. Busy /\ Call.op = "remove" BY <1>3 DEF RemoveNth
    <3>2. req.by = "stop" /\ Call.port \in HostPorts(req.cont)
      BY <2>2, <3>1, RemoveIs DEF Publishes
    <3>3. s[Shifted(i)].port = Call.port
      <4>1. /\ Shifted(i) + req.gone = i
        BY <2>1 DEF Shifted, Types, ReqT, ReqType
      <4>2. Shifted(i) \in 1..Len(s) BY <2>1, <2>2
      <4> QED BY <2>1, <2>2, <4>1, <4>2 DEF Marks
    <3>4. s[Shifted(i)].port # p BY <3>2, <3>3
    <3>5. Shifted(i) \in 1..Len(s) BY <2>1, <2>2
    <3> HIDE DEF s
    <3>6. Leads(RemoveAt(s, Shifted(i)), p, c) BY <1>1, <3>4, <3>5, LeadsRemove DEF s
    <3> QED BY <2>1, <2>2, <3>6
  <2> QED BY <2>1, <2>2
<1>4. ASSUME NEW K \in SUBSET Kinds, rules' = Cleared(Call.net, K), Busy, Call.op = "remove",
             AllMatch(Call.kind, Call.net, Call.port), Call.kind = "nat" => K \subseteq {"nat"}
      PROVE  Leads(rules'["rdr"][n], p, c)
  <2>1. Call.net \in Networks /\ Call.kind \in {"rdr", "nat"} BY <1>4, CallIs
  <2>2. rules'["rdr"][n] = IF "rdr" \in K /\ n = Call.net THEN <<>> ELSE s
    BY <1>4, <2>1, ClearedIs, KindsAre DEF Types
  <2>3. CASE "rdr" \in K /\ n = Call.net
    <3>1. Call.kind = "rdr" BY <1>4, <2>1, <2>3
    <3>2. req.by = "stop" /\ Call.port \in HostPorts(req.cont)
      BY <1>4, <3>1, RemoveIs DEF Publishes
    <3>3. \A i \in 1..Len(s) : s[i].port = Call.port
      BY <1>1, <1>4, <2>3, <3>1 DEF AllMatch, Positions
    <3> QED BY <3>2, <3>3 DEF Leads
  <2> QED BY <2>2, <2>3
<1>5. ASSUME NEW m \in Networks, Clears(m) PROVE FALSE
  BY <1>5, ClearedAnchor
<1> QED BY <1>2, <1>3, <1>4, <1>5, RulesMove

LEMMA FullStep ==
  ASSUME Types, Control, Marks, Full, Given, Types', Control', [Next]_vars
  PROVE  Full'
<1> USE DEF Control
<1> SUFFICES ASSUME NEW w \in whole', NEW n \in Range(NetsOf[w[1]])
             PROVE  Leads(rules'["rdr"][n], w[2], w[1])
  BY DEF Full, Leads
<1>1. w[1] \in Containers /\ n \in Networks /\ w[2] \in HostPorts(w[1])
  <2>1. w[1] \in Containers /\ w[2] \in HostPorts(w[1]) BY HeldIs DEF Types, SetsT
  <2> QED BY <2>1, PortFacts, RangeIs
<1>3. CASE UNCHANGED vars BY <1>3 DEF vars, Full
<1>4. CASE Next /\ w \in whole
  <2>1. Leads(rules["rdr"][n], w[2], w[1]) BY <1>4 DEF Full
  <2>2. ~(req.by = "stop" /\ w[2] \in HostPorts(req.cont)) BY <1>4 DEF ReqInv, Stops
  <2>3. server = "up" BY <1>4 DEF ServerInv, PlaceInv
  <2>4. toClear = {} BY <2>3 DEF ServerInv
  <2> QED BY <1>1, <1>4, <2>1, <2>2, <2>4, LeadsStays
<1>5. CASE Next /\ w \notin whole
  <2>1. Fork
    <3>1. ~(UNCHANGED whole) /\ ~(whole' \subseteq whole) BY <1>5
    <3>2. ~PfCall BY <3>1, PfCallIs DEF Others
    <3> QED BY <1>5, <3>1, <3>2, Steps
         DEF Quiet, Start, TakeUp, NotStarted, Ended, Sigterm, WorkerStops, Terminate, Boot,
             RegisterPorts, Answer, Close, Crash, StopBegins, StartNetwork, Clears, ClearAnchor,
             ClearAnchorFails
  <2>2. job # NoJob /\ job.nets = <<>> /\ req.by # "ports" /\ rules' = rules
    BY <2>1 DEF Fork
  <2>3. job.ok /\ w[1] = job.cont /\ w[2] \in Unclaimed(job.cont)
    BY <1>5, <2>1, ForkIs
  <2>4. Range(<<>>) = {} BY DEF Range
  <2> DEFINE s == rules["rdr"][n]
  <2>5. To(w[2], w[1]) \in Range(s) BY <1>1, <2>2, <2>3, <2>4 DEF Given, Asks
  <2>6. \A r \in Range(s) : r.port = w[2] => r.to \in {w[1], Resolver}
    BY <2>3 DEF Unclaimed
  <2>7. s \in Seq(Rules) BY <1>1, KindsAre DEF Types, RulesT
  <2> HIDE DEF s
  <2>8. Len(s) \in Nat /\ Range(s) = {s[i] : i \in 1..Len(s)} BY <2>7, RangeIs
  <2>9. PICK i \in 1..Len(s) : s[i] = To(w[2], w[1]) BY <2>5, <2>8
  <2>10. s[i].port = w[2] /\ s[i].to = w[1] BY <2>9 DEF To
  <2>11. \A j \in 1..(i - 1) : s[j] \in Range(s) BY <2>8
  <2>12. Leads(s, w[2], w[1]) BY <2>6, <2>10, <2>11 DEF Leads
  <2> QED BY <2>2, <2>12 DEF s
<1> QED BY <1>3, <1>4, <1>5

LEMMA GivenStep ==
  ASSUME Types, Control, Marks, Given, Types', Control', [Next]_vars
  PROVE  Given'
<1> USE DEF Control
<1> SUFFICES ASSUME job' # NoJob, job'.ok, NEW n \in Range(NetsOf[job'.cont]),
                    NEW p \in HostPorts(job'.cont)
             PROVE  \/ n \in Range(job'.nets)
                    \/ To(p, job'.cont) \in Range(rules'["rdr"][n]) \/ Asks(n, p)'
  BY DEF Given
<1>1. job'.cont \in Containers /\ n \in Networks /\ server' = "up"
  <2>1. job'.cont \in Containers BY DEF Types, JobT, PlaceInv
  <2>2. n \in Networks BY <2>1, PortFacts, RangeIs
  <2> QED BY <2>1, <2>2 DEF ServerInv
<1>2. CASE UNCHANGED <<rules, job, req>> BY <1>2 DEF Given, Asks
<1>3. CASE Quiet
  <2>1. CASE \E c \in Containers : TakeUp(c)
    <3>1. job'.nets = NetsOf[job'.cont] BY <2>1 DEF TakeUp
    <3> QED BY <3>1
  <2>2. CASE Fork BY <2>2 DEF Fork
  <2>3. CASE Sigterm BY <2>3 DEF Sigterm, WorkerStops
  <2>4. CASE UNCHANGED job BY <1>2, <1>3, <2>4, QuietIs
  <2> QED BY <1>3, <2>1, <2>2, <2>3, <2>4 DEF Quiet, Start, NotStarted, Ended, Terminate, Boot
<1>4. CASE Next /\ UNCHANGED job /\ (Asks(n, p) => Asks(n, p)' \/ To(p, job.cont) \in Range(rules'["rdr"][n]))
  <2>1. ~(req.by = "stop" /\ p \in HostPorts(req.cont))
    <3>1. ASSUME req.by = "stop", p \in HostPorts(req.cont) PROVE FALSE
      <4>1. Stops /\ job.ok /\ job.cont \in Containers /\ p \in HostPorts(job.cont)
        BY <1>1, <1>4, <3>1 DEF ReqInv
      <4>2. job.cont \in {req.cont} \cup Rivals(req.cont) BY <3>1, <4>1 DEF Rivals
      <4> QED BY <4>1, <4>2 DEF Stops
    <3> QED BY <3>1
  <2> QED BY <1>1, <1>4, <2>1, ToStays DEF Given
<1>5. CASE RegisterPorts
  <2>1. /\ req'.by = "ports" /\ req'.todo = AddPorts(job.cont, Head(job.nets))
        /\ req'.cont = job.cont
    BY <1>5, RegisterIs
  <2>2. /\ req = Free /\ rules' = rules /\ job # NoJob /\ job.nets # <<>>
        /\ job' = [job EXCEPT !.nets = Tail(@)]
    BY <1>5 DEF RegisterPorts
  <2>3. job'.cont = job.cont /\ job'.ok = job.ok /\ job'.nets = Tail(job.nets)
    BY <2>2 DEF Types, JobT
  <2>4. Range(job.nets) = {Head(job.nets)} \cup Range(Tail(job.nets)) /\ Head(job.nets) \in Networks
    BY <2>2, NetsLeft
  <2>5. CASE n = Head(job.nets)
    <3>1. \E k \in 1..Len(AddPorts(job.cont, n)) :
            /\ AddPorts(job.cont, n)[k].kind = "rdr" /\ AddPorts(job.cont, n)[k].port = p
            /\ AddPorts(job.cont, n)[k].net = n
      BY <1>1, <2>3, AddPortsIs
    <3> QED BY <2>1, <2>5, <3>1 DEF Asks
  <2>6. CASE n # Head(job.nets)
    <3>1. n \in Range(job.nets) \/ To(p, job.cont) \in Range(rules["rdr"][n])
      BY <2>2, <2>3, FreeIs DEF Given, Asks
    <3> QED BY <2>2, <2>3, <2>4, <2>6, <3>1
  <2> QED BY <2>5, <2>6
<1>6. CASE Answer
  <2>1. rules' = rules /\ req.todo = <<>> BY <1>6 DEF Answer
  <2>2. CASE req.by = "ports" /\ ~req.ok
    <3>1. job' = [job EXCEPT !.ok = FALSE] BY <1>6, <2>2 DEF Answer
    <3> QED BY <3>1 DEF Types, JobT
  <2>3. CASE ~(req.by = "ports" /\ ~req.ok)
    <3>1. job' = job BY <1>6, <2>3 DEF Answer
    <3>2. ~Asks(n, p) BY <2>1, <2>3 DEF Asks
    <3> QED BY <2>1, <3>1, <3>2 DEF Given
  <2> QED BY <2>2, <2>3
<1>7. CASE Crash \/ Close BY <1>1, <1>7 DEF Crash, Close
<1>8. ASSUME NEW c \in Containers, StopBegins(c)
      PROVE  \/ n \in Range(job'.nets) \/ To(p, job'.cont) \in Range(rules'["rdr"][n])
  <2>1. /\ rules' = rules /\ req = Free
        /\ job' = IF job.cont \in {c} \cup Rivals(c) THEN [job EXCEPT !.ok = FALSE] ELSE job
    BY <1>8 DEF StopBegins
  <2>2. job' = job BY <2>1 DEF Types, JobT
  <2> QED BY <2>1, <2>2, FreeIs DEF Given, Asks
<1>9. CASE \E m \in Networks : StartNetwork(m)
  <2>1. req = Free /\ Next /\ UNCHANGED job BY <1>9 DEF StartNetwork, Next
  <2> QED BY <1>4, <2>1, FreeIs DEF Asks
<1>10. CASE \E m \in Networks : Clears(m)
  <2>1. server' = server /\ toClear # {} BY <1>10, ClearedAnchor
  <2> QED BY <1>1, <2>1 DEF ServerInv
<1>11. CASE PfCall
  <2>1. Busy /\ Next /\ UNCHANGED job /\ req' \in ReqType BY <1>11, PfCallIs DEF Next, Others
  <2>2. ASSUME Asks(n, p) PROVE Asks(n, p)' \/ To(p, job.cont) \in Range(rules'["rdr"][n])
    <3>1. req.by = "ports" BY <2>2 DEF Asks
    <3>2. req'.by = "ports" BY <1>11, <3>1, PfCallIs DEF Onward, GivenUp, Searched
    <3>3. CASE ~req'.ok BY <3>2, <3>3 DEF Asks
    <3>4. CASE req'.ok
      <4>1. Onward /\ req.ok BY <1>11, <3>1, <3>4, PfCallIs DEF Onward, GivenUp, Searched, ReqInv
      <4>2. PICK i \in 1..Len(req.todo) :
              req.todo[i].kind = "rdr" /\ req.todo[i].net = n /\ req.todo[i].port = p
        BY <2>2, <4>1 DEF Asks
      <4>3. CASE i # 1
        <5>1. i - 1 \in 1..Len(req'.todo) /\ req'.todo[i - 1] = req.todo[i]
          BY <2>1, <4>1, <4>3, CallIs DEF Onward
        <5> QED BY <3>2, <4>2, <5>1 DEF Asks
      <4>4. CASE i = 1
        <5>1. /\ Call.kind = "rdr" /\ Call.net = n /\ Call.port = p /\ Call.to = req.cont
              /\ Call.op = "append" /\ req.cont = job.cont
          <6>1. Call = req.todo[1] /\ 1 \in 1..Len(req.todo) BY <2>1, CallIs
          <6>2. Registers BY <3>1 DEF ReqInv
          <6> QED BY <4>2, <4>4, <6>1, <6>2 DEF Registers
        <5>2. DoAppend
          <6>1. ~AppendRdrFails
            BY <3>4 DEF AppendRdrFails, BreakOff, Types, ReqT, ReqType
          <6> QED BY <1>11, <5>1, <6>1
                   DEF PfCall, DoRemove, RemoveNth, NoSuchRule, AppendNatFails, RemoveFails,
                       RemoveFailsSilently
        <5>3. /\ [port |-> Call.port, to |-> Call.to] \in Rules
              /\ rules'["rdr"][n] = Append(rules["rdr"][n], [port |-> Call.port, to |-> Call.to])
          BY <1>1, <5>1, <5>2, Appending, KindsAre
        <5>4. rules["rdr"][n] \in Seq(Rules) BY <1>1, KindsAre DEF Types, RulesT
        <5>5. [port |-> Call.port, to |-> Call.to] \in Range(rules'["rdr"][n])
          BY <5>3, <5>4, AppendRange
        <5> QED BY <5>1, <5>5 DEF To
      <4> QED BY <4>3, <4>4
    <3> QED BY <3>3, <3>4
  <2> QED BY <1>4, <2>1, <2>2
<1>12. CASE UNCHANGED vars BY <1>2, <1>12 DEF vars
<1> QED BY <1>3, <1>5, <1>6, <1>7, <1>8, <1>9, <1>10, <1>11, <1>12, Steps

-----------------------------------------------------------------------------
(* The theorems.                                                         *)

Sound == /\ Types /\ Control /\ Marks
         /\ StopLeft /\ Emptied /\ Begun /\ NatHasRdr /\ Full /\ Given

LEMMA Soundness == Spec => []Sound
<1>1. Init => Sound
  <2>1. ASSUME Init PROVE Sound
    <3>1. Types /\ Control BY <2>1, ControlInit
    <3>2. /\ rules = [k \in Kinds |-> [n \in Networks |-> <<>>]] /\ server = "up" /\ req = Free
          /\ whole = {} /\ job = NoJob
      BY <2>1 DEF Init
    <3>3. Range(<<>>) = {} BY DEF Range
    <3>4. Marks /\ StopLeft /\ Emptied /\ Begun
      BY <3>2, FreeIs DEF Marks, StopLeft, Emptied, Begun
    <3>5. NatHasRdr /\ Full /\ Given BY <3>2, <3>3, KindsAre DEF NatHasRdr, Full, Given
    <3> QED BY <3>1, <3>4, <3>5 DEF Sound
  <2> QED BY <2>1
<1>2. Sound /\ [Next]_vars => Sound'
  <2> SUFFICES ASSUME Sound, [Next]_vars PROVE Sound' OBVIOUS
  <2>1. Types' /\ Control' BY ControlStep DEF Sound
  <2> QED BY <2>1, MarksStep, StopLeftStep, EmptiedStep, BegunStep, NatHasRdrStep, FullStep, GivenStep
          DEF Sound
<1> QED BY <1>1, <1>2, PTL DEF Spec

(* NatHasRdr: add_rdr_ports appends the redirection of a port before its *)
(* NAT rule and gives up when that fails, and a redirection goes only with *)
(* a stop of its container or of a rival, or with the whole anchor.  No   *)
(* port is assumed to belong to one container.                           *)
THEOREM RdrBesideNat == Spec => []NatHasRdr
<1>1. Sound => NatHasRdr BY DEF Sound
<1> QED BY <1>1, Soundness, PTL

(* Reachable: registered without a failure while no other container's rule *)
(* had the port, a container keeps a redirection of the port that no rule *)
(* of another container precedes, whatever is started, stopped or left    *)
(* behind later, until a container that publishes the port is stopped.    *)
THEOREM PublishedReachable == Spec => []Reachable
<1>1. Sound => Reachable
  <2> SUFFICES ASSUME Sound, NEW c \in up, NEW n \in Range(NetsOf[c]),
                      NEW p \in HostPorts(c), <<c, p>> \in whole
               PROVE  LeadsTo(n, p, c)
    BY DEF Reachable
  <2>1. c \in Containers BY DEF Sound, Types, SetsT
  <2>2. n \in Networks BY <2>1, PortFacts, RangeIs
  <2>3. Leads(rules["rdr"][n], p, c) BY DEF Sound, Full
  <2>4. rules["rdr"][n] \in Seq(Rules) BY <2>2, KindsAre DEF Sound, Types, RulesT
  <2>5. DOMAIN rules["rdr"][n] = 1..Len(rules["rdr"][n]) BY <2>4
  <2> QED BY <2>3, <2>5 DEF LeadsTo, Leads
<1> QED BY <1>1, Soundness, PTL

(* StoppedIsUnpublished: stop_jail asks for the removal of every port in *)
(* every network, and remove_rdr_port_rule removes every rule of a port it *)
(* finds, by positions that are right when they are used.                *)
THEOREM StopUnpublishes == Spec => []StoppedIsUnpublished
<1>1. Sound => StoppedIsUnpublished
  BY NoneLeft, KindsAre DEF Sound, StoppedIsUnpublished
<1> QED BY <1>1, Soundness, PTL

(* ShutdownUnpublishes: what clear_ruleset_before_close leaves, though the  *)
(* handlers still run while it does.                                     *)
THEOREM NothingPublished == Spec => []ShutdownUnpublishes
<1>1. Sound => ShutdownUnpublishes
  BY DEF Sound, Emptied, Control, ServerInv, ShutdownUnpublishes
<1> QED BY <1>1, Soundness, PTL

(* StopTakesOnlyItsPorts: but for the clearing of its anchor no step removes *)
(* a rule that the stop in progress has no port of, other than a NAT rule *)
(* of a container whose redirections a stop, cut short or a rival's, may  *)
(* have taken.                                                           *)
OnlyItsPorts == \A n \in Networks : n \in toClear \ toClear' \/
  /\ \A r \in Lost("rdr", n) : req.by = "stop" /\ r.port \in HostPorts(req.cont)
  /\ \A r \in Lost("nat", n) :
       req.by = "stop" /\ (r.port \in ContPorts(req.cont) \/ r.to \in torn \cup robbed)

THEOREM OnlyOwnPorts == Spec => StopTakesOnlyItsPorts
<1>1. Sound /\ [Next]_vars => [OnlyItsPorts]_vars
  <2> SUFFICES ASSUME Sound, Next, NEW n \in Networks, n \notin toClear \ toClear'
               PROVE  /\ \A r \in Lost("rdr", n) :
                           req.by = "stop" /\ r.port \in HostPorts(req.cont)
                      /\ \A r \in Lost("nat", n) :
                           req.by = "stop" /\ (r.port \in ContPorts(req.cont) \/ r.to \in torn \cup robbed)
    BY DEF OnlyItsPorts
  <2> USE DEF Sound
  <2>1. ~Clears(n) BY DEF Clears, ClearAnchor, ClearAnchorFails
  <2>2. Types' BY ControlStep
  <2>3. ASSUME NEW k \in Kinds, NEW r \in Lost(k, n) PROVE Takes(k, n, r) /\ r \in Range(rules[k][n])
    <3>1. /\ r \in Range(rules[k][n])
          /\ Count(rules'[k][n], r) < Count(rules[k][n], r)
      BY <2>3 DEF Lost
    <3>2. rules[k][n] \in Seq(Rules) /\ rules'[k][n] \in Seq(Rules) BY <2>2 DEF Types, RulesT
    <3>3. Count(rules'[k][n], r) \in Nat /\ Count(rules[k][n], r) \in Nat BY <3>2, CountIs
    <3>4. ~(Count(rules'[k][n], r) >= Count(rules[k][n], r)) BY <3>1, <3>3
    <3> QED BY <2>1, <3>1, <3>4, Loses
  <2>4. ASSUME NEW r \in Lost("rdr", n)
        PROVE  req.by = "stop" /\ r.port \in HostPorts(req.cont)
    <3>1. Takes("rdr", n, r) BY <2>3, KindsAre
    <3> QED BY <3>1 DEF Takes, Publishes
  <2>5. ASSUME NEW r \in Lost("nat", n)
        PROVE  req.by = "stop" /\ (r.port \in ContPorts(req.cont) \/ r.to \in torn \cup robbed)
    <3>1. Takes("nat", n, r) /\ r \in Range(rules["nat"][n]) BY <2>3, KindsAre
    <3>2. CASE Call.kind = "nat" BY <3>1, <3>2 DEF Takes, Publishes
    <3>3. CASE /\ Call.kind = "rdr"
               /\ \A s \in Range(rules["rdr"][n]) : s.port = Call.port
      <4>1. /\ req.by = "stop" /\ Call.port \in HostPorts(req.cont)
            /\ req.cont \in torn \cap Containers /\ Rivals(req.cont) \subseteq robbed
        BY <3>1, <3>3 DEF Takes, Publishes, Stops
      <4>2. CASE r.to \notin torn \cup robbed
        <5>1. PICK s \in Range(rules["rdr"][n]) : s.to = r.to BY <3>1, <4>2 DEF NatHasRdr
        <5>2. r.to \in Containers BY <3>1 DEF Control, Owners, Owned
        <5>3. s.to # Resolver /\ s.port \in HostPorts(req.cont)
          BY <3>3, <4>1, <5>1, <5>2, PortAssumption
        <5>4. s.to = req.cont \/ s.to \in Rivals(req.cont) BY <4>1, <5>3, OwnPort DEF Control
        <5> QED BY <4>1, <4>2, <5>1, <5>4
      <4> QED BY <4>1, <4>2
    <3> QED BY <3>1, <3>2, <3>3 DEF Takes
  <2> QED BY <2>4, <2>5
<1>2. [][OnlyItsPorts]_vars => StopTakesOnlyItsPorts
  <2>1. [OnlyItsPorts]_vars =>
        [\A n \in Networks : n \in toClear \ toClear' \/
           /\ \A r \in Lost("rdr", n) :
                req.by = "stop" /\ r.port \in HostPorts(req.cont)
           /\ \A r \in Lost("nat", n) :
                req.by = "stop" /\ (r.port \in ContPorts(req.cont)
                                    \/ r.to \in torn \cup robbed)]_vars
    BY DEF OnlyItsPorts
  <2> QED BY <2>1, PTL DEF StopTakesOnlyItsPorts
<1> QED BY <1>1, <1>2, Soundness, PTL DEF Spec
=============================================================================
