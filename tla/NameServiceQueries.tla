-------------------------- MODULE NameServiceQueries --------------------------
(***************************************************************************)
(* Theorems about the queries of NameService: which reply a query gets,    *)
(* and what a lookup finds while others insert, the network of the client  *)
(* and the addresses registered under the name.                            *)
(***************************************************************************)
EXTENDS NameServiceProofs, FiniteSetTheorems

(* The trie: a node hangs below its prefixes, and has the name of the      *)
(* network whose subnet it is, or none.                                    *)
TrieInv ==
  /\ \A p \in DOMAIN trie : \A k \in 0..Len(p) : SubSeq(p, 1, k) \in DOMAIN trie
  /\ \A p \in DOMAIN trie : /\ trie[p] \in Networks \cup {None}
                            /\ trie[p] # None => Subnet[trie[p]] = p
TrieGrows ==
  /\ DOMAIN trie \subseteq DOMAIN trie'
  /\ \A p \in DOMAIN trie : trie[p] # None => trie'[p] = trie[p]

LEMMA InitTrie == ASSUME NameAssumption, Init PROVE TrieInv
<1>1. DOMAIN trie = {<<>>} /\ trie[<<>>] = None BY DEF Init
<1>2. \A k \in 0..Len(<<>>) : SubSeq(<<>>, 1, k) = <<>> OBVIOUS
<1> QED BY <1>1, <1>2 DEF TrieInv

LEMMA NextTrie ==
  ASSUME NameAssumption, RegisteredInv, TrieInv, [Next]_vars
  PROVE  TrieInv' /\ TrieGrows
<1>1. CASE UNCHANGED trie BY <1>1 DEF TrieInv, TrieGrows
<1>2. CASE InsertBit \/ InsertSubnet
  <2>1. /\ wk.nets \in Seq(Networks) /\ wk.nets # <<>> /\ wk.at \in DOMAIN trie
        /\ wk.at \in Seq({0, 1}) /\ IsPrefix(wk.at, Subnet[Net])
    BY <1>2 DEF InsertBit, InsertSubnet, RegisteredInv, RegInv, WorkerShape
  <2>2. Net \in Networks BY <2>1 DEF Net
  <2>3. Subnet[Net] \in Seq({0, 1}) BY <2>2, NameAssumption DEF NameAssumption
  <2>4. CASE InsertBit
    <3> DEFINE p == wk.at  r == Subnet[Net]  next == SubSeq(r, 1, Len(p) + 1)
    <3>1. /\ p # r
          /\ trie' = [x \in DOMAIN trie \cup {next} |->
                        IF x \in DOMAIN trie THEN trie[x] ELSE None]
      BY <2>4 DEF InsertBit
    <3>2. p \in Seq({0, 1}) /\ p \in DOMAIN trie BY <2>1
    <3>3. /\ r \in Seq({0, 1}) /\ IsPrefix(p, r)
      BY <2>1, <2>3
    <3> HIDE DEF p, r
    <3>4. /\ next \in Seq({0, 1}) /\ Len(next) = Len(p) + 1
          /\ Last(next) \in {0, 1} /\ next = Append(p, Last(next))
      BY <3>1, <3>2, <3>3, OneFurther
    <3> HIDE DEF next
    <3>5. ASSUME NEW k \in 0..Len(next) PROVE SubSeq(next, 1, k) \in DOMAIN trie'
      <4>1. k \in 0..Len(p) + 1 BY <3>2, <3>4
      <4>2. SubSeq(next, 1, k) =
              IF k = Len(p) + 1 THEN next ELSE SubSeq(p, 1, k)
        BY <3>2, <3>4, <4>1, PrefixesOfAppend
      <4>3. k # Len(p) + 1 => k \in 0..Len(p) BY <3>2, <4>1
      <4> QED BY <3>1, <3>2, <4>2, <4>3 DEF TrieInv
    <3> QED BY <3>1, <3>5 DEF TrieInv, TrieGrows
  <2>5. CASE InsertSubnet
    <3>1. wk.at = Subnet[Net] /\ trie' = [trie EXCEPT ![wk.at] = Net]
      BY <2>5 DEF InsertSubnet
    <3>2. \A n \in Networks : Subnet[n] = Subnet[Net] => n = Net
      BY <2>2, NameAssumption DEF NameAssumption
    <3> QED BY <2>1, <2>2, <3>1, <3>2 DEF TrieInv, TrieGrows
  <2> QED BY <1>2, <2>4, <2>5
<1>3. [Next]_vars => UNCHANGED trie \/ InsertBit \/ InsertSubnet
  <2>1. Resolve => OnlyQuery
    BY DEF Resolve, FindBit, Found, Walk, Reached, Child, Return, Raise, Send,
           SendFails, Unparsable, NoForwarderLeft, Receive, Timeout, Looks
  <2>2. (\E i : Reply(i)) \/ (\E x : Ask(x)) \/ UNCHANGED vars => UNCHANGED trie
    BY DEF Reply, Ask, Looks, OnlyQuery, vars
  <2> QED
    BY <2>1, <2>2
       DEF Next, Insert, LockTree, Step, Create, SetName, OnlyTree, StartNetwork,
           TakeUp, Ended, Worker, RegisterName, Registered, PostFails, Fork,
           OnlyQuery
<1> QED BY <1>1, <1>2, <1>3

-----------------------------------------------------------------------------
(* The query in hand and the replies.                                      *)

Query == [addr : [1..Width -> {0, 1}], name : Seq(STRING), type : {"A", "other"}]
QueryPcs == {"idle", "find", "walk", "collect", "send", "recv"} \cup Done
Frames == [node : Paths, size : Nat, i : Nat]
QueryType ==
  [pc : QueryPcs, n : 0..MaxQueries, ask : Query \cup {None},
   at : Seq({0, 1} \cup Labels), found : Networks \cup {None},
   stack : Seq(Frames), ips : Seq(Paths),
   tries : Nat, reply : 0..MaxQueries, before : SUBSET Paths,
   known : SUBSET Networks]

FrameShape(f) ==
  f.node \in DOMAIN nodes /\ f.i <= f.size /\ f.size <= Len(nodes[f.node])
QueryShape ==
  /\ q \in QueryType
  /\ q.pc # "idle" => q.n \in 1..MaxQueries
  /\ q.pc \in {"find", "walk", "collect"} => q.ask \in Query
  /\ q.pc \in {"walk", "collect"} => q.found \in Networks
  /\ q.pc = "find" => q.at \in DOMAIN trie
  /\ q.pc = "walk" => q.at \in DOMAIN nodes /\ IsPrefix(q.at, Asked)
  /\ q.pc \in {"find", "walk"} => q.stack = <<>> /\ q.ips = <<>>
  /\ q.pc = "collect" =>
       q.stack # <<>> /\ \A k \in DOMAIN q.stack : FrameShape(q.stack[k])
  /\ q.before \subseteq named

(* A query is sent to one forwarder after another, and nothing of it is    *)
(* outstanding before.  Until one is given up, nothing else is either.     *)
OneAtATime ==
  /\ \A i \in 1..MaxQueries : i # q.n => flight[i] = 0
  /\ IF q.pc = "recv"
     THEN \/ flight[q.n] = 1 /\ sock = <<>>
          \/ flight[q.n] = 0 /\ sock \in {<<>>, <<q.n>>}
     ELSE sock = <<>> /\ (q.n # 0 => flight[q.n] = 0)
  /\ q.pc = "forwarded" => q.reply = q.n
Replies ==
  /\ flight \in [1..MaxQueries -> 0..Forwarders]
  /\ sock \in Seq(1..MaxQueries)
  /\ \A i \in 1..MaxQueries : i > q.n => flight[i] = 0
  /\ q.pc \in {"find", "walk", "collect"} => flight[q.n] = 0 /\ q.tries = 0
  /\ q.pc \in {"send", "recv"} => flight[q.n] <= q.tries /\ q.tries <= Forwarders
  /\ late \/ OneAtATime

LEMMA WhoActs ==
  ASSUME [Next]_vars
  PROVE  \/ UNCHANGED queryVars
         \/ /\ OnlyQuery
            /\ \/ Resolve
               \/ q.n < MaxQueries /\ \E x \in Questions[q.n + 1] : Ask(x)
               \/ \E i \in 1..MaxQueries : Reply(i)
<1>1. Resolve => OnlyQuery
  BY DEF Resolve, FindBit, Found, Walk, Reached, Child, Return, Raise, Send,
         SendFails, Unparsable, NoForwarderLeft, Receive, Timeout, Looks
<1>2. (\E i : Reply(i)) \/ (\E x : Ask(x)) => OnlyQuery
  BY DEF Reply, Ask, Looks
<1>3. CASE UNCHANGED vars BY <1>3 DEF vars, queryVars
<1>4. CASE \/ \E w \in Writers : Insert(w)
           \/ \E n \in Networks : StartNetwork(n)
  BY <1>4 DEF Insert, LockTree, Step, Create, SetName, StartNetwork, OnlyTree
<1>5. CASE (\E c \in Containers : TakeUp(c) \/ Ended(c)) \/ Worker
  BY <1>5 DEF TakeUp, Ended, Worker, InsertBit, InsertSubnet, RegisterName,
              Registered, PostFails, Fork, NotTree
<1> QED BY <1>1, <1>2, <1>3, <1>4, <1>5 DEF Next

(* What LookedUp makes of a query, whatever comes next.                    *)
LEMMA LookedUpShape ==
  ASSUME NameAssumption, QueryShape, NEW pc \in {"send"} \cup Done,
         q.n \in 1..MaxQueries, q' = LookedUp(pc)
  PROVE  QueryShape' /\ q'.pc = pc /\ q'.n = q.n /\ q'.tries = 0
<1>1. q' = [pc |-> pc, n |-> q.n, ask |-> None, at |-> <<>>, found |-> None,
            stack |-> <<>>, ips |-> <<>>, tries |-> 0, reply |-> 0,
            before |-> {}, known |-> {}]
  BY DEF LookedUp, NoQuery
<1>2. /\ <<>> \in Seq({0, 1} \cup Labels) /\ <<>> \in Seq(Paths)
      /\ <<>> \in Seq(Frames)
      /\ pc \in QueryPcs /\ 0 \in 0..MaxQueries
  BY NameAssumption DEF QueryPcs, MaxQueries, NameAssumption
<1>3. q' \in QueryType BY <1>1, <1>2 DEF QueryShape, QueryType
<1>4. q'.pc = pc /\ q'.n = q.n /\ q'.before = {} /\ q'.tries = 0 BY <1>1
<1>5. pc \notin {"idle", "find", "walk", "collect"} BY DEF Done
<1> QED BY <1>3, <1>4, <1>5 DEF QueryShape

LEMMA InitQuery == ASSUME NameAssumption, Init PROVE QueryShape /\ Replies
<1>1. /\ q = NoQuery /\ flight = [i \in 1..MaxQueries |-> 0] /\ sock = <<>>
      /\ late = FALSE
  BY DEF Init
<1>2. MaxQueries \in Nat /\ Forwarders \in Nat
  BY NameAssumption DEF MaxQueries, NameAssumption
<1>3. /\ <<>> \in Seq({0, 1} \cup Labels) /\ <<>> \in Seq(Paths)
      /\ <<>> \in Seq(Frames)
      /\ "idle" \in QueryPcs /\ 0 \in 0..MaxQueries
  BY <1>2 DEF QueryPcs
<1>4. q \in QueryType BY <1>1, <1>3 DEF NoQuery, QueryType
<1>5. q.pc = "idle" /\ q.n = 0 /\ q.before = {} BY <1>1 DEF NoQuery
<1> QED BY <1>1, <1>2, <1>4, <1>5 DEF QueryShape, Replies, OneAtATime

LEMMA PathOfQuery ==
  ASSUME QueryShape, q.pc \in {"walk", "collect"} PROVE Asked \in Paths
<1>1. q.found \in Networks /\ q.ask.name \in Seq(STRING)
  BY DEF QueryShape, Query
<1>2. STRING \subseteq Labels /\ Networks \subseteq Labels BY DEF Labels
<1>3. q.ask.name \in Seq(Labels) BY <1>1, <1>2, SeqMonotonic
<1>4. <<q.found>> \in Seq(Labels) BY <1>1, <1>2
<1> QED BY <1>3, <1>4, ConcatProperties DEF Asked, Paths

LEMMA AskKeepsShape ==
  ASSUME NameAssumption, RegisteredInv, QueryShape, q.n < MaxQueries,
         NEW x \in Questions[q.n + 1], Ask(x)
  PROVE  /\ QueryShape' /\ q'.n = q.n + 1 /\ q'.tries = 0
         /\ q'.pc \in {"find", "send"} /\ UNCHANGED <<flight, sock, late>>
         /\ x \in Query
<1>1. q.n \in Nat /\ MaxQueries \in Nat /\ q.n + 1 \in 1..MaxQueries
  BY NameAssumption DEF NameAssumption, MaxQueries, QueryShape, QueryType
<1>2. x \in Query
  BY <1>1, NameAssumption DEF NameAssumption, MaxQueries, Query
<1>3. q' = [pc |-> IF x.type = "A" THEN "find" ELSE "send", n |-> q.n + 1,
            ask |-> x, at |-> <<>>, found |-> None, stack |-> <<>>,
            ips |-> <<>>, tries |-> 0, reply |-> 0, before |-> named,
            known |-> Known(x.addr)]
  BY DEF Ask, NoQuery
<1>4. /\ <<>> \in Seq({0, 1} \cup Labels) /\ <<>> \in Seq(Paths)
      /\ <<>> \in Seq(Frames)
      /\ {"find", "send"} \subseteq QueryPcs /\ 0 \in 0..MaxQueries
      /\ q.n + 1 \in 0..MaxQueries
  BY <1>1 DEF QueryPcs
<1>5. named \subseteq Paths BY DEF RegisteredInv, TreeInv, TreeShape
<1>6. Known(x.addr) \subseteq Networks BY DEF Known
<1>7. q' \in QueryType BY <1>2, <1>3, <1>4, <1>5, <1>6 DEF QueryType
<1>8. /\ q'.pc \in {"find", "send"} /\ q'.n = q.n + 1 /\ q'.ask = x
      /\ q'.at = <<>> /\ q'.before = named /\ q'.tries = 0
      /\ q'.stack = <<>> /\ q'.ips = <<>>
  BY <1>3
<1>9. UNCHANGED <<flight, sock, late, trie, nodes, named>>
  BY DEF Ask, Looks, OnlyQuery, treeVars
<1>10. <<>> \in DOMAIN trie' BY <1>9 DEF RegisteredInv, RegInv, WorkerShape
<1> QED BY <1>1, <1>2, <1>7, <1>8, <1>9, <1>10 DEF QueryShape

(* The steps of the lookup: nothing is sent yet.                           *)
Lookup == {"find", "walk", "collect"}
LooksOn == /\ q.pc \in Lookup
           /\ q'.pc \in Lookup \cup {"send", "answered", "raised"}
           /\ q'.n = q.n /\ q'.tries \in {0, q.tries}
           /\ UNCHANGED <<flight, sock, late>>

LEMMA FindKeepsShape ==
  ASSUME NameAssumption, RegisteredInv, TrieInv, QueryShape, FindBit \/ Found
  PROVE  QueryShape' /\ LooksOn
<1>1. /\ q.pc = "find" /\ UNCHANGED <<flight, sock, late, trie, nodes, named>>
      /\ q.n \in 1..MaxQueries
  BY DEF FindBit, Found, Looks, OnlyQuery, treeVars, QueryShape
<1>2. CASE FindBit
  <2>1. /\ NextBits \in DOMAIN trie
        /\ q' = [q EXCEPT !.at = NextBits,
                !.found = IF trie[NextBits] # None THEN trie[NextBits] ELSE @]
    BY <1>2 DEF FindBit
  <2>2. NextBits \in Seq({0, 1} \cup Labels)
    <3>1. NextBits \in Seq({0, 1})
      BY <2>1 DEF RegisteredInv, RegInv, WorkerShape
    <3> HIDE DEF NextBits
    <3>2. {0, 1} \subseteq {0, 1} \cup Labels OBVIOUS
    <3> QED BY <3>1, <3>2, SeqMonotonic
  <2>3. trie[NextBits] \in Networks \cup {None} BY <2>1 DEF TrieInv
  <2> HIDE DEF NextBits
  <2>4. q' \in QueryType BY <2>1, <2>2, <2>3 DEF QueryShape, QueryType
  <2>5. /\ q'.pc = "find" /\ q'.n = q.n /\ q'.at = NextBits /\ q'.ask = q.ask
        /\ q'.before = q.before /\ q'.tries = q.tries
        /\ q'.stack = q.stack /\ q'.ips = q.ips
    BY <1>1, <2>1 DEF QueryShape, QueryType
  <2> QED BY <1>1, <2>1, <2>4, <2>5 DEF QueryShape, LooksOn, Lookup
<1>3. CASE Found /\ q.found = None
  <2>1. q' = LookedUp("send") BY <1>3 DEF Found
  <2> QED BY <1>1, <2>1, LookedUpShape DEF LooksOn, Lookup
<1>4. CASE Found /\ q.found # None
  <2>1. q' = [q EXCEPT !.at = <<>>, !.pc = "walk"] BY <1>4 DEF Found
  <2>2. q' \in QueryType
    <3>1. <<>> \in Seq({0, 1} \cup Labels) /\ "walk" \in QueryPcs
      BY DEF QueryPcs
    <3> QED BY <2>1, <3>1 DEF QueryShape, QueryType
  <2>3. /\ q'.pc = "walk" /\ q'.n = q.n /\ q'.at = <<>> /\ q'.ask = q.ask
        /\ q'.before = q.before /\ q'.tries = q.tries /\ q'.found = q.found
        /\ q'.stack = q.stack /\ q'.ips = q.ips
    BY <2>1 DEF QueryShape, QueryType
  <2>4. q.found \in Networks BY <1>4 DEF QueryShape, QueryType
  <2>5. Asked' \in Paths
    <3>1. q'.ask.name \in Seq(STRING) BY <1>1, <2>3 DEF QueryShape, Query
    <3>2. STRING \subseteq Labels /\ q'.found \in Labels
      BY <2>3, <2>4 DEF Labels
    <3>3. q'.ask.name \in Seq(Labels) BY <3>1, <3>2, SeqMonotonic
    <3>4. <<q'.found>> \in Seq(Labels) BY <3>2
    <3> QED BY <3>3, <3>4, ConcatProperties DEF Asked, Paths
  <2>6. IsPrefix(<<>>, Asked') BY <2>5, EmptyPrefix DEF Paths
  <2>7. <<>> \in DOMAIN nodes BY DEF RegisteredInv, TreeInv, Tree
  <2>8. IsPrefix(q'.at, Asked') BY <2>3, <2>6
  <2> QED BY <1>1, <2>2, <2>3, <2>4, <2>7, <2>8
     DEF QueryShape, LooksOn, Lookup
<1> QED BY <1>2, <1>3, <1>4

LEMMA WalkKeepsShape ==
  ASSUME NameAssumption, RegisteredInv, QueryShape, Walk
  PROVE  QueryShape' /\ LooksOn
<1>1. /\ q.pc = "walk" /\ q.at # Asked /\ q.n \in 1..MaxQueries
      /\ UNCHANGED <<flight, sock, late, trie, nodes, named>>
      /\ q.at \in DOMAIN nodes /\ IsPrefix(q.at, Asked)
  BY DEF Walk, Looks, OnlyQuery, treeVars, QueryShape
<1>2. CASE Last(NextAsked) \notin Range(nodes[q.at])
  <2>1. q' = LookedUp("send") BY <1>2 DEF Walk
  <2> QED BY <1>1, <2>1, LookedUpShape DEF LooksOn, Lookup
<1>3. CASE Last(NextAsked) \in Range(nodes[q.at])
  <2>1. q' = [q EXCEPT !.at = NextAsked] BY <1>3 DEF Walk
  <2>2. Asked \in Paths BY <1>1, PathOfQuery
  <2>3. q.at \in Paths BY <1>1 DEF RegisteredInv, TreeInv, TreeShape
  <2>4. /\ NextAsked \in Paths /\ IsPrefix(NextAsked, Asked)
        /\ Last(NextAsked) \in Labels
        /\ NextAsked = Append(q.at, Last(NextAsked))
    <3> DEFINE p == q.at  r == Asked  next == NextAsked
    <3>1. /\ p \in Seq(Labels) /\ r \in Seq(Labels) /\ IsPrefix(p, r) /\ p # r
          /\ next = SubSeq(r, 1, Len(p) + 1)
      BY <1>1, <2>2, <2>3 DEF Paths, NextAsked
    <3> HIDE DEF p, r, next
    <3>2. /\ next \in Seq(Labels) /\ IsPrefix(next, r)
          /\ Last(next) \in Labels /\ next = Append(p, Last(next))
      BY <3>1, OneFurther
    <3> QED BY <3>2 DEF p, r, next, Paths
  <2>5. NextAsked \in DOMAIN nodes
    BY <1>1, <1>3, <2>4 DEF RegisteredInv, TreeInv, Tree, ChildrenAreNodes
  <2>6. NextAsked \in Seq({0, 1} \cup Labels)
    <3>1. Labels \subseteq {0, 1} \cup Labels OBVIOUS
    <3> QED BY <2>4, <3>1, SeqMonotonic DEF Paths
  <2>7. q' \in QueryType
    <3> HIDE DEF NextAsked
    <3> QED BY <2>1, <2>6 DEF QueryShape, QueryType
  <2>8. /\ q'.pc = "walk" /\ q'.n = q.n /\ q'.at = NextAsked /\ q'.ask = q.ask
        /\ q'.before = q.before /\ q'.tries = q.tries /\ q'.found = q.found
        /\ q'.stack = q.stack /\ q'.ips = q.ips
    BY <1>1, <2>1 DEF QueryShape, QueryType
  <2>9. Asked' = Asked BY <2>8 DEF Asked
  <2>10. q'.at \in DOMAIN nodes' /\ IsPrefix(q'.at, Asked')
    BY <1>1, <2>4, <2>5, <2>8, <2>9
  <2> QED BY <1>1, <2>7, <2>8, <2>10 DEF QueryShape, LooksOn, Lookup
<1> QED BY <1>2, <1>3

(* A node is visited: its address is collected, and its children are next. *)
LEMMA VisitShape ==
  ASSUME NameAssumption, RegisteredInv, NEW query \in QueryType,
         NEW p \in DOMAIN nodes, q' = Visit(query, p)
  PROVE  /\ q' \in QueryType /\ q'.pc = query.pc /\ q'.n = query.n
         /\ q'.ask = query.ask /\ q'.found = query.found
         /\ q'.tries = query.tries /\ q'.before = query.before
         /\ q'.known = query.known
         /\ q'.stack = Append(query.stack, Frame(p))
         /\ q'.ips = IF p \in named THEN Append(query.ips, p) ELSE query.ips
         /\ FrameShape(Frame(p)) /\ Frame(p) \in Frames
<1>1. p \in Paths /\ nodes[p] \in Seq(Labels)
  BY DEF RegisteredInv, TreeInv, TreeShape
<1>2. Frame(p) \in Frames BY <1>1 DEF Frame, Frames
<1>3. FrameShape(Frame(p)) BY <1>1 DEF Frame, FrameShape
<1>4. Append(query.stack, Frame(p)) \in Seq(Frames)
  BY <1>2 DEF QueryType
<1>5. (IF p \in named THEN Append(query.ips, p) ELSE query.ips) \in Seq(Paths)
  BY <1>1 DEF QueryType
<1>6. q' = [query EXCEPT !.stack = Append(query.stack, Frame(p)),
              !.ips = IF p \in named THEN Append(query.ips, p) ELSE query.ips]
  BY DEF Visit
<1> QED BY <1>2, <1>3, <1>4, <1>5, <1>6 DEF QueryType

LEMMA ReachedKeepsShape ==
  ASSUME NameAssumption, RegisteredInv, QueryShape, Reached
  PROVE  QueryShape' /\ LooksOn
<1> DEFINE query == [q EXCEPT !.pc = "collect"]
<1>1. /\ q.pc = "walk" /\ q.at = Asked /\ q.n \in 1..MaxQueries
      /\ UNCHANGED <<flight, sock, late, trie, nodes, named>>
      /\ q.at \in DOMAIN nodes /\ q' = Visit(query, q.at)
  BY DEF Reached, Looks, OnlyQuery, treeVars, QueryShape
<1>2. query \in QueryType BY DEF QueryShape, QueryType, QueryPcs
<1>3. /\ query.pc = "collect" /\ query.n = q.n /\ query.ask = q.ask
      /\ query.found = q.found /\ query.tries = q.tries
      /\ query.before = q.before /\ query.stack = q.stack
  BY DEF QueryShape, QueryType
<1> HIDE DEF query
<1>4. /\ q' \in QueryType /\ q'.pc = "collect" /\ q'.n = q.n /\ q'.ask = q.ask
      /\ q'.found = q.found /\ q'.tries = q.tries /\ q'.before = q.before
      /\ q'.stack = Append(q.stack, Frame(q.at)) /\ FrameShape(Frame(q.at))
      /\ Frame(q.at) \in Frames
  BY <1>1, <1>2, <1>3, VisitShape
<1>5. q'.stack = <<Frame(q.at)>>
  <2>1. q.stack = <<>> BY <1>1 DEF QueryShape
  <2> QED BY <1>4, <2>1
<1>6. \A f : FrameShape(f)' = FrameShape(f) BY <1>1 DEF FrameShape
<1> QED BY <1>1, <1>4, <1>5, <1>6 DEF QueryShape, LooksOn, Lookup

(* The innermost iterator.                                                 *)
LEMMA TopShape ==
  ASSUME QueryShape, q.pc = "collect"
  PROVE  /\ Len(q.stack) \in DOMAIN q.stack /\ Top = q.stack[Len(q.stack)]
         /\ Len(q.stack) \in Nat /\ Len(q.stack) > 0
         /\ Top \in Frames /\ FrameShape(Top) /\ q.stack \in Seq(Frames)
<1>1. q.stack \in Seq(Frames) /\ q.stack # <<>>
  BY DEF QueryShape, QueryType, Frames
<1>2. /\ Len(q.stack) \in DOMAIN q.stack
      /\ Len(q.stack) \in Nat /\ Len(q.stack) > 0
  BY <1>1
<1> QED BY <1>1, <1>2 DEF Top, Last, QueryShape

LEMMA ChildKeepsShape ==
  ASSUME NameAssumption, RegisteredInv, QueryShape, Child
  PROVE  /\ QueryShape' /\ LooksOn
         /\ LET child == Append(Top.node, nodes[Top.node][Top.i + 1]) IN
            /\ nodes[Top.node][Top.i + 1] \in Labels
            /\ child \in DOMAIN nodes
            /\ q'.stack = Append(Advanced.stack, Frame(child))
            /\ Advanced.stack = [q.stack EXCEPT ![Len(q.stack)] =
                                   [Top EXCEPT !.i = Top.i + 1]]
            /\ q'.ips = IF child \in named THEN Append(q.ips, child) ELSE q.ips
            /\ q'.ask = q.ask /\ q'.found = q.found /\ q'.before = q.before
            /\ q'.known = q.known /\ q'.pc = "collect"
<1> DEFINE label == nodes[Top.node][Top.i + 1]  child == Append(Top.node, label)
           f == [Top EXCEPT !.i = Top.i + 1]
           stack == [q.stack EXCEPT ![Len(q.stack)] = f]
<1>1. /\ q.pc = "collect" /\ ~Grown /\ Top.i < Top.size /\ q.n \in 1..MaxQueries
      /\ UNCHANGED <<flight, sock, late, trie, nodes, named>>
      /\ q' = Visit(Advanced, child)
  BY DEF Child, Looks, OnlyQuery, treeVars, QueryShape
<1>2. /\ Len(q.stack) \in DOMAIN q.stack /\ Top = q.stack[Len(q.stack)]
      /\ Len(q.stack) \in Nat /\ Len(q.stack) > 0
      /\ Top \in Frames /\ FrameShape(Top) /\ q.stack \in Seq(Frames)
  BY <1>1, TopShape
<1>3. /\ Top.node \in DOMAIN nodes /\ Top.i \in Nat /\ Top.size \in Nat
      /\ Len(nodes[Top.node]) = Top.size
  BY <1>1, <1>2 DEF FrameShape, Grown, Frames
<1>4. Top.node \in Seq(Labels) /\ nodes[Top.node] \in Seq(Labels)
  BY <1>3 DEF RegisteredInv, TreeInv, TreeShape, Paths
<1>5. Top.i + 1 \in DOMAIN nodes[Top.node] BY <1>1, <1>3, <1>4
<1>6. label \in Labels /\ label \in Range(nodes[Top.node])
  BY <1>4, <1>5 DEF Range
<1>7. child \in DOMAIN nodes
  BY <1>3, <1>6 DEF RegisteredInv, TreeInv, Tree, ChildrenAreNodes
<1>8. f \in Frames /\ f.node = Top.node /\ f.size = Top.size /\ f.i = Top.i + 1
  <2>1. \A g \in Frames : LET h == [g EXCEPT !.i = g.i + 1] IN
          h \in Frames /\ h.node = g.node /\ h.size = g.size /\ h.i = g.i + 1
    BY DEF Frames
  <2> QED BY <1>2, <2>1
<1>9. FrameShape(f) BY <1>1, <1>2, <1>3, <1>8 DEF FrameShape
<1> HIDE DEF f
<1>10. stack \in Seq(Frames) /\ Len(stack) = Len(q.stack)
       /\ \A k \in DOMAIN stack :
             stack[k] = IF k = Len(q.stack) THEN f ELSE q.stack[k]
  BY <1>2, <1>8
<1>11. Advanced = [q EXCEPT !.stack = stack]
  BY <1>2 DEF Advanced, f, QueryShape, QueryType
<1>12. Advanced \in QueryType
  <2> HIDE DEF stack
  <2> QED BY <1>10, <1>11 DEF QueryShape, QueryType, Frames
<1>13. /\ Advanced.pc = q.pc /\ Advanced.n = q.n /\ Advanced.ask = q.ask
       /\ Advanced.found = q.found /\ Advanced.tries = q.tries
       /\ Advanced.before = q.before /\ Advanced.stack = stack
       /\ Advanced.ips = q.ips /\ Advanced.known = q.known
  BY <1>11 DEF QueryShape, QueryType
<1> HIDE DEF child, stack
<1>14. /\ q' \in QueryType /\ q'.pc = "collect" /\ q'.n = q.n /\ q'.ask = q.ask
       /\ q'.found = q.found /\ q'.tries = q.tries /\ q'.before = q.before
       /\ q'.known = q.known
       /\ q'.stack = Append(stack, Frame(child)) /\ FrameShape(Frame(child))
       /\ Frame(child) \in Frames
       /\ q'.ips = IF child \in named THEN Append(q.ips, child) ELSE q.ips
  BY <1>1, <1>7, <1>12, <1>13, VisitShape
<1>16. /\ q'.stack # <<>>
       /\ \A k \in DOMAIN q'.stack :
            \/ q'.stack[k] = Frame(child)
            \/ k \in DOMAIN stack /\ q'.stack[k] = stack[k]
  <2> DEFINE g == Frame(child)
             t == Append(stack, g)
  <2>1. stack \in Seq(Frames) /\ g \in Frames /\ q'.stack = t BY <1>10, <1>14
  <2> HIDE DEF g
  <2>2. /\ t # <<>> /\ DOMAIN t = 1..(Len(stack) + 1) /\ DOMAIN stack = 1..Len(stack)
        /\ Len(stack) \in Nat /\ t[Len(stack) + 1] = g
        /\ \A k \in 1..Len(stack) : t[k] = stack[k]
    BY SMTT(30), <2>1
  <2> HIDE DEF t
  <2>3. \A k \in DOMAIN t : k = Len(stack) + 1 \/ k \in 1..Len(stack) BY <2>2
  <2> QED BY <2>1, <2>2, <2>3 DEF g
<1>17. \A k \in DOMAIN stack : FrameShape(stack[k])
  BY <1>1, <1>2, <1>9, <1>10 DEF QueryShape
<1>18. \A k \in DOMAIN q'.stack : FrameShape(q.stack[k])'
  BY <1>1, <1>14, <1>16, <1>17 DEF FrameShape
<1>19. QueryShape' /\ LooksOn
  BY <1>1, <1>14, <1>16, <1>18 DEF QueryShape, LooksOn, Lookup
<1> QED BY <1>6, <1>7, <1>13, <1>14, <1>19 DEF child, stack, f

LEMMA FrontOf ==
  ASSUME NEW S, NEW s \in Seq(S), Len(s) > 1
  PROVE  /\ Front(s) \in Seq(S) /\ Front(s) # <<>>
         /\ \A k \in DOMAIN Front(s) : k \in DOMAIN s /\ Front(s)[k] = s[k]
<1> DEFINE t == SubSeq(s, 1, Len(s) - 1)
<1>1. Len(s) \in Nat /\ Len(s) - 1 \in Nat /\ Len(s) - 1 > 0 OBVIOUS
<1>2. /\ t \in Seq(S) /\ DOMAIN t = 1..Len(s) - 1 /\ Len(t) = Len(s) - 1
      /\ \A k \in 1..Len(s) - 1 : t[k] = s[k]
  BY <1>1
<1> HIDE DEF t
<1>3. t # <<>> BY <1>1, <1>2
<1>4. \A k \in 1..Len(s) - 1 : k \in DOMAIN s BY <1>1
<1>5. Front(s) = t BY DEF Front, t
<1> QED BY <1>2, <1>3, <1>4, <1>5

LEMMA ReturnKeepsShape ==
  ASSUME NameAssumption, RegisteredInv, QueryShape, Return \/ Raise
  PROVE  QueryShape' /\ LooksOn
<1>1. /\ q.pc = "collect" /\ q.n \in 1..MaxQueries
      /\ UNCHANGED <<flight, sock, late, trie, nodes, named>>
  BY DEF Return, Raise, Looks, OnlyQuery, treeVars, QueryShape
<1>2. CASE Raise
  <2>1. q' = LookedUp("raised") BY <1>2 DEF Raise
  <2> QED BY <1>1, <2>1, LookedUpShape DEF LooksOn, Lookup, Done
<1>3. CASE Return /\ ~(Len(q.stack) > 1)
  <2>1. q' = LookedUp("send") \/ q' = LookedUp("answered")
    BY <1>3 DEF Return
  <2> QED BY <1>1, <2>1, LookedUpShape DEF LooksOn, Lookup, Done
<1>4. CASE Return /\ Len(q.stack) > 1
  <2>1. q' = [q EXCEPT !.stack = Front(q.stack)] BY <1>4 DEF Return
  <2>2. q.stack \in Seq(Frames) BY <1>1, TopShape
  <2>3. /\ Front(q.stack) \in Seq(Frames) /\ Front(q.stack) # <<>>
        /\ \A k \in DOMAIN Front(q.stack) :
              k \in DOMAIN q.stack /\ Front(q.stack)[k] = q.stack[k]
    <3>1. Front(q.stack) # <<>> BY <1>4, <2>2, FrontOf
    <3>2. Front(q.stack) \in Seq(Frames) BY <1>4, <2>2, FrontOf
    <3>3. \A k \in DOMAIN Front(q.stack) :
            k \in DOMAIN q.stack /\ Front(q.stack)[k] = q.stack[k]
      BY <1>4, <2>2, FrontOf
    <3> QED BY <3>1, <3>2, <3>3
  <2>4. /\ q' \in QueryType /\ q'.pc = "collect" /\ q'.n = q.n /\ q'.ask = q.ask
        /\ q'.found = q.found /\ q'.tries = q.tries /\ q'.before = q.before
        /\ q'.stack = Front(q.stack)
    BY <1>1, <2>1, <2>3 DEF QueryShape, QueryType, Frames
  <2>5. \A f : FrameShape(f)' = FrameShape(f) BY <1>1 DEF FrameShape
  <2> QED BY <1>1, <2>3, <2>4, <2>5 DEF QueryShape, LooksOn, Lookup
<1> QED BY <1>2, <1>3, <1>4

LEMMA LookupKeepsShape ==
  ASSUME NameAssumption, RegisteredInv, TrieInv, QueryShape,
         FindBit \/ Found \/ Walk \/ Reached \/ Child \/ Return \/ Raise
  PROVE  QueryShape' /\ LooksOn
  BY FindKeepsShape, WalkKeepsShape, ReachedKeepsShape, ChildKeepsShape,
     ReturnKeepsShape

(* The steps to the forwarders and back.                                   *)
LEMMA SendKeepsShape ==
  ASSUME NameAssumption, QueryShape, Send \/ Timeout
  PROVE  /\ QueryShape' /\ q'.n = q.n /\ q.n \in 1..MaxQueries
         /\ IF Send THEN q'.pc = "recv" /\ q'.tries = q.tries + 1
            ELSE q'.pc = "send" /\ q'.tries = q.tries
<1>1. /\ q.pc \in {"send", "recv"} /\ q.n \in 1..MaxQueries
      /\ UNCHANGED <<trie, nodes, named>> /\ (Send => ~Timeout)
  BY DEF Send, Timeout, OnlyQuery, treeVars, QueryShape
<1>2. IF Send THEN q' = [q EXCEPT !.pc = "recv", !.tries = q.tries + 1]
      ELSE q' = [q EXCEPT !.pc = "send"]
  BY <1>1 DEF Send, Timeout
<1>3. /\ q' \in QueryType /\ q'.before = q.before /\ q'.n = q.n
      /\ IF Send THEN q'.pc = "recv" /\ q'.tries = q.tries + 1
         ELSE q'.pc = "send" /\ q'.tries = q.tries
  <2>1. q \in QueryType /\ {"send", "recv"} \subseteq QueryPcs
    BY DEF QueryShape, QueryPcs
  <2>2. CASE Send
    <3>1. q.tries + 1 \in Nat BY <2>1 DEF QueryType
    <3>2. q' = [q EXCEPT !.pc = "recv", !.tries = q.tries + 1] BY <1>2, <2>2
    <3> QED BY <2>1, <2>2, <3>1, <3>2 DEF QueryType
  <2>3. CASE ~Send BY ZenonT(40), <1>2, <2>1, <2>3 DEF QueryType
  <2> QED BY <2>2, <2>3
<1>4. q'.pc \notin {"idle", "find", "walk", "collect"} BY <1>3
<1> QED BY <1>1, <1>3, <1>4 DEF QueryShape

(* So do those of a forwarding that failed.                                *)
LEMMA FailKeepsShape ==
  ASSUME NameAssumption, QueryShape, SendFails \/ Unparsable
  PROVE  /\ QueryShape' /\ q'.n = q.n /\ q.n \in 1..MaxQueries /\ q'.pc = "send"
         /\ SendFails => q.pc = "send" /\ q'.tries = q.tries + 1
         /\ Unparsable => q.pc = "recv" /\ q'.tries = q.tries
<1>1. /\ q.pc \in {"send", "recv"} /\ q.n \in 1..MaxQueries
      /\ UNCHANGED <<trie, nodes, named>>
  BY DEF SendFails, Unparsable, Looks, OnlyQuery, treeVars, QueryShape
<1>2. q \in QueryType /\ "send" \in QueryPcs
  BY DEF QueryShape, QueryPcs
<1>3. CASE SendFails
  <2>1. q.pc = "send" /\ q' = [q EXCEPT !.tries = q.tries + 1] /\ ~Unparsable
    BY <1>3 DEF SendFails, Unparsable
  <2>2. q.tries + 1 \in Nat BY <1>2 DEF QueryType
  <2>3. /\ q' \in QueryType /\ q'.before = q.before /\ q'.n = q.n
        /\ q'.pc = "send" /\ q'.tries = q.tries + 1
    BY <1>2, <2>1, <2>2 DEF QueryType
  <2> QED BY <1>1, <2>1, <2>3 DEF QueryShape
<1>4. CASE Unparsable
  <2>1. q.pc = "recv" /\ q' = [q EXCEPT !.pc = "send"] /\ ~SendFails
    BY <1>4 DEF SendFails, Unparsable
  <2>2. /\ q' \in QueryType /\ q'.before = q.before /\ q'.n = q.n
        /\ q'.pc = "send" /\ q'.tries = q.tries
    BY <1>2, <2>1 DEF QueryType
  <2> QED BY <1>1, <2>1, <2>2 DEF QueryShape
<1> QED BY <1>3, <1>4

LEMMA ReceiveKeepsShape ==
  ASSUME NameAssumption, QueryShape, sock \in Seq(1..MaxQueries), Receive
  PROVE  /\ QueryShape' /\ q'.n = q.n /\ q.n \in 1..MaxQueries
         /\ q'.pc = "forwarded" /\ q'.reply = Head(sock)
<1>1. /\ q.pc = "recv" /\ q.n \in 1..MaxQueries
      /\ UNCHANGED <<trie, nodes, named>> /\ sock # <<>>
      /\ q' = [LookedUp("forwarded") EXCEPT !.reply = Head(sock)]
  BY DEF Receive, OnlyQuery, treeVars, QueryShape
<1>2. q' = [pc |-> "forwarded", n |-> q.n, ask |-> None, at |-> <<>>,
            found |-> None, stack |-> <<>>, ips |-> <<>>, tries |-> 0,
            reply |-> Head(sock), before |-> {}, known |-> {}]
  BY <1>1 DEF LookedUp, NoQuery
<1>3. /\ <<>> \in Seq({0, 1} \cup Labels) /\ <<>> \in Seq(Paths)
      /\ <<>> \in Seq(Frames) /\ "forwarded" \in QueryPcs
      /\ Head(sock) \in 1..MaxQueries /\ MaxQueries \in Nat
  BY <1>1, NameAssumption DEF QueryPcs, Done, MaxQueries, NameAssumption
<1>4. q' \in QueryType
  <2>1. q.n \in 0..MaxQueries /\ Head(sock) \in 0..MaxQueries BY <1>1, <1>3
  <2> HIDE <1>1
  <2> QED BY <1>2, <1>3, <2>1 DEF QueryType
<1>5. /\ q'.pc = "forwarded" /\ q'.n = q.n /\ q'.before = {}
      /\ q'.reply = Head(sock)
  BY <1>2
<1> QED BY <1>1, <1>4, <1>5 DEF QueryShape

(* Whatever the others insert, the query keeps what it has found.          *)
LEMMA OthersKeepShape ==
  ASSUME QueryShape, UNCHANGED q, RegisteredInv, RegisteredInv', Grows, TrieGrows
  PROVE  QueryShape'
<1>1. \A f \in Frames : FrameShape(f) => FrameShape(f)'
  <2> SUFFICES ASSUME NEW f \in Frames, FrameShape(f) PROVE FrameShape(f)'
    OBVIOUS
  <2>1. f.node \in DOMAIN nodes /\ f.node \in DOMAIN nodes'
    BY DEF FrameShape, Grows
  <2>2. nodes[f.node] \in Seq(Labels) /\ nodes'[f.node] \in Seq(Labels)
    BY <2>1 DEF RegisteredInv, TreeInv, TreeShape
  <2>3. Len(nodes[f.node]) <= Len(nodes'[f.node])
    BY <2>1, <2>2 DEF Grows, IsPrefix
  <2>4. f.i \in Nat /\ f.size \in Nat BY DEF Frames
  <2>5. f.i <= f.size /\ f.size <= Len(nodes'[f.node])
    BY <2>2, <2>3, <2>4 DEF FrameShape
  <2> QED BY <2>1, <2>5 DEF FrameShape
<1>2. DOMAIN trie \subseteq DOMAIN trie' /\ DOMAIN nodes \subseteq DOMAIN nodes'
      /\ named \subseteq named'
  BY DEF Grows, TrieGrows
<1>3. Asked' = Asked BY DEF Asked
<1>4. q.pc = "collect" => \A k \in DOMAIN q.stack : FrameShape(q.stack[k])'
  <2> SUFFICES ASSUME q.pc = "collect", NEW k \in DOMAIN q.stack
               PROVE  FrameShape(q.stack[k])'
    OBVIOUS
  <2>1. FrameShape(q.stack[k]) /\ q.stack[k] \in Frames
    BY DEF QueryShape, QueryType
  <2> QED BY <1>1, <2>1 DEF FrameShape
<1> QED BY <1>2, <1>3, <1>4 DEF QueryShape

-----------------------------------------------------------------------------
(* What is outstanding at the forwarders.                                  *)

LEMMA LooksKeepReplies ==
  ASSUME QueryShape, Replies, LooksOn PROVE Replies'
<1>1. /\ UNCHANGED <<flight, sock, late>> /\ q'.n = q.n /\ q.n \in 1..MaxQueries
      /\ q.pc \in {"find", "walk", "collect"} /\ q'.tries = 0 /\ flight[q.n] = 0
      /\ q'.pc \notin {"recv", "forwarded"}
  BY DEF LooksOn, Lookup, Replies, QueryShape
<1>2. OneAtATime => OneAtATime' BY <1>1 DEF OneAtATime
<1>3. 0 <= Forwarders BY <1>1 DEF Replies
<1> QED BY <1>1, <1>2, <1>3 DEF Replies

LEMMA AskKeepsReplies ==
  ASSUME NameAssumption, RegisteredInv, QueryShape, Replies, q.n < MaxQueries,
         NEW x \in Questions[q.n + 1], Ask(x)
  PROVE  Replies'
<1>1. /\ q'.n = q.n + 1 /\ q'.tries = 0 /\ q'.pc \in {"find", "send"}
      /\ UNCHANGED <<flight, sock, late>>
  BY AskKeepsShape
<1>2. q.n \in 0..MaxQueries /\ MaxQueries \in Nat /\ Forwarders \in Nat
  BY NameAssumption
     DEF QueryShape, QueryType, MaxQueries, NameAssumption
<1>3. q.n + 1 \in 1..MaxQueries /\ flight[q.n + 1] = 0 BY <1>2 DEF Replies
<1>4. q.pc # "recv" BY DEF Ask, Done
<1>5. OneAtATime => OneAtATime' BY <1>1, <1>2, <1>3, <1>4 DEF OneAtATime
<1>6. \A i \in 1..MaxQueries : i > q'.n => flight'[i] = 0
  BY <1>1, <1>2 DEF Replies
<1> QED BY <1>1, <1>2, <1>3, <1>5, <1>6 DEF Replies

LEMMA SendKeepsReplies ==
  ASSUME NameAssumption, QueryShape, Replies,
         Send \/ Timeout \/ NoForwarderLeft
  PROVE  Replies'
<1>1. Forwarders \in Nat /\ q.n \in 1..MaxQueries
  BY NameAssumption
     DEF NameAssumption, QueryShape, Send, Timeout, NoForwarderLeft
<1>2. CASE Send
  <2>1. /\ q'.n = q.n /\ q'.pc = "recv" /\ q'.tries = q.tries + 1
    BY <1>2, SendKeepsShape
  <2>2. /\ flight' = [flight EXCEPT ![q.n] = flight[q.n] + 1] /\ q.pc = "send"
        /\ UNCHANGED <<sock, late>> /\ q.tries < Forwarders
    BY <1>2 DEF Send
  <2>3. q.tries \in Nat /\ flight[q.n] \in Nat /\ flight[q.n] <= q.tries
    BY <1>1, <2>2 DEF Replies, QueryShape, QueryType
  <2>4. flight[q.n] + 1 \in 0..Forwarders /\ flight[q.n] + 1 <= q.tries + 1
    BY <1>1, <2>2, <2>3
  <2>5. /\ flight' \in [1..MaxQueries -> 0..Forwarders]
        /\ flight'[q.n] = flight[q.n] + 1
        /\ \A i \in 1..MaxQueries : i # q.n => flight'[i] = flight[i]
    BY <1>1, <2>2, <2>4 DEF Replies
  <2>6. OneAtATime => OneAtATime'
    BY <1>1, <2>1, <2>2, <2>5 DEF OneAtATime
  <2>7. \A i \in 1..MaxQueries : i > q'.n => flight'[i] = 0
    BY <1>1, <2>1, <2>5 DEF Replies
  <2>8. flight'[q'.n] <= q'.tries /\ q'.tries <= Forwarders
    BY <1>1, <2>1, <2>2, <2>3, <2>4, <2>5
  <2> QED BY <2>1, <2>2, <2>5, <2>6, <2>7, <2>8 DEF Replies
<1>3. CASE Timeout
  <2>1. /\ q'.n = q.n /\ q'.pc = "send" /\ q'.tries = q.tries
    <3>1. ~Send BY <1>3 DEF Timeout, Send
    <3> QED BY <1>3, <3>1, SendKeepsShape
  <2>2. q.pc = "recv" /\ late' = TRUE /\ UNCHANGED <<flight, sock>>
    BY <1>3 DEF Timeout
  <2> QED BY <2>1, <2>2 DEF Replies
<1>4. CASE NoForwarderLeft
  <2>1. /\ q.pc = "send" /\ q' = LookedUp("empty")
        /\ UNCHANGED <<flight, sock, late>>
    BY <1>4 DEF NoForwarderLeft, Looks
  <2>2. q'.pc = "empty" /\ q'.n = q.n BY <1>1, <2>1, LookedUpShape DEF Done
  <2>3. OneAtATime => OneAtATime' BY <2>1, <2>2 DEF OneAtATime
  <2> QED BY <2>1, <2>2, <2>3 DEF Replies
<1> QED BY <1>2, <1>3, <1>4

(* What was sent to a forwarder that failed is in no one's hands any more. *)
LEMMA FailKeepsReplies ==
  ASSUME NameAssumption, QueryShape, Replies, SendFails \/ Unparsable
  PROVE  Replies'
<1>1. Forwarders \in Nat /\ q.n \in 1..MaxQueries
  BY NameAssumption, FailKeepsShape DEF NameAssumption
<1>2. flight[q.n] \in Nat /\ q.tries \in Nat
  BY <1>1 DEF Replies, QueryShape, QueryType
<1>3. q'.n = q.n /\ q'.pc = "send" BY FailKeepsShape
<1>4. CASE SendFails
  <2>1. /\ q.pc = "send" /\ q'.tries = q.tries + 1 /\ q.tries < Forwarders
        /\ UNCHANGED <<flight, sock, late>>
    BY <1>4, FailKeepsShape DEF SendFails, Looks
  <2>2. q'.tries <= Forwarders BY <1>1, <1>2, <2>1
  <2>3. flight'[q'.n] <= q'.tries BY <1>2, <1>3, <2>1 DEF Replies
  <2>4. OneAtATime => OneAtATime' BY <1>3, <2>1 DEF OneAtATime
  <2> QED BY <1>3, <2>1, <2>2, <2>3, <2>4 DEF Replies
<1>5. CASE Unparsable
  <2>1. /\ q.pc = "recv" /\ q'.tries = q.tries /\ sock # <<>>
        /\ sock' = Tail(sock) /\ UNCHANGED <<flight, late>>
    BY <1>5, FailKeepsShape DEF Unparsable
  <2>2. sock' \in Seq(1..MaxQueries) BY <2>1 DEF Replies
  <2>3. OneAtATime => OneAtATime'
    <3> SUFFICES ASSUME OneAtATime PROVE OneAtATime' OBVIOUS
    <3>1. sock = <<q.n>> /\ flight[q.n] = 0 BY <2>1 DEF OneAtATime
    <3>2. sock' = <<>> BY <2>1, <3>1
    <3> QED BY <1>3, <2>1, <3>1, <3>2 DEF OneAtATime
  <2> QED BY <1>3, <2>1, <2>2, <2>3 DEF Replies
<1> QED BY <1>4, <1>5

LEMMA ReceiveKeepsReplies ==
  ASSUME NameAssumption, QueryShape, Replies, Receive PROVE Replies'
<1>1. /\ q.pc = "recv" /\ sock # <<>> /\ sock' = Tail(sock)
      /\ UNCHANGED <<flight, late>>
  BY DEF Receive
<1>2. /\ q'.n = q.n /\ q.n \in 1..MaxQueries /\ q'.pc = "forwarded"
      /\ q'.reply = Head(sock)
  BY ReceiveKeepsShape DEF Replies
<1>3. sock' \in Seq(1..MaxQueries) BY <1>1 DEF Replies
<1>4. OneAtATime => OneAtATime'
  <2> SUFFICES ASSUME OneAtATime PROVE OneAtATime' OBVIOUS
  <2>1. sock = <<q.n>> /\ flight[q.n] = 0 BY <1>1 DEF OneAtATime
  <2>2. Head(sock) = q.n /\ sock' = <<>> BY <1>1, <2>1
  <2> QED BY <1>1, <1>2, <2>1, <2>2 DEF OneAtATime
<1> QED BY <1>1, <1>2, <1>3, <1>4 DEF Replies

LEMMA ReplyKeepsReplies ==
  ASSUME NameAssumption, QueryShape, Replies, NEW i \in 1..MaxQueries, Reply(i)
  PROVE  Replies' /\ UNCHANGED q
<1>1. /\ flight[i] > 0 /\ flight' = [flight EXCEPT ![i] = flight[i] - 1]
      /\ sock' = Append(sock, i) /\ UNCHANGED <<q, late>>
  BY DEF Reply
<1>2. flight[i] \in 0..Forwarders /\ Forwarders \in Nat
  BY NameAssumption DEF Replies, NameAssumption
<1>3. flight[i] - 1 \in 0..Forwarders BY <1>1, <1>2
<1>4. /\ flight' \in [1..MaxQueries -> 0..Forwarders]
      /\ flight'[i] = flight[i] - 1
      /\ \A j \in 1..MaxQueries : j # i => flight'[j] = flight[j]
  BY <1>1, <1>3 DEF Replies
<1>5. sock' \in Seq(1..MaxQueries)
  <2>1. sock \in Seq(1..MaxQueries) BY DEF Replies
  <2>2. Append(sock, i) \in Seq(1..MaxQueries) BY <2>1
  <2> QED BY <1>1, <2>1, <2>2
<1>6. OneAtATime => OneAtATime'
  <2> SUFFICES ASSUME OneAtATime PROVE OneAtATime' OBVIOUS
  <2>1. i = q.n BY <1>1 DEF OneAtATime
  <2>2. q.pc = "recv" /\ flight[i] = 1 /\ sock = <<>>
    BY <1>1, <2>1 DEF OneAtATime
  <2>3. sock' \in {<<>>, <<q.n>>} /\ flight'[i] = 0 BY <1>1, <1>4, <2>1, <2>2
  <2> QED BY <1>1, <1>4, <2>1, <2>2, <2>3 DEF OneAtATime
<1>7. flight[i] # 0 BY <1>1, <1>2
<1>8. \A j \in 1..MaxQueries : j > q'.n => flight'[j] = 0
  BY <1>1, <1>4, <1>7 DEF Replies
<1>9. q.pc \in {"find", "walk", "collect", "send", "recv"} =>
        q.n \in 1..MaxQueries
  BY DEF QueryShape
<1>10. q'.pc \in {"find", "walk", "collect"} =>
         flight'[q'.n] = 0 /\ q'.tries = 0
  BY <1>1, <1>4, <1>7, <1>9 DEF Replies
<1>11. q'.pc \in {"send", "recv"} =>
         flight'[q'.n] <= q'.tries /\ q'.tries <= Forwarders
  <2>1. q.tries \in Nat BY DEF QueryShape, QueryType
  <2>2. q.pc \in {"send", "recv"} => flight[q.n] \in Nat
    BY <1>9 DEF Replies
  <2> QED BY <1>1, <1>2, <1>4, <1>9, <2>1, <2>2 DEF Replies
<1> QED BY <1>1, <1>4, <1>5, <1>6, <1>8, <1>10, <1>11 DEF Replies

QueryInv == RegisteredInv /\ TrieInv /\ QueryShape /\ Replies

LEMMA InitQueryInv == ASSUME NameAssumption, Init PROVE QueryInv
  BY InitRegistered, InitTrie, InitQuery DEF QueryInv

LEMMA NextQueryInv ==
  ASSUME NameAssumption, QueryInv, [Next]_vars
  PROVE  QueryInv' /\ Grows /\ TrieGrows
<1>1. RegisteredInv /\ TrieInv /\ QueryShape /\ Replies BY DEF QueryInv
<1>2. RegisteredInv' /\ Grows BY <1>1, NextRegistered
<1>3. TrieInv' /\ TrieGrows BY <1>1, NextTrie
<1>4. CASE UNCHANGED queryVars
  <2>1. QueryShape' BY <1>1, <1>2, <1>3, <1>4, OthersKeepShape DEF queryVars
  <2>2. Replies' BY <1>1, <1>4 DEF queryVars, Replies, OneAtATime
  <2> QED BY <1>2, <1>3, <2>1, <2>2 DEF QueryInv
<1>5. CASE Resolve
  <2>1. CASE FindBit \/ Found \/ Walk \/ Reached \/ Child \/ Return \/ Raise
    BY <1>1, <1>2, <1>3, <2>1, LookupKeepsShape, LooksKeepReplies DEF QueryInv
  <2>2. CASE Send \/ Timeout
    BY <1>1, <1>2, <1>3, <2>2, SendKeepsShape, SendKeepsReplies DEF QueryInv
  <2>3. CASE NoForwarderLeft
    <3>1. q' = LookedUp("empty") /\ q.n \in 1..MaxQueries
      BY <1>1, <2>3 DEF NoForwarderLeft, QueryShape
    <3>2. QueryShape' BY <1>1, <3>1, LookedUpShape DEF Done
    <3> QED BY <1>1, <1>2, <1>3, <2>3, <3>2, SendKeepsReplies DEF QueryInv
  <2>4. CASE Receive
    <3>1. sock \in Seq(1..MaxQueries) BY <1>1 DEF Replies
    <3> QED BY <1>1, <1>2, <1>3, <2>4, <3>1, ReceiveKeepsShape,
               ReceiveKeepsReplies
            DEF QueryInv
  <2>5. CASE SendFails \/ Unparsable
    BY <1>1, <1>2, <1>3, <2>5, FailKeepsShape, FailKeepsReplies DEF QueryInv
  <2> QED BY <1>5, <2>1, <2>2, <2>3, <2>4, <2>5 DEF Resolve
<1>6. CASE q.n < MaxQueries /\ \E x \in Questions[q.n + 1] : Ask(x)
  BY <1>1, <1>2, <1>3, <1>6, AskKeepsShape, AskKeepsReplies DEF QueryInv
<1>7. CASE \E i \in 1..MaxQueries : Reply(i)
  <2>1. Replies' /\ UNCHANGED q BY <1>1, <1>7, ReplyKeepsReplies
  <2>2. QueryShape' BY <1>1, <1>2, <1>3, <2>1, OthersKeepShape
  <2> QED BY <1>2, <1>3, <2>1, <2>2 DEF QueryInv
<1> QED BY <1>4, <1>5, <1>6, <1>7, WhoActs

(* Until a forwarder is given up, a query gets the reply to itself and not *)
(* that of an earlier one: only then can there be two in the socket the    *)
(* resolver has for its lifetime (DnsServer.forward_query).                *)
THEOREM OwnReply == Spec => []ReplyMatches
<1>1. QueryInv => ReplyMatches
  BY DEF QueryInv, Replies, OneAtATime, ReplyMatches
<1> QED BY <1>1, NameAssumption, InitQueryInv, NextQueryInv, PTL DEF Spec

(* The children of a node lead to nodes, an insert stands on its path and   *)
(* is the holder of DnsTree.lock's, and the trie names known networks only. *)
THEOREM TypeCorrect == Spec => []TypeOK
<1>1. QueryInv => TypeOK
  <2> SUFFICES ASSUME QueryInv PROVE TypeOK OBVIOUS
  <2>1. RegisteredInv /\ TrieInv /\ QueryShape /\ Replies BY DEF QueryInv
  <2>2. /\ named \cup answered \subseteq DOMAIN nodes
        /\ \A p \in DOMAIN nodes : \A l \in Range(nodes[p]) :
             Append(p, l) \in DOMAIN nodes
    <3>1. TreeShape /\ ChildrenAreNodes
      BY <2>1 DEF RegisteredInv, TreeInv, Tree
    <3>2. \A p \in DOMAIN nodes : Range(nodes[p]) \subseteq Labels
      BY <3>1 DEF TreeShape, Range
    <3> QED BY <3>1, <3>2 DEF TreeShape, ChildrenAreNodes
  <2>3. ASSUME NEW w \in Writers
        PROVE  /\ ins[w].pc \in {"idle", "lock", "step", "create"}
               /\ ins[w].pc \in {"step", "create"} <=> treeLock = w
               /\ IsPrefix(ins[w].at, ins[w].path)
    <3>1. /\ ins[w].pc \in {"idle", "lock", "step", "create"}
          /\ ins[w].path \in Seq(Labels)
      BY <2>1 DEF RegisteredInv, TreeInv, TreeShape, Paths
    <3>2. Inserting BY <2>1 DEF RegisteredInv, TreeInv
    <3>3. CASE ins[w].pc \in {"idle", "lock"}
      BY <3>1, <3>2, <3>3, EmptyPrefix DEF Inserting, OneInserts
    <3>4. CASE ins[w].pc \in {"step", "create"}
      BY <3>1, <3>2, <3>4 DEF Inserting, OneInserts, OnPath
    <3> QED BY <3>1, <3>3, <3>4
  <2>4. Range(trie) \subseteq Networks \cup {None} BY <2>1 DEF TrieInv, Range
  <2>5. /\ wk.pc \in {"idle", "subnet", "dns", "insert", "fork"}
        /\ wk.at \in DOMAIN trie /\ forked \subseteq Containers
    BY <2>1 DEF RegisteredInv, RegInv, WorkerShape
  <2>6. /\ q.pc \in {"idle", "find", "walk", "collect", "send", "recv"} \cup Done
        /\ q.found \in Networks \cup {None} /\ q.n \in 0..MaxQueries
    BY <2>1 DEF QueryShape, QueryType, QueryPcs
  <2>7. /\ flight \in [1..MaxQueries -> 0..Forwarders]
        /\ \A i \in DOMAIN sock : sock[i] \in 1..MaxQueries
    <3>1. sock \in Seq(1..MaxQueries) BY <2>1 DEF Replies
    <3>2. \A S : \A s \in Seq(S) : \A i \in DOMAIN s : s[i] \in S OBVIOUS
    <3>3. \A i \in DOMAIN sock : sock[i] \in 1..MaxQueries BY <3>1, <3>2
    <3> QED BY <2>1, <3>3 DEF Replies
  <2>8. \A w \in Writers : /\ ins[w].pc \in {"idle", "lock", "step", "create"}
                           /\ ins[w].pc \in {"step", "create"} <=> treeLock = w
                           /\ IsPrefix(ins[w].at, ins[w].path)
    BY <2>3
  <2> QED BY ONLY <2>2, <2>4, <2>5, <2>6, <2>7, <2>8, Zenon DEF TypeOK
<1> QED BY <1>1, NameAssumption, InitQueryInv, NextQueryInv, PTL DEF Spec

-----------------------------------------------------------------------------
(* Lookups: the network of the client and the addresses of the name.       *)

(* The most specific network known when the query was asked is passed on   *)
(* the way down the trie.                                                  *)
Specific(bits) ==
  \A n \in q.known : Len(Subnet[n]) <= bits =>
    q.found # None /\ Len(Subnet[n]) <= Len(Subnet[q.found])
FindInv ==
  /\ q.pc \in Lookup =>
       \A n \in q.known : /\ Subnet[n] \in DOMAIN trie /\ trie[Subnet[n]] = n
                          /\ IsPrefix(Subnet[n], q.ask.addr)
  /\ q.pc = "find" => IsPrefix(q.at, q.ask.addr) /\ Specific(Len(q.at))
  /\ q.pc \in {"walk", "collect"} => Specific(Width)

(* A path an iterator has not come to yet, and that any of them has not.   *)
Ahead(f, r) == \E j \in DOMAIN nodes[f.node] :
                 j > f.i /\ IsPrefix(Append(f.node, nodes[f.node][j]), r)
Pending(stack, r) == \E k \in DOMAIN stack : Ahead(stack[k], r)

(* The iterators lie on one path below the name asked: each but the        *)
(* innermost is at the child that leads to those within.                   *)
At(f, r) == f.i \in DOMAIN nodes[f.node]
            /\ IsPrefix(Append(f.node, nodes[f.node][f.i]), r)
Nested(stack) ==
  /\ \A k \in DOMAIN stack : IsPrefix(Asked, stack[k].node)
  /\ \A k, m \in DOMAIN stack : k < m => At(stack[k], stack[m].node)

(* What was registered is collected or still to come, never both, and what *)
(* is collected is registered under the name and counted once.             *)
Complete ==
  \A r \in Under(Asked, q.before) : r \in Range(q.ips) \/ Pending(q.stack, r)
Fresh == \A r \in Range(q.ips) : ~Pending(q.stack, r)
Counted == IsFiniteSet(Range(q.ips)) /\ Cardinality(Range(q.ips)) = Len(q.ips)
CollectInv ==
  q.pc = "collect" =>
    Nested(q.stack) /\ Complete /\ Fresh /\ Counted
    /\ Range(q.ips) \subseteq Under(Asked, named)

-----------------------------------------------------------------------------
(* Prefixes.                                                               *)

LEMMA PrefixByElements ==
  ASSUME NEW S, NEW p \in Seq(S), NEW r \in Seq(S)
  PROVE  IsPrefix(p, r) <=> /\ Len(p) <= Len(r)
                            /\ \A i \in 1..Len(p) : p[i] = r[i]
<1>1. Len(p) \in Nat /\ Len(r) \in Nat OBVIOUS
<1>2. SubSeq(p, 1, Len(p)) = p BY <1>1
<1>3. ASSUME Len(p) <= Len(r)
      PROVE  p = SubSeq(r, 1, Len(p)) <=> \A i \in 1..Len(p) : p[i] = r[i]
  <2>1. /\ SubSeq(r, 1, Len(p)) \in Seq(S) /\ Len(SubSeq(r, 1, Len(p))) = Len(p)
        /\ \A i \in 1..Len(p) : SubSeq(r, 1, Len(p))[i] = r[i]
    BY <1>1, <1>3
  <2> QED BY <2>1
<1> QED BY <1>2, <1>3 DEF IsPrefix

LEMMA PrefixIsTransitive ==
  ASSUME NEW S, NEW p \in Seq(S), NEW r \in Seq(S), NEW s \in Seq(S),
         IsPrefix(p, r), IsPrefix(r, s)
  PROVE  IsPrefix(p, s)
<1>1. /\ Len(p) \in Nat /\ Len(r) \in Nat /\ Len(s) \in Nat
      /\ Len(p) <= Len(r) /\ Len(r) <= Len(s)
      /\ \A i \in 1..Len(p) : p[i] = r[i]
      /\ \A i \in 1..Len(r) : r[i] = s[i]
  BY PrefixByElements
<1>2. Len(p) <= Len(s) /\ \A i \in 1..Len(p) : p[i] = s[i] BY <1>1
<1> QED BY <1>2, PrefixByElements

(* Of two prefixes of a sequence the shorter is one of the longer.         *)
LEMMA PrefixesCompare ==
  ASSUME NEW S, NEW p \in Seq(S), NEW r \in Seq(S), NEW s \in Seq(S),
         IsPrefix(p, s), IsPrefix(r, s), Len(p) <= Len(r)
  PROVE  IsPrefix(p, r) /\ (Len(p) = Len(r) => p = r)
<1>1. /\ Len(p) \in Nat /\ Len(r) \in Nat
      /\ \A i \in 1..Len(p) : p[i] = s[i]
      /\ \A i \in 1..Len(r) : r[i] = s[i]
  BY PrefixByElements
<1>2. \A i \in 1..Len(p) : p[i] = r[i] BY <1>1
<1>3. Len(p) = Len(r) => p = r BY <1>2
<1> QED BY <1>2, <1>3, PrefixByElements

LEMMA AppendPrefix ==
  ASSUME NEW S, NEW p \in Seq(S), NEW x \in S, NEW r \in Seq(S)
  PROVE  /\ Append(p, x) \in Seq(S) /\ Len(Append(p, x)) = Len(p) + 1
         /\ IsPrefix(p, Append(p, x))
         /\ IsPrefix(Append(p, x), r) <=>
              IsPrefix(p, r) /\ Len(p) < Len(r) /\ r[Len(p) + 1] = x
<1> DEFINE a == Append(p, x)
<1>1. /\ a \in Seq(S) /\ Len(a) = Len(p) + 1 /\ a[Len(p) + 1] = x
      /\ \A i \in 1..Len(p) : a[i] = p[i]
      /\ Len(p) \in Nat /\ Len(r) \in Nat
  OBVIOUS
<1> HIDE DEF a
<1>2. IsPrefix(p, a) BY <1>1, PrefixByElements
<1>3. 1..Len(a) = 1..Len(p) \cup {Len(p) + 1} BY <1>1
<1>4. IsPrefix(a, r) <=> Len(a) <= Len(r) /\ \A i \in 1..Len(a) : a[i] = r[i]
  BY <1>1, PrefixByElements
<1>5. IsPrefix(p, r) <=> Len(p) <= Len(r) /\ \A i \in 1..Len(p) : p[i] = r[i]
  BY PrefixByElements
<1>6. IsPrefix(a, r) <=> IsPrefix(p, r) /\ Len(p) < Len(r) /\ r[Len(p) + 1] = x
  BY <1>1, <1>3, <1>4, <1>5
<1> QED BY <1>1, <1>2, <1>6 DEF a

-----------------------------------------------------------------------------
(* The way down the trie.                                                  *)

LEMMA AddressIsSequence ==
  ASSUME NameAssumption, NEW x \in Query
  PROVE  x.addr \in Seq({0, 1}) /\ Len(x.addr) = Width
  BY DEF Query, NameAssumption

LEMMA OthersKeepFind ==
  ASSUME NameAssumption, QueryShape, FindInv, UNCHANGED q, TrieGrows
  PROVE  FindInv'
<1>1. q.known \subseteq Networks BY DEF QueryShape, QueryType
<1>2. None \notin Networks BY NameAssumption DEF NameAssumption
<1> QED BY <1>1, <1>2 DEF FindInv, TrieGrows, Specific

LEMMA AskKeepsFind ==
  ASSUME NameAssumption, RegisteredInv, QueryShape, q.n < MaxQueries,
         NEW x \in Questions[q.n + 1], Ask(x)
  PROVE  FindInv'
<1>1. x \in Query /\ q'.pc \in {"find", "send"} BY AskKeepsShape
<1>2. q'.known = Known(x.addr) /\ q'.ask = x /\ q'.at = <<>> /\ UNCHANGED trie
  BY DEF Ask, NoQuery, Looks, OnlyQuery
<1>3. \A n \in q'.known : /\ n \in Networks /\ Subnet[n] \in DOMAIN trie
                          /\ trie[Subnet[n]] = n /\ IsPrefix(Subnet[n], x.addr)
  BY <1>2 DEF Known
<1>4. IsPrefix(<<>>, x.addr) BY <1>1, AddressIsSequence, EmptyPrefix
<1>5. \A n \in Networks : ~(Len(Subnet[n]) <= 0)
  BY NameAssumption DEF NameAssumption
<1>6. Len(<<>>) = 0 OBVIOUS
<1>7. Specific(Len(q.at))' BY <1>2, <1>3, <1>5, <1>6 DEF Specific
<1> QED BY <1>1, <1>2, <1>3, <1>4, <1>7 DEF FindInv, Lookup

(* Where the way ends there is no longer prefix of the address.            *)
LEMMA BitKeepsFind ==
  ASSUME NameAssumption, RegisteredInv, TrieInv, QueryShape, FindInv, FindBit
  PROVE  FindInv'
<1> DEFINE addr == q.ask.addr  next == NextBits  k == Len(q.at)
<1>1. /\ q.pc = "find" /\ Len(q.at) < Width /\ UNCHANGED trie
      /\ next \in DOMAIN trie
      /\ q' = [q EXCEPT !.at = next,
              !.found = IF trie[next] # None THEN trie[next] ELSE q.found]
  BY DEF FindBit, Looks, OnlyQuery
<1>2. /\ q'.pc = "find" /\ q'.at = next /\ q'.ask = q.ask /\ q'.known = q.known
      /\ q'.found = IF trie[next] # None THEN trie[next] ELSE q.found
  BY <1>1 DEF QueryShape, QueryType
<1>3. /\ addr \in Seq({0, 1}) /\ Len(addr) = Width
      /\ q.at \in Seq({0, 1}) /\ IsPrefix(q.at, addr)
  BY <1>1, AddressIsSequence
     DEF QueryShape, FindInv, RegisteredInv, RegInv, WorkerShape
<1>4. /\ next \in Seq({0, 1}) /\ Len(next) = k + 1 /\ IsPrefix(next, addr)
  <2> DEFINE p == q.at  r == addr
  <2>1. next = SubSeq(r, 1, Len(p) + 1) /\ p # r /\ p \in Seq({0, 1})
        /\ r \in Seq({0, 1}) /\ IsPrefix(p, r)
    BY <1>1, <1>3 DEF NextBits
  <2> HIDE DEF p, r, next
  <2>2. next \in Seq({0, 1}) /\ Len(next) = Len(p) + 1 /\ IsPrefix(next, r)
    BY <2>1, OneFurther
  <2> QED BY <2>2 DEF p, r
<1> HIDE DEF next, addr
<1>5. ASSUME NEW n \in q.known, Len(Subnet[n]) <= k + 1
      PROVE  q'.found # None /\ Len(Subnet[n]) <= Len(Subnet[q'.found])
  <2>1. /\ Subnet[n] \in Seq({0, 1}) /\ IsPrefix(Subnet[n], addr) /\ n # None
        /\ Len(Subnet[n]) \in Nat /\ k \in Nat /\ trie[Subnet[n]] = n
    BY <1>1, <1>3, NameAssumption
       DEF NameAssumption, QueryShape, QueryType, FindInv, Lookup, addr
  <2>2. CASE trie[next] # None
    BY <1>1, <1>2, <1>4, <1>5, <2>2 DEF TrieInv
  <2>3. CASE trie[next] = None
    <3>1. Len(Subnet[n]) # k + 1
      BY <1>3, <1>4, <2>1, <2>3, PrefixesCompare
    <3>2. Len(Subnet[n]) <= k BY <1>5, <2>1, <3>1
    <3> QED BY <1>1, <1>2, <2>3, <3>2 DEF FindInv, Specific
  <2> QED BY <2>2, <2>3
<1>6. Specific(Len(q.at))' BY <1>2, <1>4, <1>5 DEF Specific
<1> QED BY <1>1, <1>2, <1>4, <1>6 DEF FindInv, Lookup, addr

LEMMA FoundKeepsFind ==
  ASSUME NameAssumption, RegisteredInv, TrieInv, QueryShape, FindInv, Found
  PROVE  /\ FindInv'
         /\ q.found = None => q.known = {}
<1> DEFINE addr == q.ask.addr
<1>1. /\ q.pc = "find" /\ UNCHANGED trie
      /\ Len(q.at) < Width => NextBits \notin DOMAIN trie
      /\ q' = IF q.found = None THEN LookedUp("send")
              ELSE [q EXCEPT !.at = <<>>, !.pc = "walk"]
  BY DEF Found, Looks, OnlyQuery
<1>2. /\ addr \in Seq({0, 1}) /\ Len(addr) = Width
      /\ q.at \in Seq({0, 1}) /\ IsPrefix(q.at, addr)
  BY <1>1, AddressIsSequence
     DEF QueryShape, FindInv, RegisteredInv, RegInv, WorkerShape
<1>3. ASSUME NEW n \in q.known PROVE Len(Subnet[n]) <= Len(q.at)
  <2>1. /\ Subnet[n] \in Seq({0, 1}) /\ IsPrefix(Subnet[n], addr)
        /\ Subnet[n] \in DOMAIN trie /\ Len(Subnet[n]) <= Width
    BY <1>1, NameAssumption
       DEF NameAssumption, QueryShape, QueryType, FindInv, Lookup
  <2>2. Len(q.at) \in Nat /\ Len(Subnet[n]) \in Nat /\ Width \in Nat
    BY <1>2, <2>1
  <2>3. CASE Len(q.at) < Width /\ ~(Len(Subnet[n]) <= Len(q.at))
    <3> DEFINE j == Len(q.at) + 1
    <3>1. j \in 0..Len(Subnet[n]) /\ j \in 1..Len(addr) BY <1>2, <2>2, <2>3
    <3>2. SubSeq(Subnet[n], 1, j) \in DOMAIN trie BY <2>1, <3>1 DEF TrieInv
    <3>3. \A i \in 1..Len(Subnet[n]) : Subnet[n][i] = addr[i]
      BY <1>2, <2>1, PrefixByElements
    <3>4. SubSeq(Subnet[n], 1, j) = SubSeq(addr, 1, j)
      BY <1>2, <2>1, <3>1, <3>3
    <3> QED BY <1>1, <2>3, <3>2, <3>4 DEF NextBits
  <2>4. CASE ~(Len(q.at) < Width)
    BY <2>1, <2>2, <2>4
  <2> QED BY <2>3, <2>4
<1>4. \A n \in q.known :
        q.found # None /\ Len(Subnet[n]) <= Len(Subnet[q.found])
  BY <1>1, <1>3 DEF FindInv, Specific
<1>5. CASE q.found = None
  <2>1. q'.pc = "send" BY <1>1, <1>5 DEF LookedUp, NoQuery
  <2> QED BY <1>4, <1>5, <2>1 DEF FindInv, Lookup
<1>6. CASE q.found # None
  <2>1. /\ q'.pc = "walk" /\ q'.ask = q.ask /\ q'.known = q.known
        /\ q'.found = q.found
    BY <1>1, <1>6 DEF QueryShape, QueryType
  <2>2. Specific(Width)' BY <1>4, <2>1 DEF Specific
  <2> QED BY <1>1, <1>6, <2>1, <2>2 DEF FindInv, Lookup
<1> QED BY <1>5, <1>6

(* What is asked stays what it is as long as the lookup goes on.           *)
LEMMA LookupKeepsAsked ==
  ASSUME NameAssumption, RegisteredInv, QueryShape,
         q.pc \in {"walk", "collect"},
         Walk \/ Reached \/ Child \/ Return \/ Raise
  PROVE  \/ q'.pc \in {"walk", "collect"} /\ q'.ask = q.ask
            /\ q'.known = q.known /\ q'.found = q.found /\ q'.before = q.before
         \/ q'.pc \notin Lookup
<1>1. \A pc : LookedUp(pc).pc = pc BY DEF LookedUp, NoQuery
<1>2. q \in QueryType BY DEF QueryShape
<1>3. CASE Walk BY <1>1, <1>2, <1>3 DEF Walk, Lookup, QueryType
<1>4. CASE Reached
  <2> DEFINE query == [q EXCEPT !.pc = "collect"]
  <2>1. q.at \in DOMAIN nodes /\ q' = Visit(query, q.at)
    BY <1>4 DEF Reached, QueryShape
  <2>2. query \in QueryType BY <1>2 DEF QueryType, QueryPcs
  <2>3. /\ query.pc = "collect" /\ query.ask = q.ask /\ query.known = q.known
        /\ query.found = q.found /\ query.before = q.before
    BY <1>2 DEF QueryType
  <2> HIDE DEF query
  <2> QED BY <2>1, <2>2, <2>3, VisitShape
<1>5. CASE Child BY <1>5, ChildKeepsShape
<1>6. CASE Return \/ Raise
  BY <1>1, <1>2, <1>6 DEF Return, Raise, Lookup, QueryType
<1> QED BY <1>3, <1>4, <1>5, <1>6

LEMMA NextFind ==
  ASSUME NameAssumption, QueryInv, FindInv, [Next]_vars PROVE FindInv'
<1>1. RegisteredInv /\ TrieInv /\ QueryShape /\ Replies BY DEF QueryInv
<1>2. TrieGrows BY NextQueryInv
<1>3. CASE UNCHANGED q BY <1>1, <1>2, <1>3, OthersKeepFind
<1>4. CASE Resolve /\ OnlyQuery
  <2>1. CASE FindBit BY <1>1, <2>1, BitKeepsFind
  <2>2. CASE Found BY <1>1, <2>2, FoundKeepsFind
  <2>3. CASE Walk \/ Reached \/ Child \/ Return \/ Raise
    <3>1. q.pc \in {"walk", "collect"}
      BY <2>3 DEF Walk, Reached, Child, Return, Raise
    <3>2. UNCHANGED trie BY <1>4 DEF OnlyQuery
    <3>3. CASE q'.pc \notin Lookup BY <3>3 DEF FindInv, Lookup
    <3>4. CASE q'.pc \in {"walk", "collect"} /\ q'.ask = q.ask
               /\ q'.known = q.known /\ q'.found = q.found
      BY <3>1, <3>2, <3>4 DEF FindInv, Lookup, Specific
    <3> QED BY <1>1, <2>3, <3>1, <3>3, <3>4, LookupKeepsAsked
  <2>4. CASE Send \/ Timeout \/ NoForwarderLeft \/ Receive
    <3>1. q'.pc \notin Lookup
      BY <1>1, <2>4
         DEF Send, Timeout, NoForwarderLeft, Receive, LookedUp, NoQuery, Lookup,
             QueryShape, QueryType
    <3> QED BY <3>1 DEF FindInv, Lookup
  <2>5. CASE SendFails \/ Unparsable
    <3>1. q'.pc \notin Lookup BY <1>1, <2>5, FailKeepsShape DEF Lookup
    <3> QED BY <3>1 DEF FindInv, Lookup
  <2> QED BY <1>4, <2>1, <2>2, <2>3, <2>4, <2>5 DEF Resolve
<1>5. CASE q.n < MaxQueries /\ \E x \in Questions[q.n + 1] : Ask(x)
  BY <1>1, <1>5, AskKeepsFind
<1>6. CASE \E i \in 1..MaxQueries : Reply(i) BY <1>3, <1>6 DEF Reply
<1> QED BY <1>3, <1>4, <1>5, <1>6, WhoActs DEF queryVars

-----------------------------------------------------------------------------
(* What lies ahead of an iterator.                                         *)

NodeFrame(f) == f \in Frames /\ f.node \in DOMAIN nodes

LEMMA AheadIsBelow ==
  ASSUME RegisteredInv, NEW f, NodeFrame(f), NEW r \in Paths, Ahead(f, r)
  PROVE  IsPrefix(f.node, r) /\ Len(f.node) < Len(r)
<1>1. f.node \in Seq(Labels) /\ nodes[f.node] \in Seq(Labels)
  BY DEF RegisteredInv, TreeInv, TreeShape, NodeFrame, Paths
<1>2. PICK j \in DOMAIN nodes[f.node] :
        IsPrefix(Append(f.node, nodes[f.node][j]), r)
  BY DEF Ahead
<1>3. nodes[f.node][j] \in Labels BY <1>1, <1>2
<1> QED BY <1>1, <1>2, <1>3, AppendPrefix DEF Paths

(* All that lies below a node is ahead of a fresh iterator over it.        *)
LEMMA BelowIsAhead ==
  ASSUME RegisteredInv, NEW p \in DOMAIN nodes, NEW r \in DOMAIN nodes,
         IsPrefix(p, r), p # r
  PROVE  Ahead(Frame(p), r)
<1> DEFINE next == SubSeq(r, 1, Len(p) + 1)
<1>1. /\ p \in Seq(Labels) /\ r \in Seq(Labels) /\ nodes[p] \in Seq(Labels)
  BY DEF RegisteredInv, TreeInv, TreeShape, Paths
<1>2. /\ IsPrefix(next, r) /\ Last(next) \in Labels
      /\ next = Append(p, Last(next))
  BY <1>1, OneFurther
<1>3. next \in DOMAIN nodes
  <2>1. Len(p) \in Nat /\ Len(r) \in Nat /\ Len(p) < Len(r)
    BY <1>1, ShorterPrefix
  <2>2. Len(p) + 1 \in 0..Len(r) BY <2>1
  <2> QED BY <2>2 DEF RegisteredInv, TreeInv, Tree, Rooted
<1> HIDE DEF next
<1>4. Last(next) \in Range(nodes[p])
  BY <1>2, <1>3 DEF RegisteredInv, TreeInv, Tree, ChildrenAreNodes
<1>5. PICK j \in DOMAIN nodes[p] : nodes[p][j] = Last(next)
  BY <1>4 DEF Range
<1>6. Frame(p).node = p /\ Frame(p).i = 0 /\ j > 0 BY <1>1, <1>5 DEF Frame
<1> QED BY <1>2, <1>5, <1>6 DEF Ahead

(* What an iterator is at is not ahead of it: each child is there once.    *)
LEMMA AtIsNotAhead ==
  ASSUME RegisteredInv, NEW f, NodeFrame(f), NEW r \in Paths, At(f, r)
  PROVE  ~Ahead(f, r)
<1> SUFFICES ASSUME Ahead(f, r) PROVE FALSE OBVIOUS
<1>1. f.node \in Seq(Labels) /\ nodes[f.node] \in Seq(Labels) /\ f.i \in Nat
  BY DEF RegisteredInv, TreeInv, TreeShape, NodeFrame, Paths, Frames
<1>2. PICK j \in DOMAIN nodes[f.node] :
        j > f.i /\ IsPrefix(Append(f.node, nodes[f.node][j]), r)
  BY DEF Ahead
<1>3. f.i \in DOMAIN nodes[f.node]
      /\ IsPrefix(Append(f.node, nodes[f.node][f.i]), r)
  BY DEF At
<1>4. nodes[f.node][j] \in Labels /\ nodes[f.node][f.i] \in Labels
  BY <1>1, <1>2, <1>3
<1>5. nodes[f.node][j] = r[Len(f.node) + 1]
      /\ nodes[f.node][f.i] = r[Len(f.node) + 1]
  BY <1>1, <1>2, <1>3, <1>4, AppendPrefix DEF Paths
<1>6. j = f.i
  BY <1>2, <1>3, <1>5
     DEF RegisteredInv, TreeInv, Tree, OnceEach, NodeFrame
<1> QED BY <1>1, <1>2, <1>6

(* Others add children behind those an iterator has seen, and nothing of   *)
(* what there was comes ahead of it that way.                              *)
LEMMA AheadStays ==
  ASSUME RegisteredInv, RegisteredInv', Grows
  PROVE  \A f : NodeFrame(f) =>
           /\ NodeFrame(f)'
           /\ \A r : At(f, r) => At(f, r)'
           /\ \A r \in DOMAIN nodes : Ahead(f, r)' <=> Ahead(f, r)
<1> SUFFICES ASSUME NEW f, NodeFrame(f)
             PROVE  /\ NodeFrame(f)'
                    /\ \A r : At(f, r) => At(f, r)'
                    /\ \A r \in DOMAIN nodes : Ahead(f, r)' <=> Ahead(f, r)
  OBVIOUS
<1> DEFINE d == nodes[f.node]  e == nodes'[f.node]
<1>1. NodeFrame(f)' BY DEF NodeFrame, Grows
<1>2. /\ f.node \in Seq(Labels) /\ f.node \in DOMAIN nodes
      /\ d \in Seq(Labels) /\ e \in Seq(Labels) /\ IsPrefix(d, e)
  BY <1>1 DEF RegisteredInv, TreeInv, TreeShape, NodeFrame, Grows, Paths
<1>3. \A j \in DOMAIN d : j \in DOMAIN e /\ d[j] = e[j]
  <2> HIDE DEF d, e
  <2> QED BY <1>2, PrefixByElements
<1>4. ASSUME NEW r \in DOMAIN nodes, NEW j \in DOMAIN e,
             IsPrefix(Append(f.node, e[j]), r)
      PROVE  j \in DOMAIN d
  <2> DEFINE c == Append(f.node, e[j])
  <2>1. e[j] \in Labels BY <1>2
  <2>2. r \in Seq(Labels) BY DEF RegisteredInv, TreeInv, TreeShape, Paths
  <2>3. c \in Seq(Labels) BY <1>2, <2>1
  <2>4. Len(c) \in 0..Len(r) /\ c = SubSeq(r, 1, Len(c))
    <3>1. IsPrefix(c, r) BY <1>4
    <3> HIDE DEF c
    <3> QED BY <2>2, <2>3, <3>1, PrefixIsSubSeq
  <2>5. c \in DOMAIN nodes
    BY <2>4 DEF RegisteredInv, TreeInv, Tree, Rooted
  <2>6. e[j] \in Range(d)
    BY <1>2, <2>1, <2>5 DEF RegisteredInv, TreeInv, Tree, ChildrenAreNodes
  <2>7. PICK i \in DOMAIN d : d[i] = e[j] BY <2>6 DEF Range
  <2>8. i \in DOMAIN e /\ e[i] = e[j] BY <1>3, <2>7
  <2>9. f.node \in DOMAIN nodes' BY <1>1 DEF NodeFrame
  <2>10. i = j BY <2>8, <2>9 DEF RegisteredInv, TreeInv, Tree, OnceEach
  <2> QED BY <2>7, <2>10
<1>5. \A r : At(f, r) => At(f, r)' BY <1>3 DEF At
<1>6. \A r \in DOMAIN nodes : Ahead(f, r)' <=> Ahead(f, r)
  <2> SUFFICES ASSUME NEW r \in DOMAIN nodes PROVE Ahead(f, r)' <=> Ahead(f, r)
    OBVIOUS
  <2>1. Ahead(f, r) => Ahead(f, r)' BY <1>3 DEF Ahead
  <2>2. Ahead(f, r)' => Ahead(f, r) BY <1>3, <1>4 DEF Ahead
  <2> QED BY <2>1, <2>2
<1> QED BY <1>1, <1>5, <1>6

-----------------------------------------------------------------------------
(* One iterator more.                                                      *)

LEMMA OneMore ==
  ASSUME NEW s \in Seq(Frames), NEW f \in Frames
  PROVE  /\ Append(s, f) \in Seq(Frames)
         /\ DOMAIN Append(s, f) = DOMAIN s \cup {Len(s) + 1}
         /\ Append(s, f)[Len(s) + 1] = f /\ \A k \in DOMAIN s : k < Len(s) + 1
         /\ \A k \in DOMAIN s : Append(s, f)[k] = s[k]
  OBVIOUS

LEMMA PendingAppend ==
  ASSUME NEW s \in Seq(Frames), NEW f \in Frames
  PROVE  \A r : Pending(Append(s, f), r) <=> Pending(s, r) \/ Ahead(f, r)
<1> DEFINE t == Append(s, f)
<1>1. /\ DOMAIN t = DOMAIN s \cup {Len(s) + 1} /\ t[Len(s) + 1] = f
      /\ \A k \in DOMAIN s : t[k] = s[k]
  BY OneMore
<1> HIDE DEF t
<1>2. \A r : Pending(t, r) <=> Pending(s, r) \/ Ahead(f, r)
  BY <1>1 DEF Pending
<1> QED BY <1>2 DEF t

LEMMA NestedAppend ==
  ASSUME NEW s \in Seq(Frames), NEW f \in Frames
  PROVE  Nested(Append(s, f)) <=>
           /\ Nested(s) /\ IsPrefix(Asked, f.node)
           /\ \A k \in DOMAIN s : At(s[k], f.node)
<1> DEFINE t == Append(s, f)
<1>1. /\ DOMAIN t = DOMAIN s \cup {Len(s) + 1} /\ t[Len(s) + 1] = f
      /\ \A k \in DOMAIN s : t[k] = s[k] /\ k < Len(s) + 1 /\ k \in Nat
      /\ Len(s) \in Nat
  BY OneMore
<1> HIDE DEF t
<1>2. \A k \in DOMAIN s : ~(Len(s) + 1 < k) BY <1>1
<1>3. ~(Len(s) + 1 < Len(s) + 1) BY <1>1
<1>4. ASSUME Nested(t)
      PROVE  Nested(s) /\ IsPrefix(Asked, f.node)
             /\ \A k \in DOMAIN s : At(s[k], f.node)
  BY <1>1, <1>4 DEF Nested
<1>5. ASSUME Nested(s), IsPrefix(Asked, f.node),
             \A k \in DOMAIN s : At(s[k], f.node)
      PROVE  Nested(t)
  BY <1>1, <1>2, <1>3, <1>5 DEF Nested
<1> QED BY <1>4, <1>5 DEF t

(* The innermost iterator and the others.                                  *)
LEMMA FrontAndTop ==
  ASSUME QueryShape, q.pc = "collect"
  PROVE  /\ Front(q.stack) \in Seq(Frames) /\ Top \in Frames
         /\ q.stack = Append(Front(q.stack), Top)
         /\ FrameShape(Top) /\ Len(Front(q.stack)) = Len(q.stack) - 1
<1>1. /\ Top = q.stack[Len(q.stack)] /\ Top \in Frames /\ FrameShape(Top)
      /\ Len(q.stack) \in Nat /\ Len(q.stack) > 0 /\ q.stack \in Seq(Frames)
  BY TopShape
<1>2. Front(q.stack) = SubSeq(q.stack, 1, Len(q.stack) - 1) BY DEF Front
<1> QED BY <1>1, <1>2

LEMMA LastReplaced ==
  ASSUME NEW s \in Seq(Frames), NEW x \in Frames, NEW y \in Frames
  PROVE  [Append(s, x) EXCEPT ![Len(s) + 1] = y] = Append(s, y)
<1> DEFINE n == Len(s) + 1  a == Append(s, x)  b == Append(s, y)
           u == [a EXCEPT ![n] = y]
<1>1. /\ a \in Seq(Frames) /\ b \in Seq(Frames) /\ n \in Nat /\ n > 0
      /\ Len(a) = n /\ Len(b) = n /\ b[n] = y
      /\ \A i \in 1..n : i # n => a[i] = b[i]
  OBVIOUS
<1> HIDE DEF a, b, n
<1>2. /\ DOMAIN a = 1..n /\ n \in 1..n
      /\ a \in [1..n -> Frames] /\ b \in [1..n -> Frames]
  <2>1. n \in 1..n BY <1>1
  <2> QED BY <1>1, <2>1
<1>3. /\ u \in [1..n -> Frames] /\ DOMAIN u = 1..n
      /\ \A i \in 1..n : u[i] = IF i = n THEN y ELSE a[i]
  BY <1>1, <1>2
<1> HIDE DEF u
<1>4. u = b BY <1>1, <1>2, <1>3
<1> QED BY <1>4 DEF u, a, b, n

LEMMA CountOneMore ==
  ASSUME NEW S, NEW s \in Seq(S), NEW x \in S, x \notin Range(s),
         IsFiniteSet(Range(s)), Cardinality(Range(s)) = Len(s)
  PROVE  /\ IsFiniteSet(Range(Append(s, x)))
         /\ Cardinality(Range(Append(s, x))) = Len(Append(s, x))
<1>1. Range(Append(s, x)) = Range(s) \cup {x} BY RangeOfAppend
<1>2. Len(Append(s, x)) = Len(s) + 1 OBVIOUS
<1> QED BY <1>1, <1>2, FS_AddElement

-----------------------------------------------------------------------------
(* The collection.                                                         *)

LEMMA StackOfNodes ==
  ASSUME QueryShape, q.pc = "collect"
  PROVE  \A k \in DOMAIN q.stack : NodeFrame(q.stack[k])
  BY DEF QueryShape, QueryType, NodeFrame, FrameShape

LEMMA OthersKeepCollect ==
  ASSUME RegisteredInv, RegisteredInv', QueryShape, CollectInv,
         UNCHANGED q, Grows
  PROVE  CollectInv'
<1> SUFFICES ASSUME q.pc = "collect"
             PROVE  /\ Nested(q.stack)' /\ Complete' /\ Fresh' /\ Counted'
                    /\ (Range(q.ips) \subseteq Under(Asked, named))'
  BY DEF CollectInv
<1>1. /\ Nested(q.stack) /\ Complete /\ Fresh /\ Counted
      /\ Range(q.ips) \subseteq Under(Asked, named)
  BY DEF CollectInv
<1>2. \A k \in DOMAIN q.stack :
        /\ \A r : At(q.stack[k], r) => At(q.stack[k], r)'
        /\ \A r \in DOMAIN nodes :
             Ahead(q.stack[k], r)' <=> Ahead(q.stack[k], r)
  <2> SUFFICES ASSUME NEW k \in DOMAIN q.stack
               PROVE  /\ \A r : At(q.stack[k], r) => At(q.stack[k], r)'
                      /\ \A r \in DOMAIN nodes :
                           Ahead(q.stack[k], r)' <=> Ahead(q.stack[k], r)
    OBVIOUS
  <2>1. NodeFrame(q.stack[k]) BY StackOfNodes
  <2>2. /\ \A r : At(q.stack[k], r) =>
                   LET f == q.stack[k] IN
                   /\ f.i \in DOMAIN nodes'[f.node]
                   /\ IsPrefix(Append(f.node, nodes'[f.node][f.i]), r)
        /\ \A r \in DOMAIN nodes :
             LET f == q.stack[k] IN
             (\E j \in DOMAIN nodes'[f.node] :
                j > f.i /\ IsPrefix(Append(f.node, nodes'[f.node][j]), r))
             <=> Ahead(f, r)
    BY <2>1, AheadStays DEF At, Ahead
  <2> QED BY <2>2 DEF At, Ahead
<1>3. \A r \in DOMAIN nodes : Pending(q.stack, r)' <=> Pending(q.stack, r)
  BY <1>2 DEF Pending
<1>4. named \subseteq named' /\ named \subseteq DOMAIN nodes
  BY DEF Grows, RegisteredInv, TreeInv, TreeShape
<1>5. q.before \subseteq named BY DEF QueryShape
<1>6. Asked' = Asked BY DEF Asked
<1>7. Nested(q.stack)' BY <1>1, <1>2, <1>6 DEF Nested
<1>8. Complete' BY <1>1, <1>3, <1>4, <1>5, <1>6 DEF Complete, Under
<1>9. Fresh' BY <1>1, <1>3, <1>4 DEF Fresh, Under
<1>10. Counted' BY <1>1 DEF Counted
<1>11. (Range(q.ips) \subseteq Under(Asked, named))'
  BY <1>1, <1>4, <1>6 DEF Under
<1> QED BY <1>7, <1>8, <1>9, <1>10, <1>11

LEMMA ReachedKeepsCollect ==
  ASSUME NameAssumption, RegisteredInv, QueryShape, Reached PROVE CollectInv'
<1> DEFINE query == [q EXCEPT !.pc = "collect"]  f == Frame(Asked)
<1>1. /\ q.pc = "walk" /\ q.at = Asked /\ UNCHANGED <<nodes, named>>
      /\ q.at \in DOMAIN nodes /\ q' = Visit(query, q.at)
      /\ q.stack = <<>> /\ q.ips = <<>>
  BY DEF Reached, Looks, OnlyQuery, treeVars, QueryShape
<1>2. query \in QueryType BY DEF QueryShape, QueryType, QueryPcs
<1>3. /\ query.pc = "collect" /\ query.ask = q.ask /\ query.ips = q.ips
      /\ query.found = q.found /\ query.before = q.before
      /\ query.stack = q.stack
  BY DEF QueryShape, QueryType
<1> HIDE DEF query
<1>4. /\ q'.pc = "collect" /\ q'.ask = q.ask /\ q'.before = q.before
      /\ q'.found = q.found /\ q'.stack = Append(<<>>, f) /\ f \in Frames
      /\ q'.ips = IF Asked \in named THEN Append(<<>>, Asked) ELSE <<>>
  <2>1. /\ q'.pc = query.pc /\ q'.ask = query.ask /\ q'.before = query.before
        /\ q'.found = query.found /\ q'.stack = Append(query.stack, Frame(q.at))
        /\ Frame(q.at) \in Frames
        /\ q'.ips = IF q.at \in named THEN Append(query.ips, q.at)
                   ELSE query.ips
    BY <1>1, <1>2, VisitShape
  <2> QED BY <1>1, <1>3, <2>1
<1>5. /\ Asked \in Paths /\ Asked \in DOMAIN nodes /\ f.node = Asked
      /\ <<>> \in Seq(Frames)
  BY <1>1, PathOfQuery DEF Frame
<1>6. NodeFrame(f) BY <1>4, <1>5 DEF NodeFrame
<1>7. \A r : Pending(<<>>, r) <=> FALSE BY DEF Pending
<1> HIDE DEF f
<1>8. \A r : Pending(Append(<<>>, f), r) <=> Ahead(f, r)
  BY <1>4, <1>5, <1>7, PendingAppend
<1>9. Asked' = Asked BY <1>4 DEF Asked
<1>10. \A r : Pending(q.stack, r)' <=> Ahead(f, r)
  <2>1. \A r : Pending(q.stack, r)' <=> Pending(Append(<<>>, f), r)
    BY <1>1, <1>4 DEF Pending, Ahead
  <2> QED BY <1>8, <2>1
<1>11. Range(q'.ips) = IF Asked \in named THEN {Asked} ELSE {}
  BY <1>4, <1>5, RangeOfAppend DEF Range
<1>12. Complete'
  <2> SUFFICES ASSUME NEW r \in Under(Asked, q.before)
               PROVE  r \in Range(q'.ips) \/ Ahead(f, r)
    BY <1>4, <1>9, <1>10 DEF Complete, Under
  <2>1. r \in named /\ r \in DOMAIN nodes /\ IsPrefix(Asked, r)
    BY DEF Under, QueryShape, RegisteredInv, TreeInv, TreeShape
  <2>2. CASE r = Asked BY <1>11, <2>1, <2>2
  <2>3. CASE r # Asked BY <1>5, <2>1, <2>3, BelowIsAhead DEF f
  <2> QED BY <2>2, <2>3
<1>13. Fresh'
  <2> SUFFICES ASSUME Ahead(f, Asked) PROVE FALSE
    BY <1>10, <1>11 DEF Fresh
  <2>1. Len(Asked) < Len(Asked) BY <1>5, <1>6, AheadIsBelow
  <2>2. Len(Asked) \in Nat BY <1>5 DEF Paths
  <2> QED BY <2>1, <2>2
<1>14. Counted'
  <2>1. Range(<<>>) = {} /\ <<>> \in Seq(Paths) /\ Len(<<>>) = 0 BY DEF Range
  <2>2. IsFiniteSet(Range(<<>>)) /\ Cardinality(Range(<<>>)) = Len(<<>>)
    BY <2>1, FS_EmptySet
  <2>3. CASE Asked \in named
    <3>1. Asked \notin Range(<<>>) BY <2>1
    <3>2. /\ IsFiniteSet(Range(Append(<<>>, Asked)))
          /\ Cardinality(Range(Append(<<>>, Asked))) = Len(Append(<<>>, Asked))
      BY ONLY <1>5, <2>1, <2>2, <3>1, CountOneMore
    <3> QED BY <1>4, <2>3, <3>2 DEF Counted
  <2>4. CASE Asked \notin named BY <1>4, <2>2, <2>4 DEF Counted
  <2> QED BY <2>3, <2>4
<1>15. IsPrefix(Asked, Asked)
  <2>1. Asked \in Seq(Labels) /\ Len(Asked) \in Nat BY <1>5 DEF Paths
  <2> HIDE DEF Asked
  <2> QED BY <2>1, PrefixByElements
<1>16. (Range(q.ips) \subseteq Under(Asked, named))'
  BY <1>1, <1>9, <1>11, <1>15 DEF Under
<1>17. Nested(q.stack)'
  <2>1. Nested(<<>>) /\ DOMAIN <<>> = {} BY DEF Nested
  <2>2. Nested(Append(<<>>, f)) BY <1>4, <1>5, <1>15, <2>1, NestedAppend
  <2>3. Nested(Append(<<>>, f)) => Nested(q.stack)'
    BY <1>1, <1>4, <1>9 DEF Nested, At
  <2> QED BY <2>2, <2>3
<1> QED BY <1>12, <1>13, <1>14, <1>16, <1>17 DEF CollectInv

(* The next child is visited.  It was ahead, so it is not collected yet;   *)
(* what was ahead through it is ahead of the iterator over its children.   *)
LEMMA ChildKeepsCollect ==
  ASSUME NameAssumption, RegisteredInv, QueryShape, CollectInv, Child
  PROVE  CollectInv'
<1> DEFINE label == nodes[Top.node][Top.i + 1]  child == Append(Top.node, label)
           front == Front(q.stack)  g == [Top EXCEPT !.i = Top.i + 1]
           h == Frame(child)  adv == Append(front, g)  stack == Append(adv, h)
<1>1. /\ q.pc = "collect" /\ ~Grown /\ Top.i < Top.size
      /\ UNCHANGED <<nodes, named>>
  BY DEF Child, Looks, OnlyQuery, treeVars
<1>2. /\ front \in Seq(Frames) /\ Top \in Frames /\ q.stack = Append(front, Top)
      /\ FrameShape(Top) /\ Len(front) = Len(q.stack) - 1
  BY <1>1, FrontAndTop
<1>3. /\ label \in Labels /\ child \in DOMAIN nodes
      /\ q'.stack = Append(Advanced.stack, h)
      /\ Advanced.stack = [q.stack EXCEPT ![Len(q.stack)] = g]
      /\ q'.ips = IF child \in named THEN Append(q.ips, child) ELSE q.ips
      /\ q'.ask = q.ask /\ q'.found = q.found /\ q'.before = q.before
      /\ q'.pc = "collect"
  BY ChildKeepsShape
<1>4. /\ Top.node \in DOMAIN nodes /\ Top.node \in Paths /\ child \in Paths
      /\ nodes[Top.node] \in Seq(Labels) /\ Top.i \in Nat
      /\ Top.size = Len(nodes[Top.node])
  BY <1>1, <1>2, <1>3
     DEF RegisteredInv, TreeInv, TreeShape, FrameShape, Frames, Grown
<1>5. g \in Frames /\ g.node = Top.node /\ g.i = Top.i + 1
  <2>1. \A x \in Frames : LET y == [x EXCEPT !.i = x.i + 1] IN
          y \in Frames /\ y.node = x.node /\ y.i = x.i + 1
    BY DEF Frames
  <2> QED BY <1>2, <2>1
<1>6. h \in Frames /\ h.node = child
  BY <1>3, <1>4 DEF Frame, Frames, RegisteredInv, TreeInv, TreeShape
<1>7. q'.stack = stack
  <2>1. Len(q.stack) = Len(front) + 1
    <3>1. Len(q.stack) \in Nat BY <1>1, TopShape
    <3> QED BY <1>2, <3>1
  <2> HIDE DEF front, g, h
  <2>2. [Append(front, Top) EXCEPT ![Len(front) + 1] = g] = Append(front, g)
    BY <1>2, <1>5, LastReplaced
  <2> QED BY <1>2, <1>3, <2>1, <2>2
<1>8. NodeFrame(Top) /\ NodeFrame(g) /\ NodeFrame(h)
  BY <1>2, <1>3, <1>4, <1>5, <1>6 DEF NodeFrame
<1>9. Top.i + 1 \in DOMAIN nodes[Top.node] BY <1>1, <1>2, <1>4 DEF Frames
<1>10. adv \in Seq(Frames) BY <1>2, <1>5, OneMore
<1> HIDE DEF front, g, h, adv, stack
<1>11. /\ \A r : Pending(q.stack, r) <=> (Pending(front, r) \/ Ahead(Top, r))
       /\ \A r : Pending(stack, r) <=>
                 (Pending(front, r) \/ Ahead(g, r) \/ Ahead(h, r))
  <2>1. \A r : Pending(q.stack, r) <=> Pending(front, r) \/ Ahead(Top, r)
    BY <1>2, PendingAppend
  <2>2. \A r : Pending(adv, r) <=> Pending(front, r) \/ Ahead(g, r)
    BY <1>2, <1>5, PendingAppend DEF adv
  <2>3. \A r : Pending(stack, r) <=> Pending(adv, r) \/ Ahead(h, r)
    BY <1>6, <1>10, PendingAppend DEF stack
  <2> QED BY <2>1, <2>2, <2>3
<1>12. \A r : Ahead(Top, r) <=> (Ahead(g, r) \/ IsPrefix(child, r))
  <2>1. \A j \in DOMAIN nodes[Top.node] :
          j > Top.i <=> j > Top.i + 1 \/ j = Top.i + 1
    BY <1>4
  <2> QED BY <1>5, <1>9, <2>1 DEF Ahead
<1> HIDE DEF child, label
<1>13. /\ Nested(q.stack) /\ Complete /\ Fresh /\ Counted
       /\ Range(q.ips) \subseteq Under(Asked, named)
  BY <1>1 DEF CollectInv
<1>14. Asked' = Asked BY <1>3 DEF Asked
<1>15. Asked \in Paths BY <1>1, PathOfQuery
<1>16. IsPrefix(child, child) /\ IsPrefix(Top.node, child)
  <2>1. IsPrefix(child, child)
    <3>1. child \in Seq(Labels) /\ Len(child) \in Nat BY <1>4 DEF Paths
    <3> QED BY <3>1, PrefixByElements
  <2>2. IsPrefix(Top.node, child)
    <3>1. Top.node \in Seq(Labels) /\ label \in Labels BY <1>3, <1>4 DEF Paths
    <3> QED BY <3>1, AppendPrefix DEF child
  <2> QED BY <2>1, <2>2
<1>17. Nested(stack)
  <2>1. /\ Nested(front) /\ IsPrefix(Asked, Top.node)
        /\ \A k \in DOMAIN front : At(front[k], Top.node)
    BY <1>2, <1>13, NestedAppend
  <2>2. Nested(adv) BY <1>2, <1>5, <2>1, NestedAppend DEF adv
  <2>3. IsPrefix(Asked, child)
    BY <1>4, <1>15, <1>16, <2>1, PrefixIsTransitive DEF Paths
  <2>4. At(g, child) BY <1>5, <1>9, <1>16 DEF At, child, label
  <2>5. ASSUME NEW k \in DOMAIN front PROVE At(front[k], child)
    <3> DEFINE c == Append(front[k].node, nodes[front[k].node][front[k].i])
    <3>1. front[k] \in Frames /\ k \in DOMAIN q.stack /\ q.stack[k] = front[k]
      BY <1>2, OneMore
    <3>2. NodeFrame(front[k]) BY <1>1, <3>1, StackOfNodes
    <3>3. front[k].i \in DOMAIN nodes[front[k].node] /\ IsPrefix(c, Top.node)
      BY <2>1 DEF At
    <3>4. c \in Paths
      <4>1. /\ front[k].node \in Seq(Labels)
            /\ nodes[front[k].node] \in Seq(Labels)
        BY <3>2 DEF RegisteredInv, TreeInv, TreeShape, NodeFrame, Paths
      <4>2. nodes[front[k].node][front[k].i] \in Labels BY <3>3, <4>1
      <4> QED BY <4>1, <4>2, AppendPrefix DEF Paths
    <3> HIDE DEF c
    <3>5. IsPrefix(c, child)
      BY <1>4, <1>16, <3>3, <3>4, PrefixIsTransitive DEF Paths
    <3> QED BY <3>3, <3>5 DEF At, c
  <2>6. \A k \in DOMAIN adv : At(adv[k], child)
    <3>1. /\ DOMAIN adv = DOMAIN front \cup {Len(front) + 1}
          /\ adv[Len(front) + 1] = g
          /\ \A k \in DOMAIN front : adv[k] = front[k]
      BY <1>2, <1>5, OneMore DEF adv
    <3> QED BY <2>4, <2>5, <3>1
  <2> QED BY <1>6, <1>10, <2>2, <2>3, <2>6, NestedAppend DEF stack
<1>18. child \notin Range(q.ips)
  <2>1. Ahead(Top, child) BY <1>12, <1>16
  <2>2. Pending(q.stack, child) BY <1>11, <2>1
  <2> QED BY <1>13, <2>2 DEF Fresh
<1>19. q.ips \in Seq(Paths) BY DEF QueryShape, QueryType
<1>20. Range(q'.ips) = IF child \in named THEN Range(q.ips) \cup {child}
                       ELSE Range(q.ips)
  <2>1. Range(Append(q.ips, child)) = Range(q.ips) \cup {child}
    BY <1>4, <1>19, RangeOfAppend
  <2> QED BY <1>3, <2>1
<1>21. Counted'
  <2>1. CASE child \in named
    <3>1. /\ IsFiniteSet(Range(Append(q.ips, child)))
          /\ Cardinality(Range(Append(q.ips, child)))
               = Len(Append(q.ips, child))
      BY <1>4, <1>13, <1>18, <1>19, CountOneMore DEF Counted
    <3> QED BY <1>3, <2>1, <3>1 DEF Counted
  <2>2. CASE child \notin named BY <1>3, <1>13, <2>2 DEF Counted
  <2> QED BY <2>1, <2>2
<1>22. \A r : Pending(q.stack, r)' <=> Pending(stack, r)
  BY <1>1, <1>7 DEF Pending, Ahead
<1>23. Complete'
  <2> SUFFICES ASSUME NEW r \in Under(Asked, q.before)
               PROVE  r \in Range(q'.ips) \/ Pending(stack, r)
    BY <1>3, <1>14, <1>22 DEF Complete, Under
  <2>1. r \in named /\ r \in DOMAIN nodes
    BY DEF Under, QueryShape, RegisteredInv, TreeInv, TreeShape
  <2>2. CASE r \in Range(q.ips) BY <1>20, <2>2
  <2>3. CASE Pending(front, r) \/ Ahead(g, r) BY <1>11, <2>3
  <2>4. CASE IsPrefix(child, r)
    <3>1. CASE r = child BY <1>20, <2>1, <3>1
    <3>2. CASE r # child
      <4>1. Ahead(Frame(child), r) BY <1>3, <2>1, <2>4, <3>2, BelowIsAhead
      <4> QED BY <1>11, <4>1 DEF h
    <3> QED BY <3>1, <3>2
  <2>5. r \in Range(q.ips) \/ Pending(q.stack, r) BY <1>13 DEF Complete
  <2>6. Pending(q.stack, r) => Pending(front, r) \/ Ahead(Top, r) BY <1>11
  <2>7. Ahead(Top, r) => Ahead(g, r) \/ IsPrefix(child, r) BY <1>12
  <2> QED BY <2>2, <2>3, <2>4, <2>5, <2>6, <2>7
<1>24. Fresh'
  <2> SUFFICES ASSUME NEW r \in Range(q'.ips), Pending(stack, r) PROVE FALSE
    BY <1>22 DEF Fresh
  <2>1. r \in Paths
    <3>1. Range(q.ips) \subseteq named /\ named \subseteq Paths
      BY <1>13 DEF Under, RegisteredInv, TreeInv, TreeShape
    <3> QED BY <1>4, <1>20, <3>1
  <2>2. CASE r = child
    <3>1. PICK k \in DOMAIN stack : Ahead(stack[k], child)
      BY <2>2 DEF Pending
    <3>2. /\ DOMAIN stack = DOMAIN adv \cup {Len(adv) + 1}
          /\ stack[Len(adv) + 1] = h
          /\ \A m \in DOMAIN adv : stack[m] = adv[m] /\ m < Len(adv) + 1
      BY <1>6, <1>10, OneMore DEF stack
    <3>3. CASE k = Len(adv) + 1
      <4>1. Len(child) < Len(child)
        BY <1>4, <1>6, <1>8, <3>1, <3>2, <3>3, AheadIsBelow
      <4>2. Len(child) \in Nat BY <1>4 DEF Paths
      <4> QED BY <4>1, <4>2
    <3>4. CASE k \in DOMAIN adv
      <4>1. At(stack[k], child) BY <1>6, <1>17, <3>2, <3>4 DEF Nested
      <4>2. NodeFrame(stack[k])
        <5>1. /\ DOMAIN adv = DOMAIN front \cup {Len(front) + 1}
              /\ adv[Len(front) + 1] = g
              /\ \A m \in DOMAIN front : adv[m] = front[m]
          BY <1>2, <1>5, OneMore DEF adv
        <5>2. \A m \in DOMAIN front :
                m \in DOMAIN q.stack /\ q.stack[m] = front[m]
          BY <1>2, OneMore
        <5> QED BY <1>1, <1>8, <3>2, <3>4, <5>1, <5>2, StackOfNodes
      <4> QED BY <1>4, <3>1, <4>1, <4>2, AtIsNotAhead
    <3> QED BY <3>2, <3>3, <3>4
  <2>3. CASE r \in Range(q.ips)
    <3>1. ~Pending(q.stack, r) BY <1>13, <2>3 DEF Fresh
    <3>2. ~Pending(front, r) /\ ~Ahead(Top, r) BY <1>11, <3>1
    <3>3. ~Ahead(g, r) /\ ~IsPrefix(child, r) BY <1>12, <3>2
    <3>4. Ahead(h, r) BY <1>11, <3>2, <3>3
    <3> QED BY <1>6, <1>8, <2>1, <3>3, <3>4, AheadIsBelow
  <2> QED BY <1>20, <2>2, <2>3
<1>25. Nested(q.stack)'
  <2>1. Nested(stack) => Nested(q.stack)' BY <1>1, <1>7, <1>14 DEF Nested, At
  <2> QED BY <1>17, <2>1
<1>26. (Range(q.ips) \subseteq Under(Asked, named))'
  <2>1. IsPrefix(Asked, child)
    BY <1>6, <1>10, <1>17, NestedAppend DEF stack
  <2> QED BY <1>1, <1>13, <1>14, <1>20, <2>1 DEF Under
<1> QED BY <1>21, <1>23, <1>24, <1>25, <1>26 DEF CollectInv

(* An iterator returns when it has come to the end, unless it has grown.   *)
LEMMA NothingAhead ==
  ASSUME RegisteredInv, QueryShape, Return
  PROVE  \A r : Pending(q.stack, r) <=> Pending(Front(q.stack), r)
<1>1. q.pc = "collect" /\ ~Grown /\ Top.i = Top.size BY DEF Return
<1>2. /\ Front(q.stack) \in Seq(Frames) /\ Top \in Frames
      /\ q.stack = Append(Front(q.stack), Top) /\ FrameShape(Top)
  BY <1>1, FrontAndTop
<1>3. nodes[Top.node] \in Seq(Labels) /\ Top.i = Len(nodes[Top.node])
  BY <1>1, <1>2 DEF RegisteredInv, TreeInv, TreeShape, FrameShape, Grown
<1>4. \A j \in DOMAIN nodes[Top.node] : ~(j > Top.i) BY <1>3
<1>5. \A r : ~Ahead(Top, r) BY <1>4 DEF Ahead
<1>6. \A r : Pending(Append(Front(q.stack), Top), r) <=>
             (Pending(Front(q.stack), r) \/ Ahead(Top, r))
  BY <1>2, PendingAppend
<1> QED BY <1>2, <1>5, <1>6

LEMMA ReturnKeepsCollect ==
  ASSUME NameAssumption, RegisteredInv, QueryShape, CollectInv, Return \/ Raise
  PROVE  CollectInv'
<1>1. q.pc = "collect" /\ UNCHANGED <<nodes, named>>
  BY DEF Return, Raise, Looks, OnlyQuery, treeVars
<1>2. CASE Raise \/ ~(Len(q.stack) > 1)
  <2>1. q'.pc # "collect"
    BY <1>2 DEF Return, Raise, LookedUp, NoQuery
  <2> QED BY <2>1 DEF CollectInv
<1>3. CASE Return /\ Len(q.stack) > 1
  <2> DEFINE front == Front(q.stack)
  <2>1. q' = [q EXCEPT !.stack = front] BY <1>3 DEF Return
  <2>2. /\ front \in Seq(Frames) /\ Top \in Frames
        /\ q.stack = Append(front, Top)
    BY <1>1, FrontAndTop
  <2>3. \A r : Pending(q.stack, r) <=> Pending(front, r)
    BY <1>3, NothingAhead
  <2> HIDE DEF front
  <2>4. /\ q'.stack = front /\ q'.ips = q.ips /\ q'.ask = q.ask
        /\ q'.found = q.found /\ q'.before = q.before
    BY <2>1 DEF QueryShape, QueryType
  <2>5. Asked' = Asked BY <2>4 DEF Asked
  <2>6. /\ Nested(q.stack) /\ Complete /\ Fresh /\ Counted
        /\ Range(q.ips) \subseteq Under(Asked, named)
    BY <1>1 DEF CollectInv
  <2>7. \A r : Pending(q.stack, r)' <=> Pending(front, r)
    BY <1>1, <2>4 DEF Pending, Ahead
  <2>8. Complete' BY <2>3, <2>4, <2>5, <2>6, <2>7 DEF Complete, Under
  <2>9. Fresh' BY <2>3, <2>4, <2>6, <2>7 DEF Fresh
  <2>10. Nested(q.stack)'
    <3>1. Nested(front) BY <2>2, <2>6, NestedAppend
    <3>2. Nested(front) => Nested(q.stack)'
      BY <1>1, <2>4, <2>5 DEF Nested, At
    <3> QED BY <3>1, <3>2
  <2>11. Counted' BY <2>4, <2>6 DEF Counted
  <2>12. (Range(q.ips) \subseteq Under(Asked, named))'
    BY <1>1, <2>4, <2>5, <2>6 DEF Under
  <2> QED BY <2>8, <2>9, <2>10, <2>11, <2>12 DEF CollectInv
<1> QED BY <1>2, <1>3

LEMMA NextCollect ==
  ASSUME NameAssumption, QueryInv, CollectInv, [Next]_vars PROVE CollectInv'
<1>1. RegisteredInv /\ TrieInv /\ QueryShape /\ Replies BY DEF QueryInv
<1>2. RegisteredInv' /\ Grows BY NextQueryInv DEF QueryInv
<1>3. CASE UNCHANGED q BY <1>1, <1>2, <1>3, OthersKeepCollect
<1>4. CASE Resolve
  <2>1. CASE Reached BY <1>1, <2>1, ReachedKeepsCollect
  <2>2. CASE Child BY <1>1, <2>2, ChildKeepsCollect
  <2>3. CASE Return \/ Raise BY <1>1, <2>3, ReturnKeepsCollect
  <2>4. CASE FindBit \/ Found \/ Walk \/ Send \/ Timeout \/ NoForwarderLeft
             \/ Receive
    <3>1. q'.pc # "collect"
      BY <1>1, <2>4
         DEF FindBit, Found, Walk, Send, Timeout, NoForwarderLeft, Receive,
             LookedUp, NoQuery, QueryShape, QueryType
    <3> QED BY <3>1 DEF CollectInv
  <2>5. CASE SendFails \/ Unparsable
    <3>1. q'.pc # "collect" BY <1>1, <2>5, FailKeepsShape
    <3> QED BY <3>1 DEF CollectInv
  <2> QED BY <1>4, <2>1, <2>2, <2>3, <2>4, <2>5 DEF Resolve
<1>5. CASE q.n < MaxQueries /\ \E x \in Questions[q.n + 1] : Ask(x)
  <2>1. q'.pc # "collect" BY <1>1, <1>5, AskKeepsShape
  <2> QED BY <2>1 DEF CollectInv
<1>6. CASE \E i \in 1..MaxQueries : Reply(i) BY <1>3, <1>6 DEF Reply
<1> QED BY <1>3, <1>4, <1>5, <1>6, WhoActs DEF queryVars

LookupInv == QueryInv /\ FindInv /\ CollectInv

LEMMA InitLookup == ASSUME NameAssumption, Init PROVE LookupInv
<1>1. q.pc = "idle" BY DEF Init, NoQuery
<1> QED BY <1>1, InitQueryInv DEF LookupInv, FindInv, CollectInv, Lookup

LEMMA NextLookup ==
  ASSUME NameAssumption, LookupInv, [Next]_vars PROVE LookupInv'
  BY NextQueryInv, NextFind, NextCollect DEF LookupInv

(* The steps that end a lookup.                                            *)
LEMMA LookupEnds ==
  ASSUME NameAssumption, LookupInv, [Next]_vars, q.pc \in Lookup,
         q'.pc \in {"answered", "send"}
  PROVE  \/ q.pc = "find" /\ q'.pc = "send" /\ Found /\ q.found = None
         \/ q.pc = "walk" /\ q'.pc = "send" /\ Walk
            /\ Last(NextAsked) \notin Range(nodes[q.at])
         \/ q.pc = "collect" /\ Return /\ ~(Len(q.stack) > 1)
            /\ q'.pc = IF q.ips = <<>> THEN "send" ELSE "answered"
<1>1. RegisteredInv /\ TrieInv /\ QueryShape /\ q \in QueryType
  BY DEF LookupInv, QueryInv, QueryShape
<1>2. ~UNCHANGED q BY DEF Lookup
<1>3. ~(\E x \in Questions[q.n + 1] : Ask(x)) BY DEF Ask, Lookup, Done
<1>4. Resolve BY <1>2, <1>3, WhoActs DEF queryVars, Reply
<1>5. \A pc : LookedUp(pc).pc = pc BY DEF LookedUp, NoQuery
<1>6. ~(FindBit \/ Reached \/ Child \/ Raise)
  <2>1. FindBit => q'.pc = "find" BY <1>1 DEF FindBit, QueryType
  <2>2. Child => q'.pc = "collect" BY <1>1, ChildKeepsShape
  <2>3. Raise => q'.pc = "raised" BY <1>5 DEF Raise
  <2>4. Reached => q'.pc = "collect"
    <3> SUFFICES ASSUME Reached PROVE q'.pc = "collect" OBVIOUS
    <3> DEFINE query == [q EXCEPT !.pc = "collect"]
    <3>1. q.at \in DOMAIN nodes /\ q' = Visit(query, q.at)
      BY <1>1 DEF Reached, QueryShape
    <3>2. query \in QueryType /\ query.pc = "collect"
      BY <1>1 DEF QueryType, QueryPcs
    <3> HIDE DEF query
    <3> QED BY <1>1, <3>1, <3>2, VisitShape
  <2> QED BY <2>1, <2>2, <2>3, <2>4
<1>7. ~(Send \/ SendFails \/ Unparsable \/ Timeout \/ NoForwarderLeft \/ Receive)
  BY DEF Send, SendFails, Unparsable, Timeout, NoForwarderLeft, Receive, Lookup
<1>8. Found \/ Walk \/ Return BY <1>4, <1>6, <1>7 DEF Resolve
<1>9. CASE Found BY <1>1, <1>5, <1>9 DEF Found, QueryType
<1>10. CASE Walk BY <1>1, <1>5, <1>10 DEF Walk, QueryType
<1>11. CASE Return BY <1>1, <1>5, <1>11 DEF Return, QueryType
<1> QED BY <1>8, <1>9, <1>10, <1>11

(* When the outermost iterator returns, nothing is left out.               *)
LEMMA AllCollected ==
  ASSUME LookupInv, q.pc = "collect", Return, ~(Len(q.stack) > 1)
  PROVE  Under(Asked, q.before) \subseteq Range(q.ips)
<1>1. RegisteredInv /\ QueryShape /\ Complete
  BY DEF LookupInv, QueryInv, CollectInv
<1>2. Front(q.stack) \in Seq(Frames) /\ Len(Front(q.stack)) = Len(q.stack) - 1
  BY <1>1, FrontAndTop
<1>3. Len(q.stack) \in Nat /\ Len(q.stack) > 0 BY <1>1, TopShape
<1>4. DOMAIN Front(q.stack) = {} BY <1>2, <1>3
<1>5. \A r : ~Pending(Front(q.stack), r) BY <1>4 DEF Pending
<1>6. \A r : ~Pending(q.stack, r) BY <1>1, <1>5, NothingAhead
<1> QED BY <1>1, <1>6 DEF Complete

-----------------------------------------------------------------------------
(* An answer of the resolver is complete, whatever is inserted while it     *)
(* walks the tree without a lock: it has every address registered under the *)
(* name when it was asked, once, and none of another name, and the network  *)
(* it looked in is as specific as any known then (DynamicResolver.resolve). *)
THEOREM CompleteAnswers == Spec => AnswerIsComplete
<1>1. ASSUME NameAssumption, LookupInv, [Next]_vars,
             q.pc = "collect", q'.pc = "answered"
      PROVE  /\ Under(Asked, q.before) \subseteq Range(q.ips)
             /\ Range(q.ips) \subseteq Under(Asked, named)
             /\ Cardinality(Range(q.ips)) = Len(q.ips)
             /\ \A n \in q.known : Len(Subnet[q.found]) >= Len(Subnet[n])
  <2>1. Return /\ ~(Len(q.stack) > 1) BY <1>1, LookupEnds DEF Lookup
  <2>2. Under(Asked, q.before) \subseteq Range(q.ips)
    BY <1>1, <2>1, AllCollected
  <2>3. Range(q.ips) \subseteq Under(Asked, named) /\ Counted
    BY <1>1 DEF LookupInv, CollectInv
  <2>4. \A n \in q.known : Len(Subnet[q.found]) >= Len(Subnet[n])
    <3> SUFFICES ASSUME NEW n \in q.known
                 PROVE  Len(Subnet[q.found]) >= Len(Subnet[n])
      OBVIOUS
    <3>1. n \in Networks /\ q.found \in Networks
      BY <1>1 DEF LookupInv, QueryInv, QueryShape, QueryType
    <3>2. /\ Len(Subnet[n]) <= Width
          /\ Len(Subnet[n]) \in Nat /\ Len(Subnet[q.found]) \in Nat
      BY <3>1, NameAssumption DEF NameAssumption
    <3>3. Len(Subnet[n]) <= Len(Subnet[q.found])
      BY <1>1, <3>2 DEF LookupInv, FindInv, Specific
    <3> QED BY <3>2, <3>3
  <2> QED BY <2>2, <2>3, <2>4 DEF Counted
<1>2. NameAssumption /\ LookupInv /\ [Next]_vars =>
        [q.pc = "collect" /\ q'.pc = "answered" =>
          /\ Under(Asked, q.before) \subseteq Range(q.ips)
          /\ Range(q.ips) \subseteq Under(Asked, named)
          /\ Cardinality(Range(q.ips)) = Len(q.ips)
          /\ \A n \in q.known : Len(Subnet[q.found]) >= Len(Subnet[n])]_vars
  BY <1>1
<1> QED BY <1>2, NameAssumption, InitLookup, NextLookup, PTL
        DEF Spec, AnswerIsComplete

(* A name that is registered in the client's network is never asked of the *)
(* system's resolvers, and so never leaves the host: the lookup gives up    *)
(* only where the client's network or the name was unknown when it began.  *)
THEOREM OnlyUnknownForwarded == Spec => ForwardedIsUnknown
<1>1. ASSUME NameAssumption, LookupInv, [Next]_vars,
             q.pc \in {"find", "walk", "collect"}, q'.pc = "send"
      PROVE  IF q.found = None THEN q.known = {}
             ELSE Under(Asked, q.before) = {}
  <2>1. RegisteredInv /\ TrieInv /\ QueryShape /\ FindInv /\ q.pc \in Lookup
    BY <1>1 DEF LookupInv, QueryInv, Lookup
  <2>2. None \notin Networks BY NameAssumption DEF NameAssumption
  <2>3. CASE q.pc = "find"
    <3>1. Found /\ q.found = None BY <1>1, <2>1, <2>3, LookupEnds
    <3> QED BY <1>1, <2>1, <3>1, FoundKeepsFind
  <2>4. CASE q.pc = "walk"
    <3>1. Walk /\ Last(NextAsked) \notin Range(nodes[q.at])
      BY <1>1, <2>1, <2>4, LookupEnds
    <3>2. ASSUME NEW r \in Under(Asked, q.before) PROVE FALSE
      <4> DEFINE p == q.at  s == Asked  next == NextAsked
      <4>1. /\ r \in DOMAIN nodes /\ IsPrefix(s, r) /\ r \in Seq(Labels)
        BY <2>1
           DEF Under, QueryShape, RegisteredInv, TreeInv, TreeShape, Paths
      <4>2. /\ p \in Seq(Labels) /\ s \in Seq(Labels) /\ IsPrefix(p, s) /\ p # s
            /\ next = SubSeq(s, 1, Len(p) + 1) /\ p \in DOMAIN nodes
        BY <2>1, <2>4, <3>1, PathOfQuery
           DEF QueryShape, Walk, NextAsked, RegisteredInv, TreeInv, TreeShape,
               Paths
      <4> HIDE DEF p, s, next
      <4>3. /\ next \in Seq(Labels) /\ IsPrefix(next, s)
            /\ Last(next) \in Labels /\ next = Append(p, Last(next))
        BY <4>2, OneFurther
      <4>4. IsPrefix(next, r) BY <4>1, <4>2, <4>3, PrefixIsTransitive
      <4>5. Len(next) \in 0..Len(r) /\ next = SubSeq(r, 1, Len(next))
        BY <4>1, <4>3, <4>4, PrefixIsSubSeq
      <4>6. next \in DOMAIN nodes
        BY <2>1, <4>1, <4>5 DEF RegisteredInv, TreeInv, Tree, Rooted
      <4>7. Last(next) \in Range(nodes[p])
        BY <2>1, <4>2, <4>3, <4>6
           DEF RegisteredInv, TreeInv, Tree, ChildrenAreNodes
      <4> QED BY <3>1, <4>7 DEF p, next
    <3>3. q.found \in Networks BY <2>1, <2>4 DEF QueryShape
    <3> QED BY <2>2, <3>2, <3>3
  <2>5. CASE q.pc = "collect"
    <3>1. Return /\ ~(Len(q.stack) > 1) /\ q.ips = <<>>
      BY <1>1, <2>1, <2>5, LookupEnds
    <3>2. Under(Asked, q.before) \subseteq Range(q.ips)
      BY <1>1, <2>5, <3>1, AllCollected
    <3>3. Range(<<>>) = {} BY DEF Range
    <3>4. q.found \in Networks BY <2>1, <2>5 DEF QueryShape
    <3> QED BY <2>2, <3>1, <3>2, <3>3, <3>4
  <2> QED BY <1>1, <2>3, <2>4, <2>5
<1>2. NameAssumption /\ LookupInv /\ [Next]_vars =>
        [q.pc \in {"find", "walk", "collect"} /\ q'.pc = "send" =>
           IF q.found = None THEN q.known = {}
           ELSE Under(Asked, q.before) = {}]_vars
  BY <1>1
<1> QED BY <1>2, NameAssumption, InitLookup, NextLookup, PTL
        DEF Spec, ForwardedIsUnknown
=============================================================================
