--------------------------- MODULE NameServiceProofs ---------------------------
(***************************************************************************)
(* Theorems about NameService, for every set of containers and networks,   *)
(* every names, subnets and questions and every number of forwarders.      *)
(***************************************************************************)
EXTENDS NameService, SequenceTheorems, TLAPS

Labels == Networks \cup STRING
Paths == Seq(Labels)

(* What the variables of the tree are.                                     *)
TreeShape ==
  /\ DOMAIN nodes \subseteq Paths
  /\ \A p \in DOMAIN nodes : nodes[p] \in Seq(Labels)
  /\ named \subseteq DOMAIN nodes
  /\ answered \subseteq named
  /\ ins \in [Writers -> [pc : {"idle", "lock", "step", "create"},
                          path : Paths, at : Paths]]

(* A node hangs below all the nodes on its path, and a label is among the  *)
(* children of a node exactly if it leads to one.                          *)
Rooted ==
  \A p \in DOMAIN nodes : \A k \in 0..Len(p) : SubSeq(p, 1, k) \in DOMAIN nodes
ChildrenAreNodes ==
  \A p \in DOMAIN nodes, l \in Labels :
    l \in Range(nodes[p]) <=> Append(p, l) \in DOMAIN nodes
OnceEach == \A p \in DOMAIN nodes : \A i, j \in DOMAIN nodes[p] :
              nodes[p][i] = nodes[p][j] => i = j
Tree == <<>> \in DOMAIN nodes /\ Rooted /\ ChildrenAreNodes /\ OnceEach

(* One thread at a time inserts, and stands at a node on its path; what it *)
(* has found missing is still missing.                                     *)
OneInserts == \A w \in Writers : ins[w].pc \in {"step", "create"} <=> treeLock = w
OnPath(w) ==
  /\ ins[w].at \in DOMAIN nodes
  /\ IsPrefix(ins[w].at, ins[w].path)
  /\ ins[w].pc = "create" =>
       ins[w].at # ins[w].path /\ NextLabel(w) \notin Range(nodes[ins[w].at])
Inserting ==
  /\ OneInserts
  /\ \A w \in Writers : treeLock = w => OnPath(w)
  /\ \A w \in Writers : ins[w].pc \in {"idle", "lock"} => ins[w].at = <<>>

TreeInv == TreeShape /\ Tree /\ Inserting

(* The worker: what is registered of the container it is starting.         *)
Resolves(c, n) ==
  /\ Path(c, n) \in named
  /\ Subnet[n] \in DOMAIN trie /\ trie[Subnet[n]] = n
WorkerShape ==
  /\ wk \in [pc : {"idle", "subnet", "dns", "insert", "fork"},
            cont : Containers \cup {None}, nets : Seq(Networks),
            at : Seq({0, 1})]
  /\ wk.pc # "idle" => wk.cont \in Containers
  /\ wk.pc \in {"subnet", "dns", "insert"} => wk.nets # <<>>
  /\ wk.pc = "fork" => wk.nets = <<>>
  /\ DOMAIN trie \subseteq Seq({0, 1}) /\ {<<>>, wk.at} \subseteq DOMAIN trie
  /\ forked \subseteq Containers
  /\ IF wk.pc = "subnet" THEN IsPrefix(wk.at, Subnet[Net]) ELSE wk.at = <<>>
SoFar ==
  wk.pc # "idle" =>
    \A n \in Range(NetsOf[wk.cont]) : n \in Range(wk.nets) \/ Resolves(wk.cont, n)
AtWork ==
  /\ wk.pc # "insert" => ins["worker"].pc = "idle"
  /\ wk.pc \in {"dns", "insert"} =>
       Subnet[Net] \in DOMAIN trie /\ trie[Subnet[Net]] = Net
  /\ wk.pc = "insert" =>
       IF ins["worker"].pc = "idle" THEN Path(wk.cont, Net) \in named
       ELSE ins["worker"].path = Path(wk.cont, Net)
RegInv == /\ WorkerShape /\ SoFar /\ AtWork
          /\ \A c \in forked, n \in Networks :
               n \in Range(NetsOf[c]) => Resolves(c, n)

-----------------------------------------------------------------------------
(* Sequences, prefixes and one more label.                                 *)

LEMMA EmptyPrefix ==
  ASSUME NEW S, NEW r \in Seq(S)
  PROVE  <<>> \in Seq(S) /\ IsPrefix(<<>>, r)
  BY DEF IsPrefix

LEMMA PrefixIsSubSeq ==
  ASSUME NEW S, NEW p \in Seq(S), NEW r \in Seq(S), IsPrefix(p, r)
  PROVE  Len(p) \in 0..Len(r) /\ p = SubSeq(r, 1, Len(p))
  BY DEF IsPrefix

LEMMA PrefixesOfAppend ==
  ASSUME NEW S, NEW p \in Seq(S), NEW x \in S, NEW k \in 0..Len(p) + 1
  PROVE  SubSeq(Append(p, x), 1, k) =
           IF k = Len(p) + 1 THEN Append(p, x) ELSE SubSeq(p, 1, k)
  OBVIOUS

LEMMA RangeOfAppend ==
  ASSUME NEW S, NEW p \in Seq(S), NEW x \in S
  PROVE  Range(Append(p, x)) = Range(p) \cup {x}
<1>1. DOMAIN Append(p, x) = 1..Len(p) + 1 /\ DOMAIN p = 1..Len(p) OBVIOUS
<1>2. \A i \in 1..Len(p) : Append(p, x)[i] = p[i] OBVIOUS
<1>3. Append(p, x)[Len(p) + 1] = x OBVIOUS
<1>4. ASSUME NEW e \in Range(Append(p, x)) PROVE e \in Range(p) \cup {x}
  <2>1. PICK i \in 1..Len(p) + 1 : e = Append(p, x)[i] BY <1>1, <1>4 DEF Range
  <2>2. CASE i \in 1..Len(p) BY <1>1, <1>2, <2>1, <2>2 DEF Range
  <2>3. CASE i = Len(p) + 1 BY <1>3, <2>1, <2>3
  <2> QED BY <2>1, <2>2, <2>3
<1>5. ASSUME NEW e \in Range(p) PROVE e \in Range(Append(p, x))
  <2>1. PICK i \in 1..Len(p) : e = p[i] BY <1>1, <1>5 DEF Range
  <2>2. i \in 1..Len(p) + 1 OBVIOUS
  <2> QED BY <1>1, <1>2, <2>1, <2>2 DEF Range
<1>6. x \in Range(Append(p, x))
  <2>1. Len(p) + 1 \in 1..Len(p) + 1 OBVIOUS
  <2> QED BY <1>1, <1>3, <2>1 DEF Range
<1> QED BY <1>4, <1>5, <1>6

LEMMA ShorterPrefix ==
  ASSUME NEW S, NEW p \in Seq(S), NEW r \in Seq(S), IsPrefix(p, r), p # r
  PROVE  Len(p) \in Nat /\ Len(r) \in Nat /\ Len(p) < Len(r)
<1>1. Len(p) \in Nat /\ Len(r) \in Nat /\ Len(p) <= Len(r) BY DEF IsPrefix
<1>2. p = SubSeq(r, 1, Len(p)) BY PrefixIsSubSeq
<1>3. r = SubSeq(r, 1, Len(r)) BY <1>1
<1> QED BY <1>1, <1>2, <1>3

(* One step further along a path.                                          *)
LEMMA OneFurther ==
  ASSUME NEW S, NEW p \in Seq(S), NEW r \in Seq(S), IsPrefix(p, r), p # r
  PROVE  LET next == SubSeq(r, 1, Len(p) + 1) IN
         /\ next \in Seq(S) /\ Len(next) = Len(p) + 1 /\ IsPrefix(next, r)
         /\ Last(next) \in S /\ next = Append(p, Last(next))
<1> DEFINE next == SubSeq(r, 1, Len(p) + 1)
<1>1. Len(p) \in Nat /\ Len(r) \in Nat /\ Len(p) < Len(r) BY ShorterPrefix
<1>2. next \in Seq(S) /\ Len(next) = Len(p) + 1 BY <1>1
<1>3. \A i \in 1..Len(p) + 1 : next[i] = r[i] BY <1>1
<1>4. \A i \in 1..Len(p) : p[i] = r[i]
  <2>1. p = SubSeq(r, 1, Len(p)) BY PrefixIsSubSeq
  <2> QED BY <1>1, <2>1
<1> HIDE DEF next
<1>5. Last(next) = r[Len(p) + 1] /\ Last(next) \in S
  BY <1>1, <1>2, <1>3 DEF Last
<1>6. next = Append(p, Last(next)) BY <1>1, <1>2, <1>3, <1>4, <1>5
<1>7. IsPrefix(next, r) BY <1>1, <1>2, <1>3 DEF IsPrefix
<1> QED BY <1>2, <1>5, <1>6, <1>7 DEF next

-----------------------------------------------------------------------------
(* The tree.                                                               *)

(* Nothing is taken away, and children are added behind the others.        *)
Grows == /\ DOMAIN nodes \subseteq DOMAIN nodes' /\ named \subseteq named'
         /\ \A p \in DOMAIN nodes : IsPrefix(nodes[p], nodes'[p])

LEMMA SameGrows ==
  ASSUME TreeShape, UNCHANGED nodes, named \subseteq named' PROVE Grows
<1>1. \A s \in Seq(Labels) : IsPrefix(s, s) BY DEF IsPrefix
<1> QED BY <1>1 DEF TreeShape, Grows

(* A request begins an insert, or takes the lock.                          *)
LEMMA BeginKeepsTree ==
  ASSUME NameAssumption, TreeInv, NEW w \in Writers, ins[w].pc = "idle",
         NEW path \in Paths, Begin(w, path),
         UNCHANGED <<nodes, named, treeLock, answered>>
  PROVE  TreeInv'
<1>1. <<>> \in Paths BY DEF Paths
<1>2. ins' = [ins EXCEPT ![w] = [pc |-> "lock", path |-> path, at |-> <<>>]]
  BY DEF Begin
<1>3. treeLock # w BY DEF TreeInv, Inserting, OneInserts
<1>4. \A v \in Writers : v # w => ins'[v] = ins[v]
  BY <1>2 DEF TreeInv, TreeShape
<1>5. ins'[w] = [pc |-> "lock", path |-> path, at |-> <<>>]
  BY <1>2 DEF TreeInv, TreeShape
<1>6. TreeShape' BY <1>1, <1>2 DEF TreeInv, TreeShape
<1>7. Tree' BY DEF TreeInv, Tree, Rooted, ChildrenAreNodes, OnceEach
<1>8. OneInserts' BY <1>3, <1>4, <1>5 DEF TreeInv, Inserting, OneInserts
<1>9. \A v \in Writers : treeLock' = v => OnPath(v)'
  BY <1>3, <1>4 DEF TreeInv, Inserting, OnPath, NextLabel, NextNode
<1>10. \A v \in Writers : ins'[v].pc \in {"idle", "lock"} => ins'[v].at = <<>>
  BY <1>4, <1>5 DEF TreeInv, Inserting
<1> QED BY <1>6, <1>7, <1>8, <1>9, <1>10 DEF TreeInv, Inserting

LEMMA LockKeepsTree ==
  ASSUME NameAssumption, TreeInv, NEW w \in Writers, LockTree(w)
  PROVE  TreeInv' /\ Grows
<1> USE DEF LockTree, OnlyTree
<1>1. ins' = [ins EXCEPT ![w].pc = "step"] /\ treeLock = None /\ treeLock' = w
      /\ UNCHANGED <<nodes, named, answered>> /\ ins[w].at = <<>>
  BY DEF TreeInv, Inserting
<1>2. \A v \in Writers : v # w => ins'[v] = ins[v]
  BY <1>1 DEF TreeInv, TreeShape
<1>3. ins'[w] = [ins[w] EXCEPT !.pc = "step"] /\ ins'[w].pc = "step"
      /\ ins'[w].at = <<>> /\ ins'[w].path = ins[w].path
  BY <1>1 DEF TreeInv, TreeShape
<1>4. TreeShape' BY <1>1 DEF TreeInv, TreeShape
<1>5. Tree' BY <1>1 DEF TreeInv, Tree, Rooted, ChildrenAreNodes, OnceEach
<1>6. OneInserts'
  BY <1>1, <1>2, <1>3, NameAssumption
     DEF NameAssumption, TreeInv, Inserting, OneInserts, Writers
<1>7. IsPrefix(<<>>, ins[w].path) BY EmptyPrefix DEF TreeInv, TreeShape, Paths
<1>8. OnPath(w)' BY <1>1, <1>3, <1>7 DEF OnPath, TreeInv, Tree
<1>9. \A v \in Writers : ins'[v].pc \in {"idle", "lock"} => ins'[v].at = <<>>
  BY <1>2, <1>3 DEF TreeInv, Inserting
<1>10. Grows BY <1>1, SameGrows DEF TreeInv
<1> QED BY <1>1, <1>4, <1>5, <1>6, <1>8, <1>9, <1>10 DEF TreeInv, Inserting

(* The thread that holds the lock moves on; nobody else does.              *)
LEMMA HolderMoves ==
  ASSUME NameAssumption, TreeInv, NEW w \in Writers,
         ins[w].pc \in {"step", "create"}, NEW pc \in {"step", "create"},
         NEW at \in Paths, ins' = [ins EXCEPT ![w].pc = pc, ![w].at = at],
         UNCHANGED treeLock, TreeShape', Tree', OnPath(w)'
  PROVE  TreeInv'
<1>1. treeLock = w BY DEF TreeInv, Inserting, OneInserts
<1>2. \A v \in Writers : v # w => ins'[v] = ins[v] BY DEF TreeInv, TreeShape
<1>3. ins'[w].pc = pc BY DEF TreeInv, TreeShape
<1>4. OneInserts' BY <1>1, <1>2, <1>3 DEF TreeInv, Inserting, OneInserts
<1> QED BY <1>1, <1>2, <1>3, <1>4 DEF TreeInv, Inserting

(* A thread that has not reached the end of its path goes one label on.    *)
LEMMA NextOnPath ==
  ASSUME TreeShape, NEW w \in Writers,
         IsPrefix(ins[w].at, ins[w].path), ins[w].at # ins[w].path
  PROVE  /\ NextNode(w) \in Paths /\ IsPrefix(NextNode(w), ins[w].path)
         /\ NextLabel(w) \in Labels
         /\ NextNode(w) = Append(ins[w].at, NextLabel(w))
<1> DEFINE p == ins[w].at  r == ins[w].path  next == NextNode(w)
<1>1. p \in Seq(Labels) /\ r \in Seq(Labels) BY DEF TreeShape, Paths
<1>2. next = SubSeq(r, 1, Len(p) + 1) /\ NextLabel(w) = Last(next)
      /\ IsPrefix(p, r) /\ p # r
  BY DEF NextNode, NextLabel
<1> HIDE DEF p, r, next
<1>3. /\ next \in Seq(Labels) /\ IsPrefix(next, r)
      /\ Last(next) \in Labels /\ next = Append(p, Last(next))
  BY <1>1, <1>2, OneFurther
<1> QED BY <1>2, <1>3 DEF p, r, next, Paths

LEMMA StepKeepsTree ==
  ASSUME NameAssumption, TreeInv, NEW w \in Writers, Step(w)
  PROVE  TreeInv' /\ Grows
<1> DEFINE at == ins[w].at  path == ins[w].path  new == NextNode(w)
<1>1. /\ ins[w].pc = "step" /\ at # path /\ at \in Paths /\ path \in Paths
      /\ UNCHANGED <<nodes, named, treeLock, answered>>
  BY DEF Step, TreeInv, TreeShape
<1>2. at \in DOMAIN nodes /\ IsPrefix(at, path)
  BY <1>1 DEF TreeInv, Inserting, OneInserts, OnPath
<1>3. /\ new \in Paths /\ IsPrefix(new, path)
      /\ NextLabel(w) \in Labels /\ new = Append(at, NextLabel(w))
  BY <1>1, <1>2, NextOnPath DEF TreeInv
<1>4. Tree' BY <1>1 DEF TreeInv, Tree, Rooted, ChildrenAreNodes, OnceEach
<1>5. Grows BY <1>1, SameGrows DEF TreeInv
<1>6. CASE NextLabel(w) \in Range(nodes[at])
  <2>1. ins' = [ins EXCEPT ![w].at = new] BY <1>6 DEF Step
  <2>2. ins' = [ins EXCEPT ![w].pc = "step", ![w].at = new]
    BY <1>1, <2>1 DEF TreeInv, TreeShape
  <2>3. TreeShape' BY ZenonT(40), <1>1, <1>3, <2>1 DEF TreeInv, TreeShape
  <2>4. /\ ins'[w].at = new /\ ins'[w].path = path /\ ins'[w].pc = "step"
    BY <1>1, <2>1 DEF TreeInv, TreeShape
  <2>5. new \in DOMAIN nodes
    BY <1>2, <1>3, <1>6 DEF TreeInv, Tree, ChildrenAreNodes
  <2>6. OnPath(w)' BY <1>1, <1>3, <2>4, <2>5 DEF OnPath
  <2> QED BY <1>1, <1>3, <1>4, <2>2, <2>3, <2>6, <1>5, HolderMoves
<1>7. CASE NextLabel(w) \notin Range(nodes[at])
  <2>1. ins' = [ins EXCEPT ![w].pc = "create"] BY <1>7 DEF Step
  <2>2. ins' = [ins EXCEPT ![w].pc = "create", ![w].at = at]
    BY <1>1, <2>1 DEF TreeInv, TreeShape
  <2>3. TreeShape' BY <1>1, <2>1 DEF TreeInv, TreeShape
  <2>4. /\ ins'[w].at = at /\ ins'[w].path = path /\ ins'[w].pc = "create"
    BY <1>1, <2>1 DEF TreeInv, TreeShape
  <2>5. OnPath(w)'
    BY <1>1, <1>2, <1>7, <2>4 DEF OnPath, NextLabel, NextNode
  <2> QED BY <1>1, <1>4, <2>2, <2>3, <2>5, <1>5, HolderMoves
<1> QED BY <1>6, <1>7

(* The new node is missing, and so is all that would lie below it.         *)
LEMMA CreateKeepsTree ==
  ASSUME NameAssumption, TreeInv, NEW w \in Writers, Create(w)
  PROVE  TreeInv' /\ Grows
<1> DEFINE at == ins[w].at  path == ins[w].path  new == NextNode(w)
           label == NextLabel(w)
<1>1. /\ ins[w].pc = "create" /\ at \in Paths /\ path \in Paths
      /\ UNCHANGED <<treeLock, answered>>
      /\ ins' = [ins EXCEPT ![w].pc = "step", ![w].at = new]
  BY DEF Create, TreeInv, TreeShape
<1>2. /\ at \in DOMAIN nodes /\ IsPrefix(at, path) /\ at # path
      /\ label \notin Range(nodes[at])
  BY <1>1 DEF TreeInv, Inserting, OneInserts, OnPath
<1>3. /\ new \in Paths /\ IsPrefix(new, path)
      /\ label \in Labels /\ new = Append(at, label)
  BY <1>1, <1>2, NextOnPath DEF TreeInv
<1>4. new \notin DOMAIN nodes
  BY <1>2, <1>3 DEF TreeInv, Tree, ChildrenAreNodes
<1>5. Under(new, DOMAIN nodes) = {}
  <2> SUFFICES ASSUME NEW r \in DOMAIN nodes, IsPrefix(new, r) PROVE FALSE
    BY DEF Under
  <2>1. r \in Paths BY DEF TreeInv, TreeShape
  <2>2. Len(new) \in 0..Len(r) /\ new = SubSeq(r, 1, Len(new))
    <3> HIDE DEF new
    <3> QED BY <1>3, <2>1, PrefixIsSubSeq DEF Paths
  <2> QED BY <1>4, <2>2 DEF TreeInv, Tree, Rooted
<1>6. nodes' = [p \in DOMAIN nodes \cup {new} |->
                  IF p = new THEN <<>>
                  ELSE IF p = at /\ label \notin Range(nodes[at])
                  THEN Append(nodes[at], label) ELSE nodes[p]]
      /\ named' = named
  <2>1. DOMAIN nodes \ Under(new, DOMAIN nodes) = DOMAIN nodes BY <1>5
  <2>2. named \cap DOMAIN nodes = named BY DEF TreeInv, TreeShape
  <2> QED BY <2>1, <2>2 DEF Create
<1>7. /\ DOMAIN nodes' = DOMAIN nodes \cup {new}
      /\ nodes'[new] = <<>> /\ nodes'[at] = Append(nodes[at], label)
      /\ \A p \in DOMAIN nodes \ {at} : nodes'[p] = nodes[p]
  BY <1>2, <1>4, <1>6
<1>8. TreeShape'
  <2>1. \A p \in DOMAIN nodes' : nodes'[p] \in Seq(Labels)
    <3>1. \A p \in DOMAIN nodes : nodes[p] \in Seq(Labels)
      BY DEF TreeInv, TreeShape
    <3>2. Append(nodes[at], label) \in Seq(Labels) /\ <<>> \in Seq(Labels)
      BY <1>2, <1>3, <3>1
    <3> QED BY <1>7, <3>1, <3>2
  <2>2. DOMAIN nodes' \subseteq Paths /\ named' \subseteq DOMAIN nodes'
        /\ answered' \subseteq named'
    BY <1>1, <1>3, <1>6, <1>7 DEF TreeInv, TreeShape
  <2>3. ins' \in [Writers -> [pc : {"idle", "lock", "step", "create"},
                             path : Paths, at : Paths]]
    BY <1>1, <1>3 DEF TreeInv, TreeShape
  <2> QED BY <2>1, <2>2, <2>3 DEF TreeShape
<1>9. Rooted'
  <2> SUFFICES ASSUME NEW p \in DOMAIN nodes', NEW k \in 0..Len(p)
               PROVE  SubSeq(p, 1, k) \in DOMAIN nodes'
    BY DEF Rooted
  <2>1. CASE p \in DOMAIN nodes BY <1>7, <2>1 DEF TreeInv, Tree, Rooted
  <2>2. CASE p = new
    <3>1. at \in Seq(Labels) /\ label \in Labels /\ Len(new) = Len(at) + 1
      BY <1>1, <1>3 DEF Paths
    <3>2. k \in 0..Len(at) + 1 BY <2>2, <3>1
    <3>3. SubSeq(new, 1, k) = IF k = Len(at) + 1 THEN new ELSE SubSeq(at, 1, k)
      <4> HIDE DEF at, label, new
      <4> QED BY <1>3, <3>1, <3>2, PrefixesOfAppend
    <3>4. k # Len(at) + 1 => k \in 0..Len(at) BY <3>1, <3>2
    <3> QED BY <1>2, <1>7, <2>2, <3>3, <3>4 DEF TreeInv, Tree, Rooted
  <2> QED BY <1>7, <2>1, <2>2
<1>10. ChildrenAreNodes'
  <2> SUFFICES ASSUME NEW p \in DOMAIN nodes', NEW l \in Labels
               PROVE  l \in Range(nodes'[p]) <=> Append(p, l) \in DOMAIN nodes'
    BY DEF ChildrenAreNodes
  <2>1. CASE p = new
    <3>1. Append(p, l) # new /\ IsPrefix(new, Append(p, l))
      BY <1>3, <2>1 DEF IsPrefix, Paths
    <3>2. Append(p, l) \notin DOMAIN nodes BY <1>5, <3>1 DEF Under
    <3>3. Range(nodes'[p]) = {} BY <1>7, <2>1 DEF Range
    <3> QED BY <1>7, <3>1, <3>2, <3>3
  <2>2. CASE p = at
    <3>1. Range(nodes'[p]) = Range(nodes[p]) \cup {label}
      <4> DEFINE s == nodes[at]
      <4>1. s \in Seq(Labels) /\ label \in Labels
        BY <1>2, <1>3 DEF TreeInv, TreeShape
      <4>2. nodes'[p] = Append(s, label) /\ nodes[p] = s BY <1>7, <2>2
      <4> HIDE DEF s, at, label
      <4>3. Range(Append(s, label)) = Range(s) \cup {label}
        BY <4>1, RangeOfAppend
      <4> QED BY <4>2, <4>3
    <3>2. Append(p, l) = new <=> l = label
      BY <1>1, <1>3, <2>2 DEF Paths
    <3> QED BY <1>2, <1>7, <2>2, <3>1, <3>2 DEF TreeInv, Tree, ChildrenAreNodes
  <2>3. CASE p # new /\ p # at
    <3>1. p \in DOMAIN nodes /\ p \in Paths
      BY <1>7, <2>3 DEF TreeInv, TreeShape
    <3>2. Append(p, l) # new
      <4>1. at \in Seq(Labels) /\ label \in Labels /\ p \in Seq(Labels)
        BY <1>1, <1>3, <3>1 DEF Paths
      <4> HIDE DEF at, label, new
      <4> QED BY <1>3, <2>3, <4>1, AppendInjective
    <3> QED BY <1>7, <2>3, <3>1, <3>2 DEF TreeInv, Tree, ChildrenAreNodes
  <2> QED BY <2>1, <2>2, <2>3
<1>11. OnPath(w)'
  <2>1. ins'[w].at = new /\ ins'[w].path = path /\ ins'[w].pc = "step"
    BY <1>1 DEF TreeInv, TreeShape
  <2> QED BY <1>3, <1>7, <2>1 DEF OnPath
<1>12. ASSUME NEW p \in DOMAIN nodes
       PROVE  /\ IsPrefix(nodes[p], nodes'[p])
              /\ \A i, j \in DOMAIN nodes'[p] :
                   nodes'[p][i] = nodes'[p][j] => i = j
  <2> DEFINE s == nodes[p]
  <2>1. s \in Seq(Labels) /\ \A i, j \in DOMAIN s : s[i] = s[j] => i = j
    BY DEF TreeInv, TreeShape, Tree, OnceEach
  <2>2. nodes'[p] = s \/ (nodes'[p] = Append(s, label) /\ label \notin Range(s))
    BY <1>2, <1>7
  <2>3. label \in Labels BY <1>3
  <2> HIDE DEF s, label
  <2>4. IsPrefix(s, s) /\ IsPrefix(s, Append(s, label)) BY <2>1, <2>3 DEF IsPrefix
  <2>5. label \notin Range(s) =>
          \A i, j \in DOMAIN Append(s, label) :
            Append(s, label)[i] = Append(s, label)[j] => i = j
    BY <2>1, <2>3 DEF Range
  <2> QED BY <2>1, <2>2, <2>4, <2>5 DEF s
<1>13. OnceEach'
  BY <1>7, <1>12 DEF OnceEach
<1>14. Tree' /\ Grows
  BY <1>6, <1>7, <1>9, <1>10, <1>12, <1>13 DEF TreeInv, Tree, Grows
<1> QED BY <1>1, <1>3, <1>8, <1>11, <1>14, HolderMoves

LEMMA SetNameKeepsTree ==
  ASSUME NameAssumption, TreeInv, NEW w \in Writers, SetName(w)
  PROVE  TreeInv' /\ Grows /\ ins[w].path \in named'
<1>1. /\ ins[w].pc = "step" /\ ins[w].at = ins[w].path /\ treeLock = w
      /\ named' = named \cup {ins[w].path}
      /\ answered' = answered \cup {ins[w].path}
      /\ treeLock' = None /\ ins' = [ins EXCEPT ![w] = NoInsert]
      /\ UNCHANGED nodes
  BY DEF SetName, TreeInv, Inserting, OneInserts
<1>2. ins[w].path \in DOMAIN nodes BY <1>1 DEF TreeInv, Inserting, OnPath
<1>3. ins'[w] = NoInsert /\ \A v \in Writers : v # w => ins'[v] = ins[v]
  BY <1>1 DEF TreeInv, TreeShape
<1>4. NoInsert \in [pc : {"idle", "lock", "step", "create"}, path : Paths,
                   at : Paths]
  BY DEF NoInsert, Paths
<1>5. TreeShape' BY <1>1, <1>2, <1>4 DEF TreeInv, TreeShape
<1>6. Tree' BY <1>1 DEF TreeInv, Tree, Rooted, ChildrenAreNodes, OnceEach
<1>7. OneInserts' /\ \A v \in Writers : treeLock' # v
  BY <1>1, <1>3, NameAssumption
     DEF NameAssumption, NoInsert, TreeInv, Inserting, OneInserts, Writers
<1>8. \A v \in Writers : ins'[v].pc \in {"idle", "lock"} => ins'[v].at = <<>>
  BY <1>3 DEF NoInsert, TreeInv, Inserting
<1>9. Grows BY <1>1, SameGrows DEF TreeInv
<1> QED BY <1>1, <1>5, <1>6, <1>7, <1>8, <1>9 DEF TreeInv, Inserting

LEMMA InsertKeepsTree ==
  ASSUME NameAssumption, TreeInv, NEW w \in Writers, Insert(w)
  PROVE  TreeInv' /\ Grows
  BY LockKeepsTree, StepKeepsTree, CreateKeepsTree, SetNameKeepsTree DEF Insert

LEMMA NoInsertKeepsTree ==
  ASSUME TreeInv, UNCHANGED treeVars
  PROVE  TreeInv' /\ Grows
<1>1. TreeInv'
  BY DEF treeVars, TreeInv, TreeShape, Tree, Rooted, ChildrenAreNodes, OnceEach,
         Inserting, OneInserts, OnPath, NextLabel, NextNode
<1> QED BY <1>1, SameGrows DEF TreeInv, treeVars

LEMMA PathsTyped ==
  ASSUME NameAssumption, NEW n \in Networks
  PROVE  /\ HostPath(n) \in Paths
         /\ \A c \in Containers : Path(c, n) \in Paths
<1>1. <<n>> \in Seq(Labels) BY DEF Labels
<1>2. \A r \in Seq(STRING) : r \in Seq(Labels)
  <2>1. STRING \subseteq Labels BY DEF Labels
  <2> QED BY <2>1, SeqMonotonic
<1>3. HostName \in Seq(STRING) /\ \A c \in Containers : NameOf[c] \in Seq(STRING)
  BY NameAssumption DEF NameAssumption
<1>4. \A r \in Seq(Labels) : <<n>> \o r \in Seq(Labels)
  BY <1>1, ConcatProperties
<1> QED BY <1>2, <1>3, <1>4 DEF HostPath, Path, Paths

-----------------------------------------------------------------------------
(* The registrations.                                                      *)

RegisteredInv == TreeInv /\ RegInv

LEMMA RangeOfTail ==
  ASSUME NEW S, NEW s \in Seq(S), s # <<>>
  PROVE  /\ Range(s) = {Head(s)} \cup Range(Tail(s)) /\ Head(s) \in S
         /\ Tail(s) \in Seq(S) /\ (Len(s) = 1 <=> Tail(s) = <<>>)
<1>1. Len(s) \in Nat /\ Len(s) > 0 /\ DOMAIN s = 1..Len(s) OBVIOUS
<1>2. DOMAIN Tail(s) = 1..Len(s) - 1 /\ Head(s) = s[1] OBVIOUS
<1>3. \A i \in 1..Len(s) - 1 : Tail(s)[i] = s[i + 1] OBVIOUS
<1>4. ASSUME NEW x \in Range(s) PROVE x \in {Head(s)} \cup Range(Tail(s))
  <2>1. PICK i \in 1..Len(s) : x = s[i] BY <1>1, <1>4 DEF Range
  <2>2. CASE i = 1 BY <1>2, <2>1, <2>2
  <2>3. CASE i # 1
    <3>1. i - 1 \in 1..Len(s) - 1 /\ (i - 1) + 1 = i BY <1>1, <2>1, <2>3
    <3>2. Tail(s)[i - 1] = x BY <1>3, <2>1, <3>1
    <3> QED BY <1>2, <3>1, <3>2 DEF Range
  <2> QED BY <2>2, <2>3
<1>5. ASSUME NEW x \in Range(Tail(s)) PROVE x \in Range(s)
  <2>1. PICK i \in 1..Len(s) - 1 : x = Tail(s)[i] BY <1>2, <1>5 DEF Range
  <2>2. i + 1 \in 1..Len(s) /\ x = s[i + 1] BY <1>1, <1>3, <2>1
  <2> QED BY <1>1, <2>2 DEF Range
<1>6. Head(s) \in Range(s) /\ Head(s) \in S BY <1>1, <1>2 DEF Range
<1>7. Tail(s) \in Seq(S) /\ (Len(s) = 1 <=> Tail(s) = <<>>)
  <2>1. Tail(s) \in Seq(S) /\ Len(Tail(s)) = Len(s) - 1
    BY HeadTailProperties
  <2> QED BY <1>1, <2>1
<1> QED BY <1>4, <1>5, <1>6, <1>7

(* What resolves goes on resolving when only names and subnets are added.  *)
LEMMA ResolvesStays ==
  ASSUME Grows, NEW c, NEW n, Resolves(c, n),
         Subnet[n] \in DOMAIN trie', trie'[Subnet[n]] = n
  PROVE  Resolves(c, n)'
  BY DEF Grows, Resolves, Path

LEMMA InitRegistered ==
  ASSUME NameAssumption, Init PROVE RegisteredInv
<1>1. /\ nodes = [p \in {<<>>} |-> <<>>] /\ named = {} /\ treeLock = None
      /\ ins = [w \in Writers |-> NoInsert]
      /\ trie = [p \in {<<>>} |-> None] /\ wk = NoStart /\ forked = {}
      /\ answered = {}
  BY DEF Init
<1>2. <<>> \in Paths /\ <<>> \in Seq(Labels) BY DEF Paths
<1>3. TreeShape
  BY <1>1, <1>2 DEF TreeShape, NoInsert
<1>4. Rooted
  <2>1. \A k \in 0..Len(<<>>) : SubSeq(<<>>, 1, k) = <<>> OBVIOUS
  <2> QED BY <1>1, <2>1 DEF Rooted
<1>5. ChildrenAreNodes
  <2>1. \A l \in Labels : Append(<<>>, l) # <<>> OBVIOUS
  <2>2. Range(nodes[<<>>]) = {} BY <1>1 DEF Range
  <2> QED BY <1>1, <2>1, <2>2 DEF ChildrenAreNodes
<1>6. OnceEach BY <1>1 DEF OnceEach
<1>7. Inserting
  BY <1>1, NameAssumption
     DEF NameAssumption, Inserting, OneInserts, Writers, NoInsert
<1>8. RegInv
  <2>1. wk.pc = "idle" /\ wk.nets = <<>> /\ wk.at = <<>> BY <1>1 DEF NoStart
  <2>2. ins["worker"].pc = "idle" BY <1>1 DEF Writers, NoInsert
  <2>3. DOMAIN trie = {<<>>} /\ <<>> \in Seq({0, 1}) /\ <<>> \in Seq(Networks)
    BY <1>1
  <2>4. wk \in [pc : {"idle", "subnet", "dns", "insert", "fork"},
              cont : Containers \cup {None}, nets : Seq(Networks),
              at : Seq({0, 1})]
    BY <1>1, <2>3 DEF NoStart
  <2>5. WorkerShape BY <1>1, <2>1, <2>3, <2>4 DEF WorkerShape
  <2> QED BY <1>1, <2>1, <2>2, <2>5 DEF RegInv, SoFar, AtWork
<1> QED BY <1>1, <1>3, <1>4, <1>5, <1>6, <1>7, <1>8
       DEF RegisteredInv, TreeInv, Tree

(* Steps that leave the worker, the trie and the started containers alone. *)
LEMMA OthersKeepReg ==
  ASSUME NameAssumption, RegInv, Grows, UNCHANGED <<trie, wk, forked>>, AtWork'
  PROVE  RegInv'
<1>1. \A c, n : Resolves(c, n) => Resolves(c, n)'
  BY ResolvesStays DEF Resolves
<1>2. WorkerShape' BY DEF RegInv, WorkerShape, Net
<1>3. SoFar' BY <1>1 DEF RegInv, SoFar
<1> QED BY <1>1, <1>2, <1>3 DEF RegInv

LEMMA InsertKeepsReg ==
  ASSUME NameAssumption, RegisteredInv, NEW w \in Writers, Insert(w)
  PROVE  RegisteredInv' /\ Grows
<1>1. TreeInv' /\ Grows BY InsertKeepsTree DEF RegisteredInv
<1>2. UNCHANGED <<trie, wk, forked>>
  BY DEF Insert, LockTree, Step, Create, SetName, OnlyTree
<1>3. /\ ins[w].pc # "idle" /\ \A v \in Writers : v # w => ins'[v] = ins[v]
      /\ ins'[w].pc = "idle" => ins[w].path \in named'
      /\ ins'[w].pc # "idle" => ins'[w].path = ins[w].path
  <2> USE DEF RegisteredInv, TreeInv, TreeShape
  <2>1. CASE LockTree(w) BY <2>1 DEF LockTree
  <2>2. CASE Step(w) BY <2>2 DEF Step
  <2>3. CASE Create(w) BY <2>3 DEF Create
  <2>4. CASE SetName(w) BY <2>4 DEF SetName, NoInsert
  <2> QED BY <2>1, <2>2, <2>3, <2>4 DEF Insert
<1>4. AtWork'
  <2>1. "worker" \in Writers BY DEF Writers
  <2>2. CASE w = "worker"
    BY <1>1, <1>2, <1>3, <2>2 DEF RegisteredInv, RegInv, AtWork, Net, Path, Grows
  <2>3. CASE w # "worker"
    BY <1>1, <1>2, <1>3, <2>1, <2>3
       DEF RegisteredInv, RegInv, AtWork, Net, Path, Grows
  <2> QED BY <2>2, <2>3
<1> QED BY <1>1, <1>2, <1>4, OthersKeepReg DEF RegisteredInv

LEMMA StartNetworkKeepsReg ==
  ASSUME NameAssumption, RegisteredInv, NEW n \in Networks, StartNetwork(n)
  PROVE  RegisteredInv' /\ Grows
<1>1. /\ ins["client"].pc = "idle" /\ Begin("client", HostPath(n))
      /\ UNCHANGED <<nodes, named, treeLock, answered, trie, wk, forked>>
  BY DEF StartNetwork, OnlyTree
<1>2. "client" \in Writers /\ "worker" \in Writers BY DEF Writers
<1>3. TreeInv' /\ Grows
  BY <1>1, <1>2, PathsTyped, BeginKeepsTree, SameGrows DEF RegisteredInv, TreeInv
<1>4. ins'["worker"] = ins["worker"]
  BY <1>1, <1>2 DEF Begin, RegisteredInv, TreeInv, TreeShape
<1>5. AtWork'
  BY <1>1, <1>4 DEF RegisteredInv, RegInv, AtWork, Net, Path
<1> QED BY <1>1, <1>3, <1>5, OthersKeepReg DEF RegisteredInv

(* The worker takes a container up, gives it up, starts it or sees it end.  *)
LEMMA StartsKeepReg ==
  ASSUME NameAssumption, RegisteredInv,
         \/ \E c \in Containers : TakeUp(c) \/ Ended(c)
         \/ Registered \/ PostFails \/ Fork
  PROVE  RegisteredInv' /\ Grows
<1>1. UNCHANGED trie /\ UNCHANGED treeVars
  BY DEF TakeUp, Ended, Registered, PostFails, Fork, NotTree
<1>2. TreeInv' /\ Grows BY <1>1, NoInsertKeepsTree DEF RegisteredInv
<1>3. \A c, n : Resolves(c, n) => Resolves(c, n)'
  BY <1>1, <1>2, ResolvesStays DEF Resolves
<1>4. UNCHANGED ins BY <1>1 DEF treeVars
<1>5. ASSUME NEW n \in Networks
      PROVE  Subnet[n] \in Seq({0, 1}) /\ IsPrefix(<<>>, Subnet[n])
  BY NameAssumption, EmptyPrefix DEF NameAssumption
<1>6. \A c \in forked, n \in Networks :
        n \in Range(NetsOf[c]) => Resolves(c, n)'
  BY <1>3 DEF RegisteredInv, RegInv
<1>7. WorkerShape /\ SoFar /\ AtWork BY DEF RegisteredInv, RegInv
<1> USE DEF WorkerShape, SoFar, AtWork
<1>8. ASSUME NEW c \in Containers, TakeUp(c) PROVE RegInv'
  <2>1. /\ wk.pc = "idle" /\ wk'.cont = c /\ wk'.nets = NetsOf[c]
        /\ wk'.at = <<>> /\ UNCHANGED forked
        /\ wk'.pc = IF NetsOf[c] = <<>> THEN "fork" ELSE "subnet"
    BY <1>8 DEF TakeUp
  <2>2. NetsOf[c] \in Seq(Networks) BY NameAssumption DEF NameAssumption
  <2>3. wk'.pc = "subnet" => Net' \in Networks BY <2>1, <2>2 DEF Net
  <2>4. WorkerShape'
    <3>1. wk' = [pc |-> IF NetsOf[c] = <<>> THEN "fork" ELSE "subnet",
                 cont |-> c, nets |-> NetsOf[c], at |-> <<>>]
      BY <1>8 DEF TakeUp
    <3>2. wk' \in [pc : {"idle", "subnet", "dns", "insert", "fork"},
                  cont : Containers \cup {None}, nets : Seq(Networks),
                  at : Seq({0, 1})]
      BY <2>2, <3>1
    <3> QED BY <1>1, <1>5, <1>7, <2>1, <2>2, <2>3, <3>2
  <2>5. SoFar' /\ AtWork' BY <1>4, <1>7, <2>1
  <2> QED BY <1>6, <2>1, <2>4, <2>5 DEF RegInv
<1>9. ASSUME NEW c \in Containers, Ended(c) PROVE RegInv'
  <2>1. UNCHANGED wk /\ forked' \subseteq forked BY <1>9 DEF Ended
  <2>2. WorkerShape' /\ SoFar' /\ AtWork'
    BY <1>1, <1>3, <1>4, <1>7, <2>1 DEF Net, treeVars, Path
  <2> QED BY <1>6, <2>1, <2>2 DEF RegInv
<1>10. CASE Registered
  <2>1. /\ wk.pc = "insert" /\ ins["worker"].pc = "idle" /\ UNCHANGED forked
        /\ wk' = [wk EXCEPT !.nets = Tail(@),
                 !.pc = IF Len(wk.nets) = 1 THEN "fork" ELSE "subnet"]
    BY <1>10 DEF Registered
  <2>2. wk.nets \in Seq(Networks) /\ wk.nets # <<>> /\ wk.cont \in Containers
    BY <1>7, <2>1
  <2>3. Range(wk.nets) = {Net} \cup Range(Tail(wk.nets)) /\ Net \in Networks
    BY <2>2, RangeOfTail DEF Net
  <2>4. /\ Tail(wk.nets) \in Seq(Networks)
        /\ (Len(wk.nets) = 1 <=> Tail(wk.nets) = <<>>)
    BY <2>2, RangeOfTail
  <2>5. /\ wk'.nets = Tail(wk.nets) /\ wk'.cont = wk.cont /\ wk'.at = wk.at
        /\ wk'.pc = IF Len(wk.nets) = 1 THEN "fork" ELSE "subnet"
    BY <1>7, <2>1
  <2>6. Resolves(wk.cont, Net) BY <1>7, <2>1 DEF Resolves
  <2>7. SoFar' BY <1>3, <1>7, <2>1, <2>3, <2>5, <2>6
  <2>8. wk.at = <<>> BY <1>7, <2>1
  <2>9. WorkerShape'
    <3>1. wk' \in [pc : {"idle", "subnet", "dns", "insert", "fork"},
                  cont : Containers \cup {None}, nets : Seq(Networks),
                  at : Seq({0, 1})]
      BY <1>7, <2>1, <2>4
    <3>2. wk'.pc = "subnet" => Net' \in Networks BY <2>4, <2>5 DEF Net
    <3> QED BY <1>1, <1>5, <1>7, <2>1, <2>2, <2>4, <2>5, <2>8, <3>1, <3>2
  <2>10. AtWork' BY <1>4, <2>1, <2>5
  <2> QED BY <1>2, <1>6, <2>1, <2>7, <2>9, <2>10 DEF RegisteredInv, RegInv
<1>11. CASE PostFails \/ Fork
  <2>1. /\ wk' = NoStart
        /\ \/ UNCHANGED forked
           \/ wk.pc = "fork" /\ forked' = forked \cup {wk.cont}
    BY <1>11 DEF PostFails, Fork
  <2>2. wk'.pc = "idle" /\ wk'.nets = <<>> /\ wk'.at = <<>>
    BY <2>1 DEF NoStart
  <2>3. ins["worker"].pc = "idle" BY <1>7, <1>11 DEF PostFails, Fork
  <2>4. <<>> \in Seq(Networks) /\ Range(<<>>) = {} BY DEF Range
  <2>5. wk.pc = "fork" => \A n \in Range(NetsOf[wk.cont]) : Resolves(wk.cont, n)
    BY <1>7, <2>4
  <2>6. wk.pc = "fork" => wk.cont \in Containers BY <1>7
  <2>7. wk' \in [pc : {"idle", "subnet", "dns", "insert", "fork"},
               cont : Containers \cup {None}, nets : Seq(Networks),
               at : Seq({0, 1})]
    BY <2>1, <2>4 DEF NoStart
  <2>8. WorkerShape' BY <1>1, <1>7, <2>1, <2>2, <2>6, <2>7
  <2>9. SoFar' /\ AtWork' BY <1>4, <2>2, <2>3
  <2>10. \A c \in forked', n \in Networks :
           n \in Range(NetsOf[c]) => Resolves(c, n)'
    BY <1>3, <1>6, <2>1, <2>5, <2>6
  <2> QED BY <1>2, <2>8, <2>9, <2>10 DEF RegisteredInv, RegInv
<1> QED BY <1>2, <1>8, <1>9, <1>10, <1>11 DEF RegisteredInv

(* SubnetTrie.insert only adds nodes, and sets the name of a prefix that no *)
(* other network has.                                                      *)
LEMMA TrieKeepsReg ==
  ASSUME NameAssumption, RegisteredInv, InsertBit \/ InsertSubnet
  PROVE  RegisteredInv' /\ Grows
<1>1. UNCHANGED treeVars /\ UNCHANGED forked /\ wk.pc = "subnet"
  BY DEF InsertBit, InsertSubnet, NotTree
<1>2. TreeInv' /\ Grows BY <1>1, NoInsertKeepsTree DEF RegisteredInv
<1>3. WorkerShape /\ SoFar /\ AtWork BY DEF RegisteredInv, RegInv
<1>4. /\ wk.nets \in Seq(Networks) /\ wk.nets # <<>> /\ wk.cont \in Containers
      /\ wk.at \in Seq({0, 1}) /\ IsPrefix(wk.at, Subnet[Net])
  BY <1>1, <1>3 DEF WorkerShape
<1>5. Net \in Networks BY <1>4 DEF Net
<1>6. Subnet[Net] \in Seq({0, 1}) BY <1>5, NameAssumption DEF NameAssumption
<1>7. ins'["worker"].pc = "idle" BY <1>1, <1>3 DEF AtWork, treeVars
<1>8. ASSUME \A n \in Networks : Subnet[n] \in DOMAIN trie /\ trie[Subnet[n]] = n
               => Subnet[n] \in DOMAIN trie' /\ trie'[Subnet[n]] = n,
             wk'.cont = wk.cont, wk'.nets = wk.nets, WorkerShape', AtWork'
      PROVE  RegisteredInv'
  <2>1. \A c, n : n \in Networks /\ Resolves(c, n) => Resolves(c, n)'
    BY <1>2, <1>8, ResolvesStays DEF Resolves
  <2>2. \A n \in Range(NetsOf[wk.cont]) : n \in Networks
    BY <1>4, NameAssumption DEF NameAssumption, Range
  <2>3. SoFar' BY <1>1, <1>3, <1>8, <2>1, <2>2 DEF SoFar
  <2> QED BY <1>1, <1>2, <1>8, <2>1, <2>3 DEF RegisteredInv, RegInv
<1>9. CASE InsertBit
  <2> DEFINE next == SubSeq(Subnet[Net], 1, Len(wk.at) + 1)
  <2>1. /\ wk.at # Subnet[Net] /\ wk' = [wk EXCEPT !.at = next]
        /\ trie' = [p \in DOMAIN trie \cup {next} |->
                      IF p \in DOMAIN trie THEN trie[p] ELSE None]
    BY <1>9 DEF InsertBit
  <2>2. next \in Seq({0, 1}) /\ IsPrefix(next, Subnet[Net])
    <3> DEFINE p == wk.at  r == Subnet[Net]
    <3>1. /\ p \in Seq({0, 1}) /\ r \in Seq({0, 1}) /\ IsPrefix(p, r)
          /\ p # r /\ next = SubSeq(r, 1, Len(p) + 1)
      BY <1>4, <1>6, <2>1
    <3> HIDE DEF p, r
    <3>2. next \in Seq({0, 1}) /\ IsPrefix(next, r) BY <3>1, OneFurther
    <3> QED BY <3>2 DEF r
  <2> HIDE DEF next
  <2>3. DOMAIN trie' = DOMAIN trie \cup {next}
        /\ \A p \in DOMAIN trie : trie'[p] = trie[p]
    BY <2>1
  <2>4. /\ wk'.pc = "subnet" /\ wk'.nets = wk.nets /\ wk'.cont = wk.cont
        /\ wk'.at = next /\ Net' = Net
        /\ wk' \in [pc : {"idle", "subnet", "dns", "insert", "fork"},
                   cont : Containers \cup {None}, nets : Seq(Networks),
                   at : Seq({0, 1})]
    BY <1>1, <1>3, <2>1, <2>2 DEF WorkerShape, Net
  <2>5. WorkerShape'
    BY <1>1, <1>3, <1>4, <2>2, <2>3, <2>4 DEF WorkerShape
  <2>6. AtWork' BY <1>7, <2>4 DEF AtWork
  <2> QED BY <1>2, <1>8, <2>3, <2>4, <2>5, <2>6
<1>10. CASE InsertSubnet
  <2>1. /\ wk.at = Subnet[Net] /\ trie' = [trie EXCEPT ![wk.at] = Net]
        /\ wk' = [wk EXCEPT !.pc = "dns", !.at = <<>>]
    BY <1>10 DEF InsertSubnet
  <2>2. wk.at \in DOMAIN trie BY <1>3 DEF WorkerShape
  <2>3. /\ DOMAIN trie' = DOMAIN trie /\ trie'[Subnet[Net]] = Net
        /\ \A p \in DOMAIN trie \ {Subnet[Net]} : trie'[p] = trie[p]
    BY <2>1, <2>2
  <2>4. \A n \in Networks : Subnet[n] = Subnet[Net] => n = Net
    BY <1>5, NameAssumption DEF NameAssumption
  <2>5. /\ wk'.pc = "dns" /\ wk'.nets = wk.nets /\ wk'.cont = wk.cont
        /\ wk'.at = <<>> /\ Net' = Net
        /\ wk' \in [pc : {"idle", "subnet", "dns", "insert", "fork"},
                   cont : Containers \cup {None}, nets : Seq(Networks),
                   at : Seq({0, 1})]
    BY <1>1, <1>3, <2>1 DEF WorkerShape, Net
  <2>6. WorkerShape' BY <1>1, <1>3, <1>4, <2>3, <2>5 DEF WorkerShape
  <2>7. AtWork' BY <1>7, <2>1, <2>2, <2>3, <2>5 DEF AtWork
  <2>8. \A n \in Networks : Subnet[n] \in DOMAIN trie /\ trie[Subnet[n]] = n
          => Subnet[n] \in DOMAIN trie' /\ trie'[Subnet[n]] = n
    BY <2>3, <2>4
  <2> QED BY <1>2, <1>8, <2>5, <2>6, <2>7, <2>8
<1> QED BY <1>9, <1>10

LEMMA RegisterNameKeepsReg ==
  ASSUME NameAssumption, RegisteredInv, RegisterName
  PROVE  RegisteredInv' /\ Grows
<1>1. /\ wk.pc = "dns" /\ Begin("worker", Path(wk.cont, Net))
      /\ wk' = [wk EXCEPT !.pc = "insert"]
      /\ UNCHANGED <<nodes, named, treeLock, answered, trie, forked>>
  BY DEF RegisterName
<1>2. WorkerShape /\ SoFar /\ AtWork BY DEF RegisteredInv, RegInv
<1>3. wk.nets \in Seq(Networks) /\ wk.nets # <<>> /\ wk.cont \in Containers
  BY <1>1, <1>2 DEF WorkerShape
<1>4. Net \in Networks /\ Path(wk.cont, Net) \in Paths
  BY <1>3, PathsTyped DEF Net
<1>5. ins["worker"].pc = "idle" /\ "worker" \in Writers
  BY <1>1, <1>2 DEF AtWork, Writers
<1>6. TreeInv' BY <1>1, <1>4, <1>5, BeginKeepsTree DEF RegisteredInv
<1>7. ins'["worker"].pc = "lock" /\ ins'["worker"].path = Path(wk.cont, Net)
  BY <1>1, <1>5 DEF Begin, RegisteredInv, TreeInv, TreeShape
<1>8. /\ wk'.pc = "insert" /\ wk'.nets = wk.nets /\ wk'.cont = wk.cont
      /\ wk'.at = wk.at /\ Net' = Net
      /\ wk' \in [pc : {"idle", "subnet", "dns", "insert", "fork"},
                 cont : Containers \cup {None}, nets : Seq(Networks),
                 at : Seq({0, 1})]
  BY <1>1, <1>2 DEF WorkerShape, Net
<1>9. WorkerShape' BY <1>1, <1>2, <1>3, <1>8 DEF WorkerShape
<1>10. AtWork' BY <1>1, <1>2, <1>7, <1>8 DEF AtWork, Path
<1>11. \A c, n : Resolves(c, n) => Resolves(c, n)'
  BY <1>1 DEF Resolves, Path
<1>12. SoFar' BY <1>1, <1>2, <1>8, <1>11 DEF SoFar
<1>13. Grows BY <1>1, SameGrows DEF RegisteredInv, TreeInv
<1> QED BY <1>1, <1>6, <1>9, <1>10, <1>11, <1>12, <1>13 DEF RegisteredInv, RegInv

LEMMA NextRegistered ==
  ASSUME NameAssumption, RegisteredInv, [Next]_vars
  PROVE  RegisteredInv' /\ Grows
<1>1. CASE \E w \in Writers : Insert(w) BY <1>1, InsertKeepsReg
<1>2. CASE \E n \in Networks : StartNetwork(n) BY <1>2, StartNetworkKeepsReg
<1>3. CASE \/ \E c \in Containers : TakeUp(c) \/ Ended(c)
           \/ Registered \/ PostFails \/ Fork
  BY <1>3, StartsKeepReg
<1>4. CASE InsertBit \/ InsertSubnet BY <1>4, TrieKeepsReg
<1>5. CASE RegisterName BY <1>5, RegisterNameKeepsReg
<1>6. CASE OnlyQuery
  <2>1. TreeInv' /\ Grows BY <1>6, NoInsertKeepsTree DEF OnlyQuery, RegisteredInv
  <2>2. AtWork'
    BY <1>6 DEF OnlyQuery, treeVars, RegisteredInv, RegInv, AtWork, Net, Path
  <2> QED BY <1>6, <2>1, <2>2, OthersKeepReg DEF OnlyQuery, RegisteredInv
<1>7. Resolve => OnlyQuery
  BY DEF Resolve, FindBit, Found, Walk, Reached, Child, Return, Raise, Send,
         SendFails, Unparsable, NoForwarderLeft, Receive, Timeout, Looks
<1>8. (\E i : Reply(i)) \/ (\E x : Ask(x)) \/ UNCHANGED vars => OnlyQuery
  BY DEF Reply, Ask, Looks, OnlyQuery, vars, treeVars
<1> QED BY <1>1, <1>2, <1>3, <1>4, <1>5, <1>6, <1>7, <1>8 DEF Next, Worker

(* The inserts keep the tree together, whoever makes them and however they *)
(* alternate: what was answered 201 is never lost (DnsTree.insert replaces *)
(* a node it did not find, and only the lock keeps it from replacing one   *)
(* that came in between).                                                  *)
THEOREM NamesKept == Spec => []RegistrationKept
<1>1. RegisteredInv => RegistrationKept
  BY DEF RegisteredInv, TreeInv, TreeShape, RegistrationKept
<1> QED BY <1>1, NameAssumption, InitRegistered, NextRegistered, PTL DEF Spec

(* A container is forked only when every one of its names and every subnet *)
(* it asks from is registered, and no later insert takes that away.        *)
THEOREM StartedResolvable == Spec => []RunningIsResolvable
<1>1. RegisteredInv => RunningIsResolvable
  <2> SUFFICES ASSUME RegisteredInv, NEW c \in forked,
                      NEW n \in Range(NetsOf[c])
               PROVE  Path(c, n) \in named /\ trie[Subnet[n]] = n
    BY DEF RunningIsResolvable
  <2>1. c \in Containers BY DEF RegisteredInv, RegInv, WorkerShape
  <2>2. n \in Networks
    BY <2>1, NameAssumption DEF NameAssumption, Range
  <2> QED BY <2>2 DEF RegisteredInv, RegInv, Resolves
<1> QED BY <1>1, NameAssumption, InitRegistered, NextRegistered, PTL DEF Spec
=============================================================================
