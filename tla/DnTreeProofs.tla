----------------------------- MODULE DnTreeProofs -----------------------------
(***************************************************************************)
(* Proofs about the DN tree for any directory, any chains that are revealed *)
(* and any number of cursors: the nodes stay a forest while they are        *)
(* emptied, replaced and loaded page by page, each cursor has one reader    *)
(* unless `shared` says so, and so a node that the tree shows as complete   *)
(* has all its children.                                                    *)
(***************************************************************************)
EXTENDS DnTree, FiniteSetTheorems, SequenceTheorems, TLAPS

Under(d) == {Listing[d][k] : k \in DOMAIN Listing[d]}
Got(ns, n) == {ns[c].dn : c \in ns[n].children}

\* What a node is.
Node == [dn : DOMAIN Listing, expanded : BOOLEAN, loaded : BOOLEAN, loading : BOOLEAN, truncated : BOOLEAN,
         children : SUBSET Nat, above : SUBSET Nat]

\* The nodes are a forest, and `above` agrees with `children`.
NodesTyped(ns) ==
  /\ IsFiniteSet(DOMAIN ns) /\ DOMAIN ns \subseteq Nat \ {NoCursor}
  /\ ns \in [DOMAIN ns -> Node]
ChildrenHang(ns) ==
  \A p \in DOMAIN ns : \A c \in ns[p].children :
    c \in DOMAIN ns /\ ns[c].above = {p} \cup ns[p].above /\ ns[c].dn \in Under(ns[p].dn)
AboveIsLinear(ns) ==
  \A n \in DOMAIN ns :
    /\ ns[n].above \subseteq DOMAIN ns /\ n \notin ns[n].above
    /\ ns[n].above # {} => \E p \in ns[n].above : n \in ns[p].children
    /\ \A p \in ns[n].above : ns[p].above \subseteq ns[n].above
    /\ \A p, q \in ns[n].above : p = q \/ p \in ns[q].above \/ q \in ns[p].above
UnloadedIsBare(ns) == \A n \in DOMAIN ns : ~ns[n].loaded => ns[n].children = {} /\ ~ns[n].truncated
Forest(ns) == NodesTyped(ns) /\ ChildrenHang(ns) /\ AboveIsLinear(ns) /\ UnloadedIsBare(ns)

RootIsBase(ns, r) ==
  r \in Nat /\ (r # NoCursor => r \in DOMAIN ns /\ ns[r].dn = BaseDn /\ ns[r].above = {})
DnsApart(ns, r) == \A m, n \in Below(ns, {r}) : ns[m].dn = ns[n].dn => m = n

\* An id that is not used exists among the first ones.
LEMMA UnusedIsNew ==
  ASSUME NEW S, IsFiniteSet(S)
  PROVE  Unused(S) \in Nat \ {NoCursor} /\ Unused(S) \notin S
<1> DEFINE k == Cardinality(S)
           ids == 1..k + 1
<1>1. k \in Nat
  BY FS_CardinalityType
<1>2. IsFiniteSet(ids) /\ Cardinality(ids) = k + 1
  BY <1>1, FS_Interval, SMT
<1>3. \E i \in ids : i \notin S
  <2> SUFFICES ASSUME ids \subseteq S PROVE FALSE
    OBVIOUS
  <2>1. Cardinality(ids) <= k
    BY FS_Subset
  <2> HIDE DEF ids, k
  <2> QED
    BY <1>1, <1>2, <2>1
<1>4. Unused(S) \in ids /\ Unused(S) \notin S
  BY <1>3 DEF Unused
<1> QED
  BY <1>1, <1>4 DEF NoCursor

\* Everything below a node goes where the node goes.
LEMMA BelowIsClosed ==
  ASSUME NEW ns, Forest(ns), NEW from, NEW n \in DOMAIN ns, NEW p \in ns[n].above, p \in Below(ns, from)
  PROVE  n \in Below(ns, from)
<1>1. PICK f \in from : f \in {p} \cup ns[p].above
  BY DEF Below
<1>2. ns[p].above \subseteq ns[n].above
  BY DEF Forest, AboveIsLinear
<1> QED
  BY <1>1, <1>2 DEF Below

\* What the references left in place keeps is a forest again.
LEMMA KeptIsForest ==
  ASSUME NEW ns, Forest(ns), NEW from
  PROVE  Forest(Kept(ns, from))
<1> DEFINE K == Below(ns, from)
           ks == Kept(ns, from)
<1>1. K \subseteq DOMAIN ns /\ DOMAIN ks = K
  BY DEF Below, Kept
<1>2. \A n \in K : ns[n] \in Node
  BY <1>1 DEF Forest, NodesTyped
<1>3. \A n \in K : /\ ks[n].dn = ns[n].dn /\ ks[n].loaded = ns[n].loaded /\ ks[n].truncated = ns[n].truncated
                   /\ ks[n].children = ns[n].children /\ ks[n].above = ns[n].above \cap K
  BY <1>2 DEF Kept, Node
<1>4. \A n \in K : ks[n] \in Node
  BY <1>2 DEF Kept, Node
<1>5. ks \in [K -> Node]
  BY <1>1, <1>4 DEF Kept
<1>6. \A n \in DOMAIN ns : \A p \in ns[n].above : p \in K => n \in K
  BY BelowIsClosed
<1> HIDE DEF K, ks
<1>7. NodesTyped(ks)
  BY <1>1, <1>5, FS_Subset DEF Forest, NodesTyped
<1>8. ChildrenHang(ks)
  <2> SUFFICES ASSUME NEW p \in K, NEW c \in ks[p].children
               PROVE  c \in K /\ ks[c].above = {p} \cup ks[p].above /\ ks[c].dn \in Under(ks[p].dn)
    BY <1>1 DEF ChildrenHang
  <2>1. c \in DOMAIN ns /\ ns[c].above = {p} \cup ns[p].above /\ ns[c].dn \in Under(ns[p].dn)
    BY <1>1, <1>3 DEF Forest, ChildrenHang
  <2>2. c \in K
    BY <2>1, <1>6
  <2> QED
    BY <2>1, <2>2, <1>3
<1>9. AboveIsLinear(ks)
  <2> SUFFICES ASSUME NEW n \in K
               PROVE  /\ ks[n].above \subseteq K /\ n \notin ks[n].above
                      /\ ks[n].above # {} => \E p \in ks[n].above : n \in ks[p].children
                      /\ \A p \in ks[n].above : ks[p].above \subseteq ks[n].above
                      /\ \A p, q \in ks[n].above : p = q \/ p \in ks[q].above \/ q \in ks[p].above
    BY <1>1 DEF AboveIsLinear
  <2>1. /\ ns[n].above \subseteq DOMAIN ns /\ n \notin ns[n].above
        /\ ns[n].above # {} => \E p \in ns[n].above : n \in ns[p].children
        /\ \A p \in ns[n].above : ns[p].above \subseteq ns[n].above
        /\ \A p, q \in ns[n].above : p = q \/ p \in ns[q].above \/ q \in ns[p].above
    BY <1>1 DEF Forest, AboveIsLinear
  <2>2. ASSUME ks[n].above # {} PROVE \E p \in ks[n].above : n \in ks[p].children
    <3>1. PICK x \in ns[n].above : x \in K
      BY <2>2, <1>3
    <3>2. PICK p \in ns[n].above : n \in ns[p].children
      BY <2>1, <3>1
    <3>3. ns[n].above = {p} \cup ns[p].above
      BY <1>1, <2>1, <3>2 DEF Forest, ChildrenHang
    <3>4. p \in K
      BY <3>1, <3>3, <2>1, <1>6
    <3> QED
      BY <3>2, <3>4, <1>3
  <2> QED
    BY <2>1, <2>2, <1>3
<1>10. UnloadedIsBare(ks)
  BY <1>1, <1>3 DEF Forest, UnloadedIsBare
<1> QED
  BY <1>7, <1>8, <1>9, <1>10 DEF Forest, ks

\* And the tree is the one it was.
LEMMA KeptTree ==
  ASSUME NEW ns, Forest(ns), NEW from, NEW r \in from, RootIsBase(ns, r), DnsApart(ns, r)
  PROVE  /\ Below(Kept(ns, from), {r}) = Below(ns, {r})
         /\ RootIsBase(Kept(ns, from), r) /\ DnsApart(Kept(ns, from), r)
<1> DEFINE K == Below(ns, from)
           ks == Kept(ns, from)
<1>1. K \subseteq DOMAIN ns /\ DOMAIN ks = K
  BY DEF Below, Kept
<1>2. \A n \in K : ns[n] \in Node
  BY <1>1 DEF Forest, NodesTyped
<1>3. \A n \in K : ks[n].dn = ns[n].dn /\ ks[n].above = ns[n].above \cap K
  BY <1>2 DEF Kept, Node
<1>4. r # NoCursor => r \in K
  BY DEF Below, RootIsBase
<1>5. \A n \in DOMAIN ns : r \in {n} \cup ns[n].above => n \in K
  BY DEF Below
<1>6. r = NoCursor => \A n \in DOMAIN ns : r \notin {n} \cup ns[n].above
  BY DEF Forest, NodesTyped, AboveIsLinear
<1>7. Below(ks, {r}) = Below(ns, {r})
  <2>1. Below(ks, {r}) = {n \in K : r \in {n} \cup ks[n].above}
    BY <1>1 DEF Below
  <2>2. Below(ns, {r}) = {n \in DOMAIN ns : r \in {n} \cup ns[n].above}
    BY DEF Below
  <2> HIDE DEF ks, K
  <2> QED
    BY <2>1, <2>2, <1>1, <1>3, <1>4, <1>5, <1>6
<1>8. RootIsBase(ks, r)
  BY <1>1, <1>3, <1>4 DEF RootIsBase
<1>9. DnsApart(ks, r)
  <2>1. Below(ks, {r}) \subseteq K
    BY <1>1 DEF Below
  <2> HIDE DEF ks, K
  <2> QED
    BY <2>1, <1>7, <1>3 DEF DnsApart
<1> QED
  BY <1>7, <1>8, <1>9

\* Marks on the nodes leave the forest as it is.
SameShape(ns, ms) ==
  /\ DOMAIN ms = DOMAIN ns /\ ms \in [DOMAIN ns -> Node]
  /\ \A n \in DOMAIN ns : ms[n].dn = ns[n].dn /\ ms[n].children = ns[n].children /\ ms[n].above = ns[n].above

\* The fields that say where a node hangs are the same, so the forest is.
LEMMA MarkedForest ==
  ASSUME NEW ns, Forest(ns), NEW ms, SameShape(ns, ms), UnloadedIsBare(ms)
  PROVE  /\ Forest(ms)
         /\ \A r : /\ Below(ms, {r}) = Below(ns, {r})
                   /\ RootIsBase(ns, r) => RootIsBase(ms, r)
                   /\ DnsApart(ns, r) => DnsApart(ms, r)
<1>1. NodesTyped(ms)
  BY DEF Forest, NodesTyped, SameShape
<1>2. ChildrenHang(ms)
  BY DEF Forest, ChildrenHang, SameShape
<1>3. AboveIsLinear(ms)
  <2> SUFFICES ASSUME NEW n \in DOMAIN ns
               PROVE  /\ ms[n].above \subseteq DOMAIN ns /\ n \notin ms[n].above
                      /\ ms[n].above # {} => \E p \in ms[n].above : n \in ms[p].children
                      /\ \A p \in ms[n].above : ms[p].above \subseteq ms[n].above
                      /\ \A p, q \in ms[n].above : p = q \/ p \in ms[q].above \/ q \in ms[p].above
    BY DEF AboveIsLinear, SameShape
  <2>1. /\ ns[n].above \subseteq DOMAIN ns /\ n \notin ns[n].above
        /\ ns[n].above # {} => \E p \in ns[n].above : n \in ns[p].children
        /\ \A p \in ns[n].above : ns[p].above \subseteq ns[n].above
        /\ \A p, q \in ns[n].above : p = q \/ p \in ns[q].above \/ q \in ns[p].above
    BY DEF Forest, AboveIsLinear
  <2> QED
    BY <2>1 DEF SameShape
<1>4. \A r : Below(ms, {r}) = Below(ns, {r})
  BY DEF Below, SameShape
<1>5. \A r : RootIsBase(ns, r) => RootIsBase(ms, r)
  BY DEF RootIsBase, SameShape
<1>6. \A r : Below(ns, {r}) \subseteq DOMAIN ns
  BY DEF Below
<1>7. \A r : DnsApart(ns, r) => DnsApart(ms, r)
  BY <1>4, <1>6 DEF DnsApart, SameShape
<1> QED
  BY <1>1, <1>2, <1>3, <1>4, <1>5, <1>7 DEF Forest

\* Emptying a node cuts off what is below it, and nothing else.
LEMMA EmptiedForest ==
  ASSUME Forest(nodes), NEW n \in DOMAIN nodes
  PROVE  /\ Forest(Emptied(n))
         /\ DOMAIN Emptied(n) = DOMAIN nodes
         /\ Emptied(n)[n].children = {} /\ ~Emptied(n)[n].loaded /\ ~Emptied(n)[n].truncated
         /\ Emptied(n)[n].dn = nodes[n].dn /\ Emptied(n)[n].above = nodes[n].above
         /\ \A m \in DOMAIN nodes \ {n} :
              /\ Emptied(n)[m].dn = nodes[m].dn /\ Emptied(n)[m].loaded = nodes[m].loaded
              /\ Emptied(n)[m].truncated = nodes[m].truncated /\ Emptied(n)[m].children = nodes[m].children
              /\ Emptied(n)[m].above = IF n \in nodes[m].above THEN nodes[m].above \ ({n} \cup nodes[n].above)
                                       ELSE nodes[m].above
<1> DEFINE D == DOMAIN nodes
           X == {n} \cup nodes[n].above
           es == Emptied(n)
<1>1. \A m \in D : nodes[m] \in Node
  BY DEF Forest, NodesTyped
<1>2. DOMAIN es = D
  BY DEF Emptied
<1>3. es[n] = [nodes[n] EXCEPT !.loaded = FALSE, !.expanded = FALSE, !.truncated = FALSE, !.children = {}]
  BY DEF Emptied
<1>4. /\ es[n].children = {} /\ ~es[n].loaded /\ ~es[n].truncated /\ es[n].dn = nodes[n].dn /\ es[n].above = nodes[n].above
      /\ es[n] \in Node
  BY <1>1, <1>3 DEF Node
<1>5. ASSUME NEW m \in D \ {n}
      PROVE  /\ es[m].dn = nodes[m].dn /\ es[m].loaded = nodes[m].loaded
             /\ es[m].truncated = nodes[m].truncated /\ es[m].children = nodes[m].children
             /\ es[m].above = IF n \in nodes[m].above THEN nodes[m].above \ X ELSE nodes[m].above
             /\ es[m] \in Node
  <2>1. es[m] = IF n \in nodes[m].above THEN [nodes[m] EXCEPT !.above = @ \ X] ELSE nodes[m]
    BY DEF Emptied
  <2>2. nodes[m] \in Node
    BY <1>1
  <2> HIDE DEF es, X
  <2> QED
    BY <2>1, <2>2 DEF Node
<1>6. es \in [D -> Node]
  BY <1>2, <1>4, <1>5 DEF Emptied
<1>7. \A m \in D : /\ nodes[m].above \subseteq D /\ m \notin nodes[m].above
                   /\ nodes[m].above # {} => \E p \in nodes[m].above : m \in nodes[p].children
                   /\ \A p \in nodes[m].above : nodes[p].above \subseteq nodes[m].above
                   /\ \A p, q \in nodes[m].above : p = q \/ p \in nodes[q].above \/ q \in nodes[p].above
  BY DEF Forest, AboveIsLinear
<1>8. \A p \in D : \A c \in nodes[p].children :
        c \in D /\ nodes[c].above = {p} \cup nodes[p].above /\ nodes[c].dn \in Under(nodes[p].dn)
  BY DEF Forest, ChildrenHang
<1> HIDE DEF es, D
<1>9. NodesTyped(es)
  BY <1>2, <1>6 DEF Forest, NodesTyped, D
<1>10. ChildrenHang(es)
  <2> SUFFICES ASSUME NEW p \in D, NEW c \in es[p].children
               PROVE  c \in D /\ es[c].above = {p} \cup es[p].above /\ es[c].dn \in Under(es[p].dn)
    BY <1>2 DEF ChildrenHang
  <2>1. p # n /\ c \in nodes[p].children
    BY <1>4, <1>5
  <2>2. c \in D /\ nodes[c].above = {p} \cup nodes[p].above /\ nodes[c].dn \in Under(nodes[p].dn)
    BY <2>1, <1>8
  <2>3. es[c].dn = nodes[c].dn /\ es[p].dn = nodes[p].dn
    BY <2>1, <2>2, <1>4, <1>5
  <2>4. CASE n \in nodes[p].above
    <3>1. c # n
      BY <2>4, <2>2, <1>7
    <3>2. p \notin X
      BY <2>1, <2>4, <1>7
    <3> QED
      BY <3>1, <3>2, <2>1, <2>2, <2>3, <2>4, <1>5
  <2>5. CASE n \notin nodes[p].above
    <3>1. es[p].above = nodes[p].above
      BY <2>1, <2>5, <1>5
    <3>2. es[c].above = nodes[c].above
      BY <2>1, <2>2, <2>5, <1>4, <1>5
    <3> QED
      BY <3>1, <3>2, <2>2, <2>3
  <2> QED
    BY <2>4, <2>5
<1>11. AboveIsLinear(es)
  <2> SUFFICES ASSUME NEW m \in D
               PROVE  /\ es[m].above \subseteq D /\ m \notin es[m].above
                      /\ es[m].above # {} => \E p \in es[m].above : m \in es[p].children
                      /\ \A p \in es[m].above : es[p].above \subseteq es[m].above
                      /\ \A p, q \in es[m].above : p = q \/ p \in es[q].above \/ q \in es[p].above
    BY <1>2 DEF AboveIsLinear
  <2>0. es[m].above \subseteq nodes[m].above
    BY <1>4, <1>5
  <2>1. \A x \in es[m].above : n \in nodes[m].above => x \notin X
    BY <1>4, <1>5, <1>7
  <2>2. \A p \in D : es[p].above = IF n \in nodes[p].above THEN nodes[p].above \ X ELSE nodes[p].above
    BY <1>4, <1>5, <1>7
  <2>3. ASSUME es[m].above # {} PROVE \E p \in es[m].above : m \in es[p].children
    <3>1. PICK q \in nodes[m].above : m \in nodes[q].children
      BY <2>0, <2>3, <1>7
    <3>2. nodes[m].above = {q} \cup nodes[q].above /\ q \in D
      BY <3>1, <1>7, <1>8
    <3>3. q # n
      <4> SUFFICES ASSUME q = n PROVE FALSE
        OBVIOUS
      <4>1. es[m].above = {}
        BY <3>2, <2>2
      <4> QED
        BY <4>1, <2>3
    <3>4. q \in es[m].above
      <4>1. CASE n \in nodes[m].above
        <5>1. n \in nodes[q].above
          BY <4>1, <3>2, <3>3
        <5>2. q \notin nodes[n].above
          BY <5>1, <3>2, <1>7
        <5> QED
          BY <5>2, <3>1, <3>3, <2>2, <4>1
      <4> QED
        BY <4>1, <3>1, <2>2
    <3> QED
      BY <3>1, <3>2, <3>3, <3>4, <1>5
  <2>4. ASSUME NEW p \in es[m].above PROVE es[p].above \subseteq es[m].above
    <3>1. p \in nodes[m].above /\ nodes[p].above \subseteq nodes[m].above /\ p \in D
      BY <2>0, <1>7
    <3>2. CASE n \in nodes[m].above
      <4>1. p \notin X
        BY <3>2, <2>1
      <4>2. n \in nodes[p].above
        BY <4>1, <3>1, <3>2, <1>7
      <4> QED
        BY <3>1, <3>2, <4>2, <2>2
    <3>3. CASE n \notin nodes[m].above
      BY <3>1, <3>3, <2>2
    <3> QED
      BY <3>2, <3>3
  <2>5. ASSUME NEW p \in es[m].above, NEW q \in es[m].above, p \in nodes[q].above PROVE p \in es[q].above
    <3>1. q \in D /\ nodes[q].above \subseteq nodes[m].above
      BY <2>0, <1>7
    <3> QED
      BY <3>1, <2>1, <2>2, <2>5
  <2> QED
    BY <2>0, <2>3, <2>4, <2>5, <1>7
<1>12. UnloadedIsBare(es)
  BY <1>2, <1>4, <1>5 DEF Forest, UnloadedIsBare, D
<1> QED
  BY <1>2, <1>4, <1>5, <1>9, <1>10, <1>11, <1>12 DEF Forest, es, D, X

\* The tree loses what hung below the emptied node and gains nothing.
LEMMA EmptiedTree ==
  ASSUME Forest(nodes), NEW n \in DOMAIN nodes, NEW r, RootIsBase(nodes, r), DnsApart(nodes, r)
  PROVE  /\ Below(Emptied(n), {r}) \subseteq Below(nodes, {r})
         /\ RootIsBase(Emptied(n), r) /\ DnsApart(Emptied(n), r)
<1> DEFINE es == Emptied(n)
<1>1. DOMAIN es = DOMAIN nodes
  BY EmptiedForest
<1>2. \A m \in DOMAIN nodes : es[m].dn = nodes[m].dn /\ es[m].above \subseteq nodes[m].above
  <2>1. es[n].dn = nodes[n].dn /\ es[n].above = nodes[n].above
    BY EmptiedForest
  <2>2. \A m \in DOMAIN nodes \ {n} :
           es[m].dn = nodes[m].dn
           /\ es[m].above = IF n \in nodes[m].above THEN nodes[m].above \ ({n} \cup nodes[n].above) ELSE nodes[m].above
    BY EmptiedForest
  <2> HIDE DEF es
  <2> QED
    BY <2>1, <2>2
<1> HIDE DEF es
<1>3. Below(es, {r}) \subseteq Below(nodes, {r})
  BY <1>1, <1>2 DEF Below
<1>4. RootIsBase(es, r)
  BY <1>1, <1>2 DEF RootIsBase
<1>5. Below(nodes, {r}) \subseteq DOMAIN nodes
  BY DEF Below
<1>6. DnsApart(es, r)
  BY <1>2, <1>3, <1>5 DEF DnsApart
<1> QED
  BY <1>3, <1>4, <1>6 DEF es

\* A node is in the tree when, and only when, the node it hangs on is.
LEMMA ChildInTree ==
  ASSUME NEW ns, Forest(ns), NEW r, RootIsBase(ns, r), NEW p \in DOMAIN ns, NEW c \in ns[p].children
  PROVE  c \in Below(ns, {r}) <=> p \in Below(ns, {r})
<1>1. c \in DOMAIN ns /\ ns[c].above = {p} \cup ns[p].above
  BY DEF Forest, ChildrenHang
<1>2. c # r
  BY <1>1 DEF RootIsBase, Forest, NodesTyped
<1> QED
  BY <1>1, <1>2 DEF Below

\* A node of the tree that is not its root hangs on a node of the tree.
LEMMA ParentInTree ==
  ASSUME NEW ns, Forest(ns), NEW r, RootIsBase(ns, r), NEW c \in Below(ns, {r}), c # r
  PROVE  \E p \in Below(ns, {r}) : c \in ns[p].children
<1>1. c \in DOMAIN ns /\ r \in ns[c].above
  BY DEF Below
<1>2. PICK p \in ns[c].above : c \in ns[p].children
  BY <1>1 DEF Forest, AboveIsLinear
<1>3. p \in DOMAIN ns
  BY <1>1, <1>2 DEF Forest, AboveIsLinear
<1> QED
  BY <1>2, <1>3, ChildInTree

\* What the assumption on the directory says of the entries below one DN.
LEMMA UnderTypes ==
  ASSUME NEW d \in DOMAIN Listing
  PROVE  /\ Under(d) \subseteq DOMAIN Listing \ {BaseDn} /\ "nothing" \notin Under(d)
         /\ \A e \in DOMAIN Listing : \A x : x \in Under(d) /\ x \in Under(e) => d = e
         /\ Listing[d] \in Seq(DOMAIN Listing \ {BaseDn}) /\ Len(Listing[d]) \in Nat
         /\ DOMAIN Listing[d] = 1..Len(Listing[d])
<1>1. Listing[d] \in Seq(DOMAIN Listing \ {BaseDn})
  BY ListingAssumption
<1>2. Under(d) \subseteq DOMAIN Listing \ {BaseDn}
  BY <1>1, ElementOfSeq DEF Under
<1>3. \A e \in DOMAIN Listing : \A x : x \in Under(d) /\ x \in Under(e) => d = e
  BY ListingAssumption DEF Under
<1> QED
  BY <1>1, <1>2, <1>3, ListingAssumption

\* A page hangs its entry below the node, once.
LEMMA AppliedForest ==
  ASSUME NEW ns, Forest(ns), NEW n \in DOMAIN ns, NEW page, NEW s,
         page.dn = "nothing" \/ page.dn \in Under(ns[n].dn), page.more \in BOOLEAN
  PROVE  LET as == applyPage(ns, n, s, page)
         IN /\ Forest(as) /\ DOMAIN ns \subseteq DOMAIN as
            /\ \A m \in DOMAIN ns \ {n} : as[m] = ns[m]
            /\ as[n].dn = ns[n].dn /\ as[n].above = ns[n].above /\ as[n].loaded /\ as[n].truncated = page.more
            /\ ns[n].children \subseteq as[n].children
            /\ as[n].children \ ns[n].children = DOMAIN as \ DOMAIN ns
            /\ \A m \in DOMAIN as \ DOMAIN ns : /\ as[m].dn = page.dn /\ as[m].above = {n} \cup ns[n].above
                                                 /\ ~as[m].loaded /\ as[m].children = {}
                                                 /\ page.dn \in Under(ns[n].dn) /\ page.dn \notin Got(ns, n)
            /\ page.dn # "nothing" => page.dn \in Got(as, n)
            /\ Got(ns, n) \subseteq Got(as, n)
<1> DEFINE bs == appendChildren(ns, n, page.dn)
           as == applyPage(ns, n, s, page)
           new == Unused(DOMAIN ns)
<1>0. \A m \in DOMAIN ns : ns[m] \in Node
  BY DEF Forest, NodesTyped
<1>1. new \in Nat \ {NoCursor} /\ new \notin DOMAIN ns
  BY UnusedIsNew DEF Forest, NodesTyped
<1>2. \A p \in DOMAIN ns : \A c \in ns[p].children : c \in DOMAIN ns
  BY DEF Forest, ChildrenHang
<1>3. as = [bs EXCEPT ![n].loaded = TRUE, ![n].truncated = page.more]
  BY DEF applyPage
<1>4. CASE page.dn = "nothing" \/ findChildByDn(ns, ns[n].children, page.dn) # {}
  <2>1. bs = ns
    BY <1>4 DEF appendChildren
  <2>2. ns \in [DOMAIN ns -> Node]
    BY DEF Forest, NodesTyped
  <2>3. as[n] = [ns[n] EXCEPT !.loaded = TRUE, !.truncated = page.more] /\ DOMAIN as = DOMAIN ns
        /\ \A m \in DOMAIN ns \ {n} : as[m] = ns[m]
    BY <2>1, <2>2, <1>3
  <2> HIDE DEF as
  <2>4. /\ as[n].dn = ns[n].dn /\ as[n].above = ns[n].above /\ as[n].loaded /\ as[n].truncated = page.more
        /\ as[n].children = ns[n].children /\ as[n] \in Node
    BY <2>3, <1>0 DEF Node
  <2>5. as \in [DOMAIN ns -> Node]
    BY <2>1, <2>2, <2>3, <2>4, <1>3
  <2>6. SameShape(ns, as)
    BY <2>3, <2>4, <2>5 DEF SameShape
  <2>7. UnloadedIsBare(as)
    BY <2>3, <2>4 DEF Forest, UnloadedIsBare
  <2>8. Forest(as)
    BY <2>6, <2>7, MarkedForest
  <2>9. Got(as, n) = Got(ns, n)
    BY <2>6, <1>2 DEF Got, SameShape
  <2>10. page.dn # "nothing" => page.dn \in Got(ns, n)
    BY <1>4 DEF findChildByDn, Got
  <2> QED
    BY <2>3, <2>4, <2>8, <2>9, <2>10 DEF as
<1>5. CASE ~(page.dn = "nothing" \/ findChildByDn(ns, ns[n].children, page.dn) # {})
  <2>1. bs = [i \in DOMAIN ns \cup {new} |->
             CASE i = new -> makeNode(page.dn, {n} \cup ns[n].above)
               [] i = n -> [ns[n] EXCEPT !.children = @ \cup {new}]
               [] OTHER -> ns[i]]
    BY <1>5 DEF appendChildren
  <2>2. /\ DOMAIN bs = DOMAIN ns \cup {new} /\ bs[new] = makeNode(page.dn, {n} \cup ns[n].above)
        /\ bs[n] = [ns[n] EXCEPT !.children = @ \cup {new}]
        /\ \A m \in DOMAIN ns \ {n} : bs[m] = ns[m]
    BY <2>1, <1>1
  <2>3. /\ DOMAIN as = DOMAIN ns \cup {new} /\ as[new] = makeNode(page.dn, {n} \cup ns[n].above)
        /\ as[n] = [bs[n] EXCEPT !.loaded = TRUE, !.truncated = page.more]
        /\ \A m \in DOMAIN ns \ {n} : as[m] = ns[m]
        /\ as = [i \in DOMAIN as |-> as[i]]
    <3> HIDE DEF bs
    <3> QED
      BY <2>2, <1>1, <1>3
  <2>4. /\ as[n].dn = ns[n].dn /\ as[n].above = ns[n].above /\ as[n].loaded /\ as[n].truncated = page.more
        /\ as[n].children = ns[n].children \cup {new} /\ as[n] \in Node
    <3> HIDE DEF as, bs, new
    <3>1. bs[n] \in Node /\ bs[n].dn = ns[n].dn /\ bs[n].above = ns[n].above /\ bs[n].children = ns[n].children \cup {new}
      BY <2>2, <1>0, <1>1 DEF Node
    <3> QED
      BY <2>3, <3>1 DEF Node
  <2>5. /\ page.dn \in Under(ns[n].dn) /\ page.dn \in DOMAIN Listing /\ page.dn # "nothing"
        /\ page.dn \notin Got(ns, n)
    BY <1>0, <1>5, UnderTypes DEF Node, findChildByDn, Got
  <2>6. /\ as[new].dn = page.dn /\ as[new].above = {n} \cup ns[n].above /\ as[new].children = {} /\ ~as[new].loaded
        /\ ~as[new].truncated /\ as[new] \in Node
    <3>1. ns[n].above \subseteq Nat /\ n \in Nat
      BY <1>0 DEF Node, Forest, NodesTyped
    <3> HIDE DEF as, bs
    <3> QED
      BY <2>3, <2>5, <3>1 DEF makeNode, Node
  <2> HIDE DEF as, bs, new
  <2>7. NodesTyped(as)
    <3>1. IsFiniteSet(DOMAIN as) /\ DOMAIN as \subseteq Nat \ {NoCursor}
      BY <2>3, <1>1, FS_AddElement DEF Forest, NodesTyped
    <3>2. \A m \in DOMAIN as : as[m] \in Node
      BY <2>3, <2>4, <2>6, <1>0
    <3> QED
      BY <3>1, <3>2, <2>3 DEF NodesTyped
  <2>8. ChildrenHang(as)
    <3> SUFFICES ASSUME NEW p \in DOMAIN as, NEW c \in as[p].children
                 PROVE  c \in DOMAIN as /\ as[c].above = {p} \cup as[p].above /\ as[c].dn \in Under(as[p].dn)
      BY DEF ChildrenHang
    <3>1. p \in DOMAIN ns
      BY <2>3, <2>6
    <3>2. CASE c = new
      <4>1. p = n
        BY <3>1, <3>2, <2>3, <1>1, <1>2
      <4> QED
        BY <3>2, <4>1, <2>3, <2>4, <2>5, <2>6
    <3>3. CASE c # new
      <4>1. c \in ns[p].children
        BY <3>1, <3>3, <2>3, <2>4
      <4>2. c \in DOMAIN ns /\ ns[c].above = {p} \cup ns[p].above /\ ns[c].dn \in Under(ns[p].dn)
        BY <3>1, <4>1 DEF Forest, ChildrenHang
      <4> QED
        BY <4>2, <3>1, <2>3, <2>4
    <3> QED
      BY <3>2, <3>3
  <2>9. \A m \in DOMAIN ns : as[m].above = ns[m].above /\ ns[m].children \subseteq as[m].children
    BY <2>3, <2>4
  <2>10. AboveIsLinear(as)
    <3>0. \A m \in DOMAIN ns :
            /\ ns[m].above \subseteq DOMAIN ns /\ m \notin ns[m].above
            /\ ns[m].above # {} => \E p \in ns[m].above : m \in ns[p].children
            /\ \A p \in ns[m].above : ns[p].above \subseteq ns[m].above
            /\ \A p, q \in ns[m].above : p = q \/ p \in ns[q].above \/ q \in ns[p].above
      BY DEF Forest, AboveIsLinear
    <3> SUFFICES ASSUME NEW m \in DOMAIN as
               PROVE  /\ as[m].above \subseteq DOMAIN as /\ m \notin as[m].above
                      /\ as[m].above # {} => \E p \in as[m].above : m \in as[p].children
                      /\ \A p \in as[m].above : as[p].above \subseteq as[m].above
                      /\ \A p, q \in as[m].above : p = q \/ p \in as[q].above \/ q \in as[p].above
      BY DEF AboveIsLinear
    <3>1. CASE m \in DOMAIN ns
      BY <3>0, <3>1, <2>3, <2>9
    <3>2. CASE m = new
      <4>1. as[m].above = {n} \cup ns[n].above /\ m \in as[n].children /\ m \notin DOMAIN ns
        BY <3>2, <2>4, <2>6, <1>1
      <4>2. \A p \in {n} \cup ns[n].above : p \in DOMAIN ns /\ as[p].above = ns[p].above
        BY <3>0, <2>9
      <4> QED
        BY <4>1, <4>2, <3>0, <2>3
    <3> QED
      BY <3>1, <3>2, <2>3
  <2>11. UnloadedIsBare(as)
    BY <2>3, <2>4, <2>6 DEF Forest, UnloadedIsBare
  <2>12. Forest(as)
    BY <2>7, <2>8, <2>10, <2>11 DEF Forest
  <2>13. page.dn \in Got(as, n)
    BY <2>4, <2>6 DEF Got
  <2>14. Got(ns, n) \subseteq Got(as, n)
    <3>1. \A c \in ns[n].children : c \in as[n].children /\ as[c].dn = ns[c].dn
      BY <2>3, <2>4, <1>2
    <3> QED
      BY <3>1 DEF Got
  <2>15. as[n].children \ ns[n].children = DOMAIN as \ DOMAIN ns
    BY <2>3, <2>4, <1>1, <1>2
  <2>16. DOMAIN as \ DOMAIN ns = {new}
    BY <2>3, <1>1
  <2> QED
    BY <2>3, <2>4, <2>5, <2>6, <2>12, <2>13, <2>14, <2>15, <2>16 DEF as
<1> QED
  BY <1>4, <1>5

\* The tree it hangs in has each DN once, as before.
LEMMA AppliedTree ==
  ASSUME NEW ns, Forest(ns), NEW n \in DOMAIN ns, NEW page, NEW s,
         page.dn = "nothing" \/ page.dn \in Under(ns[n].dn), page.more \in BOOLEAN,
         NEW r, RootIsBase(ns, r), DnsApart(ns, r)
  PROVE  LET as == applyPage(ns, n, s, page)
         IN /\ \A m \in DOMAIN ns : m \in Below(as, {r}) <=> m \in Below(ns, {r})
            /\ \A m \in DOMAIN as \ DOMAIN ns : m \in Below(as, {r}) <=> n \in Below(ns, {r})
            /\ RootIsBase(as, r) /\ DnsApart(as, r)
<1> DEFINE as == applyPage(ns, n, s, page)
           T == Below(ns, {r})
<1>1. /\ DOMAIN ns \subseteq DOMAIN as
      /\ \A m \in DOMAIN ns : as[m].dn = ns[m].dn /\ as[m].above = ns[m].above
      /\ \A m \in DOMAIN as \ DOMAIN ns : /\ as[m].dn = page.dn /\ as[m].above = {n} \cup ns[n].above
                                           /\ page.dn \in Under(ns[n].dn) /\ page.dn \notin Got(ns, n)
      /\ as[n].children \ ns[n].children = DOMAIN as \ DOMAIN ns
  BY AppliedForest
<1>2. \A x, y \in DOMAIN as \ DOMAIN ns : x = y
  <2>1. DOMAIN appendChildren(ns, n, page.dn) \subseteq DOMAIN ns \cup {Unused(DOMAIN ns)}
    BY DEF appendChildren
  <2>2. DOMAIN as = DOMAIN appendChildren(ns, n, page.dn)
    BY DEF applyPage
  <2> QED
    BY <2>1, <2>2
<1> HIDE DEF as
<1>3. \A m \in DOMAIN ns : m \in Below(as, {r}) <=> m \in T
  BY <1>1 DEF Below
<1>4. r \notin DOMAIN as \ DOMAIN ns
  <2>1. DOMAIN as \subseteq Nat \ {NoCursor}
    BY AppliedForest DEF Forest, NodesTyped, as
  <2> QED
    BY <2>1 DEF RootIsBase
<1>5. \A m \in DOMAIN as \ DOMAIN ns : m \in Below(as, {r}) <=> n \in T
  BY <1>1, <1>4 DEF Below
<1>6. RootIsBase(as, r)
  BY <1>1 DEF RootIsBase
<1>7. \A m \in T : m \in DOMAIN ns
  BY DEF Below
<1>8. ns[n].dn \in DOMAIN Listing /\ \A m \in DOMAIN ns : ns[m].dn \in DOMAIN Listing
  BY DEF Forest, NodesTyped, Node
<1>9. ASSUME n \in T, page.dn \in Under(ns[n].dn), page.dn \notin Got(ns, n), NEW m \in T PROVE ns[m].dn # page.dn
  <2> SUFFICES ASSUME ns[m].dn = page.dn PROVE FALSE
    OBVIOUS
  <2>1. m # r
    BY <1>7, <1>8, <1>9, UnderTypes, m \in DOMAIN ns DEF RootIsBase, Forest, NodesTyped
  <2>2. PICK p \in T : m \in ns[p].children
    BY <2>1, ParentInTree
  <2>3. ns[m].dn \in Under(ns[p].dn)
    BY <2>2, <1>7 DEF Forest, ChildrenHang
  <2>4. ns[p].dn = ns[n].dn
    BY <2>3, <1>7, <1>8, <1>9, UnderTypes
  <2>5. p = n
    BY <2>4, <1>9 DEF DnsApart
  <2> QED
    BY <2>2, <2>5, <1>9 DEF Got
<1>10. DnsApart(as, r)
  <2> SUFFICES ASSUME NEW x \in Below(as, {r}), NEW y \in Below(as, {r}), as[x].dn = as[y].dn PROVE x = y
    BY DEF DnsApart
  <2>0. x \in DOMAIN as /\ y \in DOMAIN as
    BY DEF Below
  <2>1. CASE x \in DOMAIN ns /\ y \in DOMAIN ns
    BY <2>1, <1>1, <1>3 DEF DnsApart
  <2>2. CASE x \notin DOMAIN ns /\ y \in DOMAIN ns
    BY <2>0, <2>2, <1>1, <1>3, <1>5, <1>9
  <2>3. CASE x \in DOMAIN ns /\ y \notin DOMAIN ns
    BY <2>0, <2>3, <1>1, <1>3, <1>5, <1>9
  <2>4. CASE x \notin DOMAIN ns /\ y \notin DOMAIN ns
    BY <2>0, <2>4, <1>2
  <2> QED
    BY <2>1, <2>2, <2>3, <2>4
<1> QED
  BY <1>3, <1>5, <1>6, <1>10 DEF as

(* The invariant. *)

\* The nodes are a forest, and no DN is twice in the tree.
TreeForest == Forest(nodes) /\ RootIsBase(nodes, root) /\ DnsApart(nodes, root)

Starts == {"root", "toggle", "reload", "children"}
Nexts == {"more", "next"}
Waiting == [kind : Starts \cup Nexts, node : Nat, gen : Nat, session : Nat, at : {"sent", "failed"}]
Answer == [kind : Starts \cup Nexts, node : Nat, gen : Nat, session : Nat, at : {"answered"},
           page : [dn : DOMAIN Listing \cup {"nothing"}, more : BOOLEAN]]
\* A request is about a node that is kept; it is of the present load of the
\* tree when that node is in the tree.
RequestsTyped ==
  /\ IsFiniteSet(requests) /\ requests \subseteq Waiting \cup Answer
  /\ treeGeneration \in Nat
  /\ \A r \in requests :
       /\ r.node \in DOMAIN nodes
       /\ r.gen <= treeGeneration /\ (r.node \in InTree => r.gen = treeGeneration)
       /\ r.kind \in Nexts => r.session # NoCursor
       /\ r.kind \in Starts /\ r.at # "answered" => r.session = NoCursor
\* An open cursor is at a page after the first.
CursorsTyped ==
  /\ IsFiniteSet(DOMAIN cursors) /\ DOMAIN cursors \subseteq Nat \ {NoCursor}
  /\ cursors \in [DOMAIN cursors -> [dn : DOMAIN Listing, page : Nat]]
  /\ \A c \in DOMAIN cursors : cursors[c].page \in 2..Len(Listing[cursors[c].dn])
  /\ childSessions \in [DOMAIN Listing -> Nat]

\* No two DNs have one cursor.
SessionsApart == \A d, e \in DOMAIN Listing : childSessions[d] = childSessions[e] => d = e \/ childSessions[d] = NoCursor
\* The cursor of a DN reads that DN.
CursorOfDn == \A d \in DOMAIN Listing : childSessions[d] \in DOMAIN cursors => cursors[childSessions[d]].dn = d
\* A first page that is on its way brings a cursor that nobody has, with the first entry.
StartsOk ==
  \A r \in requests : r.kind \in Starts /\ r.at = "answered" =>
    LET pages == Listing[nodes[r.node].dn]
    IN /\ r.session # NoCursor /\ \A d \in DOMAIN Listing : childSessions[d] # r.session
       /\ \A q \in requests : q.session = r.session => q = r
       /\ r.page.dn = IF pages = <<>> THEN "nothing" ELSE pages[1]
       /\ r.page.more <=> Len(pages) > 1
       /\ r.session \in DOMAIN cursors => cursors[r.session] = [dn |-> nodes[r.node].dn, page |-> 2]
IsPage(dn, k, page) == k \in DOMAIN Listing[dn] /\ page.dn = Listing[dn][k] /\ (page.more <=> k < Len(Listing[dn]))
\* A next page is one of the DN of its node.
NextsOk ==
  \A r \in requests : r.kind \in Nexts =>
    /\ r.session \in DOMAIN cursors => cursors[r.session].dn = nodes[r.node].dn
    /\ \A d \in DOMAIN Listing : childSessions[d] = r.session => nodes[r.node].dn = d
    /\ r.at = "answered" => \E k \in DOMAIN Listing[nodes[r.node].dn] : IsPage(nodes[r.node].dn, k, r.page)

\* A node of the tree of whose cursor nobody else makes use.
Private(n) == n \in InTree /\ nodes[n].dn \notin shared
SessionOf(n) == childSessions[nodes[n].dn]
First(dn, k) == {Listing[dn][i] : i \in 1..k}
\* A private node that is complete has every entry below its DN.
CompleteWhenDone ==
  \A n \in DOMAIN nodes : Private(n) /\ nodes[n].loaded /\ ~nodes[n].truncated => Under(nodes[n].dn) \subseteq Got(nodes, n)
\* The cursor of a private node has one request at most, and it is for that node.
OneReader ==
  \A n \in DOMAIN nodes : Private(n) /\ nodes[n].loaded /\ SessionOf(n) # NoCursor =>
    \A r \in requests : r.session = SessionOf(n) =>
      /\ r.node = n
      /\ \A q \in requests : q.session = SessionOf(n) => q = r
\* Only a node that is loaded is asked for a next page.
NextIsLoaded ==
  \A r \in requests : r.kind \in Nexts /\ Private(r.node) /\ r.session = SessionOf(r.node) => nodes[r.node].loaded
\* What is before the page of the cursor has arrived, unless its answer is on the way.
CursorFollows ==
  \A n \in DOMAIN nodes : Private(n) /\ nodes[n].loaded /\ SessionOf(n) \in DOMAIN cursors =>
     \/ \E r \in requests : r.session = SessionOf(n) /\ r.at = "answered"
     \/ First(nodes[n].dn, cursors[SessionOf(n)].page - 1) \subseteq Got(nodes, n)
PageAt(r, k) ==
  /\ IsPage(nodes[r.node].dn, k, r.page)
  /\ First(nodes[r.node].dn, k - 1) \subseteq Got(nodes, r.node)
  /\ r.session \in DOMAIN cursors => cursors[r.session].page = k + 1
\* A next page on its way is the one after the pages that have arrived.
PageFollows ==
  \A r \in requests : r.kind \in Nexts /\ r.at = "answered" /\ Private(r.node) /\ r.session = SessionOf(r.node) =>
     \E k \in DOMAIN Listing[nodes[r.node].dn] : PageAt(r, k)
Progress == CompleteWhenDone /\ OneReader /\ NextIsLoaded /\ CursorFollows /\ PageFollows
Sessions == SessionsApart /\ CursorOfDn /\ StartsOk /\ NextsOk

\* A reveal waits for its own request, with nodes that are kept; the private
\* node it walks on has no cursor before it is loaded.
RevealOk ==
  /\ {"at", "node", "index"} \subseteq DOMAIN reveal /\ reveal.index \subseteq DOMAIN nodes
  /\ \A n \in reveal.index : nodes[n].dn # BaseDn /\ (n \in InTree => reveal.gen = treeGeneration)
  /\ reveal.at # "idle" =>
       /\ reveal.node \in DOMAIN nodes /\ reveal.gen \in Nat /\ reveal.gen <= treeGeneration
       /\ reveal.node \in InTree => reveal.gen = treeGeneration
  /\ \A r \in requests : r.kind \in {"children", "next"} =>
       /\ reveal.at = "await" /\ r.node = reveal.node /\ r.gen = reveal.gen
       /\ \A q \in requests : q.kind \in {"children", "next"} => q = r
  /\ reveal.at = "walk" /\ Private(reveal.node) /\ ~nodes[reveal.node].loaded => SessionOf(reveal.node) = NoCursor
\* Until the root is loaded, its DN has no cursor and no other request.
FirstLoad ==
  /\ root # NoCursor /\ ~nodes[root].loaded /\ BaseDn \notin shared => childSessions[BaseDn] = NoCursor
  /\ root = NoCursor =>
       /\ childSessions[BaseDn] = NoCursor
       /\ \A r \in requests : nodes[r.node].dn = BaseDn => r.gen # treeGeneration
  /\ \A r \in requests : r.kind = "root" /\ r.gen = treeGeneration =>
       /\ r.node = root /\ root # NoCursor /\ nodes[root].loading /\ ~nodes[root].loaded /\ childSessions[BaseDn] = NoCursor
       /\ \A q \in requests : q.gen = treeGeneration /\ nodes[q.node].dn = BaseDn => q = r

Shape == TreeForest /\ RequestsTyped /\ CursorsTyped
TreeInv == Shape /\ Sessions /\ Progress /\ RevealOk /\ FirstLoad

\* A step that opens no cursor, gives none to a node and answers nothing.
Shrink ==
  /\ \A d \in DOMAIN Listing : childSessions'[d] \in {NoCursor, childSessions[d]}
  /\ DOMAIN cursors' \subseteq DOMAIN cursors /\ \A c \in DOMAIN cursors' : cursors'[c] = cursors[c]
  /\ \A r \in requests' : \/ r \in requests
                          \/ r.kind \in Starts /\ r.at # "answered" /\ r.session = NoCursor
                          \/ \E q \in requests \ requests' : r = [q EXCEPT !.at = "failed"] /\ q.at = "sent"
  /\ \A n \in DOMAIN nodes' \cap DOMAIN nodes : nodes'[n].dn = nodes[n].dn
  /\ \A n \in DOMAIN nodes' : Private(n)' =>
       \/ ~nodes'[n].loaded /\ SessionOf(n)' = NoCursor
       \/ /\ n \in DOMAIN nodes /\ Private(n)
          /\ nodes'[n].loaded = nodes[n].loaded /\ nodes'[n].truncated = nodes[n].truncated
          /\ Got(nodes', n) = Got(nodes, n)
  /\ \A r \in requests \ requests' : r.at = "answered" =>
       \A n \in DOMAIN nodes' : Private(n)' /\ nodes'[n].loaded => SessionOf(n)' # r.session

\* The request that a request of the next state was.
Was(r, q) ==
  /\ q = r \/ (q \notin requests' /\ r = [q EXCEPT !.at = "failed"] /\ q.at = "sent")
  /\ q.kind = r.kind /\ q.node = r.node /\ q.session = r.session /\ q.gen = r.gen
  /\ r.at = "answered" => q = r
  /\ nodes'[r.node].dn = nodes[r.node].dn /\ r.node \in DOMAIN nodes' /\ r.node \in DOMAIN nodes
  /\ nodes[r.node].dn \in DOMAIN Listing

\* A request of the next state that has a cursor was one of this state.
LEMMA ShrunkRequests ==
  ASSUME Shape, Shape', Shrink, NEW r \in requests', r.session # NoCursor \/ r.at = "answered"
  PROVE  \E q \in requests : Was(r, q)
<1>1. requests \subseteq Waiting \cup Answer /\ \A q \in requests : q.node \in DOMAIN nodes
  BY DEF Shape, RequestsTyped
<1>2. r.node \in DOMAIN nodes'
  BY DEF Shape, RequestsTyped
<1>3. \A n \in DOMAIN nodes : nodes[n].dn \in DOMAIN Listing
  BY DEF Shape, TreeForest, Forest, NodesTyped, Node
<1>4. CASE r \in requests
  BY <1>1, <1>2, <1>3, <1>4 DEF Shrink, Was
<1>5. ASSUME NEW q \in requests \ requests', r = [q EXCEPT !.at = "failed"], q.at = "sent"
      PROVE  Was(r, q)
  <2>1. q \in Waiting
    BY <1>1, <1>5 DEF Answer
  <2>2. r.kind = q.kind /\ r.node = q.node /\ r.session = q.session /\ r.gen = q.gen /\ r.at = "failed"
    BY <2>1, <1>5 DEF Waiting
  <2> QED
    BY <2>2, <1>1, <1>2, <1>3, <1>5 DEF Shrink, Was
<1> QED
  BY <1>4, <1>5 DEF Shrink

\* The private node that has a cursor in the next state had it.
Unmoved(n) ==
  /\ n \in DOMAIN nodes /\ Private(n) /\ nodes'[n].dn = nodes[n].dn /\ nodes[n].dn \in DOMAIN Listing
  /\ nodes'[n].loaded = nodes[n].loaded /\ nodes'[n].truncated = nodes[n].truncated
  /\ Got(nodes', n) = Got(nodes, n)
  /\ SessionOf(n)' # NoCursor => SessionOf(n)' = SessionOf(n)

\* A private node of the next state was one, or it is bare and has no cursor.
LEMMA ShrunkNodes ==
  ASSUME Shape, Shape', Shrink, NEW n \in DOMAIN nodes', Private(n)'
  PROVE  (~nodes'[n].loaded /\ SessionOf(n)' = NoCursor) \/ Unmoved(n)
<1> SUFFICES ASSUME ~(~nodes'[n].loaded /\ SessionOf(n)' = NoCursor) PROVE Unmoved(n)
  OBVIOUS
<1>1. /\ n \in DOMAIN nodes /\ Private(n)
      /\ nodes'[n].loaded = nodes[n].loaded /\ nodes'[n].truncated = nodes[n].truncated
      /\ Got(nodes', n) = Got(nodes, n)
  BY DEF Shrink
<1>2. nodes'[n].dn = nodes[n].dn /\ nodes[n].dn \in DOMAIN Listing
  BY <1>1 DEF Shrink, Shape, TreeForest, Forest, NodesTyped, Node
<1>3. SessionOf(n)' \in {NoCursor, SessionOf(n)}
  BY <1>2 DEF Shrink, SessionOf
<1> QED
  BY <1>1, <1>2, <1>3 DEF Unmoved

\* A step that shrinks keeps the cursors apart.
LEMMA ShrinkKeepsSessions ==
  ASSUME Shape, Shape', Shrink, Sessions
  PROVE  Sessions'
<1>1. \A d \in DOMAIN Listing : childSessions'[d] \in {NoCursor, childSessions[d]}
  BY DEF Shrink
<1>2. NoCursor \notin DOMAIN cursors /\ NoCursor \notin DOMAIN cursors'
  BY DEF Shape, CursorsTyped
<1>3. DOMAIN cursors' \subseteq DOMAIN cursors /\ \A c \in DOMAIN cursors' : cursors'[c] = cursors[c]
  BY DEF Shrink
<1>4. SessionsApart'
  BY <1>1 DEF SessionsApart, Sessions
<1>5. CursorOfDn'
  BY <1>1, <1>2, <1>3 DEF CursorOfDn, Sessions
<1>6. StartsOk'
  <2> SUFFICES ASSUME NEW r \in requests', r.kind \in Starts, r.at = "answered"
               PROVE  LET pages == Listing[nodes'[r.node].dn]
                      IN /\ r.session # NoCursor /\ \A d \in DOMAIN Listing : childSessions'[d] # r.session
                         /\ \A q \in requests' : q.session = r.session => q = r
                         /\ r.page.dn = IF pages = <<>> THEN "nothing" ELSE pages[1]
                         /\ r.page.more <=> Len(pages) > 1
                         /\ r.session \in DOMAIN cursors' => cursors'[r.session] = [dn |-> nodes'[r.node].dn, page |-> 2]
    BY DEF StartsOk
  <2>1. r \in requests /\ nodes'[r.node].dn = nodes[r.node].dn
    BY ShrunkRequests DEF Was
  <2>2. r.session # NoCursor
    BY <2>1 DEF Sessions, StartsOk
  <2>3. ASSUME NEW q \in requests', q.session = r.session PROVE q = r
    <3>1. PICK p \in requests : Was(q, p)
      BY <2>2, <2>3, ShrunkRequests
    <3>2. \A o \in requests : o.session = r.session => o = r
      BY <2>1 DEF Sessions, StartsOk
    <3>3. p = r
      BY <2>3, <3>1, <3>2 DEF Was
    <3> QED
      BY <3>1, <3>3 DEF Was
  <2> QED
    BY <2>1, <2>2, <2>3, <1>1, <1>3 DEF Sessions, StartsOk
<1>7. NextsOk'
  <2> SUFFICES ASSUME NEW r \in requests', r.kind \in Nexts
               PROVE  /\ r.session \in DOMAIN cursors' => cursors'[r.session].dn = nodes'[r.node].dn
                      /\ \A d \in DOMAIN Listing : childSessions'[d] = r.session => nodes'[r.node].dn = d
                      /\ r.at = "answered" => \E k \in DOMAIN Listing[nodes'[r.node].dn] : IsPage(nodes'[r.node].dn, k, r.page)
    BY DEF NextsOk
  <2>1. r.session # NoCursor
    BY DEF Shape, RequestsTyped
  <2>2. PICK q \in requests : Was(r, q)
    BY <2>1, ShrunkRequests
  <2>3. /\ q.session \in DOMAIN cursors => cursors[q.session].dn = nodes[q.node].dn
        /\ \A d \in DOMAIN Listing : childSessions[d] = q.session => nodes[q.node].dn = d
        /\ q.at = "answered" => \E k \in DOMAIN Listing[nodes[q.node].dn] : IsPage(nodes[q.node].dn, k, q.page)
    BY <2>2 DEF Was, Sessions, NextsOk
  <2> QED
    BY <2>1, <2>2, <2>3, <1>1, <1>3 DEF Was
<1> QED
  BY <1>4, <1>5, <1>6, <1>7 DEF Sessions

\* A step that shrinks keeps the pages in order.
LEMMA ShrinkKeepsProgress ==
  ASSUME Shape, Shape', Shrink, Sessions, Progress
  PROVE  Progress'
<1>2. NoCursor \notin DOMAIN cursors /\ NoCursor \notin DOMAIN cursors'
  BY DEF Shape, CursorsTyped
<1>3. DOMAIN cursors' \subseteq DOMAIN cursors /\ \A c \in DOMAIN cursors' : cursors'[c] = cursors[c]
  BY DEF Shrink
<1>4. CompleteWhenDone'
  BY ShrunkNodes DEF Unmoved, CompleteWhenDone, Progress
<1>5. OneReader'
  <2> SUFFICES ASSUME NEW n \in DOMAIN nodes', Private(n)', nodes'[n].loaded, SessionOf(n)' # NoCursor,
                      NEW r \in requests', r.session = SessionOf(n)'
               PROVE  r.node = n /\ \A q \in requests' : q.session = SessionOf(n)' => q = r
    BY DEF OneReader
  <2>1. Unmoved(n) /\ SessionOf(n)' = SessionOf(n)
    BY ShrunkNodes DEF Unmoved
  <2>2. PICK p \in requests : Was(r, p)
    BY ShrunkRequests
  <2>3. p.node = n /\ \A q \in requests : q.session = SessionOf(n) => q = p
    BY <2>1, <2>2 DEF Unmoved, Was, Progress, OneReader
  <2>4. ASSUME NEW q \in requests', q.session = SessionOf(n)' PROVE q = r
    <3>1. PICK o \in requests : Was(q, o)
      BY <2>4, ShrunkRequests
    <3>2. o = p
      BY <2>1, <2>3, <2>4, <3>1 DEF Was
    <3> QED
      BY <2>2, <3>1, <3>2 DEF Was
  <2> QED
    BY <2>2, <2>3, <2>4 DEF Was
<1>6. NextIsLoaded'
  <2> SUFFICES ASSUME NEW r \in requests', r.kind \in Nexts, Private(r.node)', r.session = SessionOf(r.node)'
               PROVE  nodes'[r.node].loaded
    BY DEF NextIsLoaded
  <2>1. r.session # NoCursor /\ r.node \in DOMAIN nodes'
    BY DEF Shape, RequestsTyped
  <2>2. PICK p \in requests : Was(r, p)
    BY <2>1, ShrunkRequests
  <2>3. Unmoved(r.node) /\ SessionOf(r.node)' = SessionOf(r.node)
    BY <2>1, ShrunkNodes DEF Unmoved
  <2> QED
    BY <2>2, <2>3 DEF Was, Unmoved, Progress, NextIsLoaded
<1>7. CursorFollows'
  <2> SUFFICES ASSUME NEW n \in DOMAIN nodes', Private(n)', nodes'[n].loaded, SessionOf(n)' \in DOMAIN cursors'
               PROVE  \/ \E r \in requests' : r.session = SessionOf(n)' /\ r.at = "answered"
                      \/ First(nodes'[n].dn, cursors'[SessionOf(n)'].page - 1) \subseteq Got(nodes', n)
    BY DEF CursorFollows
  <2>1. Unmoved(n) /\ SessionOf(n)' = SessionOf(n)
    BY <1>2, ShrunkNodes DEF Unmoved
  <2>2. ASSUME NEW r \in requests, r.session = SessionOf(n), r.at = "answered" PROVE r \in requests'
    BY <2>1, <2>2 DEF Shrink
  <2>3. \/ \E r \in requests : r.session = SessionOf(n) /\ r.at = "answered"
        \/ First(nodes[n].dn, cursors[SessionOf(n)].page - 1) \subseteq Got(nodes, n)
    BY <2>1, <1>3 DEF Unmoved, Progress, CursorFollows
  <2> QED
    BY <2>1, <2>2, <2>3, <1>3 DEF Unmoved
<1>8. PageFollows'
  <2> SUFFICES ASSUME NEW r \in requests', r.kind \in Nexts, r.at = "answered", Private(r.node)', r.session = SessionOf(r.node)'
               PROVE  \E k \in DOMAIN Listing[nodes'[r.node].dn] : PageAt(r, k)'
    BY DEF PageFollows
  <2>1. r.session # NoCursor /\ r.node \in DOMAIN nodes'
    BY DEF Shape, RequestsTyped
  <2>2. r \in requests
    BY ShrunkRequests DEF Was
  <2>3. Unmoved(r.node) /\ SessionOf(r.node)' = SessionOf(r.node)
    BY <2>1, ShrunkNodes DEF Unmoved
  <2>4. PICK k \in DOMAIN Listing[nodes[r.node].dn] : PageAt(r, k)
    BY <2>2, <2>3 DEF Unmoved, Progress, PageFollows
  <2>5. PageAt(r, k)'
    BY <2>3, <2>4, <1>3 DEF Unmoved, PageAt
  <2> QED
    BY <2>3, <2>4, <2>5 DEF Unmoved
<1> QED
  BY <1>4, <1>5, <1>6, <1>7, <1>8 DEF Progress

\* A step that asks for the page after the ones a node has.
Sends(s) ==
  /\ requests' = requests \cup {s} /\ s.kind \in Nexts /\ s.at = "sent"
  /\ s.node \in DOMAIN nodes /\ s.session = SessionOf(s.node) /\ s.session # NoCursor
  /\ UNCHANGED <<childSessions, cursors>>
  /\ shared \subseteq shared'
  /\ s.node \notin InTree \/ (\E q \in requests : q.session = s.session) => nodes[s.node].dn \in shared'
  /\ Private(s.node)' => nodes'[s.node].loaded
  /\ DOMAIN nodes' \subseteq DOMAIN nodes
  /\ \A n \in DOMAIN nodes' :
       /\ nodes'[n].dn = nodes[n].dn
       /\ nodes'[n].loaded = nodes[n].loaded /\ nodes'[n].truncated = nodes[n].truncated
       /\ Got(nodes', n) = Got(nodes, n)
       /\ n \in InTree' => n \in InTree

\* A request for the next page keeps the cursors apart: it uses the one of its node.
LEMMA SendsKeepsSessions ==
  ASSUME Shape, Shape', NEW s, Sends(s), Sessions
  PROVE  Sessions'
<1>1. \A r \in requests' : r.node \in DOMAIN nodes' /\ nodes'[r.node].dn = nodes[r.node].dn
  BY DEF Shape, RequestsTyped, Sends
<1>2. nodes[s.node].dn \in DOMAIN Listing
  BY DEF Sends, Shape, TreeForest, Forest, NodesTyped, Node
<1>3. SessionsApart' /\ CursorOfDn'
  BY DEF Sends, Sessions, SessionsApart, CursorOfDn
<1>4. StartsOk'
  <2> SUFFICES ASSUME NEW r \in requests', r.kind \in Starts, r.at = "answered"
               PROVE  LET pages == Listing[nodes'[r.node].dn]
                      IN /\ r.session # NoCursor /\ \A d \in DOMAIN Listing : childSessions'[d] # r.session
                         /\ \A q \in requests' : q.session = r.session => q = r
                         /\ r.page.dn = IF pages = <<>> THEN "nothing" ELSE pages[1]
                         /\ r.page.more <=> Len(pages) > 1
                         /\ r.session \in DOMAIN cursors' => cursors'[r.session] = [dn |-> nodes'[r.node].dn, page |-> 2]
    BY DEF StartsOk
  <2>1. r \in requests
    BY DEF Sends
  <2>2. \A d \in DOMAIN Listing : childSessions[d] # r.session
    BY <2>1 DEF Sessions, StartsOk
  <2>3. s.session # r.session
    BY <2>2, <1>2 DEF Sends, SessionOf
  <2>4. \A q \in requests : q.session = r.session => q = r
    BY <2>1 DEF Sessions, StartsOk
  <2>5. \A q \in requests' : q.session = r.session => q = r
    BY <2>3, <2>4 DEF Sends
  <2> QED
    BY <2>1, <2>5, <1>1 DEF Sends, Sessions, StartsOk
<1>5. NextsOk'
  <2> SUFFICES ASSUME NEW r \in requests', r.kind \in Nexts
               PROVE  /\ r.session \in DOMAIN cursors => cursors[r.session].dn = nodes[r.node].dn
                      /\ \A d \in DOMAIN Listing : childSessions[d] = r.session => nodes[r.node].dn = d
                      /\ r.at = "answered" => \E k \in DOMAIN Listing[nodes[r.node].dn] : IsPage(nodes[r.node].dn, k, r.page)
    BY <1>1 DEF NextsOk, Sends
  <2>1. CASE r \in requests
    BY <2>1 DEF Sessions, NextsOk
  <2>2. CASE r = s
    BY <2>2, <1>2 DEF Sends, SessionOf, Sessions, SessionsApart, CursorOfDn
  <2> QED
    BY <2>1, <2>2 DEF Sends
<1> QED
  BY <1>3, <1>4, <1>5 DEF Sessions

\* And it is the only reader of the cursor, or `shared` says so.
LEMMA SendsKeepsProgress ==
  ASSUME Shape, Shape', NEW s, Sends(s), Sessions, Progress
  PROVE  Progress'
<1>1. \A r \in requests' : r.node \in DOMAIN nodes' /\ nodes'[r.node].dn = nodes[r.node].dn
  BY DEF Shape, RequestsTyped, Sends
<1>2. \A n \in DOMAIN nodes : nodes[n].dn \in DOMAIN Listing
  BY DEF Shape, TreeForest, Forest, NodesTyped, Node
<1>3. ASSUME NEW n \in DOMAIN nodes', Private(n)'
      PROVE  /\ n \in DOMAIN nodes /\ Private(n) /\ nodes'[n].dn = nodes[n].dn /\ SessionOf(n)' = SessionOf(n)
             /\ nodes'[n].loaded = nodes[n].loaded /\ nodes'[n].truncated = nodes[n].truncated
             /\ Got(nodes', n) = Got(nodes, n)
  BY <1>3 DEF Sends, Private, SessionOf
<1>4. CompleteWhenDone'
  BY <1>3 DEF CompleteWhenDone, Progress
<1>5. OneReader'
  <2> SUFFICES ASSUME NEW n \in DOMAIN nodes', Private(n)', nodes'[n].loaded, SessionOf(n)' # NoCursor
               PROVE  \A r \in requests' : r.session = SessionOf(n)' =>
                         r.node = n /\ \A q \in requests' : q.session = SessionOf(n)' => q = r
    BY DEF OneReader
  <2>1. /\ n \in DOMAIN nodes /\ Private(n) /\ nodes'[n].dn = nodes[n].dn /\ SessionOf(n)' = SessionOf(n)
        /\ nodes[n].loaded
    BY <1>3
  <2>2. CASE s.session # SessionOf(n)
    BY <2>1, <2>2 DEF Sends, Progress, OneReader
  <2>3. CASE s.session = SessionOf(n)
    <3>1. nodes[s.node].dn = nodes[n].dn
      BY <2>1, <2>3, <1>2 DEF Sends, SessionOf, Sessions, SessionsApart
    <3>2. nodes[s.node].dn \notin shared'
      BY <3>1, <2>1 DEF Private
    <3>3. s.node \in InTree /\ ~\E q \in requests : q.session = s.session
      BY <3>2 DEF Sends
    <3>4. s.node = n
      BY <3>1, <3>3, <2>1 DEF Private, Shape, TreeForest, DnsApart, InTree
    <3> QED
      BY <3>3, <3>4, <2>1, <2>3 DEF Sends
  <2> QED
    BY <2>2, <2>3
<1>6. NextIsLoaded'
  <2> SUFFICES ASSUME NEW r \in requests', r.kind \in Nexts, Private(r.node)', r.session = SessionOf(r.node)'
               PROVE  nodes'[r.node].loaded
    BY DEF NextIsLoaded
  <2>1. CASE r \in requests
    BY <2>1, <1>1, <1>3 DEF Progress, NextIsLoaded
  <2> QED
    BY <2>1 DEF Sends
<1>7. CursorFollows'
  <2> SUFFICES ASSUME NEW n \in DOMAIN nodes', Private(n)', nodes'[n].loaded, SessionOf(n)' \in DOMAIN cursors'
               PROVE  \/ \E r \in requests' : r.session = SessionOf(n)' /\ r.at = "answered"
                      \/ First(nodes'[n].dn, cursors'[SessionOf(n)'].page - 1) \subseteq Got(nodes', n)
    BY DEF CursorFollows
  <2>1. \/ \E r \in requests : r.session = SessionOf(n) /\ r.at = "answered"
        \/ First(nodes[n].dn, cursors[SessionOf(n)].page - 1) \subseteq Got(nodes, n)
    BY <1>3 DEF Sends, Progress, CursorFollows
  <2> QED
    BY <2>1, <1>3 DEF Sends
<1>8. PageFollows'
  <2> SUFFICES ASSUME NEW r \in requests', r.kind \in Nexts, r.at = "answered", Private(r.node)', r.session = SessionOf(r.node)'
               PROVE  \E k \in DOMAIN Listing[nodes'[r.node].dn] : PageAt(r, k)'
    BY DEF PageFollows
  <2>1. r \in requests
    BY DEF Sends
  <2>2. PICK k \in DOMAIN Listing[nodes[r.node].dn] : PageAt(r, k)
    BY <2>1, <1>1, <1>3 DEF Progress, PageFollows
  <2>3. PageAt(r, k)'
    BY <2>1, <2>2, <1>1, <1>3 DEF PageAt, Sends
  <2> QED
    BY <2>1, <2>2, <2>3, <1>1
<1> QED
  BY <1>4, <1>5, <1>6, <1>7, <1>8 DEF Progress

(* The sidecar answers. *)

LEMMA AnsweredTyped ==
  ASSUME Shape, NEW r \in requests, r.at = "sent", NEW c \in Nat, NEW dn \in DOMAIN Listing \cup {"nothing"},
         NEW more \in BOOLEAN, Answered(r, c, dn, more), UNCHANGED <<nodes, root, treeGeneration>>,
         c # NoCursor
  PROVE  /\ RequestsTyped' /\ TreeForest'
         /\ \E a : /\ requests' = (requests \ {r}) \cup {a} /\ a.kind = r.kind /\ a.node = r.node /\ a.gen = r.gen
                   /\ a.session = c /\ a.at = "answered" /\ a.page.dn = dn /\ a.page.more = more
<1> DEFINE a == [kind |-> r.kind, node |-> r.node, gen |-> r.gen, session |-> c,
                 at |-> "answered", page |-> [dn |-> dn, more |-> more]]
<1>1. requests' = (requests \ {r}) \cup {a}
  BY DEF Answered
<1>2. r.kind \in Starts \cup Nexts /\ r.node \in Nat /\ r.gen \in Nat
  BY DEF Shape, RequestsTyped, Waiting, Answer
<1>3. a \in Answer
  BY <1>2 DEF Answer
<1>4. /\ a.kind = r.kind /\ a.node = r.node /\ a.gen = r.gen
      /\ a.session = c /\ a.at = "answered" /\ a.page.dn = dn /\ a.page.more = more
  OBVIOUS
<1> HIDE DEF a
<1>5. InTree' = InTree
  BY DEF InTree
<1>6. IsFiniteSet(requests')
  <2>1. IsFiniteSet(requests \ {r})
    BY FS_Subset DEF Shape, RequestsTyped
  <2> QED
    BY <2>1, <1>1, FS_AddElement
<1>7. \A q \in requests' :
       /\ q.node \in DOMAIN nodes'
       /\ q.gen <= treeGeneration' /\ (q.node \in InTree' => q.gen = treeGeneration')
       /\ q.kind \in Nexts => q.session # NoCursor
       /\ q.kind \in Starts /\ q.at # "answered" => q.session = NoCursor
  BY <1>1, <1>4, <1>5 DEF Shape, RequestsTyped
<1>8. RequestsTyped'
  BY <1>1, <1>3, <1>6, <1>7 DEF Shape, RequestsTyped
<1>9. TreeForest'
  BY DEF Shape, TreeForest
<1> QED
  BY <1>1, <1>4, <1>8, <1>9

\* What a request becomes when it is answered.
Becomes(r, a, c, dn, more) ==
  /\ requests' = (requests \ {r}) \cup {a} /\ a.kind = r.kind /\ a.node = r.node /\ a.gen = r.gen
  /\ a.session = c /\ a.at = "answered" /\ a.page.dn = dn /\ a.page.more = more
Replaces(r, a) == requests' = (requests \ {r}) \cup {a} /\ a.kind = r.kind /\ a.node = r.node /\ a.gen = r.gen
\* The reveal, and the first load, do not look at cursors nor at answers.
LEMMA AnswerKeeps ==
  ASSUME NEW r \in requests, NEW a, Replaces(r, a),
         UNCHANGED <<nodes, root, treeGeneration, childSessions, reveal, shared>>, RevealOk, FirstLoad
  PROVE  RevealOk' /\ FirstLoad'
<1>1. InTree' = InTree /\ \A n : Private(n)' <=> Private(n)
  BY DEF InTree, Private
<1>2. \A n : SessionOf(n)' = SessionOf(n)
  BY DEF SessionOf
<1>3. \A q \in requests' : q \in requests \/ (q.kind = r.kind /\ q.node = r.node /\ q.gen = r.gen)
  BY DEF Replaces
<1>4. \A q \in requests' : q.kind \in {"children", "next"} =>
       /\ reveal.at = "await" /\ q.node = reveal.node /\ q.gen = reveal.gen
       /\ \A p \in requests' : p.kind \in {"children", "next"} => p = q
  <2>1. \A q \in requests : q.kind \in {"children", "next"} =>
          /\ reveal.at = "await" /\ q.node = reveal.node /\ q.gen = reveal.gen
          /\ \A p \in requests : p.kind \in {"children", "next"} => p = q
    BY DEF RevealOk
  <2> QED
    BY <2>1 DEF Replaces
<1>5. RevealOk'
  BY <1>1, <1>2, <1>4 DEF RevealOk
<1>6. \A q \in requests' : q.kind = "root" /\ q.gen = treeGeneration =>
       /\ q.node = root /\ root # NoCursor /\ nodes[root].loading /\ ~nodes[root].loaded /\ childSessions[BaseDn] = NoCursor
       /\ \A p \in requests' : p.gen = treeGeneration /\ nodes[p.node].dn = BaseDn => p = q
  <2>1. \A q \in requests : q.kind = "root" /\ q.gen = treeGeneration =>
         /\ q.node = root /\ root # NoCursor /\ nodes[root].loading /\ ~nodes[root].loaded /\ childSessions[BaseDn] = NoCursor
         /\ \A p \in requests : p.gen = treeGeneration /\ nodes[p.node].dn = BaseDn => p = q
    BY DEF FirstLoad
  <2>2. ASSUME NEW q \in requests', q.kind = "root", q.gen = treeGeneration, NEW p \in requests',
               p.gen = treeGeneration, nodes[p.node].dn = BaseDn
        PROVE  p = q
    <3>1. CASE q = a
      <4>1. r.kind = "root" /\ r.gen = treeGeneration
        BY <2>2, <3>1 DEF Replaces
      <4>2. p \in requests => p = r
        BY <2>1, <2>2, <4>1
      <4> QED
        BY <3>1, <4>2 DEF Replaces
    <3>2. CASE q # a
      <4>1. q \in requests /\ q # r
        BY <3>2, <2>2 DEF Replaces
      <4>2. p # a
        BY <4>1, <2>1, <2>2 DEF Replaces
      <4> QED
        BY <4>1, <4>2, <2>1, <2>2 DEF Replaces
    <3> QED
      BY <3>1, <3>2
  <2> QED
    BY <2>1, <2>2, <1>3
<1>7. FirstLoad'
  BY <1>3, <1>6 DEF FirstLoad
<1> QED
  BY <1>5, <1>7

\* The image of a finite set is finite (FS_Image takes an operator).
LEMMA ImageIsFinite ==
  ASSUME NEW S, IsFiniteSet(S), NEW f, DOMAIN f = S, f = [x \in S |-> f[x]]
  PROVE  IsFiniteSet({f[x] : x \in S})
<1> DEFINE T == {f[x] : x \in S}
<1>1. f \in Surjection(S, T)
  BY DEF Surjection
<1> HIDE DEF T
<1>2. IsFiniteSet(T)
  BY <1>1, FS_Surjection
<1> QED
  BY <1>2 DEF T

\* The sidecar answers the first page and opens a cursor that nobody has.
LEMMA ServeStartKeeps ==
  ASSUME TreeInv, NEW r \in requests, ServeStart(r)
  PROVE  TreeInv'
<1> DEFINE used == CursorsInUse \ {NoCursor}
           c == Unused(used)
           dn == nodes[r.node].dn
           pages == Listing[dn]
           first == IF pages = <<>> THEN "nothing" ELSE pages[1]
           more == Len(pages) > 1
<1> USE DEF TreeInv
<1>1. r.at = "sent" /\ r.session = NoCursor /\ r.kind \in Starts
  BY DEF ServeStart, Shape, RequestsTyped, Waiting, Answer
<1>2. dn \in DOMAIN Listing /\ r.node \in DOMAIN nodes
  BY DEF Shape, RequestsTyped, TreeForest, Forest, NodesTyped, Node
<1>3. /\ Len(pages) \in Nat /\ DOMAIN pages = 1..Len(pages)
      /\ first \in DOMAIN Listing \cup {"nothing"}
  <2>1. pages \in Seq(DOMAIN Listing \ {BaseDn}) /\ Len(pages) \in Nat /\ DOMAIN pages = 1..Len(pages)
    BY <1>2, UnderTypes
  <2> HIDE DEF pages
  <2>2. pages # <<>> => pages[1] \in DOMAIN Listing
    BY <2>1
  <2> QED
    BY <2>1, <2>2
<1>4. IsFiniteSet(used)
  <2>1. IsFiniteSet({childSessions[d] : d \in DOMAIN childSessions})
    <3> DEFINE f == [d \in DOMAIN childSessions |-> childSessions[d]]
    <3>1. IsFiniteSet(DOMAIN childSessions)
      BY ListingAssumption DEF Shape, CursorsTyped
    <3>2. IsFiniteSet({f[d] : d \in DOMAIN childSessions})
      BY <3>1, ImageIsFinite
    <3> QED
      BY <3>2
  <2>2. IsFiniteSet({q.session : q \in requests})
    <3> DEFINE f == [q \in requests |-> q.session]
    <3>1. IsFiniteSet({f[q] : q \in requests})
      BY ImageIsFinite DEF Shape, RequestsTyped
    <3> QED
      BY <3>1
  <2>3. IsFiniteSet(DOMAIN cursors)
    BY DEF Shape, CursorsTyped
  <2>4. IsFiniteSet(CursorsInUse)
    BY <2>1, <2>2, <2>3, FS_Union DEF CursorsInUse
  <2> QED
    BY <2>4, FS_Subset
<1>5. c \in Nat /\ c # NoCursor /\ c \notin CursorsInUse
  BY <1>4, UnusedIsNew
<1> HIDE DEF c, used
<1>6. c \notin DOMAIN cursors /\ (\A d \in DOMAIN Listing : childSessions[d] # c) /\ \A q \in requests : q.session # c
  BY <1>5 DEF CursorsInUse, Shape, CursorsTyped
<1>7. /\ Answered(r, c, first, more)
      /\ cursors' = IF Len(pages) <= 1 THEN cursors
                    ELSE [x \in DOMAIN cursors \cup {c} |-> IF x = c THEN [dn |-> dn, page |-> 2] ELSE cursors[x]]
      /\ UNCHANGED <<nodes, root, treeGeneration, childSessions, reveal, shared>>
  BY DEF ServeStart, c, used
<1>8. more \in BOOLEAN
  OBVIOUS
<1> HIDE DEF first, more, pages, dn
<1>9. /\ RequestsTyped' /\ TreeForest' /\ \E a : Becomes(r, a, c, first, more)
  BY <1>1, <1>3, <1>5, <1>7, <1>8, AnsweredTyped DEF Becomes
<1>10. PICK a : Becomes(r, a, c, first, more)
  BY <1>9
<1>11. RevealOk' /\ FirstLoad'
  BY <1>7, <1>10, AnswerKeeps DEF Becomes, Replaces
<1>12. /\ DOMAIN cursors' \subseteq DOMAIN cursors \cup {c} /\ DOMAIN cursors \subseteq DOMAIN cursors'
       /\ \A x \in DOMAIN cursors : cursors'[x] = cursors[x]
       /\ c \in DOMAIN cursors' => cursors'[c] = [dn |-> dn, page |-> 2] /\ Len(pages) > 1
       /\ cursors' = [x \in DOMAIN cursors' |-> cursors'[x]]
  <2>1. CASE Len(pages) <= 1
    BY <1>6, <1>7, <2>1 DEF Shape, CursorsTyped
  <2>2. CASE ~(Len(pages) <= 1)
    BY <1>3, <1>6, <1>7, <2>2
  <2> QED
    BY <2>1, <2>2
<1>13. CursorsTyped'
  <2>1. IsFiniteSet(DOMAIN cursors') /\ DOMAIN cursors' \subseteq Nat \ {NoCursor}
    <3>1. IsFiniteSet(DOMAIN cursors \cup {c})
      BY FS_AddElement DEF Shape, CursorsTyped
    <3> QED
      BY <1>5, <1>12, <3>1, FS_Subset DEF Shape, CursorsTyped
  <2>2. \A x \in DOMAIN cursors' : cursors'[x] \in [dn : DOMAIN Listing, page : Nat]
    BY <1>2, <1>12 DEF Shape, CursorsTyped, dn
  <2>3. \A x \in DOMAIN cursors' : cursors'[x].page \in 2..Len(Listing[cursors'[x].dn])
    <3>1. ASSUME c \in DOMAIN cursors' PROVE cursors'[c].page \in 2..Len(Listing[cursors'[c].dn])
      <4>1. cursors'[c].page = 2 /\ cursors'[c].dn = dn /\ Len(Listing[dn]) > 1 /\ Len(Listing[dn]) \in Nat
        BY <3>1, <1>12, <1>3 DEF pages
      <4> QED
        BY <4>1
    <3> QED
      BY <3>1, <1>12 DEF Shape, CursorsTyped
  <2>4. childSessions' \in [DOMAIN Listing -> Nat]
    BY <1>7 DEF Shape, CursorsTyped
  <2>5. cursors' \in [DOMAIN cursors' -> [dn : DOMAIN Listing, page : Nat]]
    BY <1>12, <2>2
  <2> QED
    BY <2>1, <2>3, <2>4, <2>5 DEF CursorsTyped
<1>14. \A q \in requests' : (q \in requests /\ q # r) \/ q = a
  BY <1>10 DEF Becomes
<1>15. a.kind \in Starts /\ a.session = c /\ a.node = r.node
  BY <1>1, <1>10 DEF Becomes
<1>16. SessionsApart' /\ CursorOfDn'
  BY <1>6, <1>7, <1>12 DEF Sessions, SessionsApart, CursorOfDn
<1>17. StartsOk'
  <2> SUFFICES ASSUME NEW q \in requests', q.kind \in Starts, q.at = "answered"
               PROVE  /\ q.session # NoCursor /\ \A d \in DOMAIN Listing : childSessions'[d] # q.session
                      /\ \A p \in requests' : p.session = q.session => p = q
                      /\ q.page.dn = IF Listing[nodes'[q.node].dn] = <<>> THEN "nothing" ELSE Listing[nodes'[q.node].dn][1]
                      /\ q.page.more <=> Len(Listing[nodes'[q.node].dn]) > 1
                      /\ q.session \in DOMAIN cursors' => cursors'[q.session] = [dn |-> nodes'[q.node].dn, page |-> 2]
    BY DEF StartsOk
  <2>1. CASE q = a
    <3>1. q.page.dn = first /\ q.page.more = more
      BY <2>1, <1>10 DEF Becomes
    <3>2. \A p \in requests' : p.session = q.session => p = q
      BY <2>1, <1>6, <1>14, <1>15
    <3> QED
      BY <2>1, <3>1, <3>2, <1>5, <1>6, <1>7, <1>12, <1>15 DEF first, more, pages, dn
  <2>2. CASE q # a
    <3>1. q \in requests
      BY <2>2, <1>14
    <3>2. \A p \in requests' : p.session = q.session => p = q
      BY <3>1, <1>6, <1>14, <1>15 DEF Sessions, StartsOk
    <3> QED
      BY <3>1, <3>2, <1>6, <1>7, <1>12 DEF Sessions, StartsOk
  <2> QED
    BY <2>1, <2>2
<1>18. NextsOk'
  <2> SUFFICES ASSUME NEW q \in requests', q.kind \in Nexts
               PROVE  /\ q.session \in DOMAIN cursors' => cursors'[q.session].dn = nodes'[q.node].dn
                      /\ \A d \in DOMAIN Listing : childSessions'[d] = q.session => nodes'[q.node].dn = d
                      /\ q.at = "answered" => \E k \in DOMAIN Listing[nodes'[q.node].dn] : IsPage(nodes'[q.node].dn, k, q.page)
    BY DEF NextsOk
  <2>1. q \in requests
    BY <1>14, <1>15 DEF Starts, Nexts
  <2> QED
    BY <2>1, <1>6, <1>7, <1>12 DEF Sessions, NextsOk
<1>19. \A n : (Private(n)' <=> Private(n)) /\ SessionOf(n)' = SessionOf(n) /\ Got(nodes', n) = Got(nodes, n)
  BY <1>7 DEF Private, SessionOf, InTree, Got
<1>20. \A n \in DOMAIN nodes : SessionOf(n) # c
  BY <1>6 DEF SessionOf, Shape, TreeForest, Forest, NodesTyped, Node
<1>21. CompleteWhenDone' /\ NextIsLoaded'
  BY <1>7, <1>14, <1>15, <1>19 DEF Progress, CompleteWhenDone, NextIsLoaded, Starts, Nexts
<1>22. OneReader'
  BY <1>7, <1>14, <1>15, <1>19, <1>20 DEF Progress, OneReader
<1>23. CursorFollows'
  <2> SUFFICES ASSUME NEW n \in DOMAIN nodes, Private(n), nodes[n].loaded, SessionOf(n) \in DOMAIN cursors'
               PROVE  \/ \E q \in requests' : q.session = SessionOf(n) /\ q.at = "answered"
                      \/ First(nodes[n].dn, cursors'[SessionOf(n)].page - 1) \subseteq Got(nodes, n)
    BY <1>7, <1>19 DEF CursorFollows
  <2>1. SessionOf(n) \in DOMAIN cursors /\ cursors'[SessionOf(n)] = cursors[SessionOf(n)]
    BY <1>12, <1>20
  <2>2. \A q \in requests : q.at = "answered" => q \in requests'
    BY <1>1, <1>10 DEF Becomes
  <2> QED
    BY <2>1, <2>2 DEF Progress, CursorFollows
<1>24. PageFollows'
  <2> SUFFICES ASSUME NEW q \in requests', q.kind \in Nexts, q.at = "answered", Private(q.node), q.session = SessionOf(q.node)
               PROVE  \E k \in DOMAIN Listing[nodes[q.node].dn] : PageAt(q, k)'
    BY <1>7, <1>19 DEF PageFollows
  <2>1. q \in requests
    BY <1>14, <1>15 DEF Starts, Nexts
  <2>2. PICK k \in DOMAIN Listing[nodes[q.node].dn] : PageAt(q, k)
    BY <2>1 DEF Progress, PageFollows
  <2>3. q.session # c
    BY <2>1, <1>6
  <2>4. PageAt(q, k)'
    BY <2>2, <2>3, <1>7, <1>12, <1>19 DEF PageAt
  <2> QED
    BY <2>4
<1> QED
  BY <1>9, <1>11, <1>13, <1>16, <1>17, <1>18, <1>21, <1>22, <1>23, <1>24 DEF Shape, Sessions, Progress

\* The sidecar answers the page that the cursor is at and moves it on.
LEMMA ServeNextKeeps ==
  ASSUME TreeInv, NEW r \in requests, ServeNext(r)
  PROVE  TreeInv'
<1> DEFINE c == r.session
           p == cursors[c].page
           dn == nodes[r.node].dn
           pages == Listing[dn]
           more == p < Len(pages)
<1> USE DEF TreeInv
<1>1. r.at = "sent" /\ c \in DOMAIN cursors /\ c # NoCursor /\ c \in Nat
  BY DEF ServeNext, Shape, CursorsTyped
<1>2. r.kind \in Nexts
  BY <1>1 DEF Shape, RequestsTyped, Waiting, Answer
<1>3. dn \in DOMAIN Listing /\ r.node \in DOMAIN nodes
  BY DEF Shape, RequestsTyped, TreeForest, Forest, NodesTyped, Node
<1>4. cursors[c].dn = dn
  BY <1>1, <1>2 DEF Sessions, NextsOk
<1>5. Len(pages) \in Nat /\ DOMAIN pages = 1..Len(pages) /\ p \in 2..Len(pages) /\ pages[p] \in DOMAIN Listing
  <2>1. pages \in Seq(DOMAIN Listing \ {BaseDn}) /\ Len(pages) \in Nat /\ DOMAIN pages = 1..Len(pages)
    BY <1>3, UnderTypes
  <2>2. p \in 2..Len(pages)
    BY <1>1, <1>4 DEF Shape, CursorsTyped
  <2> HIDE DEF pages, p
  <2> QED
    BY <2>1, <2>2
<1>6. /\ Answered(r, c, pages[p], more)
      /\ IF more THEN cursors' = [cursors EXCEPT ![c].page = p + 1] ELSE cancelSearch({c})
      /\ UNCHANGED <<nodes, root, treeGeneration, childSessions, reveal, shared>>
  BY <1>4 DEF ServeNext
<1>7. more \in BOOLEAN
  OBVIOUS
<1>8. /\ DOMAIN cursors' \subseteq DOMAIN cursors
      /\ \A x \in DOMAIN cursors' \ {c} : cursors'[x] = cursors[x]
      /\ \A x \in DOMAIN cursors \ {c} : x \in DOMAIN cursors'
      /\ c \in DOMAIN cursors' => more /\ cursors'[c] = [dn |-> dn, page |-> p + 1]
      /\ cursors' = [x \in DOMAIN cursors' |-> cursors'[x]]
  <2>1. cursors[c] \in [dn : DOMAIN Listing, page : Nat] /\ cursors \in [DOMAIN cursors -> [dn : DOMAIN Listing, page : Nat]]
    BY <1>1 DEF Shape, CursorsTyped
  <2> HIDE DEF c
  <2>2. CASE more
    <3>1. cursors' = [cursors EXCEPT ![c].page = p + 1]
      BY <1>6, <2>2
    <3>2. DOMAIN cursors' = DOMAIN cursors /\ cursors'[c] = [cursors[c] EXCEPT !.page = p + 1]
          /\ \A x \in DOMAIN cursors \ {c} : cursors'[x] = cursors[x]
      BY <3>1, <2>1, <1>1
    <3>3. [cursors[c] EXCEPT !.page = p + 1] = [dn |-> dn, page |-> p + 1]
      <4> HIDE DEF p, dn, more
      <4> QED
        BY <2>1, <1>4
    <3>4. cursors' = [x \in DOMAIN cursors' |-> cursors'[x]]
      BY <3>1, <2>1
    <3> QED
      BY <2>2, <3>2, <3>3, <3>4
  <2>3. CASE ~more
    <3>1. cursors' = [x \in DOMAIN cursors \ {c} |-> cursors[x]]
      BY <1>6, <2>3 DEF cancelSearch
    <3> QED
      BY <3>1
  <2> QED
    BY <2>2, <2>3
<1>12. p \in DOMAIN Listing[dn] /\ (more <=> p < Len(Listing[dn])) /\ pages[p] = Listing[dn][p] /\ p + 1 \in Nat
  <2> HIDE DEF p, dn
  <2> QED
    BY <1>5
<1> HIDE DEF c, p, more, pages, dn
<1>9. /\ RequestsTyped' /\ TreeForest' /\ \E a : Becomes(r, a, c, pages[p], more)
  BY <1>1, <1>5, <1>6, <1>7, AnsweredTyped DEF Becomes
<1>10. PICK a : Becomes(r, a, c, pages[p], more)
  BY <1>9
<1>11. RevealOk' /\ FirstLoad'
  BY <1>6, <1>10, AnswerKeeps DEF Becomes, Replaces
<1>13. CursorsTyped'
  <2>1. IsFiniteSet(DOMAIN cursors') /\ DOMAIN cursors' \subseteq Nat \ {NoCursor}
    BY <1>8, FS_Subset DEF Shape, CursorsTyped
  <2>2. \A x \in DOMAIN cursors' : cursors'[x] \in [dn : DOMAIN Listing, page : Nat]
    <3>1. c \in DOMAIN cursors' => cursors'[c] \in [dn : DOMAIN Listing, page : Nat]
      BY <1>3, <1>8, <1>12
    <3> QED
      BY <3>1, <1>8 DEF Shape, CursorsTyped
  <2>3. \A x \in DOMAIN cursors' : cursors'[x].page \in 2..Len(Listing[cursors'[x].dn])
    <3>1. ASSUME c \in DOMAIN cursors' PROVE cursors'[c].page \in 2..Len(Listing[cursors'[c].dn])
      <4>1. cursors'[c].page = p + 1 /\ cursors'[c].dn = dn /\ p < Len(Listing[dn])
        BY <3>1, <1>8 DEF pages, more
      <4>2. Len(Listing[dn]) \in Nat /\ p \in 2..Len(Listing[dn])
        BY <1>5 DEF pages
      <4> QED
        BY <4>1, <4>2
    <3> QED
      BY <3>1, <1>8 DEF Shape, CursorsTyped
  <2>4. childSessions' \in [DOMAIN Listing -> Nat]
    BY <1>6 DEF Shape, CursorsTyped
  <2>5. cursors' \in [DOMAIN cursors' -> [dn : DOMAIN Listing, page : Nat]]
    BY <1>8, <2>2
  <2> QED
    BY <2>1, <2>3, <2>4, <2>5 DEF CursorsTyped
<1>14. \A q \in requests' : (q \in requests /\ q # r) \/ q = a
  BY <1>10 DEF Becomes
<1>15. a.kind \in Nexts /\ a.session = c /\ a.node = r.node /\ a.at = "answered" /\ a \in requests'
       /\ a.page.dn = pages[p] /\ a.page.more = more
  BY <1>2, <1>10 DEF Becomes
<1>16. SessionsApart' /\ CursorOfDn'
  <2>1. c \in DOMAIN cursors' => cursors'[c].dn = cursors[c].dn
    BY <1>4, <1>8
  <2> QED
    BY <2>1, <1>6, <1>8 DEF Sessions, SessionsApart, CursorOfDn
<1>17. StartsOk'
  <2> SUFFICES ASSUME NEW q \in requests', q.kind \in Starts, q.at = "answered"
               PROVE  /\ q.session # NoCursor /\ \A d \in DOMAIN Listing : childSessions'[d] # q.session
                      /\ \A o \in requests' : o.session = q.session => o = q
                      /\ q.page.dn = IF Listing[nodes'[q.node].dn] = <<>> THEN "nothing" ELSE Listing[nodes'[q.node].dn][1]
                      /\ q.page.more <=> Len(Listing[nodes'[q.node].dn]) > 1
                      /\ q.session \in DOMAIN cursors' => cursors'[q.session] = [dn |-> nodes'[q.node].dn, page |-> 2]
    BY DEF StartsOk
  <2>1. q \in requests /\ q # r
    BY <1>14, <1>15 DEF Starts, Nexts
  <2>2. q.session # c
    BY <2>1 DEF Sessions, StartsOk, c
  <2>3. \A o \in requests' : o.session = q.session => o = q
    BY <2>1, <2>2, <1>14, <1>15 DEF Sessions, StartsOk
  <2> QED
    BY <2>1, <2>2, <2>3, <1>6, <1>8 DEF Sessions, StartsOk
<1>18. NextsOk'
  <2> SUFFICES ASSUME NEW q \in requests', q.kind \in Nexts
               PROVE  /\ q.session \in DOMAIN cursors' => cursors'[q.session].dn = nodes'[q.node].dn
                      /\ \A d \in DOMAIN Listing : childSessions'[d] = q.session => nodes'[q.node].dn = d
                      /\ q.at = "answered" => \E k \in DOMAIN Listing[nodes'[q.node].dn] : IsPage(nodes'[q.node].dn, k, q.page)
    BY DEF NextsOk
  <2>0. c \in DOMAIN cursors' => cursors'[c].dn = cursors[c].dn
    BY <1>4, <1>8
  <2>1. CASE q \in requests
    BY <2>0, <2>1, <1>6, <1>8 DEF Sessions, NextsOk
  <2>2. CASE q = a
    <3>1. \A d \in DOMAIN Listing : childSessions[d] = c => dn = d
      BY <1>2 DEF Sessions, NextsOk, c, dn
    <3>2. p \in DOMAIN Listing[dn] /\ IsPage(dn, p, q.page)
      BY <2>2, <1>12, <1>15 DEF IsPage
    <3>3. nodes'[q.node].dn = dn
      BY <2>2, <1>6, <1>15 DEF dn
    <3> QED
      BY <2>0, <2>2, <3>1, <3>2, <3>3, <1>4, <1>6, <1>8, <1>15
  <2> QED
    BY <2>1, <2>2, <1>14
<1>19. \A n : (Private(n)' <=> Private(n)) /\ SessionOf(n)' = SessionOf(n) /\ Got(nodes', n) = Got(nodes, n)
  BY <1>6 DEF Private, SessionOf, InTree, Got
<1>21. CompleteWhenDone'
  BY <1>6, <1>19 DEF Progress, CompleteWhenDone
<1>22. NextIsLoaded'
  <2>1. \A q \in requests' : q.kind \in Nexts /\ Private(q.node) /\ q.session = SessionOf(q.node) => nodes[q.node].loaded
    BY <1>2, <1>14, <1>15 DEF Progress, NextIsLoaded, c
  <2> QED
    BY <2>1, <1>6, <1>19 DEF NextIsLoaded
\* Only this request makes use of the cursor of a private node.
<1>23. ASSUME NEW n \in DOMAIN nodes, Private(n), nodes[n].loaded, SessionOf(n) = c
       PROVE  r.node = n /\ \A q \in requests : q.session = c => q = r
  BY <1>1, <1>23 DEF Progress, OneReader, c
<1>24. OneReader'
  <2> SUFFICES ASSUME NEW n \in DOMAIN nodes, Private(n), nodes[n].loaded, SessionOf(n) # NoCursor,
                      NEW q \in requests', q.session = SessionOf(n)
               PROVE  q.node = n /\ \A o \in requests' : o.session = SessionOf(n) => o = q
    BY <1>6, <1>19 DEF OneReader
  <2>1. CASE SessionOf(n) = c
    BY <2>1, <1>14, <1>15, <1>23
  <2>2. CASE SessionOf(n) # c
    BY <2>2, <1>14, <1>15 DEF Progress, OneReader
  <2> QED
    BY <2>1, <2>2
<1>25. CursorFollows'
  <2> SUFFICES ASSUME NEW n \in DOMAIN nodes, Private(n), nodes[n].loaded, SessionOf(n) \in DOMAIN cursors'
               PROVE  \/ \E q \in requests' : q.session = SessionOf(n) /\ q.at = "answered"
                      \/ First(nodes[n].dn, cursors'[SessionOf(n)].page - 1) \subseteq Got(nodes, n)
    BY <1>6, <1>19 DEF CursorFollows
  <2>1. CASE SessionOf(n) = c
    BY <2>1, <1>15
  <2>2. CASE SessionOf(n) # c
    <3>1. SessionOf(n) \in DOMAIN cursors /\ cursors'[SessionOf(n)] = cursors[SessionOf(n)]
      BY <1>8, <2>2
    <3>2. \A q \in requests : q.at = "answered" => q \in requests'
      BY <1>1, <1>10 DEF Becomes
    <3> QED
      BY <3>1, <3>2 DEF Progress, CursorFollows
  <2> QED
    BY <2>1, <2>2
<1>26. PageFollows'
  <2> SUFFICES ASSUME NEW q \in requests', q.kind \in Nexts, q.at = "answered", Private(q.node), q.session = SessionOf(q.node)
               PROVE  \E k \in DOMAIN Listing[nodes[q.node].dn] : PageAt(q, k)'
    BY <1>6, <1>19 DEF PageFollows
  <2>1. CASE q = a
    <3>1. Private(r.node) /\ c = SessionOf(r.node) /\ nodes[r.node].loaded
      BY <2>1, <1>2, <1>15 DEF Progress, NextIsLoaded, c
    <3>2. ~\E o \in requests : o.session = c /\ o.at = "answered"
      BY <3>1, <1>1, <1>3, <1>23
    <3>3. First(dn, p - 1) \subseteq Got(nodes, r.node)
      <4>1. \/ \E o \in requests : o.session = SessionOf(r.node) /\ o.at = "answered"
            \/ First(nodes[r.node].dn, cursors[SessionOf(r.node)].page - 1) \subseteq Got(nodes, r.node)
        BY <3>1, <1>1, <1>3 DEF Progress, CursorFollows
      <4>2. First(nodes[r.node].dn, cursors[c].page - 1) \subseteq Got(nodes, r.node)
        BY <4>1, <3>1, <3>2
      <4> QED
        BY <4>2 DEF dn, p
    <3>4. p \in DOMAIN Listing[dn] /\ IsPage(dn, p, q.page)
      BY <2>1, <1>12, <1>15 DEF IsPage
    <3>5. q.node = r.node /\ q.session = c /\ nodes'[q.node].dn = dn
      BY <2>1, <1>6, <1>15 DEF dn
    <3>0. PICK k : k = p
      OBVIOUS
    <3>6. PageAt(q, k)'
      <4>1. IsPage(nodes'[q.node].dn, k, q.page)
        BY <3>0, <3>4, <3>5
      <4>2. First(nodes'[q.node].dn, k - 1) \subseteq Got(nodes', q.node)
        BY <3>0, <3>3, <3>5, <1>19
      <4>3. q.session \in DOMAIN cursors' => cursors'[q.session].page = k + 1
        BY <3>0, <3>5, <1>8
      <4> QED
        BY <4>1, <4>2, <4>3 DEF PageAt
    <3> QED
      BY <3>0, <3>4, <3>5, <3>6, <1>6
  <2>2. CASE q # a
    <3>1. q \in requests /\ q # r
      BY <2>2, <1>14
    <3>2. PICK k \in DOMAIN Listing[nodes[q.node].dn] : PageAt(q, k)
      BY <3>1 DEF Progress, PageFollows
    <3>3. q.node \in DOMAIN nodes /\ nodes[q.node].loaded
      BY <3>1 DEF Progress, NextIsLoaded, Shape, RequestsTyped
    <3>4. q.session # c
      BY <3>1, <3>3, <1>23
    <3>5. PageAt(q, k)'
      BY <3>2, <3>4, <1>6, <1>8, <1>19 DEF PageAt
    <3> QED
      BY <3>2, <3>5
  <2> QED
    BY <2>1, <2>2
<1> QED
  BY <1>9, <1>11, <1>13, <1>16, <1>17, <1>18, <1>21, <1>22, <1>24, <1>25, <1>26 DEF Shape, Sessions, Progress

(* The steps that change the nodes. *)

Referred == {root, reveal.node} \cup reveal.index \cup {r.node : r \in requests}
SettledOn(ns) ==
  /\ TreeForest' /\ InTree' = Below(ns, {root'}) /\ DOMAIN nodes' \subseteq DOMAIN ns
  /\ \A n \in DOMAIN nodes' :
       /\ nodes'[n].dn = ns[n].dn /\ nodes'[n].loaded = ns[n].loaded /\ nodes'[n].truncated = ns[n].truncated
       /\ nodes'[n].loading = ns[n].loading /\ nodes'[n].children = ns[n].children /\ Got(nodes', n) = Got(ns, n)
  /\ \A n \in DOMAIN ns : n \in Referred' => n \in DOMAIN nodes'

\* The nodes that nothing refers to go, the others keep their children.
LEMMA SettleKeeps ==
  ASSUME NEW ns, Forest(ns), RootIsBase(ns, root'), DnsApart(ns, root'), Settle(ns)
  PROVE  SettledOn(ns)
<1> DEFINE K == Below(ns, Referred')
<1>1. nodes' = Kept(ns, Referred')
  BY DEF Settle, Referred
<1>2. root' \in Referred'
  BY DEF Referred
<1>3. TreeForest' /\ InTree' = Below(ns, {root'})
  <2> HIDE DEF K
  <2>1. Forest(nodes')
    BY <1>1, KeptIsForest
  <2>2. Below(nodes', {root'}) = Below(ns, {root'}) /\ RootIsBase(nodes', root') /\ DnsApart(nodes', root')
    BY <1>1, <1>2, KeptTree
  <2> QED
    BY <2>1, <2>2 DEF TreeForest, InTree
<1>4. DOMAIN nodes' = K /\ K \subseteq DOMAIN ns /\ \A n \in DOMAIN ns : n \in Referred' => n \in K
  BY <1>1 DEF Kept, Below
<1>5. \A n \in K : ns[n] \in Node /\ nodes'[n] = [ns[n] EXCEPT !.above = @ \cap K]
  BY <1>1, <1>4 DEF Kept, Forest, NodesTyped
<1> HIDE DEF K
<1>6. \A n \in K :
       /\ nodes'[n].dn = ns[n].dn /\ nodes'[n].loaded = ns[n].loaded /\ nodes'[n].truncated = ns[n].truncated
       /\ nodes'[n].loading = ns[n].loading /\ nodes'[n].children = ns[n].children
  BY <1>5 DEF Node
<1>7. \A n \in K : \A c \in nodes'[n].children : c \in K
  BY <1>3, <1>4 DEF TreeForest, Forest, ChildrenHang
<1>8. \A n \in K : Got(nodes', n) = Got(ns, n)
  BY <1>6, <1>7 DEF Got
<1> QED
  BY <1>3, <1>4, <1>6, <1>8 DEF SettledOn

\* Marks that a caller leaves on a node: that it is loading, that it is expanded.
Marked(ns, ms) ==
  /\ SameShape(ns, ms)
  /\ \A n \in DOMAIN ns : ms[n].loaded = ns[n].loaded /\ ms[n].truncated = ns[n].truncated

\* The same after marks on the nodes.
LEMMA MarksKeep ==
  ASSUME NEW ns, Forest(ns), NEW ms, Marked(ns, ms), RootIsBase(ns, root'), DnsApart(ns, root'), Settle(ms)
  PROVE  /\ SettledOn(ms) /\ InTree' = Below(ns, {root'}) /\ DOMAIN ms = DOMAIN ns
         /\ \A n \in DOMAIN nodes' :
              /\ nodes'[n].dn = ns[n].dn /\ nodes'[n].loaded = ns[n].loaded /\ nodes'[n].truncated = ns[n].truncated
              /\ nodes'[n].children = ns[n].children /\ Got(nodes', n) = Got(ns, n)
<1>1. UnloadedIsBare(ms)
  BY DEF Marked, SameShape, Forest, UnloadedIsBare
<1>2. Forest(ms) /\ RootIsBase(ms, root') /\ DnsApart(ms, root') /\ Below(ms, {root'}) = Below(ns, {root'})
  BY <1>1, MarkedForest DEF Marked
<1>3. SettledOn(ms)
  BY <1>2, SettleKeeps
<1>4. \A n \in DOMAIN ns : Got(ms, n) = Got(ns, n)
  BY DEF Marked, SameShape, Got, Forest, ChildrenHang
<1> QED
  BY <1>2, <1>3, <1>4 DEF SettledOn, Marked, SameShape

(* An answer that is applied. *)

Applies(r) ==
  /\ r \in requests /\ IsApplied(r) /\ Deliver(r)
AppliedAs(r) ==
  LET n == r.node
      d == nodes[n].dn
      ms == applyPage(nodes, n, r.session, r.page)
  IN /\ r.at = "answered" /\ r.gen = treeGeneration /\ n \in DOMAIN nodes /\ d \in DOMAIN Listing
     /\ r.page.more \in BOOLEAN
     /\ requests' = requests \ {r} /\ root' = root
     /\ UNCHANGED <<cursors, treeGeneration>>
     /\ childSessions' = [childSessions EXCEPT ![d] = IF r.page.more THEN r.session ELSE NoCursor]
     /\ shared' = IF n \notin InTree THEN shared \cup {d} ELSE shared
     /\ reveal' = RevealAfter(r, ms)
     /\ TreeForest'
     /\ \A m \in DOMAIN nodes' \cap DOMAIN nodes :
          /\ nodes'[m].dn = nodes[m].dn /\ (m \in InTree' <=> m \in InTree)
          /\ m # n => /\ nodes'[m].loaded = nodes[m].loaded /\ nodes'[m].truncated = nodes[m].truncated
                      /\ nodes'[m].loading = nodes[m].loading /\ Got(nodes', m) = Got(nodes, m)
     /\ n \in DOMAIN nodes' => /\ nodes'[n].loaded /\ nodes'[n].truncated = r.page.more
                               /\ Got(nodes, n) \subseteq Got(nodes', n)
                               /\ r.page.dn # "nothing" => r.page.dn \in Got(nodes', n)
     /\ \A m \in DOMAIN nodes' \ DOMAIN nodes :
          ~nodes'[m].loaded /\ nodes'[m].dn \in Under(d) /\ (m \in InTree' => n \in InTree)
     /\ \A m \in ms[n].children \ nodes[n].children : m \notin DOMAIN nodes
     /\ \A m \in DOMAIN nodes \cup ms[n].children : m \in Referred' => m \in DOMAIN nodes'
     /\ r.page.dn = "nothing" \/ r.page.dn \in Under(d)
     /\ IF r.kind \in Starts
        THEN r.page.dn = (IF Listing[d] = <<>> THEN "nothing" ELSE Listing[d][1]) /\ (r.page.more <=> Len(Listing[d]) > 1)
        ELSE r.kind \in Nexts /\ childSessions[d] = r.session

\* What the delivery of a current answer does to the state.
LEMMA AppliesSo ==
  ASSUME TreeInv, NEW r, Applies(r)
  PROVE  AppliedAs(r)
<1> DEFINE n == r.node
           d == nodes[n].dn
           ms == applyPage(nodes, n, r.session, r.page)
           es == NodeAfter(ms, r)
<1> USE DEF TreeInv
<1>1. r \in requests /\ r.at = "answered" /\ r.gen = treeGeneration /\ r \in Answer
  BY DEF Applies, Deliver, IsApplied, nodeIsCurrent, Shape, RequestsTyped, Waiting, Answer
<1>2. n \in DOMAIN nodes /\ d \in DOMAIN Listing
  BY <1>1 DEF Shape, RequestsTyped, TreeForest, Forest, NodesTyped, Node
<1>3. r.kind \in Starts \cup Nexts /\ r.page.more \in BOOLEAN /\ r.session \in Nat
  BY <1>1 DEF Answer
<1>4. IF r.kind \in Starts
      THEN r.page.dn = (IF Listing[d] = <<>> THEN "nothing" ELSE Listing[d][1]) /\ (r.page.more <=> Len(Listing[d]) > 1)
      ELSE r.kind \in Nexts /\ childSessions[d] = r.session
  BY <1>1, <1>3 DEF Applies, IsApplied, IsStart, Starts, Sessions, StartsOk
<1>5. r.page.dn = "nothing" \/ r.page.dn \in Under(d)
  <2>1. CASE r.kind \in Starts
    <3>1. Listing[d] # <<>> => 1 \in DOMAIN Listing[d]
      BY <1>2, UnderTypes
    <3> QED
      BY <2>1, <3>1, <1>4 DEF Under
  <2>2. CASE r.kind \in Nexts
    BY <2>2, <1>1 DEF Sessions, NextsOk, IsPage, Under
  <2> QED
    BY <2>1, <2>2, <1>3
<1>6. /\ requests' = requests \ {r} /\ root' = root
      /\ UNCHANGED <<cursors, treeGeneration>>
      /\ childSessions' = [childSessions EXCEPT ![d] = IF r.page.more THEN r.session ELSE NoCursor]
      /\ shared' = IF n \notin InTree THEN shared \cup {d} ELSE shared
      /\ reveal' = RevealAfter(r, ms) /\ Settle(es)
  BY <1>1 DEF Applies, Deliver, SessionAfter, nodeIsCurrent
<1>7. TreeForest
  BY DEF Shape
<1>8. /\ Forest(ms) /\ DOMAIN nodes \subseteq DOMAIN ms
      /\ \A m \in DOMAIN nodes \ {n} : ms[m] = nodes[m]
      /\ ms[n].dn = nodes[n].dn /\ ms[n].loaded /\ ms[n].truncated = r.page.more
      /\ ms[n].children \ nodes[n].children = DOMAIN ms \ DOMAIN nodes
      /\ \A m \in DOMAIN ms \ DOMAIN nodes : ms[m].dn = r.page.dn /\ ~ms[m].loaded /\ r.page.dn \in Under(d)
      /\ r.page.dn # "nothing" => r.page.dn \in Got(ms, n)
      /\ Got(nodes, n) \subseteq Got(ms, n)
  BY <1>2, <1>3, <1>5, <1>7, AppliedForest DEF TreeForest
<1>9. /\ \A m \in DOMAIN nodes : m \in Below(ms, {root}) <=> m \in InTree
      /\ \A m \in DOMAIN ms \ DOMAIN nodes : m \in Below(ms, {root}) <=> n \in InTree
      /\ RootIsBase(ms, root) /\ DnsApart(ms, root)
  BY <1>2, <1>3, <1>5, <1>7, AppliedTree DEF TreeForest, InTree
<1>10. \A m \in DOMAIN nodes \ {n} : Got(ms, m) = Got(nodes, m)
  <2>1. \A m \in DOMAIN nodes : \A c \in nodes[m].children : c \in DOMAIN nodes
    BY <1>7 DEF TreeForest, Forest, ChildrenHang
  <2>2. \A c \in DOMAIN nodes : ms[c].dn = nodes[c].dn
    BY <1>8
  <2> HIDE DEF ms
  <2> QED
    BY <2>1, <2>2, <1>8 DEF Got
<1>12. n \in DOMAIN ms /\ \A c \in ms[n].children : c \in DOMAIN ms
  BY <1>2, <1>8 DEF Forest, ChildrenHang
<1> HIDE DEF ms
<1>11. Marked(ms, es) /\ \A m \in DOMAIN ms \ {n} : es[m] = ms[m]
  <2>1. ms \in [DOMAIN ms -> Node] /\ ms[n] \in Node
    BY <1>8, <1>12 DEF Forest, NodesTyped
  <2>2. PICK b : es = [ms EXCEPT ![n].loading = FALSE, ![n].expanded = b]
                 /\ b \in BOOLEAN
    <3>1. ms[n].expanded \in BOOLEAN
      BY <2>1 DEF Node
    <3>2. es = [ms EXCEPT ![n].loading = FALSE,
                          ![n].expanded = IF r.kind = "toggle" THEN ~ms[n].expanded
                                          ELSE ms[n].expanded \/ r.kind \in {"root", "reload", "children"}]
      BY <1>1, <1>12, <2>1 DEF Applies, NodeAfter, nodeIsCurrent, Node
    <3> QED
      BY <3>1, <3>2
  <2> HIDE DEF es
  <2>3. DOMAIN es = DOMAIN ms /\ (\A m \in DOMAIN ms \ {n} : es[m] = ms[m])
        /\ es[n] = [ms[n] EXCEPT !.loading = FALSE, !.expanded = b]
    BY <2>1, <2>2, <1>12
  <2>4. /\ es[n] \in Node /\ es[n].dn = ms[n].dn /\ es[n].children = ms[n].children /\ es[n].above = ms[n].above
        /\ es[n].loaded = ms[n].loaded /\ es[n].truncated = ms[n].truncated
    <3>1. ms[n] \in Node /\ b \in BOOLEAN
      BY <2>1, <2>2
    <3>2. es[n] = [ms[n] EXCEPT !.loading = FALSE, !.expanded = b]
      BY <2>3
    <3> HIDE DEF n
    <3> QED
      BY ONLY <3>1, <3>2 DEF Node
  <2>5. es \in [DOMAIN ms -> Node]
    BY <2>1, <2>2, <2>3, <2>4
  <2> QED
    BY <2>3, <2>4, <2>5 DEF Marked, SameShape
<1> HIDE DEF es
<1>13. /\ SettledOn(es) /\ InTree' = Below(ms, {root}) /\ DOMAIN es = DOMAIN ms
       /\ \A m \in DOMAIN nodes' :
            /\ nodes'[m].dn = ms[m].dn /\ nodes'[m].loaded = ms[m].loaded /\ nodes'[m].truncated = ms[m].truncated
            /\ nodes'[m].children = ms[m].children /\ Got(nodes', m) = Got(ms, m)
  BY <1>6, <1>8, <1>9, <1>11, MarksKeep
<1>14. DOMAIN nodes' \subseteq DOMAIN ms /\ TreeForest' /\ \A m \in DOMAIN ms : m \in Referred' => m \in DOMAIN nodes'
  BY <1>13 DEF SettledOn
<1>15. \A m \in DOMAIN nodes' \ {n} : m \in DOMAIN nodes => nodes'[m].loading = nodes[m].loading
  BY <1>8, <1>11, <1>13 DEF SettledOn

<1>16. \A m \in DOMAIN nodes' \cap DOMAIN nodes :
          /\ nodes'[m].dn = nodes[m].dn /\ (m \in InTree' <=> m \in InTree)
          /\ m # n => /\ nodes'[m].loaded = nodes[m].loaded /\ nodes'[m].truncated = nodes[m].truncated
                      /\ nodes'[m].loading = nodes[m].loading /\ Got(nodes', m) = Got(nodes, m)
  <2> SUFFICES ASSUME NEW m \in DOMAIN nodes' \cap DOMAIN nodes
               PROVE  /\ nodes'[m].dn = nodes[m].dn /\ (m \in InTree' <=> m \in InTree)
                      /\ m # n => /\ nodes'[m].loaded = nodes[m].loaded /\ nodes'[m].truncated = nodes[m].truncated
                                  /\ nodes'[m].loading = nodes[m].loading /\ Got(nodes', m) = Got(nodes, m)
    OBVIOUS
  <2>1. nodes'[m].dn = nodes[m].dn
    BY <1>8, <1>13
  <2>2. m \in InTree' <=> m \in InTree
    BY <1>9, <1>13
  <2>3. ASSUME m # n PROVE /\ nodes'[m].loaded = nodes[m].loaded /\ nodes'[m].truncated = nodes[m].truncated
                           /\ nodes'[m].loading = nodes[m].loading /\ Got(nodes', m) = Got(nodes, m)
    <3>1. ms[m] = nodes[m] /\ Got(ms, m) = Got(nodes, m)
      BY <2>3, <1>8, <1>10
    <3>2. nodes'[m].loaded = ms[m].loaded /\ nodes'[m].truncated = ms[m].truncated /\ Got(nodes', m) = Got(ms, m)
      BY <1>13
    <3>3. nodes'[m].loading = nodes[m].loading
      BY <2>3, <1>15
    <3> HIDE DEF n
    <3> QED
      BY <3>1, <3>2, <3>3
  <2> HIDE DEF n
  <2> QED
    BY <2>1, <2>2, <2>3
<1>17. n \in DOMAIN nodes' => /\ nodes'[n].loaded /\ nodes'[n].truncated = r.page.more
                              /\ Got(nodes, n) \subseteq Got(nodes', n)
                              /\ r.page.dn # "nothing" => r.page.dn \in Got(nodes', n)
  BY <1>8, <1>13
<1>18. \A m \in DOMAIN nodes' \ DOMAIN nodes :
          ~nodes'[m].loaded /\ nodes'[m].dn \in Under(d) /\ (m \in InTree' => n \in InTree)
  BY <1>8, <1>9, <1>13, <1>14
<1>19. \A m \in ms[n].children \ nodes[n].children : m \notin DOMAIN nodes
  BY <1>8
<1>20. \A m \in DOMAIN nodes \cup ms[n].children : m \in Referred' => m \in DOMAIN nodes'
  BY <1>8, <1>12, <1>14
<1> QED
  BY <1>1, <1>2, <1>3, <1>4, <1>5, <1>6, <1>14, <1>16, <1>17, <1>18, <1>19, <1>20 DEF AppliedAs, ms

\* A page that is applied keeps the invariant.
LEMMA AppliedKeeps ==
  ASSUME TreeInv, NEW r \in requests, AppliedAs(r)
  PROVE  TreeInv'
<1> DEFINE n == r.node
           d == nodes[n].dn
           s == r.session
           more == r.page.more
           L == Listing[d]
           new == applyPage(nodes, n, s, r.page)[n].children \ nodes[n].children
<1> USE DEF TreeInv
\* What the answer is, and what it does.
<1>1. r.at = "answered" /\ r.gen = treeGeneration /\ n \in DOMAIN nodes /\ d \in DOMAIN Listing /\ more \in BOOLEAN
  BY DEF AppliedAs
<1>2. /\ requests' = requests \ {r} /\ root' = root /\ UNCHANGED <<cursors, treeGeneration>>
      /\ childSessions' = [childSessions EXCEPT ![d] = IF more THEN s ELSE NoCursor]
      /\ shared' = IF n \notin InTree THEN shared \cup {d} ELSE shared
      /\ TreeForest'
  BY DEF AppliedAs
<1>3. \A m \in DOMAIN nodes' \cap DOMAIN nodes :
        /\ nodes'[m].dn = nodes[m].dn /\ (m \in InTree' <=> m \in InTree)
        /\ m # n => /\ nodes'[m].loaded = nodes[m].loaded /\ nodes'[m].truncated = nodes[m].truncated
                    /\ nodes'[m].loading = nodes[m].loading /\ Got(nodes', m) = Got(nodes, m)
  BY DEF AppliedAs
<1>4. n \in DOMAIN nodes' => /\ nodes'[n].loaded /\ nodes'[n].truncated = more
                             /\ Got(nodes, n) \subseteq Got(nodes', n)
                             /\ r.page.dn # "nothing" => r.page.dn \in Got(nodes', n)
  BY DEF AppliedAs
<1>5. \A m \in DOMAIN nodes' \ DOMAIN nodes : ~nodes'[m].loaded /\ nodes'[m].dn \in Under(d) /\ (m \in InTree' => n \in InTree)
  BY DEF AppliedAs
<1>6. /\ reveal' = RevealAfter(r, applyPage(nodes, n, s, r.page))
      /\ \A m \in new : m \notin DOMAIN nodes
      /\ \A m \in DOMAIN nodes \cup new : m \in Referred' => m \in DOMAIN nodes'
  BY DEF AppliedAs
<1>7. /\ r.page.dn = "nothing" \/ r.page.dn \in Under(d)
      /\ IF r.kind \in Starts
         THEN r.page.dn = (IF L = <<>> THEN "nothing" ELSE L[1]) /\ (more <=> Len(L) > 1)
         ELSE r.kind \in Nexts /\ childSessions[d] = s
  BY DEF AppliedAs
<1>8. s \in Nat /\ s # NoCursor /\ r.kind \in Starts \cup Nexts
  BY <1>1, <1>7 DEF Shape, RequestsTyped, Waiting, Answer, Sessions, StartsOk
<1>9. Len(L) \in Nat /\ DOMAIN L = 1..Len(L) /\ Under(d) \subseteq DOMAIN Listing \ {BaseDn} /\ "nothing" \notin Under(d)
  BY <1>1, UnderTypes
<1>10. childSessions \in [DOMAIN Listing -> Nat] /\ \A m \in DOMAIN nodes : nodes[m].dn \in DOMAIN Listing
  BY DEF Shape, CursorsTyped, TreeForest, Forest, NodesTyped, Node
<1>11. \A q \in requests' : /\ q \in requests /\ q # r /\ q.node \in DOMAIN nodes /\ q.node \in DOMAIN nodes'
                            /\ nodes'[q.node].dn = nodes[q.node].dn
  <2>1. \A q \in requests : q.node \in DOMAIN nodes
    BY DEF Shape, RequestsTyped
  <2>2. \A q \in requests' : q.node \in Referred'
    BY DEF Referred
  <2> QED
    BY <2>1, <2>2, <1>2, <1>3, <1>6
<1> HIDE DEF n, d, s, more, L, new
<1>12. /\ childSessions' \in [DOMAIN Listing -> Nat] /\ childSessions'[d] = IF more THEN s ELSE NoCursor
       /\ \A e \in DOMAIN Listing \ {d} : childSessions'[e] = childSessions[e]
  BY <1>1, <1>2, <1>8, <1>10 DEF NoCursor
\* No other request has the cursor of a first page; the next page is of the node's cursor.
<1>13. r.kind \in Starts => /\ \A e \in DOMAIN Listing : childSessions[e] # s
                            /\ \A q \in requests : q.session = s => q = r
                            /\ s \in DOMAIN cursors => cursors[s] = [dn |-> d, page |-> 2]
  BY <1>1 DEF Sessions, StartsOk, s, d, n
<1>14. \A e \in DOMAIN Listing \ {d} : childSessions[e] # s
  BY <1>1, <1>7, <1>8, <1>13 DEF Sessions, SessionsApart
<1>15. s \in DOMAIN cursors => cursors[s].dn = d
  BY <1>1, <1>7, <1>13 DEF Sessions, CursorOfDn
<1>16. \A q \in requests : q.kind \in Starts /\ q.at = "answered" /\ q # r => q.session # s
  BY DEF Sessions, StartsOk, s
\* Types and cursors.
<1>20. RequestsTyped'
  <2>1. IsFiniteSet(requests') /\ requests' \subseteq Waiting \cup Answer
    BY <1>2, FS_Subset DEF Shape, RequestsTyped
  <2> QED
    BY <2>1, <1>2, <1>3, <1>11 DEF Shape, RequestsTyped
<1>21. CursorsTyped'
  BY <1>2, <1>12 DEF Shape, CursorsTyped
<1>22. SessionsApart' /\ CursorOfDn'
  BY <1>2, <1>12, <1>14, <1>15 DEF Sessions, SessionsApart, CursorOfDn, Shape, CursorsTyped
<1>23. StartsOk'
  <2> SUFFICES ASSUME NEW q \in requests', q.kind \in Starts, q.at = "answered"
               PROVE  /\ q.session # NoCursor /\ \A e \in DOMAIN Listing : childSessions'[e] # q.session
                      /\ \A o \in requests' : o.session = q.session => o = q
                      /\ q.page.dn = IF Listing[nodes'[q.node].dn] = <<>> THEN "nothing" ELSE Listing[nodes'[q.node].dn][1]
                      /\ q.page.more <=> Len(Listing[nodes'[q.node].dn]) > 1
                      /\ q.session \in DOMAIN cursors' => cursors'[q.session] = [dn |-> nodes'[q.node].dn, page |-> 2]
    BY DEF StartsOk
  <2>1. q \in requests /\ q # r /\ q.session # s /\ nodes'[q.node].dn = nodes[q.node].dn
    BY <1>11, <1>16
  <2>2. \A e \in DOMAIN Listing : childSessions'[e] # q.session
    <3>1. q.session # NoCursor /\ \A e \in DOMAIN Listing : childSessions[e] # q.session
      BY <2>1 DEF Sessions, StartsOk
    <3>2. \A e \in DOMAIN Listing : childSessions'[e] \in {s, NoCursor, childSessions[e]}
      BY <1>12
    <3> QED
      BY <2>1, <3>1, <3>2
  <2> QED
    BY <2>1, <2>2, <1>2 DEF Sessions, StartsOk
<1>24. NextsOk'
  <2> SUFFICES ASSUME NEW q \in requests', q.kind \in Nexts
               PROVE  /\ q.session \in DOMAIN cursors => cursors[q.session].dn = nodes[q.node].dn
                      /\ \A e \in DOMAIN Listing : childSessions'[e] = q.session => nodes[q.node].dn = e
                      /\ q.at = "answered" => \E k \in DOMAIN Listing[nodes[q.node].dn] : IsPage(nodes[q.node].dn, k, q.page)
    BY <1>2, <1>11 DEF NextsOk
  <2>1. q \in requests /\ q # r /\ q.session # NoCursor
    BY <1>11 DEF Shape, RequestsTyped
  <2>2. ASSUME NEW e \in DOMAIN Listing, childSessions'[e] = q.session PROVE nodes[q.node].dn = e
    <3>1. childSessions[e] = q.session
      BY <2>1, <2>2, <1>7, <1>8, <1>12, <1>13
    <3> QED
      BY <2>1, <3>1 DEF Sessions, NextsOk
  <2> QED
    BY <2>1, <2>2 DEF Sessions, NextsOk
\* The pages of the other private nodes, and of this one.
<1>30. ASSUME NEW m \in DOMAIN nodes', Private(m)', m \in DOMAIN nodes, m # n
       PROVE  /\ Private(m) /\ nodes'[m].dn = nodes[m].dn /\ nodes[m].dn # d /\ SessionOf(m)' = SessionOf(m)
              /\ SessionOf(m) # s /\ nodes[m].dn \in DOMAIN Listing
              /\ nodes'[m].loaded = nodes[m].loaded /\ nodes'[m].truncated = nodes[m].truncated
              /\ Got(nodes', m) = Got(nodes, m)
  <2>1. Private(m) /\ nodes'[m].dn = nodes[m].dn
    BY <1>2, <1>3, <1>30 DEF Private
  <2>2. nodes[m].dn # d
    <3>1. CASE n \in InTree
      BY <2>1, <3>1, <1>30 DEF Private, Shape, TreeForest, DnsApart, InTree, d
    <3>2. CASE n \notin InTree
      BY <2>1, <3>2, <1>2, <1>30 DEF Private
    <3> QED
      BY <3>1, <3>2
  <2> QED
    BY <2>1, <2>2, <1>3, <1>10, <1>12, <1>14, <1>30 DEF SessionOf
<1>31. ASSUME NEW m \in DOMAIN nodes', m \notin DOMAIN nodes PROVE ~nodes'[m].loaded
  BY <1>5, <1>31
<1>32. ASSUME n \in DOMAIN nodes', Private(n)'
       PROVE  /\ Private(n) /\ nodes'[n].dn = d /\ nodes'[n].loaded /\ SessionOf(n)' = (IF more THEN s ELSE NoCursor)
              /\ nodes'[n].truncated = more
              /\ r.kind \in Nexts => nodes[n].loaded /\ s = SessionOf(n)
              /\ \A q \in requests' : q.session # s
  <2>1. Private(n) /\ nodes'[n].dn = d
    BY <1>1, <1>2, <1>3, <1>32 DEF Private, d
  <2>2. SessionOf(n)' = (IF more THEN s ELSE NoCursor)
    BY <2>1, <1>12 DEF SessionOf
  <2>3. r.kind \in Nexts => nodes[n].loaded /\ s = SessionOf(n)
    <3>1. r.kind \in Nexts => s = SessionOf(n)
      BY <1>7 DEF SessionOf, d, Starts, Nexts
    <3> QED
      BY <2>1, <3>1 DEF Progress, NextIsLoaded, n, s
  <2>4. \A q \in requests' : q.session # s
    <3>1. CASE r.kind \in Starts
      BY <3>1, <1>11, <1>13
    <3>2. CASE r.kind \in Nexts
      <4>1. \A q \in requests : q.session = s => q = r
        BY <2>1, <2>3, <3>2, <1>1, <1>8 DEF Progress, OneReader, s
      <4> QED
        BY <4>1, <1>11
    <3> QED
      BY <3>1, <3>2, <1>8
  <2> QED
    BY <2>1, <2>2, <2>3, <2>4, <1>4, <1>32
\* The page is the one after those the node has.
<1>33. ASSUME n \in DOMAIN nodes', Private(n)'
       PROVE  /\ ~more => Under(d) \subseteq Got(nodes', n)
              /\ more /\ s \in DOMAIN cursors => First(d, cursors[s].page - 1) \subseteq Got(nodes', n)
  <2>0. /\ Got(nodes, n) \subseteq Got(nodes', n)
        /\ r.page.dn # "nothing" => r.page.dn \in Got(nodes', n)
    BY <1>4, <1>33
  <2>1. CASE r.kind \in Starts
    <3>1. r.page.dn = (IF L = <<>> THEN "nothing" ELSE L[1]) /\ (more <=> Len(L) > 1)
      BY <2>1, <1>7
    <3>2. Len(L) > 0 => L[1] \in Got(nodes', n)
      <4>1. Len(L) > 0 => L # <<>> /\ L[1] \in Under(d)
        BY <1>9 DEF Under, L
      <4> QED
        BY <4>1, <3>1, <2>0, <1>9
    <3>3. ~more => \A k \in DOMAIN L : k = 1 /\ Len(L) > 0
      BY <3>1, <1>9
    <3>4. ~more => Under(d) \subseteq Got(nodes', n)
      BY <3>2, <3>3 DEF Under, L
    <3>5. ASSUME more, s \in DOMAIN cursors PROVE First(d, cursors[s].page - 1) \subseteq Got(nodes', n)
      <4>1. cursors[s].page = 2
        BY <2>1, <3>5, <1>13
      <4>2. \A k \in 1..2 - 1 : k = 1
        OBVIOUS
      <4>3. Len(L) > 0
        BY <3>1, <3>5, <1>9
      <4> QED
        BY <4>1, <4>2, <4>3, <3>2 DEF First, L
    <3> QED
      BY <3>4, <3>5
  <2>2. CASE r.kind \in Nexts
    <3>1. Private(n) /\ s = SessionOf(n)
      BY <2>2, <1>32, <1>33
    <3>2. PICK k \in DOMAIN Listing[nodes[r.node].dn] : PageAt(r, k)
      BY <2>2, <3>1, <1>1 DEF Progress, PageFollows, n, s
    <3>3. /\ k \in 1..Len(L) /\ r.page.dn = L[k] /\ (more <=> k < Len(L))
          /\ First(d, k - 1) \subseteq Got(nodes, n)
          /\ s \in DOMAIN cursors => cursors[s].page = k + 1
      BY <3>2, <1>9 DEF PageAt, IsPage, n, d, s, L, more
    <3>4. \A i \in 1..k : L[i] \in Got(nodes', n)
      <4>1. L[k] \in Got(nodes', n)
        <5>1. L[k] \in Under(d)
          BY <3>3, <1>9 DEF Under, L
        <5> QED
          BY <5>1, <3>3, <2>0, <1>9
      <4>2. ASSUME NEW i \in 1..k, i # k PROVE L[i] \in Got(nodes', n)
        <5>1. i \in 1..k - 1
          BY <3>3, <4>2, <1>9
        <5> QED
          BY <5>1, <3>3, <2>0 DEF First, L
      <4> QED
        BY <4>1, <4>2
    <3>5. ~more => Under(d) \subseteq Got(nodes', n)
      <4>1. ~more => k = Len(L)
        BY <3>3, <1>9
      <4> QED
        BY <4>1, <3>4, <1>9 DEF Under, L
    <3>6. ASSUME more, s \in DOMAIN cursors PROVE First(d, cursors[s].page - 1) \subseteq Got(nodes', n)
      <4>1. cursors[s].page - 1 = k
        BY <3>3, <3>6, <1>9
      <4> QED
        BY <4>1, <3>4 DEF First, L
    <3> QED
      BY <3>5, <3>6
  <2> QED
    BY <2>1, <2>2, <1>8
<1>34. CompleteWhenDone'
  <2> SUFFICES ASSUME NEW m \in DOMAIN nodes', Private(m)', nodes'[m].loaded, ~nodes'[m].truncated
               PROVE  Under(nodes'[m].dn) \subseteq Got(nodes', m)
    BY DEF CompleteWhenDone
  <2>1. CASE m = n
    BY <2>1, <1>32, <1>33
  <2>2. CASE m # n
    BY <2>2, <1>30, <1>31 DEF Progress, CompleteWhenDone
  <2> QED
    BY <2>1, <2>2
<1>35. OneReader'
  <2> SUFFICES ASSUME NEW m \in DOMAIN nodes', Private(m)', nodes'[m].loaded, SessionOf(m)' # NoCursor,
                      NEW q \in requests', q.session = SessionOf(m)'
               PROVE  q.node = m /\ \A o \in requests' : o.session = SessionOf(m)' => o = q
    BY DEF OneReader
  <2>1. CASE m = n
    BY <2>1, <1>32
  <2>2. CASE m # n
    BY <2>2, <1>11, <1>30, <1>31 DEF Progress, OneReader
  <2> QED
    BY <2>1, <2>2
<1>36. NextIsLoaded'
  <2> SUFFICES ASSUME NEW q \in requests', q.kind \in Nexts, Private(q.node)', q.session = SessionOf(q.node)'
               PROVE  nodes'[q.node].loaded
    BY DEF NextIsLoaded
  <2>1. CASE q.node = n
    BY <2>1, <1>4, <1>11
  <2>2. CASE q.node # n
    BY <2>2, <1>11, <1>30 DEF Progress, NextIsLoaded
  <2> QED
    BY <2>1, <2>2
<1>37. CursorFollows'
  <2> SUFFICES ASSUME NEW m \in DOMAIN nodes', Private(m)', nodes'[m].loaded, SessionOf(m)' \in DOMAIN cursors
               PROVE  \/ \E q \in requests' : q.session = SessionOf(m)' /\ q.at = "answered"
                      \/ First(nodes'[m].dn, cursors[SessionOf(m)'].page - 1) \subseteq Got(nodes', m)
    BY <1>2 DEF CursorFollows
  <2>1. CASE m = n
    <3>1. NoCursor \notin DOMAIN cursors
      BY DEF Shape, CursorsTyped
    <3>2. more /\ SessionOf(n)' = s
      BY <2>1, <3>1, <1>32
    <3> QED
      BY <2>1, <3>2, <1>32, <1>33
  <2>2. CASE m # n
    <3>1. m \in DOMAIN nodes
      BY <1>31
    <3>2. \/ \E q \in requests : q.session = SessionOf(m) /\ q.at = "answered"
          \/ First(nodes[m].dn, cursors[SessionOf(m)].page - 1) \subseteq Got(nodes, m)
      BY <2>2, <3>1, <1>30 DEF Progress, CursorFollows
    <3>3. \A q \in requests : q.session = SessionOf(m) => q \in requests'
      BY <2>2, <3>1, <1>2, <1>30 DEF s
    <3> QED
      BY <2>2, <3>1, <3>2, <3>3, <1>30
  <2> QED
    BY <2>1, <2>2
<1>38. PageFollows'
  <2> SUFFICES ASSUME NEW q \in requests', q.kind \in Nexts, q.at = "answered", Private(q.node)', q.session = SessionOf(q.node)'
               PROVE  \E k \in DOMAIN Listing[nodes'[q.node].dn] : PageAt(q, k)'
    BY DEF PageFollows
  <2>0. q.session # NoCursor
    BY <1>11 DEF Shape, RequestsTyped
  <2>1. CASE q.node = n
    BY <2>0, <2>1, <1>11, <1>32
  <2>2. CASE q.node # n
    <3>1. /\ Private(q.node) /\ SessionOf(q.node)' = SessionOf(q.node) /\ Got(nodes', q.node) = Got(nodes, q.node)
          /\ nodes'[q.node].dn = nodes[q.node].dn
      BY <2>2, <1>11, <1>30
    <3>2. PICK k \in DOMAIN Listing[nodes[q.node].dn] : PageAt(q, k)
      BY <3>1, <1>11 DEF Progress, PageFollows
    <3>3. PageAt(q, k)'
      BY <3>1, <3>2, <1>2 DEF PageAt
    <3> QED
      BY <3>1, <3>2, <3>3
  <2> QED
    BY <2>1, <2>2
\* The reveal and the first load.
<1>40. reveal' = IF r.kind \notin {"children", "next"} THEN reveal
                 ELSE [reveal EXCEPT !.at = "walk", !.index = IF r.kind = "next" THEN reveal.index \cup new ELSE {}]
  <2>1. IsApplied(r)
    BY <1>1, <1>7, <1>8 DEF IsApplied, nodeIsCurrent, IsStart, Starts, n, d, s
  <2> QED
    BY <2>1, <1>6 DEF RevealAfter, new, n, s
<1>41. /\ reveal.index \subseteq DOMAIN nodes
       /\ \A m \in reveal.index : nodes[m].dn # BaseDn /\ (m \in InTree => reveal.gen = treeGeneration)
       /\ reveal.at # "idle" =>
            /\ reveal.node \in DOMAIN nodes /\ reveal.gen \in Nat /\ reveal.gen <= treeGeneration
            /\ reveal.node \in InTree => reveal.gen = treeGeneration
       /\ \A q \in requests : q.kind \in {"children", "next"} =>
            /\ reveal.at = "await" /\ q.node = reveal.node /\ q.gen = reveal.gen
            /\ \A p \in requests : p.kind \in {"children", "next"} => p = q
       /\ reveal.at = "walk" /\ Private(reveal.node) /\ ~nodes[reveal.node].loaded => SessionOf(reveal.node) = NoCursor
  BY DEF RevealOk
<1>42. \A m \in DOMAIN nodes \cup new : m = reveal'.node \/ m \in reveal'.index => m \in DOMAIN nodes'
  BY <1>6 DEF Referred
<1>39. {"at", "node", "index"} \subseteq DOMAIN reveal'
  BY <1>40 DEF RevealOk
<1>43. ASSUME r.kind \notin {"children", "next"} PROVE RevealOk'
  <2>1. reveal' = reveal
    BY <1>40, <1>43
  <2>2. \A m \in reveal.index : m \in DOMAIN nodes' /\ nodes'[m].dn # BaseDn /\ (m \in InTree' => reveal.gen = treeGeneration)
    BY <2>1, <1>3, <1>41, <1>42
  <2>3. reveal.at # "idle" => /\ reveal.node \in DOMAIN nodes' /\ reveal.node \in DOMAIN nodes
                              /\ reveal.node \in InTree' => reveal.gen = treeGeneration
    BY <2>1, <1>3, <1>41, <1>42
  <2>4. reveal.at = "walk" /\ Private(reveal.node)' /\ ~nodes'[reveal.node].loaded => SessionOf(reveal.node)' = NoCursor
    <3> SUFFICES ASSUME reveal.at = "walk", Private(reveal.node)', ~nodes'[reveal.node].loaded
                 PROVE  SessionOf(reveal.node)' = NoCursor
      BY <2>1 DEF Private, SessionOf
    <3>0. PICK m : m = reveal.node
      OBVIOUS
    <3>1. m # n /\ m \in DOMAIN nodes /\ m \in DOMAIN nodes'
      BY <3>0, <2>3, <1>4
    <3>2. Private(m)' /\ ~nodes'[m].loaded
      BY <3>0, <2>1 DEF Private
    <3>3. SessionOf(m)' = SessionOf(m) /\ Private(m) /\ ~nodes[m].loaded
      BY <3>1, <3>2, <1>30
    <3>4. SessionOf(m)' = NoCursor
      BY <3>0, <3>3, <1>41
    <3> QED
      BY <3>0, <3>4, <2>1 DEF SessionOf
  <2>5. \A q \in requests' : q.kind \in {"children", "next"} =>
            /\ reveal.at = "await" /\ q.node = reveal.node /\ q.gen = reveal.gen
            /\ \A p \in requests' : p.kind \in {"children", "next"} => p = q
    BY <1>11, <1>41
  <2>6. reveal.at # "idle" => reveal.gen \in Nat /\ reveal.gen <= treeGeneration
    BY <1>41
  <2>7. reveal'.index \subseteq DOMAIN nodes'
    BY <2>1, <2>2
  <2>8. \A m \in reveal'.index : nodes'[m].dn # BaseDn /\ (m \in InTree' => reveal'.gen = treeGeneration')
    BY <2>1, <2>2, <1>2
  <2>9. reveal'.at # "idle" =>
         /\ reveal'.node \in DOMAIN nodes' /\ reveal'.gen \in Nat /\ reveal'.gen <= treeGeneration'
         /\ reveal'.node \in InTree' => reveal'.gen = treeGeneration'
    BY <2>1, <2>3, <2>6, <1>2
  <2>10. \A q \in requests' : q.kind \in {"children", "next"} =>
         /\ reveal'.at = "await" /\ q.node = reveal'.node /\ q.gen = reveal'.gen
         /\ \A p \in requests' : p.kind \in {"children", "next"} => p = q
    BY <2>1, <2>5
  <2>11. (reveal.at = "walk" /\ Private(reveal.node) /\ ~nodes[reveal.node].loaded => SessionOf(reveal.node) = NoCursor)'
    BY <2>1, <2>4
  <2> QED
    BY <2>7, <2>8, <2>9, <2>10, <2>11, <1>39 DEF RevealOk
<1>44. ASSUME r.kind \in {"children", "next"} PROVE RevealOk'
  <2>1. reveal.at = "await" /\ n = reveal.node /\ reveal.gen = treeGeneration
    BY <1>1, <1>41, <1>44 DEF n
  <2>2. \A q \in requests' : q.kind \notin {"children", "next"}
    BY <1>11, <1>41, <1>44
  <2>3. reveal'.index = (IF r.kind = "next" THEN reveal.index \cup new ELSE {}) /\ reveal'.at \in {"walk", "await"}
        /\ reveal'.node = n /\ reveal'.gen = treeGeneration
    BY <2>1, <1>40, <1>44
  <2>4. n \in DOMAIN nodes' /\ nodes'[n].loaded
    BY <2>3, <1>1, <1>4, <1>42
  <2>5. \A m \in reveal'.index : m \in DOMAIN nodes' /\ nodes'[m].dn # BaseDn
    <3>1. \A m \in reveal'.index : m \in DOMAIN nodes'
      BY <2>3, <1>41, <1>42
    <3>2. \A m \in reveal.index : m \in DOMAIN nodes' => nodes'[m].dn # BaseDn
      BY <1>3, <1>41
    <3>3. \A m \in new : m \in DOMAIN nodes' => nodes'[m].dn # BaseDn
      BY <1>5, <1>6, <1>9
    <3> QED
      BY <3>1, <3>2, <3>3, <2>3
  <2>6. treeGeneration \in Nat
    BY DEF Shape, RequestsTyped
  <2>7. reveal'.index \subseteq DOMAIN nodes'
    BY <2>5
  <2>8. \A m \in reveal'.index : nodes'[m].dn # BaseDn /\ (m \in InTree' => reveal'.gen = treeGeneration')
    BY <2>3, <2>5, <1>2
  <2>9. reveal'.at # "idle" =>
         /\ reveal'.node \in DOMAIN nodes' /\ reveal'.gen \in Nat /\ reveal'.gen <= treeGeneration'
         /\ reveal'.node \in InTree' => reveal'.gen = treeGeneration'
    BY <2>3, <2>4, <2>6, <1>2
  <2>10. \A q \in requests' : q.kind \in {"children", "next"} =>
         /\ reveal'.at = "await" /\ q.node = reveal'.node /\ q.gen = reveal'.gen
         /\ \A p \in requests' : p.kind \in {"children", "next"} => p = q
    BY <2>2
  <2>11. (reveal.at = "walk" /\ Private(reveal.node) /\ ~nodes[reveal.node].loaded => SessionOf(reveal.node) = NoCursor)'
    BY <2>3, <2>4
  <2> QED
    BY <2>7, <2>8, <2>9, <2>10, <2>11, <1>39 DEF RevealOk
<1>50. FirstLoad'
  <2>0. root \in Nat /\ (root # NoCursor => root \in DOMAIN nodes /\ root \in InTree /\ nodes[root].dn = BaseDn)
        /\ (root # NoCursor => root \in DOMAIN nodes') /\ BaseDn \in DOMAIN Listing
    BY <1>2, ListingAssumption DEF Shape, TreeForest, RootIsBase, InTree, Below
  <2>1. ASSUME root # NoCursor, ~nodes'[root].loaded, BaseDn \notin shared' PROVE childSessions'[BaseDn] = NoCursor
    <3>0. PICK m : m = root
      OBVIOUS
    <3>1. m # n /\ m \in DOMAIN nodes /\ m \in DOMAIN nodes'
      BY <3>0, <2>0, <2>1, <1>4
    <3>2. Private(m)'
      BY <3>0, <3>1, <2>0, <2>1, <1>2, <1>3 DEF Private
    <3>3. nodes[m].dn # d /\ nodes'[m].loaded = nodes[m].loaded /\ Private(m)
      BY <3>1, <3>2, <1>30
    <3>4. childSessions[BaseDn] = NoCursor
      BY <3>0, <2>0, <2>1, <3>3 DEF FirstLoad, Private
    <3>5. BaseDn # d
      BY <3>0, <3>3, <2>0, <2>1
    <3> QED
      BY <2>0, <3>4, <3>5, <1>12
  <2>2. ASSUME root = NoCursor PROVE /\ childSessions'[BaseDn] = NoCursor
                                     /\ \A q \in requests' : nodes'[q.node].dn = BaseDn => q.gen # treeGeneration
    <3>1. /\ childSessions[BaseDn] = NoCursor
          /\ \A q \in requests : nodes[q.node].dn = BaseDn => q.gen # treeGeneration
      BY <2>2 DEF FirstLoad
    <3>2. d # BaseDn
      BY <3>1, <1>1 DEF d, n
    <3> QED
      BY <3>1, <3>2, <2>0, <1>11, <1>12
  <2>3. ASSUME NEW q \in requests', q.kind = "root", q.gen = treeGeneration
        PROVE  /\ q.node = root /\ root # NoCursor /\ nodes'[root].loading /\ ~nodes'[root].loaded
               /\ childSessions'[BaseDn] = NoCursor
               /\ \A p \in requests' : p.gen = treeGeneration /\ nodes'[p.node].dn = BaseDn => p = q
    <3>1. /\ q.node = root /\ root # NoCursor /\ nodes[root].loading /\ ~nodes[root].loaded
          /\ childSessions[BaseDn] = NoCursor
          /\ \A p \in requests : p.gen = treeGeneration /\ nodes[p.node].dn = BaseDn => p = q
      BY <2>3, <1>11 DEF FirstLoad
    <3>2. d # BaseDn
      BY <3>1, <1>1, <1>11 DEF d, n
    <3>3. root # n
      BY <3>1, <3>2, <2>0 DEF d
    <3>4. nodes'[root].loading = nodes[root].loading /\ nodes'[root].loaded = nodes[root].loaded
      BY <3>1, <3>3, <2>0, <1>3
    <3> QED
      BY <3>1, <3>2, <3>4, <2>0, <1>11, <1>12
  <2> QED
    BY <2>1, <2>2, <2>3, <1>2 DEF FirstLoad
<1>51. RevealOk'
  BY <1>43, <1>44
<1> QED
  BY <1>2, <1>20, <1>21, <1>22, <1>23, <1>24, <1>34, <1>35, <1>36, <1>37, <1>38, <1>50, <1>51 DEF Shape, Sessions, Progress

(* The steps that apply no page: some nodes are emptied, the others stay. *)

Follows(E) ==
  /\ TreeForest' /\ DOMAIN nodes' \subseteq DOMAIN nodes
  /\ \A m \in DOMAIN nodes' :
       /\ nodes'[m].dn = nodes[m].dn /\ (m \in InTree' => m \in InTree)
       /\ m \notin E => /\ nodes'[m].loaded = nodes[m].loaded /\ nodes'[m].truncated = nodes[m].truncated
                        /\ Got(nodes', m) = Got(nodes, m)
       /\ m \in E => ~nodes'[m].loaded
  /\ \A m \in DOMAIN nodes : m \in Referred' => m \in DOMAIN nodes'
Releases(E) ==
  /\ childSessions' \in [DOMAIN Listing -> Nat]
  /\ \A d \in DOMAIN Listing : childSessions'[d] \in {NoCursor, childSessions[d]}
  /\ \A m \in E \cap DOMAIN nodes' : SessionOf(m)' = NoCursor
  /\ DOMAIN cursors' \subseteq DOMAIN cursors /\ cursors' = [c \in DOMAIN cursors' |-> cursors[c]]
\* A request for the first page of a node; no root that is loading has another.
Asks(s) ==
  /\ s \in Waiting /\ s.at = "sent" /\ s.kind \in Starts \ {"root"} /\ s.session = NoCursor
  /\ s.node \in DOMAIN nodes /\ s.gen <= treeGeneration /\ (s.node \in InTree => s.gen = treeGeneration)
  /\ nodes[s.node].dn = BaseDn /\ s.gen = treeGeneration =>
       root # NoCursor /\ ~\E q \in requests : q.kind = "root" /\ q.gen = treeGeneration

\* A step that applies no page keeps the shape, the cursors and the pages.
LEMMA CalmKeeps ==
  ASSUME TreeInv, NEW E, Follows(E), Releases(E), NEW S, \A s \in S : Asks(s),
         requests' \subseteq requests \cup S, IsFiniteSet(requests'), UNCHANGED <<treeGeneration, shared>>,
         \A r \in requests \ requests' : r.at = "answered" =>
           \A n \in DOMAIN nodes' : Private(n)' /\ nodes'[n].loaded => SessionOf(n)' # r.session
  PROVE  Shape' /\ Sessions' /\ Progress'
<1> USE DEF TreeInv
<1>1. \A r \in requests' : r.node \in DOMAIN nodes /\ r.node \in DOMAIN nodes'
  BY DEF Shape, RequestsTyped, Asks, Follows, Referred
<1>2. RequestsTyped'
  <2>1. requests' \subseteq Waiting \cup Answer
    BY DEF Shape, RequestsTyped, Asks
  <2>2. \A r \in requests' :
         /\ r.gen <= treeGeneration' /\ (r.node \in InTree' => r.gen = treeGeneration')
         /\ r.kind \in Nexts => r.session # NoCursor
         /\ r.kind \in Starts /\ r.at # "answered" => r.session = NoCursor
    <3> SUFFICES ASSUME NEW r \in requests'
                 PROVE  /\ r.gen <= treeGeneration /\ (r.node \in InTree' => r.gen = treeGeneration)
                        /\ r.kind \in Nexts => r.session # NoCursor
                        /\ r.kind \in Starts /\ r.at # "answered" => r.session = NoCursor
      OBVIOUS
    <3>0. r.node \in InTree' => r.node \in InTree
      BY <1>1 DEF Follows
    <3>1. CASE r \in requests
      BY <3>0, <3>1 DEF Shape, RequestsTyped
    <3>2. CASE r \in S
      BY <3>0, <3>2 DEF Asks, Starts, Nexts
    <3> QED
      BY <3>1, <3>2
  <2> QED
    BY <2>1, <2>2, <1>1 DEF Shape, RequestsTyped
<1>3. CursorsTyped'
  <2>1. IsFiniteSet(DOMAIN cursors') /\ DOMAIN cursors' \subseteq Nat \ {NoCursor}
    BY FS_Subset DEF Releases, Shape, CursorsTyped
  <2>2. \A c \in DOMAIN cursors' : cursors'[c] = cursors[c]
    BY DEF Releases
  <2>3. cursors' \in [DOMAIN cursors' -> [dn : DOMAIN Listing, page : Nat]]
    BY <2>2 DEF Releases, Shape, CursorsTyped
  <2> QED
    BY <2>1, <2>2, <2>3 DEF Releases, Shape, CursorsTyped
<1>4. Shape'
  BY <1>2, <1>3 DEF Shape, Follows
<1>5. Shrink
  <2>1. \A c \in DOMAIN cursors' : cursors'[c] = cursors[c]
    BY DEF Releases
  <2>2. ASSUME NEW n \in DOMAIN nodes', Private(n)'
        PROVE  \/ ~nodes'[n].loaded /\ SessionOf(n)' = NoCursor
               \/ /\ n \in DOMAIN nodes /\ Private(n)
                  /\ nodes'[n].loaded = nodes[n].loaded /\ nodes'[n].truncated = nodes[n].truncated
                  /\ Got(nodes', n) = Got(nodes, n)
    <3>1. CASE n \in E
      BY <3>1 DEF Follows, Releases
    <3>2. CASE n \notin E
      <4>1. n \in DOMAIN nodes /\ Private(n)
        BY <2>2 DEF Follows, Private
      <4> QED
        BY <3>2, <4>1 DEF Follows
    <3> QED
      BY <3>1, <3>2
  <2>3. \A r \in requests' : r \in requests \/ (r.kind \in Starts /\ r.at # "answered" /\ r.session = NoCursor)
    BY DEF Asks
  <2>4. \A n \in DOMAIN nodes' \cap DOMAIN nodes : nodes'[n].dn = nodes[n].dn
    BY DEF Follows
  <2> QED
    BY <2>1, <2>2, <2>3, <2>4 DEF Shrink, Releases
<1> QED
  BY <1>4, <1>5, ShrinkKeepsSessions, ShrinkKeepsProgress

\* A root that is loading its first page goes on doing so.
LEMMA CalmFirstLoad ==
  ASSUME TreeInv, NEW E, Follows(E), Releases(E), NEW S, \A s \in S : Asks(s),
         requests' \subseteq requests \cup S, UNCHANGED <<root, treeGeneration, shared>>,
         \A m \in DOMAIN nodes' : nodes[m].loading => nodes'[m].loading
  PROVE  FirstLoad'
<1> USE DEF TreeInv
<1>1. \A r \in requests' : r.node \in DOMAIN nodes /\ r.node \in DOMAIN nodes' /\ nodes'[r.node].dn = nodes[r.node].dn
  BY DEF Shape, RequestsTyped, Asks, Follows, Referred
<1>2. BaseDn \in DOMAIN Listing /\ childSessions'[BaseDn] \in {NoCursor, childSessions[BaseDn]}
  BY ListingAssumption DEF Releases
<1>3. root \in DOMAIN nodes \/ root = NoCursor
  BY DEF Shape, TreeForest, RootIsBase
<1>4. root # NoCursor => root \in DOMAIN nodes' /\ nodes'[root].dn = BaseDn
  BY DEF Follows, TreeForest, RootIsBase
<1>5. ASSUME root # NoCursor, ~nodes'[root].loaded, BaseDn \notin shared PROVE childSessions'[BaseDn] = NoCursor
  <2>1. CASE root \in E
    <3>0. PICK m : m = root
      OBVIOUS
    <3>1. m \in E \cap DOMAIN nodes' /\ nodes'[m].dn = BaseDn
      BY <3>0, <2>1, <1>4, <1>5
    <3>2. SessionOf(m)' = NoCursor
      BY <3>1 DEF Releases
    <3> QED
      BY <3>1, <3>2 DEF SessionOf
  <2>2. CASE root \notin E
    <3>1. ~nodes[root].loaded
      BY <2>2, <1>4, <1>5 DEF Follows
    <3> QED
      BY <3>1, <1>2, <1>5 DEF FirstLoad
  <2> QED
    BY <2>1, <2>2
<1>6. ASSUME root = NoCursor PROVE /\ childSessions'[BaseDn] = NoCursor
                                   /\ \A r \in requests' : nodes'[r.node].dn = BaseDn => r.gen # treeGeneration
  BY <1>1, <1>2, <1>6 DEF FirstLoad, Asks
<1>7. ASSUME NEW r \in requests', r.kind = "root", r.gen = treeGeneration
      PROVE  /\ r.node = root /\ root # NoCursor /\ nodes'[root].loading /\ ~nodes'[root].loaded
             /\ childSessions'[BaseDn] = NoCursor
             /\ \A q \in requests' : q.gen = treeGeneration /\ nodes'[q.node].dn = BaseDn => q = r
  <2>1. r \in requests
    BY <1>7 DEF Asks
  <2>2. /\ r.node = root /\ root # NoCursor /\ nodes[root].loading /\ ~nodes[root].loaded
        /\ childSessions[BaseDn] = NoCursor
        /\ \A q \in requests : q.gen = treeGeneration /\ nodes[q.node].dn = BaseDn => q = r
    BY <2>1, <1>7 DEF FirstLoad
  <2>3. nodes'[root].loading /\ ~nodes'[root].loaded
    BY <2>2, <1>4 DEF Follows
  <2>4. ASSUME NEW q \in requests', q.gen = treeGeneration, nodes'[q.node].dn = BaseDn PROVE q = r
    <3>1. q \in requests
      BY <2>1, <2>4, <1>1, <1>7 DEF Asks
    <3> QED
      BY <3>1, <2>2, <2>4, <1>1
  <2> QED
    BY <2>2, <2>3, <2>4, <1>2
<1> QED
  BY <1>5, <1>6, <1>7 DEF FirstLoad

\* Such a step leaves the reveal as it is.
LEMMA CalmReveal ==
  ASSUME TreeInv, NEW E, Follows(E), Releases(E), NEW S, \A s \in S : s.kind \notin {"children", "next"},
         requests' \subseteq requests \cup S, UNCHANGED <<treeGeneration, shared, reveal>>
  PROVE  RevealOk'
<1> USE DEF TreeInv
<1>1. reveal.index \subseteq DOMAIN nodes' /\ (reveal.at # "idle" => reveal.node \in DOMAIN nodes')
  BY DEF RevealOk, Follows, Referred
<1>2. \A n \in reveal.index : nodes'[n].dn # BaseDn /\ (n \in InTree' => reveal.gen = treeGeneration)
  BY <1>1 DEF RevealOk, Follows
<1>3. reveal.at # "idle" => /\ reveal.gen \in Nat /\ reveal.gen <= treeGeneration
                            /\ reveal.node \in InTree' => reveal.gen = treeGeneration
  BY <1>1 DEF RevealOk, Follows
<1>4. \A r \in requests' : r.kind \in {"children", "next"} =>
       /\ reveal.at = "await" /\ r.node = reveal.node /\ r.gen = reveal.gen
       /\ \A q \in requests' : q.kind \in {"children", "next"} => q = r
  <2>1. \A r \in requests' : r.kind \in {"children", "next"} => r \in requests
    OBVIOUS
  <2> QED
    BY <2>1 DEF RevealOk
<1>5. ASSUME reveal.at = "walk", NEW m, m = reveal.node, Private(m)', ~nodes'[m].loaded PROVE SessionOf(m)' = NoCursor
  <2>1. m \in DOMAIN nodes' /\ m \in DOMAIN nodes
    BY <1>1, <1>5 DEF Follows
  <2>2. CASE m \in E
    BY <2>1, <2>2 DEF Releases
  <2>3. CASE m \notin E
    <3>1. Private(m) /\ ~nodes[m].loaded /\ nodes'[m].dn = nodes[m].dn
      BY <2>1, <2>3, <1>5 DEF Follows, Private
    <3>2. SessionOf(m) = NoCursor
      BY <3>1, <1>5 DEF RevealOk
    <3>3. nodes[m].dn \in DOMAIN Listing
      BY <2>1 DEF Shape, TreeForest, Forest, NodesTyped, Node
    <3> QED
      BY <3>1, <3>2, <3>3 DEF Releases, SessionOf
  <2> QED
    BY <2>2, <2>3
<1>6. (reveal.at = "walk" /\ Private(reveal.node) /\ ~nodes[reveal.node].loaded => SessionOf(reveal.node) = NoCursor)'
  <2> SUFFICES ASSUME reveal.at = "walk", Private(reveal.node)', ~nodes'[reveal.node].loaded
               PROVE  SessionOf(reveal.node)' = NoCursor
    OBVIOUS
  <2>1. PICK m : m = reveal.node
    OBVIOUS
  <2>2. SessionOf(m)' = NoCursor
    BY <2>1, <1>5 DEF Private
  <2> QED
    BY <2>1, <2>2 DEF SessionOf
<1> QED
  BY <1>1, <1>2, <1>3, <1>4, <1>6 DEF RevealOk

(* The ways to follow. *)

LEMMA MarkedSo ==
  ASSUME NEW ns, NodesTyped(ns), NEW n \in DOMAIN ns, NEW b \in BOOLEAN, NEW e \in BOOLEAN
  PROVE  /\ Marked(ns, ns) /\ Marked(ns, [ns EXCEPT ![n].loading = b]) /\ Marked(ns, [ns EXCEPT ![n].expanded = e])
         /\ Marked(ns, [ns EXCEPT ![n].loading = b, ![n].expanded = e])
<1>1. \A m \in DOMAIN ns : ns[m] \in Node
  BY DEF NodesTyped
<1>2. ASSUME NEW x \in Node, x.dn = ns[n].dn, x.children = ns[n].children, x.above = ns[n].above,
             x.loaded = ns[n].loaded, x.truncated = ns[n].truncated,
             NEW ms, ms = [m \in DOMAIN ns |-> IF m = n THEN x ELSE ns[m]]
      PROVE  Marked(ns, ms)
  <2>1. DOMAIN ms = DOMAIN ns /\ \A m \in DOMAIN ns : ms[m] = IF m = n THEN x ELSE ns[m]
    BY <1>2
  <2>2. ms \in [DOMAIN ns -> Node]
    BY <1>1, <1>2
  <2> QED
    BY <1>2, <2>1, <2>2 DEF Marked, SameShape
<1> DEFINE x1 == [ns[n] EXCEPT !.loading = b]
           x2 == [ns[n] EXCEPT !.expanded = e]
           x3 == [[ns[n] EXCEPT !.loading = b] EXCEPT !.expanded = e]
<1>3. ns = [m \in DOMAIN ns |-> ns[m]]
  BY DEF NodesTyped
<1>4. /\ x1 \in Node /\ x1.dn = ns[n].dn /\ x1.children = ns[n].children /\ x1.above = ns[n].above
      /\ x1.loaded = ns[n].loaded /\ x1.truncated = ns[n].truncated
  BY <1>1 DEF Node
<1>5. /\ x2 \in Node /\ x2.dn = ns[n].dn /\ x2.children = ns[n].children /\ x2.above = ns[n].above
      /\ x2.loaded = ns[n].loaded /\ x2.truncated = ns[n].truncated
  BY <1>1 DEF Node
<1>6. /\ x3 \in Node /\ x3.dn = ns[n].dn /\ x3.children = ns[n].children /\ x3.above = ns[n].above
      /\ x3.loaded = ns[n].loaded /\ x3.truncated = ns[n].truncated
  BY <1>1 DEF Node
<1>7. /\ [ns EXCEPT ![n].loading = b] = [m \in DOMAIN ns |-> IF m = n THEN x1 ELSE ns[m]]
      /\ [ns EXCEPT ![n].expanded = e] = [m \in DOMAIN ns |-> IF m = n THEN x2 ELSE ns[m]]
  BY <1>3
<1>8. [ns EXCEPT ![n].loading = b, ![n].expanded = e] = [m \in DOMAIN ns |-> IF m = n THEN x3 ELSE ns[m]]
  BY <1>3
<1>9. ns = [m \in DOMAIN ns |-> IF m = n THEN ns[n] ELSE ns[m]]
  BY <1>3
<1> HIDE DEF x1, x2, x3
<1> QED
  BY <1>1, <1>2, <1>4, <1>5, <1>6, <1>7, <1>8, <1>9

\* The tree stays what it was, or goes away, when nodes are only marked.
LEMMA CalmMarks ==
  ASSUME TreeForest, NEW ms, Marked(nodes, ms), root' \in {root, NoCursor}, Settle(ms)
  PROVE  Follows({}) /\ \A m \in DOMAIN nodes' : nodes'[m].loading = ms[m].loading
<1>1. RootIsBase(nodes, root') /\ DnsApart(nodes, root') /\ Below(nodes, {root'}) \subseteq InTree
  <2>1. CASE root' = root
    BY <2>1 DEF TreeForest, InTree
  <2>2. CASE root' = NoCursor
    <3>1. Below(nodes, {NoCursor}) = {}
      BY DEF TreeForest, Forest, NodesTyped, AboveIsLinear, Below
    <3> QED
      BY <2>2, <3>1 DEF RootIsBase, DnsApart, NoCursor
  <2> QED
    BY <2>1, <2>2
<1>2. /\ SettledOn(ms) /\ InTree' = Below(nodes, {root'}) /\ DOMAIN ms = DOMAIN nodes
      /\ \A n \in DOMAIN nodes' :
           /\ nodes'[n].dn = nodes[n].dn /\ nodes'[n].loaded = nodes[n].loaded /\ nodes'[n].truncated = nodes[n].truncated
           /\ nodes'[n].children = nodes[n].children /\ Got(nodes', n) = Got(nodes, n)
  BY <1>1, MarksKeep DEF TreeForest
<1> QED
  BY <1>1, <1>2 DEF Follows, SettledOn

\* One node is emptied, the others that are left are as they were.
LEMMA CalmEmpties ==
  ASSUME TreeForest, NEW n \in DOMAIN nodes, NEW ms, Marked(Emptied(n), ms), root' = root, Settle(ms)
  PROVE  /\ Follows({n}) /\ \A m \in DOMAIN nodes' : nodes'[m].loading = ms[m].loading
         /\ \A m \in DOMAIN nodes : Emptied(n)[m].loading = nodes[m].loading
<1> DEFINE es == Emptied(n)
<1>0. \A m \in DOMAIN nodes : es[m].loading = nodes[m].loading
  <2>1. \A m \in DOMAIN nodes : nodes[m] \in Node
    BY DEF TreeForest, Forest, NodesTyped
  <2> QED
    BY <2>1 DEF Emptied, Node
<1>1. Forest(es) /\ DOMAIN es = DOMAIN nodes /\ ~es[n].loaded /\ es[n].dn = nodes[n].dn
  BY EmptiedForest DEF TreeForest
<1>2. \A m \in DOMAIN nodes \ {n} : /\ es[m].dn = nodes[m].dn /\ es[m].loaded = nodes[m].loaded
                                     /\ es[m].truncated = nodes[m].truncated /\ es[m].children = nodes[m].children
  BY EmptiedForest DEF TreeForest
<1>3. Below(es, {root'}) \subseteq InTree /\ RootIsBase(es, root') /\ DnsApart(es, root')
  BY EmptiedTree DEF TreeForest, InTree
<1> HIDE DEF es
<1>4. \A m \in DOMAIN nodes \ {n} : Got(es, m) = Got(nodes, m)
  <2> SUFFICES ASSUME NEW m \in DOMAIN nodes \ {n} PROVE Got(es, m) = Got(nodes, m)
    OBVIOUS
  <2>1. \A c \in nodes[m].children : c \in DOMAIN nodes /\ es[c].dn = nodes[c].dn
    BY <1>1, <1>2 DEF TreeForest, Forest, ChildrenHang
  <2> QED
    BY <1>2, <2>1 DEF Got
<1>5. /\ SettledOn(ms) /\ InTree' = Below(es, {root'}) /\ DOMAIN ms = DOMAIN es
      /\ \A m \in DOMAIN nodes' :
           /\ nodes'[m].dn = es[m].dn /\ nodes'[m].loaded = es[m].loaded /\ nodes'[m].truncated = es[m].truncated
           /\ nodes'[m].children = es[m].children /\ Got(nodes', m) = Got(es, m)
  <2>1. Marked(es, ms)
    BY DEF es
  <2> QED
    BY <1>1, <1>3, <2>1, MarksKeep
<1>6. Follows({n})
  BY <1>1, <1>2, <1>3, <1>4, <1>5 DEF Follows, SettledOn
<1> QED
  BY <1>0, <1>5, <1>6 DEF SettledOn, es

\* The cursors below a node are given back with it; nobody else's are.
LEMMA CalmReleases ==
  ASSUME TreeInv, NEW from, releaseNodeSessions(from),
         \A m \in DOMAIN nodes' \cap DOMAIN nodes : nodes'[m].dn = nodes[m].dn
  PROVE  /\ Releases(from \cap DOMAIN nodes)
         /\ \A m \in from \cap DOMAIN nodes : childSessions'[nodes[m].dn] = NoCursor
<1> USE DEF TreeInv
<1> DEFINE dns == {nodes[n].dn : n \in Below(nodes, from)}
<1>1. /\ childSessions' = [d \in DOMAIN childSessions |-> IF d \in dns THEN NoCursor ELSE childSessions[d]]
      /\ cancelSearch({childSessions[d] : d \in dns} \ {NoCursor})
  BY DEF releaseNodeSessions
<1>2. childSessions \in [DOMAIN Listing -> Nat]
  BY DEF Shape, CursorsTyped
<1>3. \A m \in from \cap DOMAIN nodes : m \in Below(nodes, from) /\ nodes[m].dn \in dns
  BY DEF Below
<1>4. \A m \in DOMAIN nodes : nodes[m].dn \in DOMAIN Listing
  BY DEF Shape, TreeForest, Forest, NodesTyped, Node
<1> HIDE DEF dns
<1>5. \A m \in from \cap DOMAIN nodes : childSessions'[nodes[m].dn] = NoCursor
  BY <1>1, <1>2, <1>3, <1>4
<1>6. childSessions' \in [DOMAIN Listing -> Nat] /\ \A d \in DOMAIN Listing : childSessions'[d] \in {NoCursor, childSessions[d]}
  BY <1>1, <1>2 DEF NoCursor
<1>7. DOMAIN cursors' \subseteq DOMAIN cursors /\ cursors' = [c \in DOMAIN cursors' |-> cursors[c]]
  BY <1>1 DEF cancelSearch
<1>8. \A m \in (from \cap DOMAIN nodes) \cap DOMAIN nodes' : SessionOf(m)' = NoCursor
  BY <1>5 DEF SessionOf
<1> QED
  BY <1>5, <1>6, <1>7, <1>8 DEF Releases

\* No cursor is given back.
LEMMA NothingReleased ==
  ASSUME TreeInv, UNCHANGED <<childSessions, cursors>>
  PROVE  Releases({})
<1>1. childSessions \in [DOMAIN Listing -> Nat] /\ cursors = [c \in DOMAIN cursors |-> cursors[c]]
  BY DEF TreeInv, Shape, CursorsTyped
<1> QED
  BY <1>1 DEF Releases

(* What the user does. *)

LEMMA RequestTyped ==
  ASSUME NEW kind \in Starts \cup Nexts, NEW n \in Nat, NEW s \in Nat, NEW g \in Nat
  PROVE  LET q == Request(kind, n, s, g)
         IN q \in Waiting /\ q.kind = kind /\ q.node = n /\ q.session = s /\ q.gen = g /\ q.at = "sent"
BY DEF Request, Waiting
\* In the tree only the root is the base, and nobody expands it while it loads.
LEMMA BaseIsRoot ==
  ASSUME TreeInv, NEW n \in InTree
  PROVE  root # NoCursor /\ n \in DOMAIN nodes /\ (nodes[n].dn = BaseDn => n = root)
<1> USE DEF TreeInv
<1>1. n \in DOMAIN nodes /\ root \in {n} \cup nodes[n].above
  BY DEF InTree, Below
<1>2. root # NoCursor
  BY <1>1 DEF Shape, TreeForest, Forest, NodesTyped, AboveIsLinear
<1>3. root \in InTree /\ nodes[root].dn = BaseDn
  BY <1>2 DEF Shape, TreeForest, RootIsBase, InTree, Below
<1> QED
  BY <1>1, <1>2, <1>3 DEF Shape, TreeForest, DnsApart, InTree

\* A node in the tree that is not loading may be asked for its first page.
LEMMA AsksFor ==
  ASSUME TreeInv, NEW n \in InTree, ~nodes[n].loading, NEW kind \in {"toggle", "reload"}
  PROVE  Asks(Request(kind, n, NoCursor, treeGeneration))
<1> USE DEF TreeInv
<1> DEFINE q == Request(kind, n, NoCursor, treeGeneration)
<1>1. root # NoCursor /\ n \in DOMAIN nodes /\ (nodes[n].dn = BaseDn => n = root)
  BY BaseIsRoot
<1>2. n \in Nat /\ treeGeneration \in Nat /\ NoCursor \in Nat
  BY <1>1 DEF Shape, TreeForest, Forest, NodesTyped, RequestsTyped, NoCursor
<1>3. q \in Waiting /\ q.kind = kind /\ q.node = n /\ q.session = NoCursor /\ q.gen = treeGeneration /\ q.at = "sent"
  BY <1>2, RequestTyped DEF Starts
<1> HIDE DEF q
<1>4. nodes[n].dn = BaseDn => ~\E r \in requests : r.kind = "root" /\ r.gen = treeGeneration
  BY <1>1 DEF FirstLoad
<1>5. q.kind \in Starts \ {"root"}
  BY <1>3 DEF Starts
<1> QED
  BY <1>1, <1>2, <1>3, <1>4, <1>5 DEF Asks, q

\* A node is expanded or collapsed.
LEMMA ToggleKeeps ==
  ASSUME TreeInv, NEW n \in DOMAIN nodes, toggleNode(n)
  PROVE  TreeInv'
<1> USE DEF TreeInv
<1>1. n \in InTree /\ ~nodes[n].loading /\ UNCHANGED <<childSessions, cursors, root, treeGeneration, reveal, shared>>
  BY DEF toggleNode, Visible, Expand
<1>2. TreeForest /\ NodesTyped(nodes) /\ nodes[n] \in Node
  BY DEF Shape, TreeForest, Forest, NodesTyped
<1>3. PICK ms : /\ Settle(ms) /\ Marked(nodes, ms) /\ \A m \in DOMAIN nodes : nodes[m].loading => ms[m].loading
  <2>1. Settle([nodes EXCEPT ![n].loading = TRUE]) \/ Settle([nodes EXCEPT ![n].expanded = ~nodes[n].expanded])
    BY DEF toggleNode
  <2>2. /\ Marked(nodes, [nodes EXCEPT ![n].loading = TRUE])
        /\ Marked(nodes, [nodes EXCEPT ![n].expanded = ~nodes[n].expanded])
    <3>1. (~nodes[n].expanded) \in BOOLEAN
      OBVIOUS
    <3> QED
      BY <1>2, <3>1, MarkedSo
  <2>3. \A m \in DOMAIN nodes : /\ nodes[m].loading => [nodes EXCEPT ![n].loading = TRUE][m].loading
                                /\ nodes[m].loading => [nodes EXCEPT ![n].expanded = ~nodes[n].expanded][m].loading
    <3>1. \A m \in DOMAIN nodes : nodes[m] \in Node
      BY <1>2 DEF NodesTyped
    <3> QED
      BY <3>1 DEF Node
  <2> QED
    BY <2>1, <2>2, <2>3
<1>4. Follows({}) /\ \A m \in DOMAIN nodes' : nodes[m].loading => nodes'[m].loading
  <2>1. Follows({}) /\ \A m \in DOMAIN nodes' : nodes'[m].loading = ms[m].loading
    BY <1>1, <1>2, <1>3, CalmMarks
  <2> QED
    BY <2>1, <1>3 DEF Follows
<1>5. Releases({})
  BY <1>1, NothingReleased
<1>6. PICK S : /\ requests' = requests \cup S /\ \A s \in S : Asks(s) /\ s.kind \notin {"children", "next"}
               /\ IsFiniteSet(S)
  <2>1. CASE requests' = requests \cup {Request("toggle", n, NoCursor, treeGeneration)}
    <3>1. Asks(Request("toggle", n, NoCursor, treeGeneration))
      BY <1>1, AsksFor
    <3>2. Request("toggle", n, NoCursor, treeGeneration).kind = "toggle"
      BY DEF Request
    <3>3. IsFiniteSet({Request("toggle", n, NoCursor, treeGeneration)})
      BY FS_Singleton
    <3> QED
      BY <2>1, <3>1, <3>2, <3>3
  <2>2. CASE requests' = requests
    BY <2>2, FS_EmptySet
  <2> QED
    BY <2>1, <2>2 DEF toggleNode, Expand
<1>7. IsFiniteSet(requests')
  BY <1>6, FS_Union DEF Shape, RequestsTyped
<1>8. Shape' /\ Sessions' /\ Progress'
  BY <1>1, <1>4, <1>5, <1>6, <1>7, CalmKeeps
<1>9. FirstLoad'
  BY <1>1, <1>4, <1>5, <1>6, CalmFirstLoad
<1>10. RevealOk'
  BY <1>1, <1>4, <1>5, <1>6, CalmReveal
<1> QED
  BY <1>8, <1>9, <1>10

\* A node is emptied and its cursors are given back; at most its first page is asked for.
LEMMA EmptyKeeps ==
  ASSUME TreeInv, NEW n \in DOMAIN nodes, releaseNodeSessions({n}), UNCHANGED <<root, treeGeneration, reveal, shared>>,
         NEW ms, Settle(ms), Marked(Emptied(n), ms), \A m \in DOMAIN nodes : nodes[m].loading => ms[m].loading,
         NEW S, requests' = requests \cup S, IsFiniteSet(S), \A s \in S : Asks(s) /\ s.kind \notin {"children", "next"}
  PROVE  TreeInv'
<1> USE DEF TreeInv
<1>1. TreeForest
  BY DEF Shape
<1>2. Follows({n}) /\ \A m \in DOMAIN nodes' : nodes'[m].loading = ms[m].loading
  BY <1>1, CalmEmpties
<1>3. \A m \in DOMAIN nodes' : nodes[m].loading => nodes'[m].loading
  BY <1>2 DEF Follows
<1>4. Releases({n})
  <2>1. \A m \in DOMAIN nodes' \cap DOMAIN nodes : nodes'[m].dn = nodes[m].dn
    BY <1>2 DEF Follows
  <2>2. Releases({n} \cap DOMAIN nodes)
    BY <2>1, CalmReleases
  <2>3. {n} \cap DOMAIN nodes = {n}
    OBVIOUS
  <2> QED
    BY <2>2, <2>3
<1>5. IsFiniteSet(requests')
  BY FS_Union DEF Shape, RequestsTyped
<1>6. Shape' /\ Sessions' /\ Progress'
  BY <1>2, <1>4, <1>5, CalmKeeps
<1>7. FirstLoad'
  BY <1>2, <1>3, <1>4, CalmFirstLoad
<1>8. RevealOk'
  BY <1>2, <1>4, CalmReveal
<1> QED
  BY <1>6, <1>7, <1>8

\* The marks on an emptied node.
LEMMA EmptiedMarks ==
  ASSUME TreeInv, NEW n \in DOMAIN nodes
  PROVE  /\ Marked(Emptied(n), Emptied(n)) /\ Marked(Emptied(n), [Emptied(n) EXCEPT ![n].loading = TRUE])
         /\ \A m \in DOMAIN nodes : nodes[m].loading => /\ Emptied(n)[m].loading
                                                       /\ [Emptied(n) EXCEPT ![n].loading = TRUE][m].loading
<1> DEFINE es == Emptied(n)
<1>1. Forest(es) /\ DOMAIN es = DOMAIN nodes
  BY EmptiedForest DEF TreeInv, Shape, TreeForest
<1>2. \A m \in DOMAIN nodes : es[m] \in Node /\ nodes[m] \in Node
  BY <1>1 DEF Forest, NodesTyped, TreeInv, Shape, TreeForest
<1>3. \A m \in DOMAIN nodes : es[m].loading = nodes[m].loading
  BY <1>2 DEF Emptied, Node
<1> HIDE DEF es
<1>4. NodesTyped(es) /\ n \in DOMAIN es /\ TRUE \in BOOLEAN
  BY <1>1 DEF Forest
<1>5. Marked(es, es) /\ Marked(es, [es EXCEPT ![n].loading = TRUE])
  BY ONLY <1>4, MarkedSo
<1>6. \A m \in DOMAIN nodes : nodes[m].loading => es[m].loading /\ [es EXCEPT ![n].loading = TRUE][m].loading
  BY <1>1, <1>2, <1>3 DEF Node
<1> QED
  BY <1>5, <1>6 DEF es

\* A node is reloaded, also while its pages are on the way.
LEMMA ReloadKeeps ==
  ASSUME TreeInv, NEW n \in DOMAIN nodes, reloadNodeChildren(n)
  PROVE  TreeInv'
<1>1. n \in InTree /\ ~nodes[n].loading /\ releaseNodeSessions({n})
  BY DEF reloadNodeChildren, Visible
<1>2. CASE nodes[n].expanded
  <2> DEFINE q == Request("reload", n, NoCursor, treeGeneration)
             ms == [Emptied(n) EXCEPT ![n].loading = TRUE]
  <2>1. requests' = requests \cup {q} /\ UNCHANGED <<root, treeGeneration, reveal, shared>> /\ Settle(ms)
    BY <1>2 DEF reloadNodeChildren, Expand
  <2>2. Asks(q) /\ q.kind = "reload"
    BY <1>1, AsksFor DEF Request
  <2>3. Marked(Emptied(n), ms) /\ \A m \in DOMAIN nodes : nodes[m].loading => ms[m].loading
    BY EmptiedMarks
  <2>4. IsFiniteSet({q})
    BY FS_Singleton
  <2> HIDE DEF q, ms
  <2>5. \A s \in {q} : Asks(s) /\ s.kind \notin {"children", "next"}
    BY <2>2
  <2> QED
    BY <1>1, <2>1, <2>3, <2>4, <2>5, EmptyKeeps
<1>3. CASE ~nodes[n].expanded
  <2>1. requests' = requests \cup {} /\ UNCHANGED <<root, treeGeneration, reveal, shared>> /\ Settle(Emptied(n))
    BY <1>3 DEF reloadNodeChildren
  <2>2. Marked(Emptied(n), Emptied(n)) /\ \A m \in DOMAIN nodes : nodes[m].loading => Emptied(n)[m].loading
    BY EmptiedMarks
  <2>3. IsFiniteSet({}) /\ \A s \in {} : Asks(s) /\ s.kind \notin {"children", "next"}
    BY FS_EmptySet
  <2> QED
    BY <1>1, <2>1, <2>2, <2>3, EmptyKeeps
<1> QED
  BY <1>2, <1>3

\* A node is invalidated after a write.
LEMMA InvalidateKeeps ==
  ASSUME TreeInv, NEW n \in DOMAIN nodes, invalidate(n)
  PROVE  TreeInv'
<1>1. /\ requests' = requests \cup {} /\ UNCHANGED <<root, treeGeneration, reveal, shared>> /\ Settle(Emptied(n))
      /\ releaseNodeSessions({n})
  BY DEF invalidate
<1>2. Marked(Emptied(n), Emptied(n)) /\ \A m \in DOMAIN nodes : nodes[m].loading => Emptied(n)[m].loading
  BY EmptiedMarks
<1>3. IsFiniteSet({}) /\ \A s \in {} : Asks(s) /\ s.kind \notin {"children", "next"}
  BY FS_EmptySet
<1> QED
  BY <1>1, <1>2, <1>3, EmptyKeeps

(* The next page of a node is asked for. *)

SendsFrom(n, kind, gen, ms) ==
  /\ n \in DOMAIN nodes /\ kind \in Nexts /\ SendNext(n, kind, gen) /\ SessionOf(n) # NoCursor
  /\ UNCHANGED <<root, treeGeneration, childSessions, cursors>>
  /\ gen \in Nat /\ gen <= treeGeneration /\ (n \in InTree => gen = treeGeneration)
  /\ Private(n) => nodes[n].loaded
  /\ Settle(ms) /\ Marked(nodes, ms) /\ \A m \in DOMAIN nodes : nodes[m].loading => ms[m].loading

\* loadMore and revealDn keep all but what is said of the reveal.
LEMMA SendKeeps ==
  ASSUME TreeInv, NEW n, NEW kind, NEW gen, NEW ms, SendsFrom(n, kind, gen, ms)
  PROVE  Shape' /\ Sessions' /\ Progress' /\ FirstLoad' /\ Follows({})
<1> USE DEF TreeInv
<1>0. PICK s : s = Request(kind, n, SessionOf(n), gen)
  OBVIOUS
<1>1. n \in DOMAIN nodes /\ n \in Nat /\ nodes[n].dn \in DOMAIN Listing /\ gen \in Nat
  BY DEF SendsFrom, Shape, TreeForest, Forest, NodesTyped, Node
<1>2. SessionOf(n) \in Nat /\ SessionOf(n) # NoCursor
  BY <1>1 DEF SendsFrom, SessionOf, Shape, CursorsTyped
<1>3. s \in Waiting /\ s.kind = kind /\ s.node = n /\ s.session = SessionOf(n) /\ s.gen = gen /\ s.at = "sent"
  BY <1>0, <1>1, <1>2, RequestTyped DEF SendsFrom
<1>4. /\ requests' = requests \cup {s}
      /\ shared' = IF n \notin InTree \/ \E r \in requests : r.session = SessionOf(n)
                   THEN shared \cup {nodes[n].dn} ELSE shared
  BY <1>0 DEF SendsFrom, SendNext, SessionOf
<1>5. Follows({}) /\ \A m \in DOMAIN nodes' : nodes[m].loading => nodes'[m].loading
  <2>1. Follows({}) /\ \A m \in DOMAIN nodes' : nodes'[m].loading = ms[m].loading
    BY CalmMarks DEF SendsFrom, Shape
  <2> QED
    BY <2>1 DEF SendsFrom, Follows
<1>6. \A m \in DOMAIN nodes' : m \in DOMAIN nodes /\ (Private(m)' => Private(m)) /\ nodes'[m].dn = nodes[m].dn
                             /\ nodes'[m].loaded = nodes[m].loaded
  BY <1>4, <1>5 DEF Follows, Private
<1>7. \A r \in requests' : r.node \in DOMAIN nodes /\ r.node \in DOMAIN nodes'
  BY <1>1, <1>3, <1>4, <1>5 DEF Shape, RequestsTyped, Follows, Referred
<1>8. Sends(s)
  <2>1. s.kind \in Nexts /\ s.at = "sent" /\ s.node \in DOMAIN nodes /\ s.session = SessionOf(s.node) /\ s.session # NoCursor
    BY <1>1, <1>2, <1>3 DEF SendsFrom
  <2>2. /\ shared \subseteq shared'
        /\ s.node \notin InTree \/ (\E q \in requests : q.session = s.session) => nodes[s.node].dn \in shared'
    BY <1>3, <1>4
  <2>3. Private(s.node)' => nodes'[s.node].loaded
    <3>1. n \in DOMAIN nodes' /\ s.node = n
      BY <1>3, <1>4, <1>7
    <3>2. Private(n)' => nodes'[n].loaded
      BY <3>1, <1>6 DEF SendsFrom
    <3> QED
      BY <3>1, <3>2 DEF Private
  <2> QED
    BY <2>1, <2>2, <2>3, <1>4, <1>5 DEF Sends, Follows, SendsFrom
<1>9. RequestsTyped'
  <2>1. IsFiniteSet(requests')
    BY <1>4, FS_AddElement DEF Shape, RequestsTyped
  <2>2. requests' \subseteq Waiting \cup Answer
    BY <1>3, <1>4 DEF Shape, RequestsTyped
  <2>3. ASSUME NEW r \in requests'
        PROVE  /\ r.gen <= treeGeneration /\ (r.node \in InTree' => r.gen = treeGeneration)
               /\ r.kind \in Nexts => r.session # NoCursor
               /\ r.kind \in Starts /\ r.at # "answered" => r.session = NoCursor
    <3>0. r.node \in InTree' => r.node \in InTree
      BY <1>5, <1>7 DEF Follows
    <3>1. CASE r \in requests
      BY <3>0, <3>1 DEF Shape, RequestsTyped
    <3>2. CASE r = s
      BY <3>0, <3>2, <1>2, <1>3 DEF SendsFrom, Starts, Nexts
    <3> QED
      BY <3>1, <3>2, <1>4
  <2> QED
    BY <2>1, <2>2, <2>3, <1>7 DEF Shape, RequestsTyped, SendsFrom
<1>10. Shape'
  BY <1>5, <1>9 DEF Shape, Follows, CursorsTyped, SendsFrom
<1>11. Sessions' /\ Progress'
  BY <1>8, <1>10, SendsKeepsSessions, SendsKeepsProgress
<1>12. root \in DOMAIN nodes \/ root = NoCursor
  BY DEF Shape, TreeForest, RootIsBase
<1>13. root # NoCursor => root \in DOMAIN nodes'
  BY <1>5 DEF Follows, TreeForest, RootIsBase, SendsFrom
<1>14. root' = root /\ childSessions' = childSessions /\ treeGeneration' = treeGeneration
  BY DEF SendsFrom
<1>15. root # NoCursor /\ ~nodes'[root].loaded /\ BaseDn \notin shared' => childSessions[BaseDn] = NoCursor
  BY <1>4, <1>6, <1>13 DEF FirstLoad
<1>16. nodes[n].dn = BaseDn => childSessions[BaseDn] # NoCursor
  BY <1>2 DEF SessionOf
<1>17. root = NoCursor => /\ childSessions[BaseDn] = NoCursor
                          /\ \A r \in requests' : nodes'[r.node].dn = BaseDn => r.gen # treeGeneration
  BY <1>3, <1>4, <1>6, <1>7, <1>16 DEF FirstLoad
<1>18. ASSUME NEW r \in requests', r.kind = "root", r.gen = treeGeneration
       PROVE  /\ r.node = root /\ root # NoCursor /\ nodes'[root].loading /\ ~nodes'[root].loaded
              /\ childSessions[BaseDn] = NoCursor
              /\ \A q \in requests' : q.gen = treeGeneration /\ nodes'[q.node].dn = BaseDn => q = r
  <2>1. r \in requests
    BY <1>18, <1>3, <1>4 DEF SendsFrom, Nexts
  <2>2. /\ r.node = root /\ root # NoCursor /\ nodes[root].loading /\ ~nodes[root].loaded
        /\ childSessions[BaseDn] = NoCursor
        /\ \A q \in requests : q.gen = treeGeneration /\ nodes[q.node].dn = BaseDn => q = r
    BY <2>1, <1>18 DEF FirstLoad
  <2>3. nodes'[root].loading /\ ~nodes'[root].loaded
    BY <2>2, <1>5, <1>6, <1>13
  <2>4. \A q \in requests' : q.gen = treeGeneration /\ nodes'[q.node].dn = BaseDn => q = r
    BY <2>2, <1>3, <1>4, <1>6, <1>7, <1>16
  <2> QED
    BY <2>2, <2>3, <2>4
<1>19. FirstLoad'
  BY <1>14, <1>15, <1>17, <1>18 DEF FirstLoad
<1> QED
  BY <1>5, <1>10, <1>11, <1>19

\* A node that is marked as loading.
LEMMA LoadingMarks ==
  ASSUME TreeInv, NEW n \in DOMAIN nodes
  PROVE  /\ Marked(nodes, [nodes EXCEPT ![n].loading = TRUE])
         /\ \A m \in DOMAIN nodes : nodes[m].loading => [nodes EXCEPT ![n].loading = TRUE][m].loading
<1>1. NodesTyped(nodes) /\ TRUE \in BOOLEAN
  BY DEF TreeInv, Shape, TreeForest, Forest
<1>2. Marked(nodes, [nodes EXCEPT ![n].loading = TRUE])
  BY ONLY <1>1, n \in DOMAIN nodes, MarkedSo
<1>3. \A m \in DOMAIN nodes : nodes[m] \in Node
  BY <1>1 DEF NodesTyped
<1> QED
  BY <1>2, <1>3 DEF Node

\* The user loads more of a node.
LEMMA LoadMoreKeeps ==
  ASSUME TreeInv, NEW n \in DOMAIN nodes, loadMore(n)
  PROVE  TreeInv'
<1> USE DEF TreeInv
<1> DEFINE ms == [nodes EXCEPT ![n].loading = TRUE]
<1>1. n \in InTree /\ nodes[n].loaded /\ treeGeneration \in Nat
  BY DEF loadMore, Visible, Shape, TreeForest, Forest, UnloadedIsBare, RequestsTyped
<1>2. Marked(nodes, ms) /\ \A m \in DOMAIN nodes : nodes[m].loading => ms[m].loading
  BY LoadingMarks
<1>3. Settle(ms)
  BY DEF loadMore
<1> HIDE DEF ms
<1>4. SendsFrom(n, "more", treeGeneration, ms)
  BY <1>1, <1>2, <1>3 DEF loadMore, SendsFrom, SessionOf, Nexts
<1>5. Shape' /\ Sessions' /\ Progress' /\ FirstLoad' /\ Follows({})
  BY <1>4, SendKeeps
<1>6. UNCHANGED <<reveal, treeGeneration, childSessions>> /\ shared \subseteq shared'
  BY DEF loadMore, SendNext
<1>7. \A m \in DOMAIN nodes' : /\ nodes'[m].dn = nodes[m].dn /\ (m \in InTree' => m \in InTree)
                               /\ nodes'[m].loaded = nodes[m].loaded /\ (Private(m)' => Private(m))
                               /\ SessionOf(m)' = SessionOf(m)
  BY <1>5, <1>6 DEF Follows, Private, SessionOf
<1>8. reveal.index \subseteq DOMAIN nodes' /\ (reveal.at # "idle" => reveal.node \in DOMAIN nodes')
  BY <1>5, <1>6 DEF RevealOk, Follows, Referred
<1>9. \A m \in reveal.index : nodes'[m].dn # BaseDn /\ (m \in InTree' => reveal.gen = treeGeneration)
  BY <1>7, <1>8 DEF RevealOk
<1>10. reveal.at # "idle" => /\ reveal.gen \in Nat /\ reveal.gen <= treeGeneration
                             /\ reveal.node \in InTree' => reveal.gen = treeGeneration
  BY <1>7, <1>8 DEF RevealOk
<1>11. \A r \in requests' : r.kind \in {"children", "next"} =>
       /\ reveal.at = "await" /\ r.node = reveal.node /\ r.gen = reveal.gen
       /\ \A q \in requests' : q.kind \in {"children", "next"} => q = r
  <2>1. \A r \in requests' : r.kind \in {"children", "next"} => r \in requests
    BY DEF loadMore, SendNext, Request
  <2> QED
    BY <2>1 DEF RevealOk
<1>12. (reveal.at = "walk" /\ Private(reveal.node) /\ ~nodes[reveal.node].loaded => SessionOf(reveal.node) = NoCursor)'
  <2> SUFFICES ASSUME reveal.at = "walk", Private(reveal.node)', ~nodes'[reveal.node].loaded
               PROVE  SessionOf(reveal.node)' = NoCursor
    BY <1>6
  <2>1. PICK m : m = reveal.node
    OBVIOUS
  <2>2. m \in DOMAIN nodes' /\ Private(m)' /\ ~nodes'[m].loaded
    BY <2>1, <1>6, <1>8 DEF Private
  <2>3. Private(m) /\ ~nodes[m].loaded /\ SessionOf(m)' = SessionOf(m)
    BY <2>2, <1>7
  <2>4. SessionOf(m)' = NoCursor
    BY <2>1, <2>3 DEF RevealOk
  <2> QED
    BY <2>1, <2>4, <1>6 DEF SessionOf
<1>13. RevealOk'
  BY <1>6, <1>8, <1>9, <1>10, <1>11, <1>12 DEF RevealOk
<1> QED
  BY <1>5, <1>13

\* A reveal asks for the next page of the node it looks into.
LEMMA RevealOnKeeps ==
  ASSUME TreeInv, RevealOn
  PROVE  TreeInv'
<1> USE DEF TreeInv
<1>0. PICK n : n = reveal.node
  OBVIOUS
<1> DEFINE ms == [nodes EXCEPT ![n].loading = TRUE]
<1>1. /\ reveal.at = "walk" /\ n \in DOMAIN nodes /\ reveal.gen \in Nat /\ reveal.gen <= treeGeneration
      /\ n \in InTree => reveal.gen = treeGeneration
  BY <1>0 DEF RevealOn, RevealOk
<1>2. Marked(nodes, ms) /\ \A m \in DOMAIN nodes : nodes[m].loading => ms[m].loading
  BY <1>1, LoadingMarks
<1>3. Settle(ms) /\ SendNext(n, "next", reveal.gen) /\ SessionOf(n) # NoCursor
  BY <1>0 DEF RevealOn, SessionOf
<1>4. Private(n) => nodes[n].loaded
  BY <1>0, <1>1, <1>3 DEF RevealOk, Private, SessionOf
<1> HIDE DEF ms
<1>5. SendsFrom(n, "next", reveal.gen, ms)
  BY <1>1, <1>2, <1>3, <1>4 DEF RevealOn, SendsFrom, Nexts
<1>6. Shape' /\ Sessions' /\ Progress' /\ FirstLoad' /\ Follows({})
  BY <1>5, SendKeeps
<1>7. /\ {"at", "node", "index"} \subseteq DOMAIN reveal' /\ reveal'.at = "await" /\ reveal'.node = n /\ reveal'.gen = reveal.gen
      /\ reveal'.index \subseteq reveal.index \cup nodes[n].children
  BY <1>0 DEF RevealOn, RevealOk
<1>8. \A m \in nodes[n].children : m \in DOMAIN nodes /\ nodes[m].dn # BaseDn /\ (m \in InTree => n \in InTree)
  <2> SUFFICES ASSUME NEW m \in nodes[n].children
               PROVE  m \in DOMAIN nodes /\ nodes[m].dn # BaseDn /\ (m \in InTree => n \in InTree)
    OBVIOUS
  <2>1. m \in DOMAIN nodes /\ nodes[m].dn \in Under(nodes[n].dn) /\ nodes[n].dn \in DOMAIN Listing
    BY <1>1 DEF Shape, TreeForest, Forest, ChildrenHang, NodesTyped, Node
  <2>2. m \in InTree => n \in InTree
    BY <1>1, ChildInTree DEF Shape, TreeForest, InTree
  <2> QED
    BY <2>1, <2>2, UnderTypes
<1>9. \A m \in reveal'.index : m \in DOMAIN nodes /\ nodes[m].dn # BaseDn /\ (m \in InTree => reveal.gen = treeGeneration)
  BY <1>1, <1>7, <1>8 DEF RevealOk
<1>10. \A m \in DOMAIN nodes : m \in reveal'.index \cup {n} => m \in DOMAIN nodes'
  BY <1>6, <1>7 DEF Follows, Referred
<1>11. treeGeneration' = treeGeneration /\ \A m \in DOMAIN nodes' : nodes'[m].dn = nodes[m].dn /\ (m \in InTree' => m \in InTree)
  BY <1>6 DEF RevealOn, Follows
<1>12. \A m \in reveal'.index : m \in DOMAIN nodes' /\ nodes'[m].dn # BaseDn /\ (m \in InTree' => reveal'.gen = treeGeneration')
  BY <1>7, <1>9, <1>10, <1>11
<1>13. \A r \in requests : r.kind \notin {"children", "next"}
  BY <1>1 DEF RevealOk
<1>14. PICK s : requests' = requests \cup {s} /\ s.node = n /\ s.gen = reveal.gen
  <2>1. PICK s : s = Request("next", n, childSessions[nodes[n].dn], reveal.gen)
    OBVIOUS
  <2>2. requests' = requests \cup {s}
    BY <1>3, <2>1 DEF SendNext
  <2>3. s.node = n /\ s.gen = reveal.gen
    BY <2>1 DEF Request
  <2> QED
    BY <2>2, <2>3
<1>15. \A r \in requests' : r.kind \in {"children", "next"} =>
       /\ reveal'.at = "await" /\ r.node = reveal'.node /\ r.gen = reveal'.gen
       /\ \A q \in requests' : q.kind \in {"children", "next"} => q = r
  BY <1>7, <1>13, <1>14
<1>16. /\ reveal'.node \in DOMAIN nodes' /\ reveal'.gen \in Nat /\ reveal'.gen <= treeGeneration'
       /\ reveal'.node \in InTree' => reveal'.gen = treeGeneration'
  BY <1>1, <1>7, <1>10, <1>11
<1>17. (reveal.at = "walk" /\ Private(reveal.node) /\ ~nodes[reveal.node].loaded => SessionOf(reveal.node) = NoCursor)'
  BY <1>7
<1>18. RevealOk'
  BY <1>7, <1>12, <1>15, <1>16, <1>17 DEF RevealOk
<1> QED
  BY <1>6, <1>18

(* The reveal walks on. *)

LEMMA NoRevealIsOk ==
  ASSUME reveal' = NoReveal, \A r \in requests' : r.kind \notin {"children", "next"}
  PROVE  RevealOk'
BY DEF RevealOk, NoReveal

\* A reveal that goes one level down is at a node that is still there.
LEMMA WalksTo ==
  ASSUME TreeInv, Follows({}), reveal.at = "walk", UNCHANGED treeGeneration,
         NEW n \in DOMAIN nodes, n \in InTree => reveal.gen = treeGeneration,
         {"at", "node", "index"} \subseteq DOMAIN reveal', reveal'.node = n, reveal'.index = {}, reveal'.gen = reveal.gen,
         \/ reveal'.at = "walk" /\ nodes[n].loaded /\ requests' = requests
         \/ reveal'.at = "await" /\ \E s : requests' = requests \cup {s} /\ s.node = n /\ s.gen = reveal.gen
  PROVE  RevealOk'
<1> USE DEF TreeInv
<1>1. \A r \in requests : r.kind \notin {"children", "next"}
  BY DEF RevealOk
<1>2. n \in DOMAIN nodes' /\ nodes'[n].loaded = nodes[n].loaded /\ (n \in InTree' => n \in InTree)
  BY DEF Follows, Referred
<1>3. reveal.gen \in Nat /\ reveal.gen <= treeGeneration
  BY DEF RevealOk
<1>4. \A r \in requests' : r.kind \in {"children", "next"} =>
       /\ reveal'.at = "await" /\ r.node = reveal'.node /\ r.gen = reveal'.gen
       /\ \A q \in requests' : q.kind \in {"children", "next"} => q = r
  BY <1>1
<1>5. (reveal.at = "walk" /\ Private(reveal.node) /\ ~nodes[reveal.node].loaded => SessionOf(reveal.node) = NoCursor)'
  BY <1>2
<1> QED
  BY <1>2, <1>3, <1>4, <1>5 DEF RevealOk

\* The node that a reveal found hangs below the one it looked into.
LEMMA FoundIsBelow ==
  ASSUME TreeInv, reveal.at = "walk", NEW n \in Found
  PROVE  n \in DOMAIN nodes /\ nodes[n].dn # BaseDn /\ (n \in InTree => reveal.gen = treeGeneration)
<1> USE DEF TreeInv
<1>0. PICK p : p = reveal.node
  OBVIOUS
<1>1. p \in DOMAIN nodes /\ (p \in InTree => reveal.gen = treeGeneration)
  BY <1>0 DEF RevealOk
<1>2. n \in reveal.index \/ n \in nodes[p].children
  BY <1>0 DEF Found, findChildByDn
<1>3. ASSUME n \in nodes[p].children
      PROVE  n \in DOMAIN nodes /\ nodes[n].dn # BaseDn /\ (n \in InTree => reveal.gen = treeGeneration)
  <2>1. n \in DOMAIN nodes /\ nodes[n].dn \in Under(nodes[p].dn) /\ nodes[p].dn \in DOMAIN Listing
    BY <1>1, <1>3 DEF Shape, TreeForest, Forest, ChildrenHang, NodesTyped, Node
  <2>2. n \in InTree => p \in InTree
    BY <1>1, <1>3, ChildInTree DEF Shape, TreeForest, InTree
  <2> QED
    BY <1>1, <2>1, <2>2, UnderTypes
<1> QED
  BY <1>2, <1>3 DEF RevealOk

\* A reveal goes down to the node it found.
LEMMA RevealDownKeeps ==
  ASSUME TreeInv, RevealDown
  PROVE  TreeInv'
<1> USE DEF TreeInv
<1>0. PICK n : n = CHOOSE x \in Found : TRUE
  OBVIOUS
<1>1. n \in Found /\ reveal.at = "walk" /\ UNCHANGED <<root, treeGeneration, childSessions, cursors, shared>>
  BY <1>0 DEF RevealDown
<1>2. n \in DOMAIN nodes /\ nodes[n].dn # BaseDn /\ (n \in InTree => reveal.gen = treeGeneration)
  BY <1>1, FoundIsBelow
<1>3. /\ {"at", "node", "index"} \subseteq DOMAIN reveal /\ reveal.gen \in Nat /\ reveal.gen <= treeGeneration
      /\ \A r \in requests : r.kind \notin {"children", "next"}
  BY <1>1 DEF RevealOk
<1>4. Releases({}) /\ TreeForest /\ NodesTyped(nodes) /\ TRUE \in BOOLEAN
  BY <1>1, NothingReleased DEF Shape, TreeForest, Forest
<1>5. ASSUME NEW ms, Marked(nodes, ms), \A m \in DOMAIN nodes : nodes[m].loading => ms[m].loading, Settle(ms),
             NEW S, requests' = requests \cup S, IsFiniteSet(S), \A s \in S : Asks(s)
      PROVE  Shape' /\ Sessions' /\ Progress' /\ FirstLoad' /\ Follows({})
  <2>1. Follows({}) /\ \A m \in DOMAIN nodes' : nodes'[m].loading = ms[m].loading
    BY <1>1, <1>4, <1>5, CalmMarks
  <2>2. \A m \in DOMAIN nodes' : nodes[m].loading => nodes'[m].loading
    BY <2>1, <1>5 DEF Follows
  <2>3. IsFiniteSet(requests')
    BY <1>5, FS_Union DEF Shape, RequestsTyped
  <2>4. Shape' /\ Sessions' /\ Progress'
    BY <1>1, <1>4, <1>5, <2>1, <2>3, CalmKeeps
  <2>5. FirstLoad'
    BY <1>1, <1>4, <1>5, <2>1, <2>2, CalmFirstLoad
  <2> QED
    BY <2>1, <2>4, <2>5
<1>6. IsFiniteSet({}) /\ \A s \in {} : Asks(s)
  BY FS_EmptySet
<1>7. CASE IsLast
  <2>1. reveal' = NoReveal /\ requests' = requests /\ Settle(nodes)
    BY <1>7 DEF RevealDown
  <2>2. Marked(nodes, nodes)
    BY <1>2, <1>4, MarkedSo
  <2>3. Shape' /\ Sessions' /\ Progress' /\ FirstLoad'
    BY <1>5, <1>6, <2>1, <2>2
  <2>4. RevealOk'
    BY <2>1, <1>3, NoRevealIsOk
  <2> QED
    BY <2>3, <2>4
<1>8. CASE ~IsLast /\ nodes[n].loaded
  <2> DEFINE ms == [nodes EXCEPT ![n].expanded = TRUE]
  <2>1. /\ requests' = requests /\ Settle(ms)
        /\ reveal' = [reveal EXCEPT !.node = n, !.level = reveal.level + 1, !.pages = 0, !.index = {}]
    BY <1>0, <1>8 DEF RevealDown
  <2>2. Marked(nodes, ms)
    BY ONLY <1>2, <1>4, MarkedSo
  <2>3. \A m \in DOMAIN nodes : nodes[m].loading => ms[m].loading
    <3>1. \A m \in DOMAIN nodes : nodes[m] \in Node
      BY <1>4 DEF NodesTyped
    <3> QED
      BY <3>1 DEF Node
  <2> HIDE DEF ms
  <2>4. Shape' /\ Sessions' /\ Progress' /\ FirstLoad' /\ Follows({})
    BY <1>5, <1>6, <2>1, <2>2, <2>3
  <2>5. /\ {"at", "node", "index"} \subseteq DOMAIN reveal' /\ reveal'.node = n /\ reveal'.index = {}
        /\ reveal'.gen = reveal.gen /\ reveal'.at = "walk"
    BY <2>1, <1>1, <1>3
  <2>6. RevealOk'
    BY <1>1, <1>2, <1>8, <2>1, <2>4, <2>5, WalksTo
  <2> QED
    BY <2>4, <2>6
<1>9. CASE ~IsLast /\ ~nodes[n].loaded
  <2> DEFINE ms == [nodes EXCEPT ![n].loading = TRUE]
             on == [reveal EXCEPT !.node = n, !.level = reveal.level + 1, !.pages = 0, !.index = {}]
  <2>0. PICK s : s = Request("children", n, NoCursor, reveal.gen)
    OBVIOUS
  <2>1. requests' = requests \cup {s} /\ Settle(ms) /\ reveal' = [on EXCEPT !.at = "await"]
    BY <1>0, <1>9, <2>0 DEF RevealDown
  <2>2. Marked(nodes, ms) /\ \A m \in DOMAIN nodes : nodes[m].loading => ms[m].loading
    BY <1>2, LoadingMarks
  <2>3. {"at", "node", "index"} \subseteq DOMAIN on /\ on.node = n /\ on.index = {} /\ on.gen = reveal.gen
    BY <1>3
  <2> HIDE DEF ms, on
  <2>4. /\ {"at", "node", "index"} \subseteq DOMAIN reveal' /\ reveal'.node = n /\ reveal'.index = {}
        /\ reveal'.gen = reveal.gen /\ reveal'.at = "await"
    BY <2>1, <2>3
  <2>5. /\ s \in Waiting /\ s.kind = "children" /\ s.node = n /\ s.session = NoCursor /\ s.gen = reveal.gen /\ s.at = "sent"
    <3>1. n \in Nat /\ NoCursor \in Nat /\ "children" \in Starts \cup Nexts
      BY <1>2, <1>4 DEF NodesTyped, NoCursor, Starts
    <3> QED
      BY <3>1, <1>3, <2>0, RequestTyped
  <2>6. Asks(s)
    BY <2>5, <1>2, <1>3 DEF Asks, Starts
  <2>7. Shape' /\ Sessions' /\ Progress' /\ FirstLoad' /\ Follows({})
    <3>1. IsFiniteSet({s}) /\ \A q \in {s} : Asks(q)
      BY <2>6, FS_Singleton
    <3> QED
      BY <3>1, <1>5, <2>1, <2>2
  <2>8. RevealOk'
    BY <1>1, <1>2, <2>1, <2>4, <2>5, <2>7, WalksTo
  <2> QED
    BY <2>7, <2>8
<1> QED
  BY <1>7, <1>8, <1>9

\* A reveal gives up.
LEMMA RevealMissedKeeps ==
  ASSUME TreeInv, RevealMissed
  PROVE  TreeInv'
<1> USE DEF TreeInv
<1>1. /\ reveal.at = "walk" /\ reveal' = NoReveal /\ Settle(nodes)
      /\ UNCHANGED <<root, treeGeneration, childSessions, cursors, requests, shared>>
  BY DEF RevealMissed
<1>2. TreeForest /\ NodesTyped(nodes) /\ nodes = [m \in DOMAIN nodes |-> nodes[m]]
  BY DEF Shape, TreeForest, Forest, NodesTyped
<1>3. Marked(nodes, nodes)
  BY <1>2 DEF Marked, SameShape, NodesTyped
<1>4. Follows({}) /\ \A m \in DOMAIN nodes' : nodes'[m].loading = nodes[m].loading
  BY <1>1, <1>2, <1>3, CalmMarks
<1>5. Releases({}) /\ requests' \subseteq requests \cup {} /\ IsFiniteSet(requests') /\ \A s \in {} : Asks(s)
  BY <1>1, NothingReleased DEF Shape, RequestsTyped
<1>6. Shape' /\ Sessions' /\ Progress'
  BY <1>1, <1>4, <1>5, CalmKeeps
<1>7. FirstLoad'
  BY <1>1, <1>4, <1>5, CalmFirstLoad
<1>8. RevealOk'
  BY <1>1, NoRevealIsOk DEF RevealOk
<1> QED
  BY <1>6, <1>7, <1>8

\* A reveal starts at the root.
LEMMA RevealDnKeeps ==
  ASSUME TreeInv, NEW chain, revealDn(chain)
  PROVE  TreeInv'
<1> USE DEF TreeInv
<1>1. /\ root # NoCursor /\ reveal.at = "idle"
      /\ UNCHANGED <<nodes, root, treeGeneration, childSessions, cursors, requests, shared>>
      /\ reveal' = [at |-> "walk", chain |-> chain, level |-> 2, node |-> root, gen |-> treeGeneration,
                    index |-> {}, pages |-> 0]
  BY DEF revealDn
<1>2. InTree' = InTree /\ (\A n : Private(n)' <=> Private(n)) /\ \A n : SessionOf(n)' = SessionOf(n)
  BY <1>1 DEF InTree, Private, SessionOf
<1>3. Shape'
  BY <1>1, <1>2 DEF Shape, TreeForest, RequestsTyped, CursorsTyped
<1>4. Sessions'
  BY <1>1 DEF Sessions, SessionsApart, CursorOfDn, StartsOk, NextsOk
<1>5. Progress'
  <2>1. CompleteWhenDone' /\ NextIsLoaded' /\ OneReader' /\ CursorFollows'
    BY <1>1, <1>2 DEF Progress, CompleteWhenDone, NextIsLoaded, OneReader, CursorFollows
  <2>2. PageFollows'
    BY <1>1, <1>2 DEF Progress, PageFollows, PageAt
  <2> QED
    BY <2>1, <2>2 DEF Progress
<1>6. FirstLoad'
  BY <1>1 DEF FirstLoad
<1>7. root \in DOMAIN nodes /\ nodes[root].dn = BaseDn /\ treeGeneration \in Nat
  BY <1>1 DEF Shape, TreeForest, RootIsBase, RequestsTyped
<1>8. (reveal.at = "walk" /\ Private(reveal.node) /\ ~nodes[reveal.node].loaded => SessionOf(reveal.node) = NoCursor)'
  <2> SUFFICES ASSUME Private(root)', ~nodes[root].loaded PROVE SessionOf(root)' = NoCursor
    BY <1>1 DEF Private, SessionOf
  <2>1. BaseDn \notin shared
    BY <1>1, <1>7 DEF Private
  <2>2. childSessions[BaseDn] = NoCursor
    BY <1>1, <2>1 DEF FirstLoad
  <2> QED
    BY <1>1, <1>7, <2>2 DEF SessionOf
<1>9. RevealOk'
  <2>1. \A r \in requests' : r.kind \notin {"children", "next"}
    BY <1>1 DEF RevealOk
  <2> QED
    BY <1>1, <1>7, <1>8, <2>1 DEF RevealOk
<1> QED
  BY <1>3, <1>4, <1>5, <1>6, <1>9

(* A request fails, or its answer comes too late. *)

LEMMA FailKeeps ==
  ASSUME TreeInv, NEW r \in requests, Fail(r)
  PROVE  TreeInv'
<1> USE DEF TreeInv
<1>0. PICK a : a = [r EXCEPT !.at = "failed"]
  OBVIOUS
<1>1. /\ r.at = "sent" /\ requests' = (requests \ {r}) \cup {a}
      /\ UNCHANGED <<nodes, root, treeGeneration, childSessions, cursors, reveal, shared>>
  BY <1>0 DEF Fail
<1>2. r \in Waiting
  BY <1>1 DEF Shape, RequestsTyped, Answer
<1>3. a \in Waiting /\ a.kind = r.kind /\ a.node = r.node /\ a.gen = r.gen /\ a.session = r.session /\ a.at = "failed"
  BY <1>0, <1>2 DEF Waiting
<1>4. RevealOk' /\ FirstLoad'
  BY <1>1, <1>3, AnswerKeeps DEF Replaces
<1>5. InTree' = InTree /\ (\A n : Private(n)' <=> Private(n)) /\ \A n : SessionOf(n)' = SessionOf(n)
  BY <1>1 DEF InTree, Private, SessionOf
<1>6. RequestsTyped'
  <2>1. IsFiniteSet(requests')
    <3>1. IsFiniteSet(requests \ {r})
      BY FS_Subset DEF Shape, RequestsTyped
    <3> QED
      BY <1>1, <3>1, FS_AddElement
  <2>2. \A q \in requests' :
         /\ q \in Waiting \cup Answer /\ q.node \in DOMAIN nodes'
         /\ q.gen <= treeGeneration' /\ (q.node \in InTree' => q.gen = treeGeneration')
         /\ q.kind \in Nexts => q.session # NoCursor
         /\ q.kind \in Starts /\ q.at # "answered" => q.session = NoCursor
    BY <1>1, <1>3, <1>5 DEF Shape, RequestsTyped
  <2> QED
    BY <1>1, <2>1, <2>2 DEF Shape, RequestsTyped
<1>7. Shape'
  BY <1>1, <1>6 DEF Shape, TreeForest, CursorsTyped
<1>8. Shrink
  <2>1. \A d \in DOMAIN Listing : childSessions'[d] \in {NoCursor, childSessions[d]}
    BY <1>1
  <2>2. \A q \in requests' : \/ q \in requests
                             \/ \E p \in requests \ requests' : q = [p EXCEPT !.at = "failed"] /\ p.at = "sent"
    <3>1. r \in requests \ requests'
      BY <1>1, <1>3
    <3> QED
      BY <1>0, <1>1, <3>1
  <2>3. \A n \in DOMAIN nodes' : Private(n)' =>
         \/ ~nodes'[n].loaded /\ SessionOf(n)' = NoCursor
         \/ /\ n \in DOMAIN nodes /\ Private(n)
            /\ nodes'[n].loaded = nodes[n].loaded /\ nodes'[n].truncated = nodes[n].truncated
            /\ Got(nodes', n) = Got(nodes, n)
    BY <1>1, <1>5
  <2>4. \A q \in requests \ requests' : q.at # "answered"
    BY <1>1
  <2> QED
    BY <1>1, <2>1, <2>2, <2>3, <2>4 DEF Shrink
<1> QED
  BY <1>4, <1>7, <1>8, ShrinkKeepsSessions, ShrinkKeepsProgress

\* An answer that is dropped leaves at most the loading flag of its node.
LEMMA AfterIsMarked ==
  ASSUME TreeInv, NEW r \in requests, ~IsApplied(r)
  PROVE  /\ Marked(nodes, NodeAfter(nodes, r))
         /\ \A m \in DOMAIN nodes : ~(m = r.node /\ nodeIsCurrent(r)) => NodeAfter(nodes, r)[m].loading = nodes[m].loading
<1> DEFINE n == r.node
           e == nodes[n].expanded
           ms == [nodes EXCEPT ![n].loading = FALSE, ![n].expanded = e]
<1>1. NodesTyped(nodes) /\ n \in DOMAIN nodes /\ FALSE \in BOOLEAN
  BY DEF TreeInv, Shape, TreeForest, Forest, RequestsTyped
<1>2. \A m \in DOMAIN nodes : nodes[m] \in Node
  BY <1>1 DEF NodesTyped
<1>3. e \in BOOLEAN
  BY <1>1, <1>2 DEF Node
<1>4. Marked(nodes, nodes) /\ Marked(nodes, ms)
  <2> HIDE DEF e, n
  <2> QED
    BY ONLY <1>1, <1>3, MarkedSo
<1>5. \A m \in DOMAIN nodes \ {n} : ms[m].loading = nodes[m].loading
  OBVIOUS
<1>6. CASE ~nodeIsCurrent(r)
  BY <1>4, <1>6 DEF NodeAfter
<1>7. CASE nodeIsCurrent(r)
  <2>1. NodeAfter(nodes, r) = ms
    BY <1>1, <1>2, <1>7 DEF NodeAfter, Node
  <2> HIDE DEF ms
  <2> QED
    BY <2>1, <1>4, <1>5, <1>7
<1> QED
  BY <1>6, <1>7

\* An answer that is not applied keeps the invariant.
LEMMA DroppedKeeps ==
  ASSUME TreeInv, NEW r \in requests, Deliver(r), ~IsApplied(r)
  PROVE  TreeInv'
<1> USE DEF TreeInv
<1> DEFINE ms == NodeAfter(nodes, r)
<1>1. /\ r.at # "sent" /\ requests' = requests \ {r} /\ UNCHANGED <<childSessions, shared, treeGeneration>>
      /\ root' = IF r.kind = "root" /\ nodeIsCurrent(r) /\ r.at = "failed" THEN NoCursor ELSE root
      /\ reveal' = IF r.kind \notin {"children", "next"} THEN reveal ELSE NoReveal
      /\ Settle(ms)
      /\ cancelSearch({r.session}) \/ UNCHANGED cursors
  BY DEF Deliver, RevealAfter
<1>2. Marked(nodes, ms) /\ \A m \in DOMAIN nodes : ~(m = r.node /\ nodeIsCurrent(r)) => ms[m].loading = nodes[m].loading
  BY AfterIsMarked
<1> HIDE DEF ms
<1>3. TreeForest
  BY DEF Shape
<1>4. Follows({}) /\ \A m \in DOMAIN nodes' : nodes'[m].loading = ms[m].loading
  BY <1>1, <1>2, <1>3, CalmMarks
<1>5. Releases({})
  <2>1. childSessions \in [DOMAIN Listing -> Nat] /\ cursors = [c \in DOMAIN cursors |-> cursors[c]]
    BY DEF Shape, CursorsTyped
  <2>2. DOMAIN cursors' \subseteq DOMAIN cursors /\ cursors' = [c \in DOMAIN cursors' |-> cursors[c]]
    BY <2>1, <1>1 DEF cancelSearch
  <2> QED
    BY <2>1, <2>2, <1>1 DEF Releases
<1>6. \A m \in DOMAIN nodes' : /\ m \in DOMAIN nodes /\ nodes'[m].dn = nodes[m].dn /\ nodes'[m].loaded = nodes[m].loaded
                               /\ (m \in InTree' => m \in InTree) /\ (Private(m)' => Private(m))
                               /\ SessionOf(m)' = SessionOf(m)
  BY <1>1, <1>4 DEF Follows, Private, SessionOf
\* An answer that is dropped is not the page that a cursor in use has given out.
<1>7. ASSUME r.at = "answered", NEW n \in DOMAIN nodes', Private(n)', nodes'[n].loaded
      PROVE  SessionOf(n)' # r.session
  <2> SUFFICES ASSUME SessionOf(n) = r.session PROVE FALSE
    BY <1>6
  <2>1. n \in DOMAIN nodes /\ Private(n) /\ nodes[n].loaded /\ nodes[n].dn \in DOMAIN Listing
    BY <1>6, <1>7 DEF Shape, TreeForest, Forest, NodesTyped, Node
  <2>2. r.kind \in Starts \cup Nexts
    BY DEF Shape, RequestsTyped, Waiting, Answer
  <2>3. CASE r.kind \in Starts
    BY <2>1, <2>3, <1>7 DEF Sessions, StartsOk, SessionOf
  <2>4. CASE r.kind \in Nexts
    <3>1. r.session # NoCursor
      BY <2>4 DEF Shape, RequestsTyped
    <3>2. r.node = n
      BY <2>1, <3>1 DEF Progress, OneReader
    <3>3. r.gen = treeGeneration
      BY <2>1, <3>2 DEF Private, Shape, RequestsTyped
    <3> QED
      BY <3>2, <3>3, <1>7 DEF IsApplied, nodeIsCurrent, SessionOf
  <2> QED
    BY <2>2, <2>3, <2>4
<1>8. requests' \subseteq requests \cup {} /\ IsFiniteSet(requests') /\ \A s \in {} : Asks(s) /\ s.kind \notin {"children", "next"}
  BY <1>1, FS_Subset DEF Shape, RequestsTyped
<1>9. Shape' /\ Sessions' /\ Progress'
  <2>1. \A q \in requests \ requests' : q.at = "answered" =>
          \A n \in DOMAIN nodes' : Private(n)' /\ nodes'[n].loaded => SessionOf(n)' # q.session
    BY <1>1, <1>7
  <2> QED
    BY <1>1, <1>4, <1>5, <1>8, <2>1, CalmKeeps
<1>10. RevealOk'
  <2>1. CASE r.kind \notin {"children", "next"}
    BY <2>1, <1>1, <1>4, <1>5, <1>8, CalmReveal
  <2>2. CASE r.kind \in {"children", "next"}
    <3>1. \A q \in requests' : q.kind \notin {"children", "next"}
      BY <2>2, <1>1 DEF RevealOk
    <3> QED
      BY <2>2, <3>1, <1>1, NoRevealIsOk
  <2> QED
    BY <2>1, <2>2
<1>11. \A q \in requests' : q \in requests /\ q # r /\ q.node \in DOMAIN nodes' /\ nodes'[q.node].dn = nodes[q.node].dn
  BY <1>1, <1>6, <1>9 DEF Shape, RequestsTyped
<1>12. root # NoCursor => root \in DOMAIN nodes /\ nodes[root].dn = BaseDn
  BY DEF Shape, TreeForest, RootIsBase
<1>13. FirstLoad'
  <2>1. CASE root' = root
    <3>0. root # NoCursor => root \in DOMAIN nodes'
      BY <2>1, <1>4 DEF Follows, TreeForest, RootIsBase
    <3>1. root # NoCursor /\ ~nodes'[root].loaded /\ BaseDn \notin shared => childSessions[BaseDn] = NoCursor
      BY <1>6, <3>0 DEF FirstLoad
    <3>2. root = NoCursor => /\ childSessions[BaseDn] = NoCursor
                             /\ \A q \in requests' : nodes'[q.node].dn = BaseDn => q.gen # treeGeneration
      BY <1>11 DEF FirstLoad
    <3>3. ASSUME NEW q \in requests', q.kind = "root", q.gen = treeGeneration
          PROVE  /\ q.node = root /\ root # NoCursor /\ nodes'[root].loading /\ ~nodes'[root].loaded
                 /\ childSessions[BaseDn] = NoCursor
                 /\ \A p \in requests' : p.gen = treeGeneration /\ nodes'[p.node].dn = BaseDn => p = q
      <4>1. /\ q.node = root /\ root # NoCursor /\ nodes[root].loading /\ ~nodes[root].loaded
            /\ childSessions[BaseDn] = NoCursor
            /\ \A p \in requests : p.gen = treeGeneration /\ nodes[p.node].dn = BaseDn => p = q
        BY <3>3, <1>11 DEF FirstLoad
      <4>2. ~(root = r.node /\ nodeIsCurrent(r))
        BY <4>1, <1>11, <1>12 DEF nodeIsCurrent
      <4>3. nodes'[root].loading
        BY <4>1, <4>2, <3>0, <1>2, <1>4, <1>12
      <4> QED
        BY <4>1, <4>3, <3>0, <1>6, <1>11
    <3> QED
      BY <2>1, <1>1, <3>1, <3>2, <3>3 DEF FirstLoad
  <2>2. CASE root' # root
    <3>1. r.kind = "root" /\ r.gen = treeGeneration /\ root' = NoCursor
      BY <2>2, <1>1 DEF nodeIsCurrent
    <3>2. /\ childSessions[BaseDn] = NoCursor
          /\ \A q \in requests : q.gen = treeGeneration /\ nodes[q.node].dn = BaseDn => q = r
      BY <3>1 DEF FirstLoad
    <3>3. \A q \in requests' : nodes'[q.node].dn = BaseDn => q.gen # treeGeneration
      BY <3>2, <1>11
    <3>4. \A q \in requests' : ~(q.kind = "root" /\ q.gen = treeGeneration)
      BY <3>2, <1>11, <1>12 DEF FirstLoad
    <3> QED
      BY <3>1, <3>2, <3>3, <3>4, <1>1 DEF FirstLoad
  <2> QED
    BY <2>1, <2>2
<1> QED
  BY <1>9, <1>10, <1>13

\* Any answer keeps the invariant.
LEMMA DeliverKeeps ==
  ASSUME TreeInv, NEW r \in requests, Deliver(r)
  PROVE  TreeInv'
<1>1. CASE IsApplied(r)
  BY <1>1, AppliesSo, AppliedKeeps DEF Applies
<1> QED
  BY <1>1, DroppedKeeps

(* The root is loaded anew. *)

Planted(new) ==
  [i \in DOMAIN nodes \cup {new} |-> IF i = new THEN [makeNode(BaseDn, {}) EXCEPT !.loading = TRUE] ELSE nodes[i]]

\* The new root is a tree of its own beside the nodes that are left.
LEMMA PlantedForest ==
  ASSUME TreeForest, NEW new \in Nat \ {NoCursor}, new \notin DOMAIN nodes
  PROVE  LET ns == Planted(new)
         IN /\ Forest(ns) /\ DOMAIN ns = DOMAIN nodes \cup {new} /\ \A m \in DOMAIN nodes : ns[m] = nodes[m]
            /\ ns[new].dn = BaseDn /\ ~ns[new].loaded /\ ns[new].loading
            /\ Below(ns, {new}) = {new} /\ RootIsBase(ns, new) /\ DnsApart(ns, new)
<1> DEFINE ns == Planted(new)
           x == [makeNode(BaseDn, {}) EXCEPT !.loading = TRUE]
<1>1. /\ NodesTyped(nodes) /\ ChildrenHang(nodes) /\ AboveIsLinear(nodes) /\ UnloadedIsBare(nodes)
      /\ \A m \in DOMAIN nodes : nodes[m] \in Node
  BY DEF TreeForest, Forest, NodesTyped
<1>2. /\ x \in Node /\ x.dn = BaseDn /\ ~x.loaded /\ x.loading /\ ~x.truncated /\ x.children = {} /\ x.above = {}
  BY ListingAssumption DEF makeNode, Node
<1>3. DOMAIN ns = DOMAIN nodes \cup {new} /\ ns[new] = x /\ \A m \in DOMAIN nodes : ns[m] = nodes[m]
  BY DEF Planted
<1>4. ns \in [DOMAIN ns -> Node]
  <2>1. ns = [i \in DOMAIN ns |-> ns[i]]
    BY DEF Planted
  <2> HIDE DEF ns, x
  <2> QED
    BY <2>1, <1>1, <1>2, <1>3
<1> HIDE DEF ns, x
<1>5. NodesTyped(ns)
  BY <1>1, <1>3, <1>4, FS_AddElement DEF NodesTyped
<1>6. ChildrenHang(ns)
  <2> SUFFICES ASSUME NEW p \in DOMAIN ns, NEW c \in ns[p].children
               PROVE  c \in DOMAIN ns /\ ns[c].above = {p} \cup ns[p].above /\ ns[c].dn \in Under(ns[p].dn)
    BY DEF ChildrenHang
  <2>1. p \in DOMAIN nodes
    BY <1>2, <1>3
  <2>2. c \in DOMAIN nodes /\ nodes[c].above = {p} \cup nodes[p].above /\ nodes[c].dn \in Under(nodes[p].dn)
    BY <2>1, <1>1, <1>3 DEF ChildrenHang
  <2> QED
    BY <2>1, <2>2, <1>3
<1>7. \A n \in DOMAIN ns : ns[n].above \subseteq DOMAIN nodes
  BY <1>1, <1>2, <1>3 DEF AboveIsLinear
<1>8. AboveIsLinear(ns)
  <2> SUFFICES ASSUME NEW n \in DOMAIN ns
               PROVE  /\ ns[n].above \subseteq DOMAIN ns /\ n \notin ns[n].above
                      /\ ns[n].above # {} => \E p \in ns[n].above : n \in ns[p].children
                      /\ \A p \in ns[n].above : ns[p].above \subseteq ns[n].above
                      /\ \A p, q \in ns[n].above : p = q \/ p \in ns[q].above \/ q \in ns[p].above
    BY DEF AboveIsLinear
  <2>1. CASE n = new
    BY <2>1, <1>2, <1>3
  <2>2. CASE n \in DOMAIN nodes
    <3>1. /\ nodes[n].above \subseteq DOMAIN nodes /\ n \notin nodes[n].above
          /\ nodes[n].above # {} => \E p \in nodes[n].above : n \in nodes[p].children
          /\ \A p \in nodes[n].above : nodes[p].above \subseteq nodes[n].above
          /\ \A p, q \in nodes[n].above : p = q \/ p \in nodes[q].above \/ q \in nodes[p].above
      BY <2>2, <1>1 DEF AboveIsLinear
    <3>2. \A p \in nodes[n].above : ns[p] = nodes[p]
      BY <3>1, <1>3
    <3> QED
      BY <2>2, <3>1, <3>2, <1>3
  <2> QED
    BY <2>1, <2>2, <1>3
<1>9. UnloadedIsBare(ns)
  BY <1>1, <1>2, <1>3 DEF UnloadedIsBare
<1>10. Below(ns, {new}) = {new}
  BY <1>3, <1>7 DEF Below
<1>11. RootIsBase(ns, new) /\ DnsApart(ns, new)
  BY <1>2, <1>3, <1>10 DEF RootIsBase, DnsApart
<1> QED
  BY <1>2, <1>3, <1>5, <1>6, <1>8, <1>9, <1>10, <1>11 DEF Forest, ns

\* The root is loaded anew: no node of the old tree is in the new one.
LEMMA LoadRootKeeps ==
  ASSUME TreeInv, loadRoot
  PROVE  TreeInv'
<1> USE DEF TreeInv
<1>0. PICK new : new = Unused(DOMAIN nodes)
  OBVIOUS
<1>1. PICK s : s = Request("root", new, NoCursor, treeGeneration + 1)
  OBVIOUS
<1>2. /\ treeGeneration' = treeGeneration + 1 /\ releaseNodeSessions({root}) /\ root' = new
      /\ requests' = requests \cup {s} /\ UNCHANGED reveal /\ shared' = {} /\ Settle(Planted(new))
  BY <1>0, <1>1 DEF loadRoot, Planted
<1>3. new \in Nat \ {NoCursor} /\ new \notin DOMAIN nodes
  BY <1>0, UnusedIsNew DEF Shape, TreeForest, Forest, NodesTyped
<1> DEFINE ns == Planted(new)
<1>4. /\ Forest(ns) /\ DOMAIN ns = DOMAIN nodes \cup {new} /\ (\A m \in DOMAIN nodes : ns[m] = nodes[m])
      /\ ns[new].dn = BaseDn /\ ~ns[new].loaded /\ ns[new].loading
      /\ Below(ns, {new}) = {new} /\ RootIsBase(ns, new) /\ DnsApart(ns, new)
  BY <1>3, PlantedForest DEF Shape
<1> HIDE DEF ns
<1>5. SettledOn(ns)
  <2>1. Settle(ns) /\ RootIsBase(ns, root') /\ DnsApart(ns, root')
    BY <1>2, <1>4 DEF ns
  <2> QED
    BY <1>4, <2>1, SettleKeeps
<1>6. /\ TreeForest' /\ InTree' = {new} /\ DOMAIN nodes' \subseteq DOMAIN nodes \cup {new} /\ new \in DOMAIN nodes'
      /\ nodes'[new].dn = BaseDn /\ ~nodes'[new].loaded /\ nodes'[new].loading
      /\ \A m \in DOMAIN nodes : m \in Referred' => m \in DOMAIN nodes'
  BY <1>2, <1>4, <1>5 DEF SettledOn, Referred
<1>7. \A m \in DOMAIN nodes' \cap DOMAIN nodes : nodes'[m].dn = nodes[m].dn
  BY <1>4, <1>5 DEF SettledOn
<1>8. treeGeneration \in Nat /\ treeGeneration + 1 \in Nat /\ BaseDn \in DOMAIN Listing
  BY ListingAssumption DEF Shape, RequestsTyped
<1>9. s \in Waiting /\ s.kind = "root" /\ s.node = new /\ s.session = NoCursor /\ s.gen = treeGeneration + 1 /\ s.at = "sent"
  <2>1. new \in Nat /\ NoCursor \in Nat /\ "root" \in Starts \cup Nexts
    BY <1>3 DEF NoCursor, Starts
  <2> QED
    BY <2>1, <1>1, <1>8, RequestTyped
\* The cursors below the root that was are given back.
<1>10. Releases({root} \cap DOMAIN nodes) /\ \A m \in {root} \cap DOMAIN nodes : childSessions'[nodes[m].dn] = NoCursor
  BY <1>2, <1>7, CalmReleases
<1>11. childSessions'[BaseDn] = NoCursor
  <2>1. CASE root = NoCursor
    BY <2>1, <1>8, <1>10 DEF FirstLoad, Releases
  <2>2. CASE root # NoCursor
    BY <2>2, <1>10 DEF Shape, TreeForest, RootIsBase
  <2> QED
    BY <2>1, <2>2
<1>12. /\ childSessions' \in [DOMAIN Listing -> Nat]
       /\ \A d \in DOMAIN Listing : childSessions'[d] \in {NoCursor, childSessions[d]}
       /\ DOMAIN cursors' \subseteq DOMAIN cursors /\ cursors' = [c \in DOMAIN cursors' |-> cursors[c]]
  BY <1>10 DEF Releases
<1>13. \A c \in DOMAIN cursors' : cursors'[c] = cursors[c]
  BY <1>12
<1>14. CursorsTyped'
  <2>1. IsFiniteSet(DOMAIN cursors') /\ DOMAIN cursors' \subseteq Nat \ {NoCursor}
    BY <1>12, FS_Subset DEF Shape, CursorsTyped
  <2>2. cursors' \in [DOMAIN cursors' -> [dn : DOMAIN Listing, page : Nat]]
    BY <1>12, <1>13 DEF Shape, CursorsTyped
  <2> QED
    BY <2>1, <2>2, <1>12, <1>13 DEF Shape, CursorsTyped
<1>15. \A r \in requests : /\ r.node \in DOMAIN nodes /\ r.node \in DOMAIN nodes' /\ r.node # new
                           /\ r.gen \in Nat /\ r.gen <= treeGeneration
  <2>1. \A r \in requests : r.node \in DOMAIN nodes /\ r.gen \in Nat /\ r.gen <= treeGeneration
    BY DEF Shape, RequestsTyped, Waiting, Answer
  <2>2. \A r \in requests : r.node \in Referred'
    BY <1>2 DEF Referred
  <2> QED
    BY <2>1, <2>2, <1>3, <1>6
<1>16. RequestsTyped'
  <2>1. IsFiniteSet(requests')
    BY <1>2, FS_AddElement DEF Shape, RequestsTyped
  <2>2. ASSUME NEW r \in requests'
        PROVE  /\ r \in Waiting \cup Answer /\ r.node \in DOMAIN nodes'
               /\ r.gen <= treeGeneration + 1 /\ (r.node \in InTree' => r.gen = treeGeneration + 1)
               /\ r.kind \in Nexts => r.session # NoCursor
               /\ r.kind \in Starts /\ r.at # "answered" => r.session = NoCursor
    <3>1. CASE r \in requests
      BY <3>1, <1>6, <1>8, <1>15 DEF Shape, RequestsTyped
    <3>2. CASE r = s
      BY <3>2, <1>6, <1>8, <1>9 DEF Nexts
    <3> QED
      BY <3>1, <3>2, <1>2
  <2> QED
    BY <2>1, <2>2, <1>2, <1>8 DEF RequestsTyped
<1>17. Shape'
  BY <1>6, <1>14, <1>16 DEF Shape
<1>18. Shrink
  <2>1. \A r \in requests' : r \in requests \/ (r.kind \in Starts /\ r.at # "answered" /\ r.session = NoCursor)
    BY <1>2, <1>9 DEF Starts
  <2>2. ASSUME NEW n \in DOMAIN nodes', Private(n)' PROVE ~nodes'[n].loaded /\ SessionOf(n)' = NoCursor
    <3>1. n = new
      BY <2>2, <1>6 DEF Private
    <3> QED
      BY <3>1, <1>6, <1>11 DEF SessionOf
  <2> QED
    BY <2>1, <2>2, <1>2, <1>7, <1>12, <1>13 DEF Shrink
<1>19. Sessions' /\ Progress'
  BY <1>17, <1>18, ShrinkKeepsSessions, ShrinkKeepsProgress
\* The reveal goes on with the nodes it has; none of them is in the new tree.
<1>20. /\ reveal.index \subseteq DOMAIN nodes /\ \A n \in reveal.index : nodes[n].dn # BaseDn
       /\ reveal.at # "idle" => reveal.node \in DOMAIN nodes /\ reveal.gen \in Nat /\ reveal.gen <= treeGeneration
  BY DEF RevealOk
<1>21. reveal.index \subseteq DOMAIN nodes' /\ (reveal.at # "idle" => reveal.node \in DOMAIN nodes')
  BY <1>2, <1>6, <1>20 DEF Referred
<1>22. \A n \in reveal.index : nodes'[n].dn # BaseDn /\ n \notin InTree'
  BY <1>3, <1>6, <1>7, <1>20, <1>21
<1>23. reveal.at # "idle" => /\ reveal.node \notin InTree' /\ reveal.gen <= treeGeneration + 1
  BY <1>3, <1>6, <1>8, <1>20
<1>24. \A r \in requests' : r.kind \in {"children", "next"} =>
        /\ reveal.at = "await" /\ r.node = reveal.node /\ r.gen = reveal.gen
        /\ \A q \in requests' : q.kind \in {"children", "next"} => q = r
  BY <1>2, <1>9 DEF RevealOk
<1>25. (reveal.at = "walk" /\ Private(reveal.node) /\ ~nodes[reveal.node].loaded => SessionOf(reveal.node) = NoCursor)'
  BY <1>2, <1>23 DEF Private
<1>26. RevealOk'
  BY <1>2, <1>20, <1>21, <1>22, <1>23, <1>24, <1>25 DEF RevealOk
<1>27. \A r \in requests' : r.gen = treeGeneration + 1 => r = s
  BY <1>2, <1>8, <1>15
<1>28. FirstLoad'
  BY <1>2, <1>3, <1>6, <1>9, <1>11, <1>27 DEF FirstLoad
<1> QED
  BY <1>17, <1>19, <1>26, <1>28

(* Every behaviour. *)

LEMMA TreeStarts ==
  ASSUME TreeInit
  PROVE  TreeInv
<1>1. /\ nodes = <<>> /\ root = NoCursor /\ treeGeneration = 0 /\ cursors = <<>> /\ requests = {}
      /\ childSessions = [d \in DOMAIN Listing |-> NoCursor] /\ reveal = NoReveal
  BY DEF TreeInit
<1>2. DOMAIN nodes = {} /\ DOMAIN cursors = {} /\ IsFiniteSet({})
  BY <1>1, FS_EmptySet
<1>3. nodes \in [DOMAIN nodes -> Node] /\ cursors \in [DOMAIN cursors -> [dn : DOMAIN Listing, page : Nat]]
  BY <1>1
<1>4. BaseDn \in DOMAIN Listing /\ NoCursor \in Nat
  BY ListingAssumption DEF NoCursor
<1>5. TreeForest
  BY <1>1, <1>2, <1>3, <1>4 DEF TreeForest, Forest, NodesTyped, ChildrenHang, AboveIsLinear, UnloadedIsBare, RootIsBase, DnsApart, Below
<1>6. RequestsTyped /\ CursorsTyped
  BY <1>1, <1>2, <1>3, <1>4 DEF RequestsTyped, CursorsTyped
<1>7. Sessions
  BY <1>1, <1>2 DEF Sessions, SessionsApart, CursorOfDn, StartsOk, NextsOk
<1>8. Progress
  BY <1>1, <1>2 DEF Progress, CompleteWhenDone, OneReader, NextIsLoaded, CursorFollows, PageFollows
<1>9. RevealOk
  BY <1>1 DEF RevealOk, NoReveal
<1>10. FirstLoad
  BY <1>1, <1>4 DEF FirstLoad
<1> QED
  BY <1>5, <1>6, <1>7, <1>8, <1>9, <1>10 DEF TreeInv, Shape

\* A step that changes nothing keeps the invariant.
LEMMA TreeStutters ==
  ASSUME TreeInv, UNCHANGED treeVars
  PROVE  TreeInv'
<1> USE DEF treeVars, TreeInv
<1>1. InTree' = InTree /\ (\A n : Private(n)' <=> Private(n)) /\ \A n : SessionOf(n)' = SessionOf(n)
  BY DEF InTree, Private, SessionOf
<1>2. Shape'
  BY <1>1 DEF Shape, TreeForest, RequestsTyped, CursorsTyped
<1>3. Sessions'
  BY DEF Sessions, SessionsApart, CursorOfDn, StartsOk, NextsOk
<1>4. CompleteWhenDone' /\ NextIsLoaded' /\ OneReader' /\ CursorFollows'
  BY <1>1 DEF Progress, CompleteWhenDone, NextIsLoaded, OneReader, CursorFollows
<1>5. PageFollows'
  BY <1>1 DEF Progress, PageFollows, PageAt
<1>6. RevealOk' /\ FirstLoad'
  BY <1>1 DEF RevealOk, FirstLoad
<1> QED
  BY <1>2, <1>3, <1>4, <1>5, <1>6 DEF Progress

\* Every step keeps the invariant.
LEMMA TreeSteps ==
  ASSUME TreeInv, [TreeNext]_treeVars
  PROVE  TreeInv'
<1>1. ASSUME loadRoot PROVE TreeInv'
  BY <1>1, LoadRootKeeps
<1>2. ASSUME NEW n \in DOMAIN nodes, toggleNode(n) \/ reloadNodeChildren(n) \/ invalidate(n) \/ loadMore(n)
      PROVE  TreeInv'
  BY <1>2, ToggleKeeps, ReloadKeeps, InvalidateKeeps, LoadMoreKeeps
<1>3. ASSUME NEW chain \in Chains, revealDn(chain) PROVE TreeInv'
  BY <1>3, RevealDnKeeps
<1>4. ASSUME NEW r \in requests, Fail(r) \/ ServeStart(r) \/ ServeNext(r) \/ Deliver(r) PROVE TreeInv'
  BY <1>4, FailKeeps, ServeStartKeeps, ServeNextKeeps, DeliverKeeps
<1>5. ASSUME RevealDown \/ RevealOn \/ RevealMissed PROVE TreeInv'
  BY <1>5, RevealDownKeeps, RevealOnKeeps, RevealMissedKeeps
<1>6. CASE UNCHANGED treeVars
  BY <1>6, TreeStutters
<1>7. CASE TreeNext
  BY <1>1, <1>2, <1>3, <1>4, <1>5, <1>7 DEF TreeNext
<1> QED
  BY <1>6, <1>7

\* A complete node has every child by CompleteWhenDone and no other by the forest.
LEMMA TreeInvImplies ==
  ASSUME TreeInv
  PROVE  CompleteUnlessShared
<1> USE DEF TreeInv
<1> SUFFICES ASSUME NEW n \in InTree, nodes[n].loaded, ~nodes[n].truncated, nodes[n].dn \notin shared
             PROVE  Got(nodes, n) = Under(nodes[n].dn)
  BY DEF CompleteUnlessShared, Got, Under
<1>1. n \in DOMAIN nodes
  BY DEF InTree, Below
<1>2. Under(nodes[n].dn) \subseteq Got(nodes, n)
  BY <1>1 DEF Progress, CompleteWhenDone, Private
<1>3. Got(nodes, n) \subseteq Under(nodes[n].dn)
  BY <1>1 DEF Shape, TreeForest, Forest, ChildrenHang, Got
<1> QED
  BY <1>2, <1>3

\* The invariant of the tree: its nodes stay a forest with no DN twice in the tree,
\* each cursor is of one DN, the cursor of a node that nobody shares has one reader,
\* and every page that arrives is the one after the pages that the node has.
THEOREM TreeKeepsInvariant == TreeSpec => []TreeInv
<1>1. TreeInit => TreeInv
  BY TreeStarts
<1>2. TreeInv /\ [TreeNext]_treeVars => TreeInv'
  BY TreeSteps
<1> QED
  BY <1>1, <1>2, PTL DEF TreeSpec

\* A node that the tree shows as complete (loaded, no "load more") has all the
\* entries right below its DN and no other: however pages, reloads, invalidations,
\* refreshes, reveals and failures interleave, unless two readers shared its cursor.
THEOREM TreeIsComplete == TreeSpec => []CompleteUnlessShared
<1>1. TreeInv => CompleteUnlessShared
  BY TreeInvImplies
<1> QED
  BY <1>1, TreeKeepsInvariant, PTL
=============================================================================
