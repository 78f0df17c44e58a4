------------------------------- MODULE DnTree -------------------------------
(* The DN tree (components/DnTree.vue): nodes that are expanded page by page *)
(* with one cursor each, reloaded and invalidated while their pages are on   *)
(* the way, and revealDn, which walks and loads the tree by itself.  The     *)
(* component's `disabled` is never set by App and is left out.               *)
EXTENDS Naturals, Sequences, FiniteSets

CONSTANTS
  Listing,     \* the directory: for a DN the DNs right below it, one on a page
  BaseDn,
  Chains,      \* dnPathChain of the DNs that are revealed
  RevealPages, \* REVEAL_MAX_PAGES
  MaxCursors,  \* the search sessions the sidecar keeps (bound)
  MaxTouches   \* bound: loads, expansions, reloads, invalidations, reveals, failures

\* An entry lies right below one DN, and none of them is the base.
ASSUME ListingAssumption ==
  /\ IsFiniteSet(DOMAIN Listing) /\ BaseDn \in DOMAIN Listing /\ "nothing" \notin DOMAIN Listing
  /\ Listing \in [DOMAIN Listing -> Seq(DOMAIN Listing \ {BaseDn})]
  /\ \A d, e \in DOMAIN Listing : \A i \in DOMAIN Listing[d], j \in DOMAIN Listing[e] : Listing[d][i] = Listing[e][j] => d = e

NoCursor == 0
Cursors == 1..MaxCursors

VARIABLES
  nodes,           \* the node objects that something still refers to
  root,            \* rootNode
  treeGeneration,
  childSessions,   \* DN -> the cursor of its node
  cursors,         \* the open cursors of the sidecar: [dn, page], the next page
  requests,        \* searchStart and searchNext under way
  reveal,          \* revealDn: [chain, level, node, gen, index, pages, at]
  touches,         \* how often the user acted or a request failed
  shared           \* history: the DNs of whose cursor two readers made use

treeVars == <<nodes, root, treeGeneration, childSessions, cursors, requests, reveal, touches, shared>>

NoReveal == [at |-> "idle", node |-> NoCursor, index |-> {}]
\* `above` is derived: the nodes that reach it by their `children`.
makeNode(dn, above) ==
  [dn |-> dn, expanded |-> FALSE, loaded |-> FALSE, loading |-> FALSE, truncated |-> FALSE, children |-> {}, above |-> above]
Unused(used) == CHOOSE i \in 1..Cardinality(used) + 1 : i \notin used

Below(ns, from) == {n \in DOMAIN ns : from \cap ({n} \cup ns[n].above) # {}}
InTree == Below(nodes, {root})
\* Nothing but the references that are left keeps a node object.
Kept(ns, from) == [n \in Below(ns, from) |-> [ns[n] EXCEPT !.above = @ \cap Below(ns, from)]]
Settle(ns) == nodes' = Kept(ns, {root', reveal'.node} \cup reveal'.index \cup {r.node : r \in requests'})

findChildByDn(ns, of, dn) == {c \in of : ns[c].dn = dn}
Visible(n) == n \in InTree /\ \A p \in InTree : n \in nodes[p].children => nodes[p].expanded
canExpandDnTreeNode(n) ==
  Listing[nodes[n].dn] # <<>> /\ ~(nodes[n].loaded /\ nodes[n].children = {} /\ ~nodes[n].truncated)

(* appendChildren and applyPage: only the cursor says that a node is complete. *)
\* Mutant: a page without new children completes the node.
applyShortPage(ns, n, session, page) ==
  [ns EXCEPT ![n].loaded = TRUE, ![n].truncated = FALSE]

appendChildren(ns, n, dn) ==
  IF dn = "nothing" \/ findChildByDn(ns, ns[n].children, dn) # {} THEN ns
  ELSE LET new == Unused(DOMAIN ns)
       IN [i \in DOMAIN ns \cup {new} |->
             CASE i = new -> makeNode(dn, {n} \cup ns[n].above)
               [] i = n -> [ns[n] EXCEPT !.children = @ \cup {new}]
               [] OTHER -> ns[i]]
applyPage(ns, n, session, page) ==
  [appendChildren(ns, n, page.dn) EXCEPT ![n].loaded = TRUE, ![n].truncated = page.more]
SessionAfter(n, session, page) ==
  [childSessions EXCEPT ![nodes[n].dn] = IF page.more THEN session ELSE NoCursor]

nodeIsCurrent(r) == r.gen = treeGeneration
cancelSearch(closed) == cursors' = [c \in DOMAIN cursors \ closed |-> cursors[c]]
Request(kind, n, session, gen) ==
  [kind |-> kind, node |-> n, gen |-> gen, session |-> session, at |-> "sent"]

(* releaseNodeSessions: the cursors of the nodes below, by their DNs. *)
releaseNodeSessions(from) ==
  LET dns == {nodes[n].dn : n \in Below(nodes, from)}
  IN /\ childSessions' = [d \in DOMAIN childSessions |-> IF d \in dns THEN NoCursor ELSE childSessions[d]]
     /\ cancelSearch({childSessions[d] : d \in dns} \ {NoCursor})

\* loadRoot: the first load, a refresh, another base or connection, a retry.
loadRoot ==
  /\ treeGeneration' = treeGeneration + 1
  /\ releaseNodeSessions({root})
  /\ LET new == Unused(DOMAIN nodes)
     IN /\ root' = new
        /\ requests' = requests \cup {Request("root", new, NoCursor, treeGeneration')}
        /\ UNCHANGED reveal /\ shared' = {}
        /\ Settle([i \in DOMAIN nodes \cup {new} |->
                     IF i = new THEN [makeNode(BaseDn, {}) EXCEPT !.loading = TRUE] ELSE nodes[i]])

\* toggleNode, and the reload of an expanded node (reloadNodeChildren).
Expand(n, kind) ==
  /\ requests' = requests \cup {Request(kind, n, NoCursor, treeGeneration)}
  /\ UNCHANGED <<root, treeGeneration, reveal, shared>>

toggleNode(n) ==
  /\ Visible(n) /\ canExpandDnTreeNode(n) /\ ~nodes[n].loading
  /\ IF ~nodes[n].expanded /\ ~nodes[n].loaded
     THEN Expand(n, "toggle") /\ Settle([nodes EXCEPT ![n].loading = TRUE])
     ELSE /\ UNCHANGED <<requests, root, treeGeneration, reveal, shared>>
          /\ Settle([nodes EXCEPT ![n].expanded = ~@])
  /\ UNCHANGED <<childSessions, cursors>>

Emptied(n) ==
  [m \in DOMAIN nodes |->
     IF m = n THEN [nodes[n] EXCEPT !.loaded = FALSE, !.expanded = FALSE, !.truncated = FALSE, !.children = {}]
     ELSE IF n \in nodes[m].above THEN [nodes[m] EXCEPT !.above = @ \ ({n} \cup nodes[n].above)]
     ELSE nodes[m]]

reloadNodeChildren(n) ==
  /\ Visible(n) /\ ~nodes[n].loading
  /\ releaseNodeSessions({n})
  /\ IF nodes[n].expanded
     THEN Expand(n, "reload") /\ Settle([Emptied(n) EXCEPT ![n].loading = TRUE])
     ELSE UNCHANGED <<requests, root, treeGeneration, reveal, shared>> /\ Settle(Emptied(n))

\* After a write, also while the node or one below it is loading.
invalidate(n) ==
  /\ n \in InTree
  /\ releaseNodeSessions({n})
  /\ UNCHANGED <<requests, root, treeGeneration, reveal, shared>> /\ Settle(Emptied(n))

\* The first part of continueOnePage, for the cursor that the node's DN has now.
SendNext(n, kind, gen) ==
  LET session == childSessions[nodes[n].dn]
  IN /\ requests' = requests \cup {Request(kind, n, session, gen)}
     /\ shared' = IF n \notin InTree \/ \E r \in requests : r.session = session
                  THEN shared \cup {nodes[n].dn} ELSE shared

loadMore(n) ==
  /\ Visible(n) /\ nodes[n].truncated /\ ~nodes[n].loading
  /\ childSessions[nodes[n].dn] # NoCursor
  /\ SendNext(n, "more", treeGeneration)
  /\ UNCHANGED <<root, treeGeneration, childSessions, cursors, reveal>>
  /\ Settle([nodes EXCEPT ![n].loading = TRUE])

(* The sidecar. *)
CursorsInUse == DOMAIN cursors \cup {childSessions[d] : d \in DOMAIN childSessions} \cup {r.session : r \in requests}

Answered(r, session, dn, more) ==
  requests' = (requests \ {r}) \cup {[kind |-> r.kind, node |-> r.node, gen |-> r.gen, session |-> session,
                                      at |-> "answered", page |-> [dn |-> dn, more |-> more]]}

ServeStart(r) ==
  /\ r.at = "sent" /\ r.session = NoCursor
  /\ Cardinality(DOMAIN cursors) < MaxCursors
  /\ LET c == Unused(CursorsInUse \ {NoCursor})
         dn == nodes[r.node].dn
         pages == Listing[dn]
     IN /\ Answered(r, c, IF pages = <<>> THEN "nothing" ELSE pages[1], Len(pages) > 1)
        /\ cursors' = IF Len(pages) <= 1 THEN cursors
                      ELSE [x \in DOMAIN cursors \cup {c} |-> IF x = c THEN [dn |-> dn, page |-> 2] ELSE cursors[x]]
  /\ UNCHANGED <<nodes, root, treeGeneration, childSessions, reveal, shared>>

ServeNext(r) ==
  /\ r.at = "sent" /\ r.session \in DOMAIN cursors
  /\ LET c == r.session
         p == cursors[c].page
         pages == Listing[cursors[c].dn]
     IN /\ Answered(r, c, pages[p], p < Len(pages))
        /\ IF p < Len(pages) THEN cursors' = [cursors EXCEPT ![c].page = p + 1] ELSE cancelSearch({c})
  /\ UNCHANGED <<nodes, root, treeGeneration, childSessions, reveal, shared>>

\* Refused, timed out, or the cursor is gone.
Fail(r) ==
  /\ r.at = "sent"
  /\ requests' = (requests \ {r}) \cup {[r EXCEPT !.at = "failed"]}
  /\ UNCHANGED <<nodes, root, treeGeneration, childSessions, cursors, reveal, shared>>

(* The answers, in any order. *)
IsStart(r) == r.kind \in {"root", "toggle", "reload", "children"}
IsApplied(r) ==
  /\ r.at # "failed" /\ nodeIsCurrent(r)
  /\ IsStart(r) \/ childSessions[nodes[r.node].dn] = r.session
\* The node after its answer: what startChildren or continueOnePage left, and
\* the loading flag and the expansion by the caller.
NodeAfter(ns, r) ==
  IF ~nodeIsCurrent(r) THEN ns
  ELSE [ns EXCEPT ![r.node].loading = FALSE,
                  ![r.node].expanded =
                    IF IsApplied(r) THEN IF r.kind = "toggle" THEN ~@ ELSE @ \/ r.kind \in {"root", "reload", "children"}
                    ELSE @]

\* Where revealDn goes on with the answer it waits for.
RevealAfter(r, ns) ==
  IF r.kind \notin {"children", "next"} THEN reveal
  ELSE IF ~IsApplied(r) THEN NoReveal
  ELSE [reveal EXCEPT !.at = "walk",
                      !.index = IF r.kind = "next" THEN @ \cup (ns[r.node].children \ nodes[r.node].children) ELSE {}]

Deliver(r) ==
  /\ r.at # "sent"
  /\ requests' = requests \ {r}
  /\ LET ns == IF IsApplied(r) THEN applyPage(nodes, r.node, r.session, r.page) ELSE nodes
     IN /\ childSessions' = IF IsApplied(r) THEN SessionAfter(r.node, r.session, r.page) ELSE childSessions
        /\ root' = IF r.kind = "root" /\ nodeIsCurrent(r) /\ r.at = "failed" THEN NoCursor ELSE root
        /\ reveal' = RevealAfter(r, ns)
        /\ Settle(NodeAfter(ns, r))
  /\ IF IsStart(r) /\ r.at # "failed" /\ ~nodeIsCurrent(r) THEN cancelSearch({r.session}) ELSE UNCHANGED cursors
  /\ shared' = IF IsApplied(r) /\ r.node \notin InTree THEN shared \cup {nodes[r.node].dn} ELSE shared
  /\ UNCHANGED treeGeneration

(* revealDn, one level after the other. *)
revealDn(chain) ==
  /\ reveal.at = "idle" /\ chain \in Chains
  /\ root # NoCursor
  /\ reveal' = [at |-> "walk", chain |-> chain, level |-> 2, node |-> root, gen |-> treeGeneration, index |-> {}, pages |-> 0]
  /\ UNCHANGED <<nodes, root, treeGeneration, childSessions, cursors, requests, shared>>

Found == findChildByDn(nodes, IF reveal.pages = 0 THEN nodes[reveal.node].children ELSE reveal.index,
                       reveal.chain[reveal.level])
IsLast == reveal.level = Len(reveal.chain)

RevealDown ==
  /\ reveal.at = "walk" /\ Found # {}
  /\ UNCHANGED <<root, treeGeneration, childSessions, cursors, shared>>
  /\ LET n == CHOOSE x \in Found : TRUE
         on == [reveal EXCEPT !.node = n, !.level = @ + 1, !.pages = 0, !.index = {}]
     IN IF IsLast THEN reveal' = NoReveal /\ UNCHANGED requests /\ Settle(nodes)
        ELSE IF nodes[n].loaded
        THEN reveal' = on /\ UNCHANGED requests /\ Settle([nodes EXCEPT ![n].expanded = TRUE])
        ELSE /\ reveal' = [on EXCEPT !.at = "await"]
             /\ requests' = requests \cup {Request("children", n, NoCursor, reveal.gen)}
             /\ Settle([nodes EXCEPT ![n].loading = TRUE])

RevealOn ==
  /\ reveal.at = "walk" /\ Found = {} /\ reveal.pages < RevealPages
  /\ childSessions[nodes[reveal.node].dn] # NoCursor
  /\ SendNext(reveal.node, "next", reveal.gen)
  /\ reveal' = [reveal EXCEPT !.at = "await", !.pages = @ + 1,
                              !.index = IF reveal.pages = 0 THEN nodes[reveal.node].children ELSE @]
  /\ UNCHANGED <<root, treeGeneration, childSessions, cursors>>
  /\ Settle([nodes EXCEPT ![reveal.node].loading = TRUE])

RevealMissed ==
  /\ reveal.at = "walk" /\ Found = {}
  /\ reveal.pages >= RevealPages \/ childSessions[nodes[reveal.node].dn] = NoCursor
  /\ reveal' = NoReveal
  /\ UNCHANGED <<root, treeGeneration, childSessions, cursors, requests, shared>> /\ Settle(nodes)

TreeInit ==
  /\ nodes = <<>> /\ root = NoCursor /\ treeGeneration = 0 /\ cursors = <<>> /\ requests = {}
  /\ childSessions = [d \in DOMAIN Listing |-> NoCursor]
  /\ reveal = NoReveal /\ touches = 0 /\ shared = {}

Gone(r) == r.session \notin DOMAIN cursors \cup {NoCursor}

TreeNext ==
  \/ /\ touches < MaxTouches /\ touches' = touches + 1
     /\ \/ loadRoot
        \/ \E n \in DOMAIN nodes : toggleNode(n) \/ reloadNodeChildren(n) \/ invalidate(n)
        \/ \E chain \in Chains : revealDn(chain)
        \/ \E r \in requests : ~Gone(r) /\ Fail(r)
  \/ /\ UNCHANGED touches
     /\ \/ \E n \in DOMAIN nodes : loadMore(n)
        \/ \E r \in requests : ServeStart(r) \/ ServeNext(r) \/ (Gone(r) /\ Fail(r)) \/ Deliver(r)
        \/ RevealDown \/ RevealOn \/ RevealMissed

TreeSpec == TreeInit /\ [][TreeNext]_treeVars

\* A node that the tree shows as complete has all its children, unless a
\* reveal made use of its cursor beside loadMore, or after the node was replaced.
CompleteUnlessShared ==
  \A n \in InTree :
    nodes[n].loaded /\ ~nodes[n].truncated /\ nodes[n].dn \notin shared =>
      {nodes[c].dn : c \in nodes[n].children} = {Listing[nodes[n].dn][k] : k \in DOMAIN Listing[nodes[n].dn]}
=============================================================================
