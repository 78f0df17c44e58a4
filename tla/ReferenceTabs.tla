--------------------------- MODULE ReferenceTabs ---------------------------
(* The tabs of referenced entries beside the editor (lib/useReferenceTabs.ts)*)
(* and the editor's closing, which the switch of the connection brings about *)
(* (closeEditor in App.vue).  A tab reads its entry with a request of its    *)
(* own, and the answer finds the tab by its id and its request number.       *)
EXTENDS Naturals, FiniteSets

CONSTANTS
  Referenced,         \* DNs
  ReferenceTabLimit,  \* REFERENCE_TAB_LIMIT
  MaxReferences       \* bound: tabs opened, retries, failures and switches

VARIABLES
  referenceTabs,          \* [id, dn, entry, loading, failed, requestSeq], in the order of their ids
  activeReferenceTabId,
  nextReferenceTabId,
  entryGets,              \* the requests under way: [id, seq, dn, on]
  connectionsSeen,        \* history: counts the connections that were current
  referenceSteps

referenceVars == <<referenceTabs, activeReferenceTabId, nextReferenceTabId, entryGets, connectionsSeen, referenceSteps>>

NoReference == 0
ReferenceStep == referenceSteps < MaxReferences /\ referenceSteps' = referenceSteps + 1
Ids(tabs) == {tab.id : tab \in tabs}
FirstOf(tabs) == {tab \in tabs : \A other \in tabs : tab.id <= other.id}
LastOf(tabs) == {tab \in tabs : \A other \in tabs : other.id <= tab.id}
ASSUME ReferenceAssumption == ReferenceTabLimit \in Nat /\ ReferenceTabLimit >= 2

ReferenceInit ==
  /\ referenceTabs = {} /\ activeReferenceTabId = NoReference /\ nextReferenceTabId = 0
  /\ entryGets = {} /\ connectionsSeen = 1 /\ referenceSteps = 0

\* Mutant: the tab's id is its place.
placeAsId == Cardinality(referenceTabs) + 1
newId == nextReferenceTabId + 1

\* closeReferenceTab: the tab before the closed one becomes the active one, or the first.
Without(tabs, id) == {tab \in tabs : tab.id # id}
Neighbours(tabs, id) ==
  LET before == {tab \in tabs : tab.id < id}
  IN IF before # {} THEN LastOf(before) ELSE FirstOf(Without(tabs, id))
ActiveIsWithout(tabs, id, act) ==
  IF act # id THEN activeReferenceTabId' = act
  ELSE IF Without(tabs, id) = {} THEN activeReferenceTabId' = NoReference
  ELSE \E tab \in Neighbours(tabs, id) : activeReferenceTabId' = tab.id

\* evictOverflowReferenceTabs: the oldest tab that the user is not looking at.
Evicted(tabs, act) ==
  IF Cardinality(tabs) <= ReferenceTabLimit THEN tabs ELSE tabs \ FirstOf(Without(tabs, act))

openReferencedEntry(dn) ==
  /\ ReferenceStep /\ UNCHANGED connectionsSeen
  /\ LET same == {tab \in referenceTabs : tab.dn = dn}
         tab == [id |-> newId, dn |-> dn, entry |-> <<>>, loading |-> TRUE, failed |-> FALSE, requestSeq |-> 1]
     IN IF same # {}
        THEN /\ \E t \in FirstOf(same) : activeReferenceTabId' = t.id
             /\ UNCHANGED <<referenceTabs, nextReferenceTabId, entryGets>>
        ELSE /\ referenceTabs' = Evicted(referenceTabs \cup {tab}, activeReferenceTabId)
             /\ nextReferenceTabId' = newId /\ activeReferenceTabId' = newId
             /\ entryGets' = entryGets \cup {[id |-> newId, seq |-> 1, dn |-> dn, on |-> connectionsSeen]}

closeReferenceTab(id) ==
  /\ referenceTabs' = Without(referenceTabs, id)
  /\ ActiveIsWithout(referenceTabs, id, activeReferenceTabId)
  /\ UNCHANGED <<nextReferenceTabId, entryGets, connectionsSeen, referenceSteps>>

selectReferenceTab(id) ==
  /\ id # activeReferenceTabId /\ activeReferenceTabId' = id
  /\ UNCHANGED <<referenceTabs, nextReferenceTabId, entryGets, connectionsSeen, referenceSteps>>

retryReference ==
  /\ ReferenceStep
  /\ \E tab \in referenceTabs :
       /\ tab.id = activeReferenceTabId /\ tab.failed
       /\ referenceTabs' = Without(referenceTabs, tab.id) \cup
            {[tab EXCEPT !.entry = <<>>, !.failed = FALSE, !.loading = TRUE, !.requestSeq = @ + 1]}
       /\ entryGets' = entryGets \cup
            {[id |-> tab.id, seq |-> tab.requestSeq + 1, dn |-> tab.dn, on |-> connectionsSeen]}
  /\ UNCHANGED <<activeReferenceTabId, nextReferenceTabId, connectionsSeen>>

\* The answer to a request: of a tab that is gone, or asked again, it is dropped.
AnsweredTab(tab, r, entry, failed) ==
  IF tab.id = r.id /\ tab.requestSeq = r.seq
  THEN [tab EXCEPT !.entry = entry, !.failed = failed, !.loading = FALSE] ELSE tab
Arrives(r, entry, failed) ==
  /\ entryGets' = entryGets \ {r}
  /\ referenceTabs' = {AnsweredTab(tab, r, entry, failed) : tab \in referenceTabs}
  /\ UNCHANGED <<activeReferenceTabId, nextReferenceTabId, connectionsSeen>>
EntryArrives(r) == Arrives(r, <<r.dn, r.on>>, FALSE) /\ UNCHANGED referenceSteps
EntryFails(r) == ReferenceStep /\ Arrives(r, <<>>, TRUE)

\* closeEditor; a switch of the connection closes the editor, too.
closeReference(switched) ==
  /\ ReferenceStep
  /\ referenceTabs' = {} /\ activeReferenceTabId' = NoReference
  /\ connectionsSeen' = IF switched THEN connectionsSeen + 1 ELSE connectionsSeen
  /\ UNCHANGED <<nextReferenceTabId, entryGets>>

ReferenceNext ==
  \/ \E dn \in Referenced : openReferencedEntry(dn)
  \/ \E id \in Ids(referenceTabs) : closeReferenceTab(id) \/ selectReferenceTab(id)
  \/ retryReference
  \/ \E r \in entryGets : EntryArrives(r) \/ EntryFails(r)
  \/ \E switched \in BOOLEAN : closeReference(switched)

ReferenceSpec == ReferenceInit /\ [][ReferenceNext]_referenceVars

(* Every tab shows the entry of its own DN, read from the connection that is *)
(* current, or still waits for exactly that: no answer of a closed tab, of *)
(* an older request or of the former connection is shown, and a tab waits    *)
(* only while its request is under way.  The active tab exists, no DN has two*)
(* tabs, and there are never more than the limit.                            *)
TabsShowTheirEntry ==
  /\ \A tab \in referenceTabs :
       /\ tab.entry # <<>> => tab.entry = <<tab.dn, connectionsSeen>> /\ ~tab.loading
       /\ tab.loading <=> \E r \in entryGets : r.id = tab.id /\ r.seq = tab.requestSeq
       /\ tab.entry = <<>> /\ ~tab.loading => tab.failed
  /\ \A tab, other \in referenceTabs : tab.dn = other.dn => tab = other
  /\ Cardinality(referenceTabs) <= ReferenceTabLimit
  /\ IF referenceTabs = {} THEN activeReferenceTabId = NoReference
     ELSE activeReferenceTabId \in Ids(referenceTabs)
=============================================================================
