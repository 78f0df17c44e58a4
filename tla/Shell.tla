-------------------------------- MODULE Shell --------------------------------
(* The shell of the workbench (App.vue): writes from dialogs and batches, the*)
(* events they send to the open tabs and the shown results, and the switch   *)
(* of the connection, which may come while any of them is under way.         *)
EXTENDS Naturals, Sequences, FiniteSets

CONSTANTS
  Connections,
  ConfiguredBase, \* the connections whose profile names a base DN
  Entries,        \* DNs
  Above,          \* DN -> the DN above it, or itself
  OpenTabsMax,    \* OPEN_TABS_MAX
  MaxShellSteps   \* bound: the user's steps, failures and switches

VARIABLES
  connectionId,
  dialog,          \* the open write dialog: [kind, on]
  source,          \* deleteDn and modifyDnSource
  submitting,      \* deleteSubmitting and modifyDnSubmitting, with the write: [dn, to, on, descendants]
  batch,           \* the batch under way: [kind, todo, conn, on]
  batchAbortRequested,
  openTabs,        \* [dn, of, at]; "at" is the step that opened the tab and gives the order
  replay,          \* entryReplay*: [conn, keys, timer]
  baseDn,          \* the connection whose base DN it is, or NoConnection
  resolving,       \* resolveAutoBaseDn under way: "asked" or whose answer it has
  shellSteps,
  executed,        \* history: writes that the directory executed: [dn, on]
  strayed          \* history: what went to another connection than it was meant for

shellVars == <<connectionId, dialog, source, submitting, batch, batchAbortRequested, openTabs, replay,
               baseDn, resolving, shellSteps, executed, strayed>>

NoConnection == "none"
ASSUME ShellAssumption == OpenTabsMax \in Nat /\ NoConnection \notin Connections
NoDn == "no entry"
Closed == [kind |-> "none", on |-> NoConnection]
NoWrite == [dn |-> NoDn, to |-> NoDn, on |-> NoConnection, descendants |-> FALSE]
NoBatch == [kind |-> "none", todo |-> <<>>, conn |-> NoConnection, on |-> NoConnection]
NoReplay == [conn |-> NoConnection, keys |-> {}, timer |-> FALSE]
Writes == {"delete", "move", "modify"}
Dialogs == {"delete", "move"}

ShellStep == shellSteps < MaxShellSteps /\ shellSteps' = shellSteps + 1
Explicit(k) == IF k \in ConfiguredBase THEN k ELSE NoConnection

ShellInit ==
  /\ connectionId \in Connections
  /\ dialog = Closed /\ source = [w \in Dialogs |-> NoDn] /\ submitting = [w \in Dialogs |-> NoWrite]
  /\ batch = NoBatch /\ batchAbortRequested = FALSE
  /\ openTabs = {} /\ replay = NoReplay
  /\ baseDn = Explicit(connectionId) /\ resolving = (IF baseDn = NoConnection THEN {"asked"} ELSE {})
  /\ shellSteps = 0 /\ executed = {} /\ strayed = {}

\* ---- the open entries.
DnsOf(tabs) == {tab.dn : tab \in tabs}
Oldest(tabs) == {tab \in tabs : \A other \in tabs : tab.at <= other.at}
appendOpenTab(tabs, tab) ==
  IF tab.dn \in DnsOf(tabs) THEN tabs
  ELSE LET next == tabs \cup {tab} IN IF Cardinality(next) > OpenTabsMax THEN next \ Oldest(next) ELSE next
openEntry(dn) ==
  /\ ShellStep
  /\ openTabs' = appendOpenTab(openTabs, [dn |-> dn, of |-> connectionId, at |-> shellSteps + 1])
  /\ UNCHANGED <<connectionId, dialog, source, submitting, batch, batchAbortRequested, replay,
                 baseDn, resolving, executed, strayed>>
onCloseTab(dn) ==
  /\ openTabs' = {tab \in openTabs : tab.dn # dn}
  /\ UNCHANGED <<connectionId, dialog, source, submitting, batch, batchAbortRequested, replay,
                 baseDn, resolving, shellSteps, executed, strayed>>

(* onEntryEvent: tabs of a deleted entry go, those of a moved one are renamed*)
(* (and are one when they were several), and the results are to be replayed. *)
Affected(e, dn) == dn = e.base \/ (e.descendants /\ Above[dn] = e.base)
NewDn(e, tab) == IF Affected(e, tab.dn) THEN e.dn ELSE tab.dn
Seen(tabs, e, tab) == \E earlier \in tabs : earlier.at < tab.at /\ NewDn(e, earlier) = NewDn(e, tab)
Renamed(tabs, e) ==
  {[dn |-> NewDn(e, tab), of |-> tab.of, at |-> tab.at] : tab \in {t \in tabs : ~Seen(tabs, e, t)}}
onEntryEvent(e) ==
  IF e.conn # connectionId THEN UNCHANGED <<openTabs, replay>>
  ELSE /\ openTabs' = IF e.kind = "move" THEN Renamed(openTabs, e)
                      ELSE {tab \in openTabs : ~Affected(e, tab.dn)}
       /\ replay' = IF e.kind = "modify" THEN replay
                    ELSE [conn |-> e.conn, timer |-> TRUE,
                          keys |-> (IF replay.conn = e.conn THEN replay.keys ELSE {}) \cup {<<e.base, e.conn>>}]
Event(kind, conn, dn, to, descendants) ==
  [kind |-> kind, conn |-> conn, base |-> dn, dn |-> IF kind = "move" THEN to ELSE dn, descendants |-> descendants]
\* 150 ms later: one search for all the keys, unless the connection has changed.
flushEntryReplay ==
  /\ replay.timer /\ replay' = NoReplay
  /\ strayed' = strayed \cup {<<"replay", key>> : key \in
       {k \in replay.keys : replay.conn = connectionId /\ k[2] # connectionId}}
  /\ UNCHANGED <<connectionId, dialog, source, submitting, batch, batchAbortRequested, openTabs,
                 baseDn, resolving, shellSteps, executed>>

\* ---- single writes: askDelete and askRename, confirmDelete and confirmRename.
ask(kind, dn) ==
  /\ dialog = Closed /\ ShellStep
  /\ dialog' = [kind |-> kind, on |-> connectionId] /\ source' = [source EXCEPT ![kind] = dn]
  /\ UNCHANGED <<connectionId, submitting, batch, batchAbortRequested, openTabs, replay,
                 baseDn, resolving, executed, strayed>>
confirm(to, recursive) ==
  /\ dialog # Closed /\ submitting[dialog.kind] = NoWrite
  /\ dialog.kind = "move" => recursive
  /\ submitting' = [submitting EXCEPT ![dialog.kind] =
       [dn |-> source[dialog.kind], to |-> to, on |-> connectionId, descendants |-> recursive]]
  /\ UNCHANGED <<connectionId, dialog, source, batch, batchAbortRequested, openTabs, replay,
                 baseDn, resolving, shellSteps, executed, strayed>>
\* The event and the closing take the connection and the DN of now.
confirmed(kind) ==
  LET write == submitting[kind] IN
  /\ write # NoWrite
  /\ submitting' = [submitting EXCEPT ![kind] = NoWrite]
  /\ dialog' = IF dialog.kind = kind THEN Closed ELSE dialog
  /\ executed' = executed \cup {<<write.dn, write.on>>}
  /\ onEntryEvent(Event(kind, connectionId, source[kind], write.to, write.descendants))
  /\ strayed' = IF connectionId = write.on /\ source[kind] = write.dn THEN strayed
                ELSE strayed \cup {<<"event", <<source[kind], connectionId>>>>}
  /\ UNCHANGED <<connectionId, source, batch, batchAbortRequested, baseDn, resolving, shellSteps>>
confirmFailed(kind) ==
  /\ submitting[kind] # NoWrite /\ ShellStep /\ submitting' = [submitting EXCEPT ![kind] = NoWrite]
  /\ UNCHANGED <<connectionId, dialog, source, batch, batchAbortRequested, openTabs, replay,
                 baseDn, resolving, executed, strayed>>
\* The cancel button does not wait for the write.
cancel ==
  /\ dialog # Closed
  /\ dialog' = Closed
  /\ UNCHANGED <<connectionId, source, submitting, batch, batchAbortRequested, openTabs, replay,
                 baseDn, resolving, shellSteps, executed, strayed>>

\* ---- batches: entry by entry, until the list, the user or the connection ends them.
\* Mutant: the loop does not look at the connection again.
onToNext(b) == b.todo # <<>> /\ ~batchAbortRequested
goesOn(b) == b.todo # <<>> /\ ~batchAbortRequested /\ connectionId = b.conn
NextEntry(b) ==
  IF goesOn(b) THEN batch' = [b EXCEPT !.on = connectionId] /\ UNCHANGED batchAbortRequested
  ELSE batch' = NoBatch /\ batchAbortRequested' = FALSE

onBatchConfirm(kind, dns) ==
  /\ batch = NoBatch /\ dialog = Closed /\ ShellStep
  /\ batch' = [kind |-> kind, todo |-> dns, conn |-> connectionId, on |-> connectionId]
  /\ UNCHANGED <<connectionId, dialog, source, submitting, batchAbortRequested, openTabs, replay,
                 baseDn, resolving, executed, strayed>>
BatchAnswered(to) ==
  /\ batch # NoBatch
  /\ executed' = executed \cup {<<Head(batch.todo), batch.on>>}
  /\ strayed' = IF batch.on = batch.conn THEN strayed ELSE strayed \cup {<<"write", <<Head(batch.todo), batch.on>>>>}
  /\ onEntryEvent(Event(batch.kind, batch.conn, Head(batch.todo), to, TRUE))
  /\ NextEntry([batch EXCEPT !.todo = Tail(@)])
  /\ UNCHANGED <<connectionId, dialog, source, submitting, baseDn, resolving, shellSteps>>
BatchEntryFails ==
  /\ batch # NoBatch /\ ShellStep
  /\ NextEntry([batch EXCEPT !.todo = Tail(@)])
  /\ UNCHANGED <<connectionId, dialog, source, submitting, openTabs, replay, baseDn, resolving, executed, strayed>>
batchAbort ==
  /\ batch # NoBatch /\ ~batchAbortRequested /\ ShellStep /\ batchAbortRequested' = TRUE
  /\ UNCHANGED <<connectionId, dialog, source, submitting, batch, openTabs, replay,
                 baseDn, resolving, executed, strayed>>

\* ---- the connection: syncConnectionContext and resolveAutoBaseDn.
syncConnectionContext(k) ==
  /\ k # connectionId /\ ShellStep
  /\ connectionId' = k
  /\ dialog' = Closed /\ openTabs' = {}
  /\ baseDn' = Explicit(k)
  /\ resolving' = IF baseDn' = NoConnection THEN resolving \cup {"asked"} ELSE resolving
  /\ UNCHANGED <<source, submitting, batch, batchAbortRequested, replay, executed, strayed>>
\* rootDse goes to the connection that is current then ...
RootDseServed ==
  /\ "asked" \in resolving /\ resolving' = (resolving \ {"asked"}) \cup {connectionId}
  /\ UNCHANGED <<connectionId, dialog, source, submitting, batch, batchAbortRequested, openTabs, replay,
                 baseDn, shellSteps, executed, strayed>>
\* ... and its answer is taken unless a base has come in between.
BaseResolved(k) ==
  /\ k \in resolving \ {"asked"} /\ resolving' = resolving \ {k}
  /\ baseDn' = IF baseDn # NoConnection \/ Explicit(connectionId) # NoConnection THEN baseDn ELSE k
  /\ strayed' = IF baseDn' = k /\ k # connectionId THEN strayed \cup {<<"base", <<NoDn, connectionId>>>>} ELSE strayed
  /\ UNCHANGED <<connectionId, dialog, source, submitting, batch, batchAbortRequested, openTabs, replay,
                 shellSteps, executed>>

Lists == {<<d>> : d \in Entries} \cup {pair \in Entries \X Entries : pair[1] # pair[2]}
ShellNext ==
  \/ \E dn \in Entries : openEntry(dn)
  \/ \E dn \in DnsOf(openTabs) : onCloseTab(dn)
  \/ flushEntryReplay
  \/ \E kind \in Dialogs : confirmed(kind) \/ confirmFailed(kind) \/ \E dn \in Entries : ask(kind, dn)
  \/ \E to \in Entries : BatchAnswered(to) \/ \E recursive \in BOOLEAN : confirm(to, recursive)
  \/ cancel
  \/ \E kind \in Writes, dns \in Lists : onBatchConfirm(kind, dns)
  \/ BatchEntryFails \/ batchAbort
  \/ \E k \in Connections : syncConnectionContext(k) \/ BaseResolved(k)
  \/ RootDseServed

ShellSpec == ShellInit /\ [][ShellNext]_shellVars

(* What was begun on one connection does not reach the next one: a batch     *)
(* writes only where it was confirmed, the dialogs, tabs and pending replays *)
(* belong to the connection they are shown on, a replay searches only for    *)
(* what happened there, and no two tabs show one entry.  Two things do go    *)
(* astray: the event of a dialog's write that is answered after a switch, or *)
(* after the dialog was cancelled and opened for another entry, and a base DN*)
(* that was asked of the former connection, which is taken only where the    *)
(* profile names none.                                                       *)
StaysOnItsConnection ==
  /\ \A s \in strayed : s[1] \in {"event", "base"}
  /\ dialog # Closed => dialog.on = connectionId
  /\ \A tab \in openTabs : tab.of = connectionId
  /\ \A tab, other \in openTabs : tab.dn = other.dn => tab = other
  /\ Cardinality(openTabs) <= OpenTabsMax
  /\ \A key \in replay.keys : key[2] = replay.conn /\ replay.timer
  /\ connectionId \in ConfiguredBase => baseDn = connectionId
  /\ \A key \in replay.keys : key \in executed \/ <<"event", key>> \in strayed
=============================================================================
