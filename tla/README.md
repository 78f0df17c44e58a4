# TLA+ models and proofs for dbx-plugin-ldap

This directory is a verification development kept beside the LDAP plugin: TLA+ modules translated from its
source, TLC configurations that model-check them on small instances, and theorems that TLAPS proves for every
value of the constants. Paths below are relative to the repository; `ldapconn/` and `mcp/` stand for
`backend/internal/ldapconn/` and `backend/internal/mcp/`, `lib/` and `components/` for those of `frontend/src/`.

## 1. The system

The plugin is a Go sidecar and a Vue workbench. The host starts the sidecar once, speaks JSON-RPC with it over
stdin and stdout, and every request is a goroutine of its own: whatever two handlers share, they share
concurrently. The same binary, started with `--mcp`, is a stand-alone MCP server. In the workbench JavaScript
runs to completion, and everything after an `await` finds a view that may have moved on.

| Part | State | Operations | Hard because |
| --- | --- | --- | --- |
| Connection table `ldapconn/service.go`, `dedicated_conn.go` | `conns`: connection id → entry; per entry a profile, a lazily dialed LDAP connection, a status, a mutex | Connect, Disconnect, CloseAll, withConn (WithConn, WithConnOnce), withDedicatedConn, statuses | an operation holds `entry.mu` across dial and network while Connect and Disconnect replace the entry under `Service.mu`; a lost connection is replayed for reads and must not be for writes |
| Dial and check `dial.go`, `auth_gssapi.go`, `check.go`, `internal/ldapgssapi/` | a socket, a temporary krb5.conf, a Kerberos context | dial, StartTLS, bind by each method, the port-88 retry, Test, Check | a failure leaves from a dozen places, each with something to close or remove |
| LDAP operations `operations.go`, `policy.go` | none of their own; presets and audit through the store | search, count, add, modify, delete, subtree delete, rename, password, schema | bases and blocked attributes have to hold for both ends of a rename and for every entry a search finds; servers page badly; a subtree delete of many steps can fail half-way |
| Search sessions `search_sessions.go` | table of sessions, each with a dedicated connection, a paging cookie, a remaining limit, an expiry, a mutex | SearchStart, SearchNext, SearchCancel, reaper, cancellation by Connect, Disconnect, CloseAll | four owners may want to close a session while a page is on the way; capacity and identity are checked in other critical sections than the installation |
| Schema cache `schema.go` | connection id → schema | Get, Put, Invalidate | a slow read may put what an Invalidate has just removed; whether a value is binary is decided by the cache, twice |
| Sidecar process `main.go`, `shared/sdk/go/`, `internal/logbuf/` | requests in flight, the ring of log entries, one output | dispatch, panics, events, `ldap/log/tail`, the end of input | events are emitted outside the ring's lock; the process ends while goroutines run |
| MCP server `mcp/server.go`, `confirm.go`, `settings.go` | confirm tokens, settings in memory and on disk | `ldap_entry_write` in two phases, `mcp/settings/*` | tokens are single-use across concurrent calls; settings live in memory, in a file and in the stores built from them |
| UI intents `mcp/intent.go`, `shared/frontend/uiIntent.ts` | intents pending or reported, a snapshot | runIntent, waitIntent, ReportUIState | an answer may come after the wait gave up or the intent expired, or from a second workbench |
| Digest sessions `mcp/cursor.go`, `digest.go` | materialised rows with an offset, TTL, LRU order | Put, Next, Configure | eviction and expiry between two continuations; a shared offset |
| Stdio MCP server `mcp/stdio.go`, `appbridge.go` | pool of connections by hash of their parameters, LRU order, semaphore | Serve, callTool, pooledConnectionID, bridge, drain at end of input | evicted ids are disconnected after the lock is released; every line wants exactly one reply |
| Store `internal/store/`, presets, settings | JSON files, the audit file | LoadJSON, SaveJSON, AppendAudit | load-change-save of a whole file by concurrent requests; a failing save; a kill between two steps |
| Search view `lib/useSearchSession.ts` | rows, cursor, spinners of the view | runSearch, loadNextSearchPage, reset, dispose | answers arrive in any order, after the view has moved on |
| Search form `components/SearchForm.vue`, `FilterGroup.vue`, `lib/ldapFilter.ts` | one filter as text and as a tree of groups and clauses | applyFilter, the switches of the mode, edits | two representations of one meaning, converted back and forth |
| Tree `components/DnTree.vue` | nodes with their children, a cursor per node, a reveal under way | loadRoot, toggle, loadMore, reload, invalidate, revealDn | nodes are replaced while their pages are on the way; two readers of one cursor |
| Entry editor `lib/useEntryDetail.ts`, `components/EntryEditorDialog.vue`, `lib/ldapDiff.ts`, `stagedEntry.ts` | the entry read so far, a cache of details, the user's draft as rows and as LDIF text, the preview of a save | openEntry, the staged reads, tabs, edits, save, confirm, close | attributes arrive while the user edits; another entry may be opened at any await |
| Reference tabs `lib/useReferenceTabs.ts` | tabs with an entry each | open, close, select, retry, evict | answers of tabs that are closed or asked again |
| Schema of the workbench `lib/schemaCache.ts`, `components/SchemaPanel.vue` | a cache and fetches in flight that all views share | ensureLoaded, refresh, invalidate | a refresh beside an older fetch; joined fetches of several views |
| Recovery `App.vue`, `DnTree.vue`, `lib/useTransportWatch.ts`, `treeAutoRetry.ts`, `connectionRetry.ts`, `hostReopen.ts` | boot probe, ladder of retries, reconnects, transport watch | probe, arm, pause, resume, reopen, recover | four mechanisms that guard against one another with flags |
| New entries `components/NewEntryWizard.vue`, `ImportEntryDialog.vue`, `lib/copyEntry.ts`, `newEntryTemplates.ts` | the drafts, the rows of an import and its run | copy, wizard, import, retry | the source, the schema and the answers come while the user fills the form, closes it or switches; a run takes its rows by index |
| Shell `App.vue`, `lib/openTabs.ts`, `components/BatchModifyDialog.vue` | dialogs, batches, tabs, replays, the base DN | delete, move, batches, syncConnectionContext | all of them may be under way when the connection is switched |

Interactions: handlers call the service; Connect and Disconnect end with the cancellation of the search sessions
and the invalidation of the schema of their id; the MCP server and the stdio pool call the same service; the
frontend holds identifiers of backend sessions and learns of their end by errors; the reaper and CloseAll act on
their own; entries of the request log and intents reach the workbench as events. `PROJECT.json` lists every part with
what is modelled of it, and every hazard at its line.

What makes each part correct:

* Connection table: a dialed connection is closed or owned, never orphaned by a Connect during the dial; an entry that
  was closed never serves again; a write reaches the server at most once; the status shown is that of the connection; no
  path keeps `entry.mu`; the policy in force governs what runs.
* Dial: no bind on a channel the profile does not ask for; no socket, no file and no context is left behind.
* Operations: nothing outside the bases changes or is returned, however names are spelled and wherever a rename goes;
  blocked attributes neither; every executed write is in the audit file if the store takes it; every search ends, whole
  or marked.
* Search sessions: a session's connection has exactly one owner who will close it; nobody pages on a closed one; the cap
  holds; pages come in order, none skipped; only the session's own connection ends it; an abandoned session is
  reclaimed; no cursor of a replaced configuration survives.
* Schema and values: no schema of a replaced configuration but by a known overlap; a password is written back as it was
  read.
* Processes: one answer per request, after its events; the panel shows the log.
* MCP tools: a destructive write is executed only as previewed, once, within its lifetime; a digest comes without gaps
  and stays while it is used; a call on the interface returns what was reported; what is said to be saved stays saved.
* Stdio pool: order and pool agree, eviction is least recently used, a pooled id is registered and a registered one is
  owned.
* Search view and form: the rows are the newest search's, in order, complete when the view says so; the cursor of every
  search that was left behind is cancelled; the view never spins for ever; the form searches for what was asked.
* Tree: a node shown as complete is complete.
* Entry editor and tabs: the user edits the entry that was opened last, and only what belongs to it; late attributes
  neither clear what was typed nor become edits; a confirmed change goes to the entry it was compared with.
* New entries: a copy, the wizard and an import add what was meant, whole, to the connection it was meant for, and not
  twice.
* Recovery and shell: a failure that would pass is retried, and not twice; what was begun on one connection does not
  reach the next.

## 2. Modules

| Module | Models |
| --- | --- |
| `RequestOnce` | abstract: what a caller of the connection layer is promised |
| `ConnLifecycle` | `service.go`, `dedicated_conn.go` and the gate of the handlers |
| `DirectoryOps` | the writes of `operations.go` under `policy.go`, with their audit |
| `ReadOps` | the reads of `operations.go`; extends `DirectoryOps` |
| `SchemaValues` | `schema.go`, SchemaMetadata, and the conversion of values |
| `Dialing` | `dial.go`, `auth_gssapi.go`, `ldapgssapi/client.go`, `check.go`, Service.Test |
| `SearchSessions` | `search_sessions.go` |
| `StdioPool` | the pool of `mcp/stdio.go` |
| `McpServe` | Serve and handleLine of `mcp/stdio.go`, `appbridge.go` |
| `Sidecar` | `main.go` on `sdk.go`, `logbuf.go`, and the log panel `logFeed.ts`, `LogPanelView.vue` |
| `TwoPhaseWrites` | `mcp/confirm.go`, the write and settings handlers of `mcp/server.go` |
| `DigestSessions` | `mcp/cursor.go`, `digest.go` and their handlers |
| `UiIntents` | `mcp/intent.go` and its handlers, `uiIntent.ts` |
| `LocalStore` | `store.go` under the presets and the settings |
| `SearchClient` | `lib/useSearchSession.ts` and the watchdog of `api.ts`, over the cursors of `search_sessions.go` |
| `EntryEditor` | `lib/useEntryDetail.ts`, `stagedEntry.ts`, `ldapDiff.ts`, the draft and the save of `EntryEditorDialog.vue` |
| `DnTree` | `components/DnTree.vue` |
| `SchemaView` | `lib/schemaCache.ts`, the refresh of `SchemaPanel.vue` |
| `FilterForm` | `components/SearchForm.vue`, `FilterGroup.vue`, `lib/ldapFilter.ts` |
| `Recovery` | the boot of `App.vue`, the ladder of `DnTree.vue`, `lib/useTransportWatch.ts` |
| `ReferenceTabs` | `lib/useReferenceTabs.ts` |
| `Shell` | dialogs, batches, events, tabs and the switch of the connection in `App.vue` |
| `CopyEntry` | `lib/copyEntry.ts`, openCopyEntry, the draft and the save of `EntryEditorDialog.vue` in its add mode |
| `EntryWizard` | `components/NewEntryWizard.vue`, `lib/newEntryTemplates.ts`, onWizardCreate |
| `ImportEntries` | `components/ImportEntryDialog.vue` |
| `NewEntries` | the last three beside one another |
| `…Proofs` (8 modules) | theorems proved by TLAPS, see section 4 |
| `MC…` | the instances for TLC |

Conventions: a critical section that waits for nothing is one step; a mutex held across the network
(`entry.mu`, `session.mu`) is a variable with its holder; a process is one request goroutine with a `pc`; in the
workbench everything from one `await` to the next is one step; objects
(`*connEntry`, `*ldapSearchSession`, tokens) are drawn from finite sets, whose size bounds a run. Operators marked
"Broken" or "Mutant" are mutated forms of the definition after them, used to show that a property notices the bug.

An MC module composes parts that share no variable: its initial states choose a `part`, and a behaviour is one of that
part while the others stay as they began. Each part is explored as in a run of its own, and a property of one is
trivially kept by the others. `MCConnLifecycle` is the package `ldapconn` (lifecycle, writes, reads, schema, dial),
`MCStdioPool` the two processes that serve on stdio (pool, sidecar, serve), `MCTwoPhaseWrites` the MCP tools and the
data directory (writes, digests, intents, store), `MCWorkbench` the frontend (search, editor, tree, schema, form,
recovery, references, shell, copy, wizard, import), `MCProgress` what liveness is checked of, `MCSearchSessions` only the
symmetry.

### ConnLifecycle

`conns` is the table; `profile`, `conn`, `status`, `mu` are the fields of an entry; `retired` are the entries that
were closed by whoever detached them; `ent`, `sock`, `req` are what a request has looked up, dialed, and achieved
(`hits`: how often the server has executed it). A write or a read passes `Policy` (the handler's `s.Get` and gate),
`Lookup` (under `Service.mu`), `Lock` (`entry.mu`), then, without a connection, `Check`, `Dial`, `Recheck`,
`Install` (connectLocked with its two identity checks), and `Fn` (the operation: ok, refused, or the connection is
lost, in which case it may or may not have been executed, and a read goes back to `Check` once). An aggregate read
dials its own connection: `Snapshot`, `DedicatedDial` (whose first failure falls back to the shared connection),
`DedicatedCheck`, `DedicatedFn`. Connect is `Swap`, `CloseOld`, `Cleanup`; Disconnect is `Remove` and the same two.
`CloseAll` empties the table (`toClose`) and closes the entries one by one, each behind the operation that holds its mutex.
At the end of input Serve has waited for its workers (`waited`); when it fails (sdk.go:155-157, 207), or the stand-alone
server's wait is over (main.go:91-94), it has not, and CloseAll runs beside the requests in flight.

### SearchSessions

`table`, and per session `made` (entry), `open`, `closed`, `smu`, `cookie`, `left`, `age`. `open` and `closed` differ as
in the code: `closed` is set under `session.mu`, the connection is closed after the mutex is released. A process that
takes sessions out of the table owns them in `todo` until it has closed them (`CloseNext`, `Shut`, `Drained`). Start is
`StartLookup`, `Prune`, `Count`, `StartDial`, `Identity`, `InstallSession`, then the paging steps `LockSession`, `Send`,
`Receive`, `Finish`, which SearchNext enters by `Prune` and `Find`. One page stands for its entries, and counts one of
`left`. The scan of `Prune` is one step because it holds `searchSessionsMu` and only tries the session mutexes.
`CloseAll` ends the serving, with requests still in flight or not, and `TakeAll` empties the table. A Connect with the
configuration in force is not a request here: it touches nothing.

### StdioPool

`pool`, `order`, and `registered` (the ids the service knows); a process is one of the places of the semaphore. `Hit`
and `Miss` are the two halves of pooledConnectionID's critical section, including the Connect inside it; `Disconnect`
is what happens to the evicted ids after the lock; `ById` is a call with a connection id; `Gate` and `Run` are the
call itself. `recency` is a history variable: the keys in the order of their last resolution.

### TwoPhaseWrites

`items` and `ttl` are the token store, `settings` and `disk` the setting in memory and in the file, `clock` the time,
read by a request (`Now`) before the critical section that uses it (`Issue`, `Consume`). `SettingsSet`, `Save`,
`Apply` are the three parts of mcp/settings/set; a save may fail. `Restart` may happen at any step. `granted`, `tried`
and `unsaved` are history variables.

### SearchClient

A search is named by its request number. `seq`, `active`, `model`, `rows`, `complete`, `truncated`, `searching`,
`loading`, `failed` are the state of the view; `starting` and `loaders` are the invocations of runSearch and
loadNextSearchPage that wait at their `await`, a loader with the pages it has not committed (`pending`). JavaScript
runs to completion, so `StartAnswered` and `NextAnswered` are everything from an `await` to the next one, with the
cases of the code: the newest search, a late answer, an error. The 250 milliseconds of the commit interval are a
choice in `MiddlePage`. `calls` and `answers` are sets: the host gives every call a goroutine of the sidecar, so they
overtake each other, and a call may never be served. `StartGivenUp` and `NextGivenUp` are the watchdog. The sidecar
keeps of a cursor its `size`, the pages served, and whether it is `open`; `Serve` serves a page, an error (which
stands for any, an expired cursor included) or a cancel. A call that was given up is still served. `gaveUp` is a
history variable. The second guard of the view, the connection id, is left out: the workbench calls `reset` before it
turns to another connection.

### EntryEditor

An attribute stands for a batch, a value for all values of an attribute; `Core`, `Regular` and `Deferred` are the three
stages of the read. `reads` are the invocations that wait for an entryGet, each with its request number (`seq`), what it
asks for, and what the entry held when it was sent: the sidecar reads the entry before or after the last modify.
`ReadArrives` is everything from that `await` to the next one, by the kind of the read: the core, the names of the rest
(or their values, from a sidecar that ignores `typesOnly`), a batch of regular or deferred attributes, the full read
after an error; `ReadFails` is an error or the watchdog. `Watch` is the dialog's watch at the end of the step: `InitFor`
makes a draft for another entry and merges (`Merge`, `Follow`) into the draft of the same one. `attrRows` is the draft
on the form, with the value each row came from; `ldifText` is what the LDIF tab parses to. `Save` compares (`Diff`),
`ConfirmChanges` sends to the DN of the draft, `ServeModify` is the sidecar, `ModifyAnswered` the rest of confirmChanges
and onEditorSaved. `had`, `touched`, `typed` and `asText` are history variables: the values an entry ever had, the
attributes the user edited, the text they were given, whether the draft has been on the LDIF tab. Left out: creating and
copying entries (see `EntryWizard` and `CopyEntry`), the limit of the cache, LDIF text that does not parse, required
attributes, several rows of one attribute, the tabs of open entries. An `add` to an attribute that is there counts as
its new value.

### DirectoryOps and ReadOps

`policy` is the profile, `tree` the directory as a set of DNs (sequences of RDNs, compared without regard to case as
canonicalRDN does), which another client changes too (`OtherClient`). A write is `Gated` on the DNs its handler checks
(a rename on both ends), then `Send` under WithConnOnce: the server, which is external (`Serves`, `Effect`), executes it
or not, and its answer may be lost either way. The record of the audit file is part of the step that answers
(`EmitAudit`); a store that is absent or fails does not take it, and the write is answered all the same. A recursive
delete is `listSubtreeDNs`, `deleteSubtree` with the tree-delete control, and without it `DeleteNext` for each entry,
deepest first. `Kill` ends whatever is in flight. `executed`, `killed` and `unrecorded` are history variables. The gate
of a rename and of a password operation is given no attributes (operations.go:712, 809), here as in the code. ReadOps
answers GetEntry, RootDSE, a search in one request, Count, Compare and WhoAmI in one step with what the policy lets
through; `SearchPaged` and `PageArrives` are the loop of pagedSearchEntries with its four ways to stop, against a server
that may send any number of entries and any cookie. A search in one request returns what the server has in scope
(`Matches`: with derefAliases set, also what aliases lead to, which may lie anywhere), cut at the limit and then marked
(`clampSearchEntries`).

### SchemaValues and Dialing

In `SchemaValues` a Connect is `Replace` and later `Invalidate`, a load `StartLoad` and `SchemaMetadata` with the
network between them; the metadata is a function of the configuration it was read under. A value travels by
`ldapEntryToType` and comes back by `decodeBinaryProtocolValues`, each asking the cache anew. `Dialing` is one dial, from
`BeginDial` to `ok` or `failed`, with the socket, the temporary file and the context it has at each step; `Reply` is
go-ldap's loop, which is external, and `Kerberos` the end of an attempt with its one retry on port 88. Test and the two
levels of Check use the same transport.

### Sidecar and McpServe

`Sidecar`: the reader (`decodeRequest`, `SkipLine`, `Initialize`) starts a goroutine per request, which runs `Connects`,
`Handle`, `RingAppend`, `emitEvent` and `respond`, each under its own lock or none; `CloseStdin` and `Exit` are the end,
after an error of the reader beside requests that go on until the process is gone. `auditRecord` is the event of a
write; its record in the file, which the store may not take, is that of `DirectoryOps`. `PanelMounts`, `TailAnswered`
and `handleEvent` are the log panel that merges the tail with the events. `McpServe`: `ReadLine` answers at once what
handleLine refuses and starts a goroutine otherwise; `Handled`, `resolveConnectionOrForward`, `ensureBridge` and
`callPluginTool` are a tool call, each step with its timeout, and `InputEnds` and `Drained` the bounded wait. Tools on a
session of the server itself are taken as quick.

### DigestSessions, UiIntents and LocalStore

`DigestSessions`: `searchDigest` aggregates and puts, evicting the session used least recently; `cursorNext` goes on or
seeks; `Configure` takes other settings. Rows are DNs. `loose` are the sessions of which a call gave an offset, or a
batch was dropped from an answer over the limit: the offset has moved past those rows, and who just goes on does not get
them. `UiIntents`: `Register`, the event in the `inbox` of each workbench, `handleIntent`, `Handled`, `ReportUIState`,
and `waitIntent`, which polls until a report, the timeout or the expiry. `LocalStore`: a call loads under its mutex
(`Lock`, `Change`), writes a temporary file and renames it (`SaveTemp`, `SaveJSON`), each of which may fail; `Killed`
may come at any step, and the next start loads with the defaults.

### DnTree

Node objects have names of their own, as two of them may have one DN while an answer still refers to the older one; what
nothing refers to any more is forgotten (`Kept`, `Settle`). A node has a derived field, `above`, with the nodes that
reach it by their `children`: the code walks the children of a node to find what is below it, and `Below` reads it off
(`makeNode`, `appendChildren` and `Emptied` keep it up to date). A request is `sent`, then `answered` or `failed`, and
`Deliver` is everything after the `await`. `revealDn` walks `chain` level by level and is itself such a continuation. Of
a directory (`Listing`: the DNs right below a DN) there is one child per page. `shared` is a history variable: the DNs
of which two readers used one cursor.

### SchemaView, ReferenceTabs

The cache, `sharedInFlight` and the generation of schemaCache.ts are one for all views; a schema is its version, which
only a refresh in the sidecar changes. A reference tab reads with a request number; `connectionsSeen` is a history
variable, as the code relies on the editor's closing to separate connections.

### FilterForm

A filter is its RFC 4515 structure. `parseFilterItem` reads it into the builder's tree, folding negations into groups and
operators (`foldFlag`, `foldNegation`), `buildNodeFilter` writes it, and the meaning of a filter is its truth, true, false
or undefined, in every assignment to its items. Edits change, add and remove clauses and groups; `said` is a history
variable: what the user asked for so far.

### CopyEntry, EntryWizard and ImportEntries

`CopyEntry`: `openCopyEntry` and `CopyArrives` are the read, `prepareCopyEntry` what becomes the draft; `RowFollows` is the
watch by which the naming row follows the RDN, `Attributes` and `FromText` go from rows to attributes and from the text to
rows. An RDN is one that parses or `Unparsed`, which stands for all others, the prefilled `cn=` and the half of an escape
among them; `lapsed` and `byHand` are history. RDNs of another attribute than the source's, and BER values, are left out.
`EntryWizard`: `chooseTemplate`, the classes, the RDN and the values are the four steps; `Mirrored` is the watch that
keeps a mandatory attribute at the RDN's value, and `schemaArrives` changes what is mandatory at any time. `ImportEntries`:
`doImport` and `retryFailed` begin a run, `RowAnswered` is one turn of its loop. Where an action ends at an `await`, the
answer is an action of its own, and it acts on whatever is open by then.

### Recovery and Shell

`Recovery` keeps the boot's probe, the reconnect the user asked for, the root loads under way, the ladder with its timer
and the transport watch; `treeRetryGuarded` is the code's guard over three of them. `abandoned` and `givenUp` are history
variables: an outage that tryRecover drops, a failure that owes no retry. `Shell` keeps the dialogs with their writes
under way, the batch, the open tabs, the pending replay and the base DN being resolved; `strayed` is a history variable,
what reached another connection than it was begun on. A preview that survives a switch of the connection is left out.

## 3. Runs

| Run | Instance | Shows |
| --- | --- | --- |
| `conn_safety` | lifecycle: 2 requests at a time, 2 entries, 2 configurations of which one is read-only, all kinds of requests; writes: 2 writes by 2 callers under 3 profiles, another client, a kill, 7 DNs; reads: the same profiles, limit 2, pages of up to 2 entries, cookies 0 to 2; schema: 2 loads, 2 configurations, time to 3; dial: 16 endpoints, 34 authentications, 4 levels, 3 replies | `StatusTruthful`, `NoSocketLeft`, `DetachedHasCloser`, `RetiredNeverServes`, `AtMostOnce` (refinement of `RequestOnce`); `WritesStayInside`, `AuditIsComplete`; `ReadsAreSound`; `StaleOnlyByOverlap`, `NamedValuesSurvive`; `DialIsSafe` |
| `conn_gate` | writes and Connects | violated: see Known divergences |
| `sessions_safety` | 2 requests and the reaper, 2 connection ids, 2 entries, 2 sessions for 1 place, 3 pages, limit 2 | `OpenHasOwner`, `PagesAreServed`, `WithinCapacity`, `OnlyOwnSessions` |
| `sessions_stale` | 2 entries, 1 session | violated: see Known divergences |
| `pool_safety` | pool: 3 calls, 4 keys of which one is refused, 2 places; sidecar: 2 requests, a log of 2; serve: 3 lines of 8 kinds, 2 at a time | `RegisteredIsOwned`, `PoolIsMostRecent`; `AnsweredOnce`, `PanelShowsTheLog`; `EveryLineHasItsReply` |
| `pool_late` | 2 calls, 3 keys, 2 places | violated: see Known divergences |
| `writes_safety` | writes: 2 requests, 2 connections, 2 tokens, 2 TTLs, time to 2, 2 settings, 1 restart; digests: 3 of 3 rows, capacity 2 or 3; intents: 2 for 1 place, 2 workbenches, time to 3; store: 2 savers, 3 calls, 2 presets, 2 settings, 1 kill | `WriteIsPreviewed`, `FileFollowsMemory`, `TokenIsTriedOnce`; `DigestIsServed`; `ResultIsReported`; `SavedIsKept` |
| `writes_ttl` | 1 token, 2 settings, 1 restart | violated: see Known divergences |
| `workbench` | search: 2 searches or resets, 3 pages, 2 calls per page loop; editor: 2 entries with an attribute of each kind, 2 openings, 1 save, edits of the deferred attribute (which has no row until it arrives); tree: 3 touches, 2 cursors, 3 pages; schema: 2 connections, 2 views, 3 loads, 2 refreshes; form: 11 filters, 3 clauses, 3 touches; recovery: ladders of 3, 4 events, 2 connections; references: 3 DNs for 2 tabs, 4 steps; shell: 2 connections, a parent and its child, 2 tabs, 3 steps; new entries: 2 connections, 5 steps for a copy, 6 for the wizard, 8 for an import | `RowsAreTheResult`, `CursorHasKeeper`; `EditorIsSound`; `CompleteUnlessShared`; `SchemaStaysFresh`; `FilterMeansTheSame`; `RetriesSurvive`; `TabsShowTheirEntry`; `StaysOnItsConnection`; `CreatedAsMeant` |
| `progress` | connections: 2 requests, 1 entry, aggregate reads (with their fallback to the shared connection), Connect, Disconnect; sessions: 2 requests and the reaper, 1 session; search: 2 searches, 2 pages; editor: 1 entry without regular attributes, 2 openings, 1 save | `EveryRequestReturns`, `DetachedIsClosed`, `ExpiredIsReclaimed`, `SpinnersStop` |
| `client_skip` | 2 searches, 3 pages | violated: see Known divergences |
| `editor_deletes` | 2 entries, 2 openings, 1 save, edits of the core attribute | violated: see Known divergences |

Why the bounds are enough: every hazard of the sidecar is a race of two requests, or of one request and the reaper, over
one object; two processes with an object and its successor (an entry and the one that replaces it, two sessions for one
place, three or four keys for two places, three digests for two) let each of them happen, and let what is left behind be
seen by a third request, since a process starts another request when it is done. A second replacement repeats the first;
the lifecycle was also explored with three entries. The proofs lift the bounds altogether, but for the form
and liveness. Two pages have no middle one; three do. In the workbench two searches suffice because only the newest
counts: an answer is of the newest search or of an older one (the properties also hold with three). Of the tree three
touches are a reveal or an expansion with two things that disturb it; four events are a failing load, a guard, what ends
the guard and a second failure; three steps of the shell are a write, a switch and what is opened after it.

Symmetry is used in three safety runs, over objects the specification does not tell apart. In `workbench`, whose parts
share their constants with no symmetry between them, interchangeable objects are told apart by what comes first: the first
entry that is opened, the first connection, the value of the first entry are one of their set. Two more bounds keep the
editor small: in `workbench` the LDIF tab is entered in the first opening only and may stay open into the second
(`TextInFirstOpening`; `editor_deletes` has the other case), in `progress` an edited draft stays off the LDIF tab
(`EditsInForm`), as no spinner depends on it. In `progress` the fairness of every part is assumed, and the only step another
part could take meanwhile, the reaper's tick, is excluded from its condition. `progress` has one entry, so that what
`DetachedIsClosed` is about there was detached by Disconnect or CloseAll, not replaced by a Connect.

Fairness: a step on the network ends because every dial, bind and operation has a timeout (`contextWithTimeout`,
`SetTimeout`; NormalizeProfile makes the timeout positive), hence weak fairness of `Work(p)`; a step that waits for a
mutex is given it in the end because `sync.Mutex` hands itself to a waiter after at most a millisecond of starvation,
hence strong fairness of `Acquire(p)` and of each `CloseEntry` of CloseAll, whose `TakeAll` waits for nothing; the reaper's
ticker ticks. The process may end as soon as CloseAll is through, so that what is promised to requests is promised while
it serves, and `DetachedIsClosed` until that end. Nothing is assumed of clients: no request has to
arrive, and `Expire`, `Tick` of the clock, restarts and losses are never forced. In `SearchClient` the fairness is that of
the watchdog's timer alone; the sidecar may stay silent. In `EntryEditor` every call ends, with an answer or by the same
watchdog; the user never has to do anything. Deadlock is checked in every run but those of the workbench and of liveness,
whose views really end (dispose, or the bound on what the user does). In the composed runs the parts that really end, or
that are bounded, may stay as they are once they are done (`Finished`); for the lifecycle, the pool and the writes of the
MCP server deadlock is checked.

## 4. Proofs

Each theorem holds for every value of the constants of its module that meets the assumptions the module names. They ask
for no more than the code provides: what stands for "nothing" is none of the values (`NoneAssumption`,
`EditorAssumption`, `RetryAssumption`, `ShellAssumption`), limits and capacities are numbers, and positive where the
code makes them so (`LogAssumption`, `IntentAssumption`, `DigestAssumption`, `ReadAssumption`; `ReferenceAssumption`: at
least two tabs; `IntentAssumption`: an intent outlives the longest wait), the bounds of a setting leave it a value
(`StoreAssumption`), the schema panel is one of the views (`SchemaAssumption`), profiles are profiles (`DirAssumption`),
an entry of the directory lies right below one DN and the base below none (`ListingAssumption`). TLC evaluates them in
the runs. Hardly any of the properties is inductive by itself; an inductive invariant, named `…Inv`, carries each, with
one lemma or step per action.

| Proof module | Proves about |
| --- | --- |
| `ConnLifecycleProofs` | `ConnLifecycle`: `TypeOK`, `DetachedHasCloser`, `RetiredNeverServes`, `StatusTruthful`, `NoSocketLeft`, and `AtMostOnce`, the refinement of `RequestOnce` |
| `SearchSessionsProofs` | `SearchSessions`: `OpenHasOwner`, `PagesAreServed`, `WithinCapacity`, `OnlyOwnSessions` |
| `DirectoryProofs` | `DirectoryOps`: `WritesStayInside`, `AuditIsComplete`; `ReadOps`: `ReadsAreSound`; `SchemaValues`: `StaleOnlyByOverlap`, `NamedValuesSurvive`; `Dialing`: `DialIsSafe` |
| `ServerProofs` | `StdioPool`: `RegisteredIsOwned`, `PoolIsMostRecent`; `McpServe`: `EveryLineHasItsReply`; `Sidecar`: `AnsweredOnce`, `PanelShowsTheLog` |
| `ToolsProofs` | `TwoPhaseWrites`: `TypeOK`, `WriteIsPreviewed`, `FileFollowsMemory`, `TokenIsTriedOnce`; `DigestSessions`: `DigestIsServed`; `UiIntents`: `ResultIsReported`; `LocalStore`: `SavedIsKept` |
| `SearchClientProofs` | `SearchClient`: `TypeOK`, `CursorHasKeeper`, `RowsAreTheResult` |
| `WorkbenchProofs` | `SchemaView`: `SchemaStaysFresh`; `Recovery`: `RetriesSurvive`; `Shell`: `StaysOnItsConnection`; `ReferenceTabs`: `TabsShowTheirEntry`; `EntryEditor`: `EditorIsSound`; `CopyEntry`, `EntryWizard`, `ImportEntries`: `CreatedAsMeant` |
| `DnTreeProofs` | `DnTree`: `CompleteUnlessShared` |

### The connection layer

`ConnLifecycle`. `IInv` adds what the four safety properties rest on:

* `Locking`: who is between `Lock` and `Unlock` is the holder of `entry.mu`; this is what keeps `CloseOld` and the
  operation apart.
* `Allocated`, `Closing`: an entry in the table or in a request's hands was allocated for its id, and the request at
  `closeOld` holds an entry that is detached. An entry never returns to the table once detached.
* `Retired`: a closed entry is detached and has no connection; with `EntryCurrent` checked before `Install`, and
  `mu` held from `Check` to `Fn`, nobody can give it one.
* `Working`, `Stopped`, `Tries`: where requests hold sockets, that after a CloseAll behind the workers none runs and what is
  open is on its list, that a request has at most two tries.

`Implements` proves `Spec => AtMostOnce`, the refinement of `RequestOnce` under the mapping `Call`: initial states map to
initial states, each action to `Begin`, `Execute`, `Answer` or a stutter; the second execution of a read is allowed since
`Tries` bounds the tries and `Retries` excludes writes.

`SearchSessions`. `SessionsInv` adds:

* `NamesAgree`: a request, the entry it dials from and the session it works on have the same connection id, since
  `Find` compares them and an entry never changes its id. `OnlyOwnSessions` follows from it.
* `NotYetKnown`: nobody but its Start knows a session before it is installed, so a failing Start closes a connection
  that nobody else uses.
* `TakenOnce`: sessions in the table are open, and the sets of sessions that processes have taken out of it are
  disjoint from each other and from the table; a process closes them one by one. Together with the owner of each open
  connection this says that a close happens once and is never forgotten.
* `PagersHold`: who pages holds `session.mu` of a session that is not closed, and the cookie has not moved since it
  was sent.
* `ReaperOnlyCloses`, and that the table is finite (`WithinCapacity` counts it).

`Dialing`. `DialInv` says for each step of a dial what socket there is, what was sent over it, which temporary file exists
and what the security context has proved. The ways an attempt of Kerberos can end share the lemma `AttemptEnds`.

`SchemaValues`. `StaleOnlyByOverlap` rests on `FilterRemoves` (a blocked name is in no type of the filtered schema),
`NamedValuesSurvive` on `WireByName` (the format of such an attribute on the wire depends on its name alone).

`DirectoryOps` and `ReadOps`. `AuditInv` adds to the account of the audit that every request has a number that is in
neither the file nor another request (`NumbersAreFresh`); `Emitted` says that a record is either in the file or known not
to have been taken. `WritesStayInside` is an action property: `GateInv` keeps of a
write under way that it passed the gate with the DNs it still carries (`Passed`), and that what a subtree delete has
listed lies under the DN it was gated on, so that each single step changes only what is covered (`Inside`). That a prefix
of a DN covers what lies under it is proved on sequences of any length. For reads `ReadInv` counts the pages of the loop:
`LoopIsBounded` says that a page brought an entry or is one of fewer than the patience since the last that did.

### The processes

`StdioPool`. A registered id is pooled or in the hands of the call that will disconnect it (`RegisteredIsOwned`, with
`OnlyAccepted`). `PoolInv` says that the order lists the pool without repetition and is what the history ends with
(`Listing`, `Ends`); that moving a key to the end keeps both is proved on the places of the sequence. `McpServe`. `ServeInv`
says that a line has no reply while its goroutine runs and then the one its shape asks for (`RepliesOfLine`: at most one,
none only for a notification), and that Serve returns at the end of the input only when none is left or its time is over.

`Sidecar`. `SideInv` says by the stage of a request what has been written for it (`WrittenByStage`), and that what must
come before an answer did (`Preceded`). For the panel, `RingInv` is the arithmetic of the ring: entry `n` is at place
`(n - 1) % LogMax`. `PanelInv` says of every entry among the last that it is shown, in the answer about the past, or on its
way as an event (`Flying`); as fewer than `LogMax` items are newer than any that is kept (`Cut`), merging drops only what
is too old.

### The tools and the data directory

`TwoPhaseWrites`. `Stored` (a token in the store carries what this process granted it for, and has never been presented)
and `Presented` (whoever presents a token presents one that was granted): a step that consumes a token executes only what
its preview promised, and since it deletes the token under the lock that finds it, no second request finds it again.
`DigestSessions`. `HandedToOffset` (what was handed out ends at the offset) and `Gone` (behind a session that stays, at
least as many were used later as the code counts). `UiIntents`. `InOrder` (the table keeps the order of the calls),
`OnlyPushed` (who is no longer in it was pushed out by as many newer ones as it holds), `StateIsTold`. `LocalStore`.
`CallsExclude` (one holder per document, whose temporary file it is) and `AckedIsKept` (what was acknowledged is in the
file, in memory and in whatever is being written).

### The workbench

`SearchClient`. `KeeperInv` gives each call of a search exactly one place, on the network, in its answer or given up
(`CalledOnce`), with somebody who waits for it (`SomeoneWaits`), one loader per search (`OneLoader`) and answers that say
what the cursor is (`AnswersTrue`); `RowsInv` says that what the loader holds, after the rows on screen, goes exactly as far
as the cursor (`Held`, `LoaderInOrder`), so that a page that is committed is the next one.

`SchemaView`. `Slots` (a slot in flight is of an unsettled fetch of its key and generation), `Versions` (what is cached
or may be is no older than the last refresh), `Served` (a view shows what it was promised or its answer is to come).
`Recovery`. `Steady` (a countdown runs unguarded, stands still guarded), `OwedIsKept`, `RootIsKnown`, `Budget` (a retry
was climbed for), `OutageIsWatched`. `Shell`. `TabsAreApart`, `ReplayIsHome`, `DialogIsHome`. `ReferenceTabs`.
`ReferenceInv` says of each tab what it shows or which of its requests it waits for (`TabIsHome`), and counts the tabs.

`EntryEditor`. `EditorInv` says that the newest read is for the entry asked for (`ReadIsActive`), that details, answers and
caches of an entry hold values it had (`EntryIsItsOwn`), that a save goes to the DN it was compared with
(`SavedToItsEntry`), and of the draft whose it is (`DraftIsOfOpen`), that text typed on the form is an edit and only that
(`TypedIsEdit`), that untouched rows follow the entry (`RowsFollow`), and that a preview holds edits of the draft
(`ChangesAreOfDraft`, `PreviewIsEdits`).

`CopyEntry`. `CopyInv` keeps the draft clean (`CleanDraft`) under every edit, one lemma each: its text and what it was
given hold nothing that may not be copied, its naming row never has the source's value and follows the RDN unless
something was done by hand or the RDN did not parse for a while. `EntryWizard`. `WizardInv`: an open wizard is the
current connection's, and at most one add is under way; what may be submitted is whole whatever schema has come
(`SubmittedIsWhole`). `ImportEntries`. `ImportInv`: of a run's rows none that is left was reported added, all are of its
connection unless the dialog kept or changed its rows under it, and every row without an answer is the one waited for or
still left (`RunIsSound`).

`DnTree`. `TreeInv` has five parts, and none of them is inductive without the others:

* `TreeForest`: the nodes that are kept are a forest. With the nodes above a node recorded in it (`above`), what hangs
  below a node is stated without recursion, and lemmas say that a page hangs its entry below one node
  (`AppliedForest`), that emptying a node cuts off what is below it and nothing else (`EmptiedForest`), that what nothing
  refers to may go (`KeptIsForest`), and that a DN is in the tree once (`DnsApart`).
* `Sessions`: no two DNs have one cursor, a cursor reads the DN it was opened for, and a first page on its way brings a
  cursor that nobody has.
* `Progress`: of a node whose cursor nobody shares, the cursor has one reader (`OneReader`), what is before the page it is
  at has arrived or is on its way (`CursorFollows`), and a page that arrives is the next one (`PageFollows`), so that the
  page that ends the cursor ends the list of children (`CompleteWhenDone`).
* `RevealOk`: revealDn waits for its own request, and its generation is that of the tree if its node is in the tree.
* `FirstLoad`: until the root is loaded its DN has no cursor and no other request, so a page of an earlier tree never
  meets the new root.

A step shrinks what is known (`Shrink`: a release, a failure, a dropped answer, a reload), asks for one more page
(`Sends`), is answered by the sidecar (`ServeStart`, `ServeNext`) or applies a page (`AppliedAs`); each kind has its lemmas
and each action is shown to be of one kind. An answer may be dropped without harm because a page of a private node that
is in the tree is of the present generation and of the cursor its DN has, hence applied.

### What stays with TLC

* Liveness (`EveryRequestReturns`, `DetachedIsClosed`, `ExpiredIsReclaimed`, `SpinnersStop`): fairness and ENABLED are
  outside the prover.
* `FilterForm` (`FilterMeansTheSame`): the parser, the writer and the meaning of a filter are recursive operators.
* The compositions in the MC modules, whose parts share no state.

What the code keeps as a list is modelled as a set wherever each member says its own place: the tabs of `Shell` and
`ReferenceTabs` (the step that opened them, their number), the order of use in `DigestSessions` (`later`: who was used
after a session), the entries left to a recursive delete (deepest first, in any order among the same depth), the rows left
to a run of an import (their numbers), the tail of the log in `Sidecar`.

## 5. Known divergences

Each is a run that TLC must find violated.

* `conn_gate`: AddEntry, ModifyEntry and DeleteEntry take the profile once and gate the write on it; WithConnOnce looks
  the entry up again. A Connect with `read_only` in between lets the write run on the read-only configuration
  (README.en.md:40: every write passes read-only mode). With aggregate reads in the workload the same property shows
  that Search and Count run under another configuration than the one their base DN and allowlist came from, also by
  the fallback of a failed dial, which the comment at dedicated_conn.go:63 rules out.
* `sessions_stale`: the identity check and the installation of a session are separate critical sections; a Connect
  and its clean-up fit in between (search_sessions.go:250).
* `pool_late`: the late Disconnect of an evicted id removes the registration of the same id pooled again meanwhile
  (stdio.go:692).
* `writes_ttl`: a persisted confirmTtlSecs is not applied at start; with more than one change and no restart, two
  concurrent changes may also apply their TTL in the other order than they were saved, which violates the same
  property.
* `client_skip`: the watchdog gives a page up, the sidecar serves it, the retry takes the page after it: entries are
  missing from a result that is shown, and can be exported, as complete (useSearchSession.ts:98, App.vue:890).
* `editor_deletes`: an entry that is opened again is shown from the cache, perhaps with its core attributes only, and is
  editable before the core read has answered, against useEntryDetail.ts:73-76 and 126-127. LDIF text edited in that
  time does not follow the attributes that arrive later, and the save proposes to delete them.

Seen while modelling and not given a run. Where a property has an exception for one of these, its comment says so.

* Sessions and pool: a second SearchNext that waits for `session.mu` behind the last page finds an empty cookie in a
  session that is still open, and searches from the first page again (search_sessions.go:283-341); poolHas does not
  touch the order, so a connection used by id ages as if unused; the evicted connection of a full pool is gone even if
  the new one is refused.
* Operations: a rename may change a blocked naming attribute, and a password operation writes userPassword, blocked by
  default, as both pass no attributes to the gate (operations.go:712, 809); derefAliases is passed on, so that a search
  may return entries outside the read bases (dial.go:357-370); an empty page that repeats its cookie ends a search
  unmarked and leaves the server its result set; a write is answered as done when its record could not be kept
  (main.go:659-671).
* Digests: a batch that makes an answer too large is dropped from it after the offset has moved past it
  (server.go:694-713, cursor.go:172); the answer is marked as truncated and says where it stopped, unless that is
  dropped too.
* Serving: the wait at the end of the input does not count the margin of a bridge that is being started; a notification
  that carries an id is answered when the server is busy and not otherwise; SettingsSet keeps the new settings in memory
  when their save fails.
* Schema: filterRawDefinitions keeps a definition if any of its names is allowed, its comment says it goes if any is
  blocked; a load that began before a Connect puts its schema after the invalidation; an octet string whose schema came
  into the cache between its reading and its writing is decoded though it went out as text, or not decoded though it
  went out as base64.
* Tree: continueOnePage does not look at `node.loading`, so that a reveal reads the cursor loadMore is reading, against
  the comment at DnTree.vue:491-494; invalidating or reloading a parent detaches children whose pages are on the way
  (191-194); ensureChildrenLoaded gives a node that is loading a second cursor (70).
* Schema of the workbench: the invalidation of one connection discards what another one's fetch under way answers, which
  is neither cached nor shown; refresh invalidates the connection the panel is on after its await; a load that failed
  leaves the former connection's schema in the panel.
* Form: emptying the builder and switching to the source brings the former text back (376-378); bytes that are no UTF-8
  become U+FFFD; a clause of escaped blanks is dropped, and an intent runs the broader filter; validateLDAPFilter
  rejects blanks between tokens that the parser accepts; parseTreeKeywordPrefix misses `givenName=`
  (ldapFilter.ts:641-647).
* Recovery and shell: tryRecover drops an outage of another connection without onRecovered, so that transportUnavailable
  stays set; confirmDelete and confirmRename read connectionId and deleteDn after the await, and their event and their
  closing may go to another connection or dialog; resolveAutoBaseDn takes the RootDSE of one connection for the next; a
  tab of a child that is open while its parent is moved is renamed to the parent's new DN.
* Editor: a row that was removed on the form comes back with the next attributes that arrive
  (EntryEditorDialog.vue:351-355); confirmChanges reports `saved` for the DN the draft has after its await, so when the
  editor was closed and another entry opened meanwhile, the save of the first closes the second (line 1002); initFor
  clears `saving` while a modify is on the way (line 297); after a deferred read that failed, leaving the LDIF tab for
  the association tab loses its edits to the merge, as syncRowsFromLdif makes the text the source of its rows (lines
  269, 507).
* New entries: the watch that keeps the naming row of a copy at its RDN skips an RDN that does not parse and then has
  nothing to compare the row with (EntryEditorDialog.vue:175-195): typing `cn=Doe`, a backslash and a comma, or deleting
  the value and typing another, sends the new RDN with the old value in the row, where
  EntryEditorDialog.copyPrefill.spec.ts:116-123 has it that filling the RDN is enough; a late answer to an add closes
  the wizard or the editor that is open by then, and what it holds (App.vue:773, 793); an RDN attribute that is optional
  may be sent with another value than the RDN (NewEntryWizard.vue:199-210); the wizard is given no raw definitions, so
  that superChain knows only the built-in chains (App.vue:457); a text parsed under a run of an import replaces the rows
  the run still takes by index, and a dialog that is opened again under a run keeps its rows, which may be for another
  connection (ImportEntryDialog.vue:258).
* Comparison: a late answer is compared with the target only, so that for another entry with the same target the older
  difference may be shown (CompareDialog.vue, not modelled).

## 6. Plan and limits

The plan began with the connection table, the search sessions, the stdio pool, the two-phase writes, the search view and
the editor, and went on with the schema caches, the tools of the MCP server, the processes that serve, the operations
under their policy, the store, and the view models of the workbench: all of these are modelled. Left, in this order:

1. Several rows of one attribute, LDIF text that does not parse.
2. `TwoPhaseWrites` composed with `ConnLifecycle`: a token against an id that is connected anew.
3. Liveness of the retries (`Recovery`) and of the calls on the interface (`UiIntents`).

Not modelled, and why: the parsers and formatters of DNs, LDIF, schema definitions, dates and values, password hashes
and exports are pure text functions without control that anything else depends on (what the policy and the filters do
with their results is modelled); the descriptors of the MCP tools and the conversion of their arguments are data; types
and the mapping of errors to texts likewise; of TLS and Kerberos what is negotiated inside one exchange is external,
only its outcome is shared; `internal/lifecycle/` parses the parameters of Connect and Disconnect; rendering, menus,
keyboard, themes and virtual scrolling have no state beyond the view models; bookmarks, history and preferences are
lists in the host's storage; translations, scripts, the mock host, docs and the manifest are not part of the running
system.
