----------------------------- MODULE EntryEditor -----------------------------
(***************************************************************************)
(* The editor of one entry in the workbench: the session that reads the     *)
(* entry in stages (frontend/src/lib/useEntryDetail.ts), the dialog that    *)
(* keeps the user's draft while the stages arrive (EntryEditorDialog.vue),  *)
(* and the save (ldapDiff.ts, App.vue).                                     *)
(*                                                                          *)
(* An entry is read core first, then the names of the rest, the regular     *)
(* attributes batch by batch, and the deferred ones (members, binaries)     *)
(* when a tab asks for them.  A batch stands for one attribute, a value for *)
(* all values of an attribute.  JavaScript runs to completion, so what      *)
(* follows an await is one step, with the watch of the dialog at its end.   *)
(* Names are such that a module can extend SearchClient and this one.       *)
(***************************************************************************)
EXTENDS Naturals

CONSTANTS
  Dns,        \* the entries
  Core,       \* ENTRY_PRIORITY_ATTRIBUTES
  Regular,    \* the other attributes
  Deferred,   \* of isDeferredEntryAttribute
  Values,     \* what an attribute may hold
  MaxOpens,   \* bounds how often an entry is opened
  MaxSaves,   \* bounds the saves
  Editing,    \* bounds the attributes the user edits
  Absent      \* no value, no entry

Attrs == Core \cup Regular \cup Deferred

Content == [Attrs -> Values \cup {Absent}]   \* Absent: no such attribute, or not read
Row     == [text: Values \cup {Absent}, source: Values \cup {Absent}]
Edits   == UNION {[S -> Values \cup {Absent}] : S \in SUBSET Attrs}
Changes == [of: Dns, edits: Edits]   \* of: history, the entry that was compared
Detail  == [dn: Dns, attributes: Content]

ASSUME EditorAssumption ==
  /\ Editing \subseteq Attrs
  /\ Absent \notin Dns /\ Absent \notin Values
  /\ Absent \notin Content /\ Absent \notin Row /\ Absent \notin Changes /\ Absent \notin Detail

VARIABLES
  dir,                     \* the directory
  had,                     \* history: the values an entry ever had
  opens, saves,            \* how many there were
  entryRequestSeq,
  editorOpen, editorRequestedDn, editorEntry,
  editorLoading, editorLoadingMore, editorDeferredLoading, editorLoadError,
  editorDeferredAttributes, editorDeferredRequested,
  entryDetailCache,        \* by DN: the attributes
  reads,                   \* the continuations that wait for an entryGet
  initializedIdentity,     \* the DN the draft is of, unless the dialog was closed
  dnDraft,
  editorTab,
  attrRows,                \* `rows`: by attribute its text and the value it came from
  ldifText,                \* the text of the LDIF tab: what it parses to (nobody reads it on another tab)
  changesOpen,
  pendingChanges,
  saving,
  modifies,                \* the confirmChanges that wait for an entryModify
  touched,                 \* history: the attributes the user edited in this draft
  typed,                   \* history: the text they were given, unless undone or saved by others
  asText                   \* history: the draft has been on the LDIF tab

directory == <<dir, had>>
flags     == <<editorLoading, editorLoadingMore, editorDeferredLoading, editorLoadError>>
staged    == <<flags, editorDeferredAttributes>>
preview   == <<changesOpen, pendingChanges, saving>>
text      == <<attrRows, ldifText, touched, typed, asText>>
draft     == <<initializedIdentity, dnDraft, editorTab, text, preview>>
counts    == <<opens, saves>>
editorVars == <<directory, counts, entryRequestSeq, editorOpen, editorRequestedDn, editorEntry, staged,
                editorDeferredRequested, entryDetailCache, reads, draft, modifies>>

Kinds   == {"core", "names", "regular", "full", "deferred"}
Seqs    == 0..2 * MaxOpens + MaxSaves
Read    == [kind: Kinds, seq: Seqs, dn: Dns, todo: SUBSET Attrs, asks: SUBSET Attrs, asked: Content]
Modify  == [dn: Dns, changes: Changes, state: {"sent", "ok", "error"}]

EditorTypeOK ==
  /\ dir \in [Dns -> Content] /\ had \in [Dns -> SUBSET Values]
  /\ opens \in 0..MaxOpens /\ saves \in 0..MaxSaves
  /\ entryRequestSeq \in Seqs
  /\ editorOpen \in BOOLEAN /\ editorRequestedDn \in Dns \cup {Absent}
  /\ editorEntry \in Detail \cup {Absent}
  /\ {editorLoading, editorLoadingMore, editorDeferredLoading, editorLoadError, editorDeferredRequested} \subseteq BOOLEAN
  /\ editorDeferredAttributes \subseteq Deferred
  /\ entryDetailCache \in [Dns -> Content \cup {Absent}]
  /\ reads \subseteq Read
  /\ initializedIdentity \in Dns \cup {Absent} /\ dnDraft \in Dns \cup {Absent}
  /\ editorTab \in {"form", "ldif", "assoc"}
  /\ attrRows \in [Attrs -> Row \cup {Absent}] /\ ldifText \in Content
  /\ pendingChanges \in Changes \cup {Absent}
  /\ {changesOpen, saving, asText} \subseteq BOOLEAN
  /\ modifies \subseteq Modify
  /\ touched \subseteq Attrs /\ typed \in Edits

Nothing == [a \in Attrs |-> Absent]

EditorInit ==
  /\ \E value \in [Dns -> Values] :
       /\ \A m, n \in Dns : m # n => value[m] # value[n]   \* to tell them apart
       /\ dir = [dn \in Dns |-> [a \in Attrs |-> value[dn]]]
  /\ had = [dn \in Dns |-> {dir[dn][a] : a \in Attrs}]
  /\ opens = 0 /\ saves = 0
  /\ entryRequestSeq = 0
  /\ editorOpen = FALSE /\ editorRequestedDn = Absent /\ editorEntry = Absent
  /\ editorLoading = FALSE /\ editorLoadingMore = FALSE /\ editorDeferredLoading = FALSE
  /\ editorLoadError = FALSE
  /\ editorDeferredAttributes = {} /\ editorDeferredRequested = FALSE
  /\ entryDetailCache = [dn \in Dns |-> Absent]
  /\ reads = {}
  /\ initializedIdentity = Absent /\ dnDraft = Absent
  /\ editorTab = "form" /\ attrRows = Nothing /\ ldifText = Nothing
  /\ changesOpen = FALSE /\ pendingChanges = Absent /\ saving = FALSE
  /\ modifies = {}
  /\ touched = {} /\ typed = <<>> /\ asText = FALSE

----------------------------------------------------------------------------
(* The draft *)

\* entryToRows
RowsOf(content) ==
  [a \in Attrs |-> IF content[a] = Absent THEN Absent ELSE [text |-> content[a], source |-> content[a]]]

\* attrRowsToAttributes: a row without text is no attribute.
Draft(rows_) == [a \in Attrs |-> IF rows_[a] = Absent THEN Absent ELSE rows_[a].text]

\* The text of the LDIF tab is written from the rows, and read into them: a row
\* that is read anew has no source but itself.
syncLdifFromRows == Draft(attrRows)
syncRowsFromLdif == RowsOf(ldifText)

Edited(row) == row # Absent /\ row.text # row.source

\* Broken: what arrives replaces the draft.
Rebuild(rows_, content) == RowsOf(content)

\* mergeEntryDraft: edited rows keep their text, the others follow the entry.
Merge(rows_, content) ==
  [a \in Attrs |->
     IF ~Edited(rows_[a]) THEN RowsOf(content)[a]
     ELSE IF content[a] = Absent THEN rows_[a] ELSE [rows_[a] EXCEPT !.source = content[a]]]

\* The LDIF text follows as long as it is the mirror of the rows.  What the
\* entry has anyhow is no longer something the user typed.
Follow(rows_, ldif, content) ==
  /\ attrRows' = Merge(rows_, content)
  /\ typed' = [a \in {b \in DOMAIN typed : content[b] = Absent \/ typed[b] # content[b]} |-> typed[a]]
  /\ ldifText' = IF editorTab' # "ldif" THEN Nothing
                 ELSE IF ldif = Draft(rows_) THEN Draft(attrRows') ELSE ldif

NoPreview == saving' = FALSE /\ changesOpen' = FALSE /\ pendingChanges' = Absent

\* initFor: another entry than before gets a draft of its own, on the tab that
\* openEntry was asked for.
InitFor(entry) ==
  /\ NoPreview
  /\ initializedIdentity' = entry.dn
  /\ dnDraft' = entry.dn
  /\ IF initializedIdentity = entry.dn
     THEN UNCHANGED <<editorTab, touched, asText>> /\ Follow(attrRows, ldifText, entry.attributes)
     ELSE /\ attrRows' = RowsOf(entry.attributes)
          /\ ldifText' = Nothing
          /\ editorTab' \in {"form", "assoc"}
          /\ touched' = {} /\ typed' = <<>> /\ asText' = FALSE

\* The watch of the dialog, once a step has set what it watches (`changed`); it
\* leaves the draft alone under a spinner or an error.  A new draft on the
\* association tab asks for the deferred attributes: there are none yet, only
\* the wish (`wanted`) is kept.
Watch(changed, wanted) ==
  IF ~changed \/ editorLoading' \/ editorLoadError'
  THEN UNCHANGED draft /\ editorDeferredRequested' = wanted
  ELSE /\ InitFor(editorEntry')
       /\ editorDeferredRequested' = (wanted \/ (initializedIdentity # editorEntry'.dn /\ editorTab' = "assoc"))

----------------------------------------------------------------------------
(* The session: reading an entry *)

\* A call of entryGet, with what the entry has at that time.
Ask(kind, seq_, dn, todo, asks) ==
  [kind |-> kind, seq |-> seq_, dn |-> dn, todo |-> todo, asks |-> asks, asked |-> dir[dn]]

\* openEntry up to its await.  A cached detail is shown at once.  Nothing asks
\* for an unsaved draft here: a link, a bookmark or an intent may open an entry
\* at any time.
OpenEntry(dn) ==
  LET cached == entryDetailCache[dn] IN
  /\ opens < MaxOpens
  /\ opens' = opens + 1
  /\ entryRequestSeq' = entryRequestSeq + 1
  /\ editorOpen' = TRUE
  /\ editorRequestedDn' = dn
  /\ editorEntry' = IF cached = Absent THEN Absent ELSE [dn |-> dn, attributes |-> cached]
  /\ editorLoading' = (cached = Absent)
  /\ editorLoadError' = FALSE
  /\ editorLoadingMore' = FALSE /\ editorDeferredLoading' = FALSE
  /\ editorDeferredAttributes' = {}
  /\ reads' = reads \cup {Ask("core", entryRequestSeq + 1, dn, {}, Core)}
  /\ Watch(~editorOpen \/ editorEntry' # editorEntry \/ flags' # flags, FALSE)
  /\ UNCHANGED <<directory, saves, entryDetailCache, modifies>>

\* closeEditor, and the watch of the dialog.  The draft is not read again before
\* initFor replaces it, and is forgotten here.
Shut ==
  /\ entryRequestSeq' = entryRequestSeq + 1
  /\ editorOpen' = FALSE
  /\ editorLoading' = FALSE /\ editorLoadingMore' = FALSE /\ editorDeferredLoading' = FALSE
  /\ editorDeferredAttributes' = {} /\ editorDeferredRequested' = FALSE
  /\ editorLoadError' = FALSE
  /\ initializedIdentity' = Absent
  /\ editorTab' = "form" /\ attrRows' = Nothing /\ ldifText' = Nothing
  /\ touched' = {} /\ typed' = <<>> /\ asText' = FALSE
  /\ UNCHANGED <<editorRequestedDn, editorEntry>>

CloseEditor ==
  /\ editorOpen
  /\ Shut
  /\ UNCHANGED <<directory, counts, entryDetailCache, reads, modifies, dnDraft, preview>>

\* activeEntryRequest
Active(r) == r.seq = entryRequestSeq /\ editorOpen

\* mergeEntryAttributes
Overlay(old, new) == [a \in Attrs |-> IF new[a] = Absent THEN old[a] ELSE new[a]]

\* mergeEditorEntry
Extend(r, got) ==
  LET merged == Overlay(IF editorEntry = Absent THEN Nothing ELSE editorEntry.attributes, got) IN
  /\ editorEntry' = [dn |-> r.dn, attributes |-> merged]
  /\ entryDetailCache' = [entryDetailCache EXCEPT ![r.dn] = merged]

\* The next batch of those left to read.
NextBatch(kind, r, left) ==
  LET a == CHOOSE a \in left : TRUE IN Ask(kind, r.seq, r.dn, left \ {a}, {a})

\* loadDeferredEditorAttributes for the attributes `names`, beside other reads.
LoadDeferred(others, names) ==
  IF names = {} \/ editorDeferredLoading THEN reads' = others /\ UNCHANGED editorDeferredLoading
  ELSE /\ editorDeferredLoading' = TRUE
       /\ reads' = others \cup {NextBatch("deferred", [seq |-> entryRequestSeq, dn |-> editorRequestedDn], names)}

\* The `finally` of loadRegularEntryAttributes.
RegularDone(others, names) ==
  /\ editorLoadingMore' = FALSE
  /\ LoadDeferred(others, IF editorDeferredRequested THEN names ELSE {})

\* The core arrives; the names of the rest are asked for.
CoreArrives(r, got) ==
  /\ r.kind = "core"
  /\ editorEntry' = [dn |-> r.dn, attributes |-> got]
  /\ entryDetailCache' = [entryDetailCache EXCEPT ![r.dn] = got]
  /\ editorLoading' = FALSE /\ editorLoadingMore' = TRUE
  /\ reads' = (reads \ {r}) \cup {Ask("names", r.seq, r.dn, {}, Attrs)}
  /\ UNCHANGED <<editorDeferredLoading, editorLoadError, editorDeferredAttributes>>

\* partitionEntryAttributes
DeferredOf(names) == names \cap Deferred

NamesArrive(r, got) ==
  LET names == {a \in Attrs : got[a] # Absent} IN
  /\ r.kind = "names"
  /\ editorDeferredAttributes' = DeferredOf(names)
  /\ IF names \cap Regular = {} THEN RegularDone(reads \ {r}, DeferredOf(names))
     ELSE /\ reads' = (reads \ {r}) \cup {NextBatch("regular", r, names \cap Regular)}
          /\ UNCHANGED <<editorLoadingMore, editorDeferredLoading>>
  /\ UNCHANGED <<editorEntry, entryDetailCache, editorLoading, editorLoadError>>

RegularArrives(r, got) ==
  /\ r.kind = "regular"
  /\ Extend(r, got)
  /\ IF r.todo = {} THEN RegularDone(reads \ {r}, editorDeferredAttributes)
     ELSE /\ reads' = (reads \ {r}) \cup {NextBatch("regular", r, r.todo)}
          /\ UNCHANGED <<editorLoadingMore, editorDeferredLoading>>
  /\ UNCHANGED <<editorLoading, editorLoadError, editorDeferredAttributes>>

\* An old sidecar answers the names with their values; so does the full read
\* after an error.  The deferred attributes are withheld.
FullArrives(r, got) ==
  LET names == {a \in Deferred : got[a] # Absent} IN
  /\ r.kind \in {"names", "full"}
  /\ editorDeferredAttributes' = names
  /\ Extend(r, [a \in Attrs |-> IF a \in Regular THEN got[a] ELSE Absent])
  /\ RegularDone(reads \ {r}, names)
  /\ UNCHANGED <<editorLoading, editorLoadError>>

DeferredArrives(r, got) ==
  /\ r.kind = "deferred"
  /\ Extend(r, got)
  /\ IF r.todo = {}
     THEN reads' = reads \ {r} /\ editorDeferredAttributes' = {} /\ editorDeferredLoading' = FALSE
     ELSE /\ reads' = (reads \ {r}) \cup {NextBatch("deferred", r, r.todo)}
          /\ UNCHANGED <<editorDeferredAttributes, editorDeferredLoading>>
  /\ UNCHANGED <<editorLoading, editorLoadingMore, editorLoadError>>

\* What ends for an older request changes nothing.
Stale(r) ==
  /\ reads' = reads \ {r}
  /\ UNCHANGED <<editorEntry, entryDetailCache, staged, editorDeferredRequested, draft>>

\* The sidecar has read the entry before or after the last modify of it.
ReadArrives(r) ==
  /\ r \in reads
  /\ IF Active(r)
     THEN \E content \in {r.asked, dir[r.dn]} :
            LET got == [a \in Attrs |-> IF a \in r.asks THEN content[a] ELSE Absent] IN
            \/ /\ CoreArrives(r, got) \/ RegularArrives(r, got) \/ FullArrives(r, got) \/ DeferredArrives(r, got)
               /\ Watch(TRUE, editorDeferredRequested)
            \/ /\ NamesArrive(r, got)
               /\ Watch(flags' # flags, editorDeferredRequested)
     ELSE Stale(r)
  /\ UNCHANGED <<directory, counts, entryRequestSeq, editorOpen, editorRequestedDn, modifies>>

\* Broken: the spinner of a read that failed keeps spinning.
FailsQuietly(r) ==
  /\ reads' = reads \ {r}
  /\ editorLoadError' = (editorLoadError \/ r.kind = "core")
  /\ UNCHANGED <<editorLoading, editorLoadingMore, editorDeferredLoading>>

\* An error of the sidecar, or the watchdog: the core is reported; the staged
\* read falls back to a full one, once; the deferred may be asked for again.
Fails(r) ==
  /\ editorLoadError' = (editorLoadError \/ r.kind = "core")
  /\ editorLoading' = (editorLoading /\ r.kind # "core")
  /\ \/ /\ r.kind = "core"
        /\ reads' = reads \ {r}
        /\ UNCHANGED <<editorLoadingMore, editorDeferredLoading>>
     \/ /\ r.kind \in {"names", "regular"}
        /\ reads' = (reads \ {r}) \cup {Ask("full", r.seq, r.dn, {}, Attrs)}
        /\ UNCHANGED <<editorLoadingMore, editorDeferredLoading>>
     \/ r.kind = "full" /\ RegularDone(reads \ {r}, editorDeferredAttributes)
     \/ /\ r.kind = "deferred"
        /\ reads' = reads \ {r} /\ editorDeferredLoading' = FALSE
        /\ UNCHANGED editorLoadingMore

ReadFails(r) ==
  /\ r \in reads
  /\ IF Active(r)
     THEN /\ Fails(r)
          /\ UNCHANGED <<editorEntry, entryDetailCache, editorDeferredAttributes>>
          /\ Watch(flags' # flags, editorDeferredRequested)
     ELSE Stale(r)
  /\ UNCHANGED <<directory, counts, entryRequestSeq, editorOpen, editorRequestedDn, modifies>>

----------------------------------------------------------------------------
(* The dialog *)

\* The editor is on the screen, without a spinner or a preview over it.
Shown == editorOpen /\ ~editorLoading /\ ~editorLoadError /\ ~changesOpen

\* `editable`, for a connection that can be written to.
Editable == Shown /\ ~saving /\ ~editorLoadingMore /\ ~editorDeferredLoading

\* switchToForm, switchToLdif, switchToAssoc.  Whoever leaves the LDIF tab makes
\* its text the draft (leaveLdif; a text that does not parse keeps the tab).  The
\* last two ask for the deferred attributes; the watch follows if they are read.
SwitchTab(tab) ==
  LET left   == IF editorTab = "ldif" /\ tab # "ldif" THEN syncRowsFromLdif ELSE attrRows
      synced == IF tab # "ldif" THEN Nothing ELSE IF editorTab = "ldif" THEN ldifText ELSE syncLdifFromRows
  IN /\ Shown
     /\ editorTab' = tab
     /\ asText' = (asText \/ tab = "ldif")
     /\ LoadDeferred(reads, IF tab = "form" THEN {} ELSE editorDeferredAttributes)
     /\ editorDeferredRequested' = (editorDeferredRequested \/ tab # "form")
     /\ IF editorDeferredLoading' # editorDeferredLoading
        THEN Follow(left, synced, editorEntry.attributes) /\ NoPreview
        ELSE attrRows' = left /\ ldifText' = synced /\ UNCHANGED <<typed, preview>>
     /\ UNCHANGED <<directory, counts, entryRequestSeq, editorOpen, editorRequestedDn, editorEntry, editorLoading,
                    editorLoadingMore, editorLoadError, editorDeferredAttributes, entryDetailCache,
                    initializedIdentity, dnDraft, touched, modifies>>

\* The user gives an attribute a text; back to the source, nothing is typed.
Type(a, value, source) ==
  LET others == DOMAIN typed \ {a}
      now == IF value = source THEN others ELSE others \cup {a}
  IN /\ touched' = touched \cup {a}
     /\ typed' = [b \in now |-> IF b = a THEN value ELSE typed[b]]

\* A keystroke, addRow or removeRow on the form, or a keystroke in the LDIF.
Edit(a, value) ==
  /\ Editable
  /\ \/ /\ editorTab = "form"
        /\ LET row == IF attrRows[a] = Absent THEN [text |-> Absent, source |-> Absent] ELSE attrRows[a]
           IN /\ \/ attrRows' = [attrRows EXCEPT ![a] = [row EXCEPT !.text = value]]
                 \/ value = Absent /\ attrRows' = [attrRows EXCEPT ![a] = Absent]
              /\ Type(a, value, row.source)
        /\ UNCHANGED ldifText
     \/ /\ editorTab = "ldif"
        /\ ldifText' = [ldifText EXCEPT ![a] = value]
        /\ Type(a, value, editorEntry.attributes[a])
        /\ UNCHANGED attrRows
  /\ UNCHANGED <<directory, counts, entryRequestSeq, editorOpen, editorRequestedDn, editorEntry, staged,
                 editorDeferredRequested, entryDetailCache, reads, initializedIdentity, dnDraft, editorTab,
                 asText, preview, modifies>>

\* diffChanges; the value of a deleted attribute is Absent.
Diff(before, after) == [a \in {b \in Attrs : before[b] # after[b]} |-> after[a]]

\* save: the preview of the changes.  Without a change the editor is closed.
Save ==
  LET rows_ == IF editorTab = "ldif" THEN syncRowsFromLdif ELSE attrRows
      edits == Diff(editorEntry.attributes, Draft(rows_))
  IN /\ Editable /\ editorTab # "assoc"
     /\ IF edits = <<>>
        THEN /\ Shut
             /\ UNCHANGED <<saves, preview>>
        ELSE /\ attrRows' = rows_
             /\ saves < MaxSaves
             /\ saves' = saves + 1
             /\ changesOpen' = TRUE
             /\ pendingChanges' = [of |-> editorEntry.dn, edits |-> edits]
             /\ UNCHANGED <<entryRequestSeq, editorOpen, editorRequestedDn, editorEntry, staged,
                            editorDeferredRequested, initializedIdentity, saving, editorTab, ldifText, touched, typed, asText>>
     /\ UNCHANGED <<directory, opens, entryDetailCache, reads, dnDraft, modifies>>

CancelChanges ==
  /\ editorOpen /\ changesOpen /\ ~saving
  /\ changesOpen' = FALSE /\ pendingChanges' = Absent
  /\ UNCHANGED <<directory, counts, entryRequestSeq, editorOpen, editorRequestedDn, editorEntry, staged,
                 editorDeferredRequested, entryDetailCache, reads, initializedIdentity, dnDraft, editorTab,
                 text, saving, modifies>>

\* Broken: the write goes to the entry that was asked for last.
ModifyRequested(changes) == [dn |-> editorRequestedDn, changes |-> changes, state |-> "sent"]

ModifyDraft(changes) == [dn |-> dnDraft, changes |-> changes, state |-> "sent"]

\* confirmChanges up to its await.
ConfirmChanges ==
  /\ editorOpen /\ changesOpen /\ ~saving /\ pendingChanges # Absent
  /\ changesOpen' = FALSE
  /\ saving' = TRUE
  /\ modifies' = modifies \cup {ModifyDraft(pendingChanges)}
  /\ UNCHANGED <<directory, counts, entryRequestSeq, editorOpen, editorRequestedDn, editorEntry, staged,
                 editorDeferredRequested, entryDetailCache, reads, initializedIdentity, dnDraft, editorTab,
                 text, pendingChanges>>

\* The sidecar executes a modify, and answers ok unless it fails or the answer
\* comes too late.  The answer says nothing of the changes.  (An `add` to an
\* attribute that is there, unread, counts as the new value.)
ServeModify(m) ==
  LET after == [a \in Attrs |-> IF a \in DOMAIN m.changes.edits THEN m.changes.edits[a] ELSE dir[m.dn][a]]
  IN /\ m \in modifies /\ m.state = "sent"
     /\ \/ dir' = [dir EXCEPT ![m.dn] = after]
        \/ UNCHANGED dir
     /\ had' = [had EXCEPT ![m.dn] = @ \cup ({dir'[m.dn][a] : a \in Attrs} \ {Absent})]
     /\ \E state \in IF dir' = dir THEN {"error"} ELSE {"ok", "error"} :
          modifies' = (modifies \ {m}) \cup {[m EXCEPT !.state = state, !.changes.edits = <<>>]}
     /\ UNCHANGED <<counts, entryRequestSeq, editorOpen, editorRequestedDn, editorEntry, staged,
                    editorDeferredRequested, entryDetailCache, reads, draft>>

\* `saved` invalidates the detail of the draft that is there now and closes the editor.
onEditorSaved == Shut /\ entryDetailCache' = [entryDetailCache EXCEPT ![dnDraft] = Absent]

\* The rest of confirmChanges: `saved`, and then the `finally`.
ModifyAnswered(m) ==
  /\ m \in modifies /\ m.state # "sent"
  /\ modifies' = modifies \ {m}
  /\ saving' = FALSE /\ pendingChanges' = Absent
  /\ IF m.state = "ok"
     THEN onEditorSaved
     ELSE UNCHANGED <<entryRequestSeq, editorOpen, editorRequestedDn, editorEntry, staged, editorDeferredRequested,
                      entryDetailCache, initializedIdentity, editorTab, text>>
  /\ UNCHANGED <<directory, counts, reads, dnDraft, changesOpen>>

ReadEnds(kind) == \E r \in reads : r.kind = kind /\ (ReadArrives(r) \/ ReadFails(r))
ModifyEnds == \E m \in modifies : ServeModify(m) \/ ModifyAnswered(m)

EditorNext ==
  \/ \E dn \in Dns : OpenEntry(dn)
  \/ CloseEditor
  \/ \E kind \in Kinds : ReadEnds(kind)
  \/ \E tab \in {"form", "ldif", "assoc"} : SwitchTab(tab)
  \/ \E a \in Editing, value \in Values \cup {Absent} : Edit(a, value)
  \/ Save \/ CancelChanges \/ ConfirmChanges
  \/ ModifyEnds

EditorSpec == EditorInit /\ [][EditorNext]_editorVars

\* Every call of the host ends: api.ts arms a watchdog for each.
EditorFairness == (\A kind \in Kinds : WF_editorVars(ReadEnds(kind))) /\ WF_editorVars(ModifyEnds)

----------------------------------------------------------------------------
(* Properties *)

\* useEntryDetail.ts:140, 165-167: whatever answers are still on the way, the user only ever
\* edits the draft of the entry that was asked for last.
DraftIsOfEntry ==
  Editable => /\ editorEntry # Absent
              /\ {initializedIdentity, dnDraft, editorEntry.dn} = {editorRequestedDn}

\* What an editor or the cache holds of an entry, that entry has had: answers for
\* one entry never get into the detail of another.
EntryIsItsOwn ==
  /\ editorEntry # Absent => \A a \in Attrs : editorEntry.attributes[a] \in had[editorEntry.dn] \cup {Absent}
  /\ \A dn \in Dns : entryDetailCache[dn] # Absent =>
       \A a \in Attrs : entryDetailCache[dn][a] \in had[dn] \cup {Absent}

\* EntryEditorDialog.vue:327-330: attributes that arrive late do not clear what
\* the user typed on the form meanwhile (removals aside, and drafts that have been
\* LDIF text).
TypedTextSurvives ==
  initializedIdentity # Absent /\ ~asText =>
    \A a \in DOMAIN typed : typed[a] # Absent => attrRows[a] # Absent /\ attrRows[a].text = typed[a]

\* The changes shown for confirmation are the user's: no attribute that arrived
\* late, or not at all, is taken for an edit (LDIF text aside).  (The late answer
\* of an older save takes the changes away under the preview.)
Previewing == changesOpen /\ pendingChanges # Absent /\ initializedIdentity # Absent
PreviewIsEdits == Previewing /\ ~asText => DOMAIN pendingChanges.edits \subseteq touched

\* A confirmed change is written to the entry that it is the difference to, also
\* when another entry is opened under the preview.
SavedToItsEntry == \A m \in modifies : m.dn = m.changes.of

\* However the reads, the openings and the saves of two entries overlap, what is
\* shown, edited, kept and written of one is of that one.
EntriesStayApart == DraftIsOfEntry /\ EntryIsItsOwn /\ SavedToItsEntry

\* A draft that has not been on the LDIF tab holds what the user did to it (removals
\* aside), and nothing else.  For LDIF text this is not so: see NoForeignDelete.
EditsAreKept == TypedTextSurvives /\ PreviewIsEdits

\* Both: what is read of one entry is never shown for, nor written to, another, and
\* what is typed for it on the form is neither lost to a late read nor added to.
EditorIsSound == EntriesStayApart /\ EditsAreKept

\* No spinner of the editor spins for ever, nor does a save.
EditorBusy == editorLoading \/ editorLoadingMore \/ editorDeferredLoading \/ saving
EditorSettles == EditorBusy ~> ~EditorBusy

\* useEntryDetail.ts:73-76: "a partial edit can never manufacture deletes for
\* attributes that have not arrived yet".
NoForeignDelete ==
  Previewing => \A a \in DOMAIN pendingChanges.edits : pendingChanges.edits[a] = Absent => a \in touched
=============================================================================
