----------------------------- MODULE CopyEntry -----------------------------
(* Copying an entry: the source is read (openCopyEntry, useEntryDetail.ts),  *)
(* what may be copied becomes a draft without a name (copyEntry.ts), and the *)
(* editor adds the new entry (EntryEditorDialog.vue in its add mode).        *)
EXTENDS Naturals

CONSTANTS
  CopyHosts,   \* connections
  MaxCopySteps \* bound: the user's steps and the failures

VARIABLES
  copyHost,    \* the current connection
  copySeq,     \* entryRequestSeq
  copyReads,   \* the openCopyEntry that wait for an entryGet: [seq, naming, on]
  addDraft,    \* rdnDraft, rows, editorTab and ldifText of the add mode
  addSaving,   \* saving
  copyAdds,    \* the saves that wait for an entryAdd
  copied,      \* history: what was sent
  copySteps

copyVars == <<copyHost, copySeq, copyReads, addDraft, addSaving, copyAdds, copied, copySteps>>

\* The source is named by an attribute that may be copied, that may not, or that is hidden.
Namings == {"cn", "name", "hidden"}
NotCopied == {"name", "userPassword"}  \* NON_COPYABLE_PASSWORDS, NON_COPYABLE_SYSTEM
ByTheSchema == {"vendorTime"}          \* NO-USER-MODIFICATION in the schema, if that is loaded
SourceAttrs == {"cn", "mail"} \cup NotCopied \cup ByTheSchema
CopyAttrs == SourceAttrs \cup Namings
Mandatory == {"cn"}                    \* what missingRequiredAttributes asks for
NoDraft == <<>>
NoRow == "no row"
OfSource == "of the source"
NewNames == {"new", "newer"}
Unparsed == ""                         \* every RDN that is not isLikelyRdn

CopyStep == copySteps < MaxCopySteps /\ copySteps' = copySteps + 1

CopyInit ==
  /\ copyHost \in CopyHosts /\ copySeq = 0 /\ copyReads = {} /\ addDraft = NoDraft
  /\ addSaving = FALSE /\ copyAdds = {} /\ copied = {} /\ copySteps = 0

\* prepareCopyEntry: the attribute that names the source is there without a
\* value, unless it may not be copied.
Skipped(schemaLoaded) == IF schemaLoaded THEN NotCopied \cup ByTheSchema ELSE NotCopied
prepareCopyEntry(naming, schemaLoaded) ==
  [a \in CopyAttrs |->
     IF a \in Skipped(schemaLoaded) THEN NoRow ELSE IF a = naming THEN ""
     ELSE IF a \in SourceAttrs THEN OfSource ELSE NoRow]

\* initFor in the add mode; the RDN is prefilled with `attribute=`, which does not
\* parse.  History: byHand, the naming attribute was given a value of its own or
\* the draft was text; lapsed, the RDN did not parse any more after it had.
NewDraft(r, rows) ==
  [of |-> r.on, naming |-> r.naming, rdn |-> Unparsed, rows |-> rows, given |-> rows, tab |-> "form",
   ldif |-> [rdn |-> Unparsed, rows |-> rows], byHand |-> FALSE, lapsed |-> FALSE]

\* openCopyEntry up to its await, from the tree: no dialog is over it.
openCopyEntry(naming) ==
  /\ CopyStep /\ addDraft = NoDraft
  /\ copySeq' = copySeq + 1
  /\ copyReads' = copyReads \cup {[seq |-> copySeq + 1, naming |-> naming, on |-> copyHost]}
  /\ UNCHANGED <<copyHost, addDraft, addSaving, copyAdds, copied>>

\* Mutant: any answer is taken for the one that is waited for.
anyAnswer(r) == TRUE
isLatest(r) == r.seq = copySeq

\* The rest of it: an older one is dropped, a failing one only reported.
CopyArrives(r) ==
  /\ copyReads' = copyReads \ {r}
  /\ \E schemaLoaded \in BOOLEAN :
       IF isLatest(r)
       THEN addDraft' = NewDraft(r, prepareCopyEntry(r.naming, schemaLoaded)) /\ addSaving' = FALSE
       ELSE UNCHANGED <<addDraft, addSaving>>
  /\ UNCHANGED <<copyHost, copySeq, copyAdds, copied, copySteps>>
CopyFails(r) ==
  /\ CopyStep /\ copyReads' = copyReads \ {r}
  /\ UNCHANGED <<copyHost, copySeq, addDraft, addSaving, copyAdds, copied>>

\* closeEditor, or an openEntry in place of the draft.
LeaveDraft == copySeq' = copySeq + 1 /\ addDraft' = NoDraft
closeCopy ==
  /\ CopyStep /\ LeaveDraft
  /\ UNCHANGED <<copyHost, copyReads, addSaving, copyAdds, copied>>

\* syncConnectionContext
switchCopyHost(to) ==
  /\ to # copyHost /\ CopyStep
  /\ copyHost' = to /\ LeaveDraft
  /\ UNCHANGED <<copyReads, addSaving, copyAdds, copied>>

\* ---- the draft.

\* The watch of rdnDraft: the row of the naming attribute follows an RDN that
\* parses, while it is empty or has the value of the RDN before it, if that parsed.
RowFollows(rows, naming, previous, next) ==
  IF next # Unparsed /\ rows[naming] \in {"", previous} THEN [rows EXCEPT ![naming] = next] ELSE rows

OnTab(tab) == addDraft # NoDraft /\ addDraft.tab = tab
DraftBecomes(d) ==
  /\ CopyStep /\ addDraft' = d
  /\ UNCHANGED <<copyHost, copySeq, copyReads, addSaving, copyAdds, copied>>

\* What is typed for the RDN parses, or does not: an empty value, or the half of an
\* escape or of a quote, as it is on the way to a longer one.  (RDNs of another
\* attribute and BER values, which no row follows either, are left out.)
typeRdn(value) ==
  /\ OnTab("form") /\ ~addSaving
  /\ DraftBecomes([addDraft EXCEPT !.rdn = value, !.lapsed = @ \/ (value = Unparsed /\ addDraft.rdn # Unparsed),
                                  !.rows = RowFollows(@, addDraft.naming, addDraft.rdn, value)])

typeNamingRow(value) ==
  /\ OnTab("form") /\ ~addSaving /\ addDraft.rows[addDraft.naming] # NoRow
  /\ DraftBecomes([addDraft EXCEPT !.rows[addDraft.naming] = value, !.byHand = TRUE])

\* rowsToAttributes: a row without a text is left out, unless the one empty value
\* of a row nobody touched is what it was given.
Attributes(d) == [a \in CopyAttrs |-> IF d.rows[a] = "" /\ d.given[a] # "" THEN NoRow ELSE d.rows[a]]

\* switchToLdif: the text has the RDN before the parent; one that does not parse may
\* do so together with it, as `cn=a\` does with the comma that follows.
toLdif ==
  /\ OnTab("form")
  /\ \E rdn \in IF addDraft.rdn = Unparsed THEN {Unparsed} \cup NewNames ELSE {addDraft.rdn} :
       DraftBecomes([addDraft EXCEPT !.tab = "ldif", !.byHand = TRUE,
                                     !.ldif = [rdn |-> rdn, rows |-> Attributes(addDraft)]])

typeLdif(rdn, value) ==
  /\ OnTab("ldif") /\ ~addSaving
  /\ DraftBecomes([addDraft EXCEPT !.ldif = [rdn |-> rdn, rows |-> [@.rows EXCEPT ![addDraft.naming] = value]]])

\* syncRowsFromLdif: the rows are what the text says.
FromText(d) == [d EXCEPT !.rdn = d.ldif.rdn, !.rows = d.ldif.rows, !.given = d.ldif.rows]

\* leaveLdif reads the text into the draft; the watch of rdnDraft comes after
\* the form is back.
toForm ==
  /\ OnTab("ldif")
  /\ LET d == FromText(addDraft)
     IN DraftBecomes([d EXCEPT !.tab = "form",
                 !.rows = IF d.rdn = addDraft.rdn THEN @ ELSE RowFollows(@, d.naming, addDraft.rdn, d.rdn)])

\* save in the add mode, up to its await: the text is read into the draft, and
\* what is complete is sent.
saveCopy ==
  /\ addDraft # NoDraft /\ ~addSaving
  /\ LET d == IF addDraft.tab = "ldif" THEN FromText(addDraft) ELSE addDraft
         add == [on |-> copyHost, of |-> d.of, naming |-> d.naming, rdn |-> d.rdn,
                 attributes |-> Attributes(d), byHand |-> d.byHand, lapsed |-> d.lapsed]
     IN /\ addDraft' = d
        /\ IF d.rdn # Unparsed /\ \A a \in Mandatory : add.attributes[a] \notin {NoRow, ""}
           THEN copyAdds' = copyAdds \cup {add} /\ copied' = copied \cup {add} /\ addSaving' = TRUE
           ELSE UNCHANGED <<copyAdds, copied, addSaving>>
  /\ UNCHANGED <<copyHost, copySeq, copyReads, copySteps>>

\* The rest of it: `saved` closes the editor, whatever it shows by now.
CopyAdded(add) ==
  /\ copyAdds' = copyAdds \ {add} /\ addSaving' = FALSE
  /\ \/ LeaveDraft /\ UNCHANGED copySteps
     \/ CopyStep /\ UNCHANGED <<copySeq, addDraft>>
  /\ UNCHANGED <<copyHost, copyReads, copied>>

CopyNext ==
  \/ \E naming \in Namings : openCopyEntry(naming)
  \/ \E r \in copyReads : CopyArrives(r) \/ CopyFails(r)
  \/ closeCopy
  \/ \E to \in CopyHosts : switchCopyHost(to)
  \/ \E value \in NewNames \cup {Unparsed} : typeRdn(value)
  \/ \E value \in NewNames \cup {""} : typeNamingRow(value)
  \/ \E rdn \in NewNames, value \in NewNames \cup {NoRow} : typeLdif(rdn, value)
  \/ toLdif \/ toForm \/ saveCopy
  \/ \E add \in copyAdds : CopyAdded(add)

CopySpec == CopyInit /\ [][CopyNext]_copyVars

(* A copy is added to the connection its source was read from, also when the *)
(* user switched, closed or began another copy while the source was read; it *)
(* has nothing that may not be copied; and it is named as the user said: its *)
(* naming attribute never has the source's value, and agrees with the RDN.   *)
(* Excepted from the last are the copies whose row or text was given a value *)
(* by hand, and those whose RDN did not parse for a while (emptied, or half  *)
(* of an escape): the row has a former value then, and does not follow more. *)
Agrees(add) == add.attributes[add.naming] = (IF add.naming \in NotCopied THEN NoRow ELSE add.rdn)
CopiesAreClean ==
  \A add \in copied :
    /\ add.on = add.of
    /\ \A a \in NotCopied : add.attributes[a] \in {NoRow} \cup NewNames
    /\ add.attributes[add.naming] # OfSource
    /\ ~add.byHand /\ ~add.lapsed => Agrees(add)
=============================================================================
