--------------------------- MODULE ImportEntries ---------------------------
(* The import of entries from a text (ImportEntryDialog.vue): they are parsed*)
(* into rows, added one after the other, and those that failed may be run    *)
(* again, while the user parses another text, closes and reopens the         *)
(* dialog, or switches the connection.  Below which parent they go is left   *)
(* out.                                                                      *)
EXTENDS Naturals

CONSTANTS
  ImportHosts,   \* connections
  MaxImportSteps \* bound: the user's steps and the failures

VARIABLES
  importHost,    \* the current connection
  importOpen,
  importRows,    \* entries with rowStates: [kind, status]
  parsedOn,      \* history: the connection that was current when they were parsed
  textsParsed,   \* history: how many texts were parsed
  importRun,     \* runEntries: its connection, the rows that are left, the entryAdd it waits for;
                 \* history: the text it began with, and that of the row it waits for
  resultSummary, \* is there one?
  rowsKept,      \* history: the dialog was opened again while a run went on
  runInterrupted, \* history: a run of these rows ended by a switch, or began with other rows
  imported,      \* history: what was sent
  importSteps

importVars ==
  <<importHost, importOpen, importRows, parsedOn, textsParsed, importRun, resultSummary, rowsKept, runInterrupted,
    imported, importSteps>>

\* An entry, a change record, an entry without a DN (which no parent gives it:
\* joinRdnAndParent has no RDN to join).
AddRecord == "entry"
ImportTexts == {<<>>, <<AddRecord, AddRecord>>, <<"change", AddRecord>>, <<AddRecord, "unnamed">>}
NoImport == [conn |-> "none", begun |-> 0, left |-> {}, at |-> 0, of |-> 0]
importing == importRun # NoImport

ImportStep == importSteps < MaxImportSteps /\ importSteps' = importSteps + 1

ImportInit ==
  /\ importHost \in ImportHosts /\ importOpen = FALSE /\ importRows = <<>>
  /\ parsedOn = importHost /\ textsParsed = 0 /\ importRun = NoImport /\ resultSummary = FALSE
  /\ rowsKept = FALSE /\ runInterrupted = FALSE /\ imported = {} /\ importSteps = 0

\* What is opened anew is reset, but not under a run.
openImport ==
  /\ ~importOpen /\ ImportStep /\ importOpen' = TRUE
  /\ IF importing THEN rowsKept' = TRUE /\ UNCHANGED <<importRows, resultSummary>>
     ELSE rowsKept' = FALSE /\ importRows' = <<>> /\ resultSummary' = FALSE
  /\ UNCHANGED <<importHost, parsedOn, textsParsed, importRun, runInterrupted, imported>>

\* The user gives a run up only explicitly; it goes on all the same.
closeImport ==
  /\ importOpen /\ ImportStep /\ importOpen' = FALSE
  /\ UNCHANGED <<importHost, importRows, parsedOn, textsParsed, importRun, resultSummary, rowsKept, runInterrupted,
                 imported>>

\* syncConnectionContext
switchImportHost(to) ==
  /\ to # importHost /\ ImportStep /\ importHost' = to /\ importOpen' = FALSE
  /\ UNCHANGED <<importRows, parsedOn, textsParsed, importRun, resultSummary, rowsKept, runInterrupted, imported>>

\* runParse, by its button or a file; neither waits for a run.
runParse(kinds) ==
  /\ importOpen /\ ImportStep
  /\ importRows' = [i \in DOMAIN kinds |-> [kind |-> kinds[i], status |-> "pending"]]
  /\ parsedOn' = importHost /\ textsParsed' = textsParsed + 1 /\ resultSummary' = FALSE
  /\ rowsKept' = FALSE /\ runInterrupted' = importing
  /\ UNCHANGED <<importHost, importOpen, importRun, imported>>

\* ---- runEntries.
MarkRows(rows, those, status) ==
  [i \in DOMAIN rows |-> IF i \in those THEN [rows[i] EXCEPT !.status = status] ELSE rows[i]]

\* The rows `todo` are run in order.  Change records and entries without a DN
\* fail unsent; the first of the others is sent.
IsSendable(rows, i) == i \in DOMAIN rows /\ rows[i].kind = AddRecord
FinishRun(rows) == importRows' = rows /\ importRun' = NoImport /\ resultSummary' = TRUE
RunOn(conn, begun, rows, todo) ==
  LET sendable == {i \in todo : IsSendable(rows, i)}
      first == CHOOSE i \in sendable : \A j \in sendable : i <= j
      marked == MarkRows(rows, {i \in todo : \A j \in sendable : i < j}, "failed")
  IN IF sendable = {} THEN FinishRun(marked) /\ UNCHANGED imported
     ELSE /\ importRows' = marked
          /\ importRun' = [conn |-> conn, begun |-> begun, left |-> {i \in todo : i > first}, at |-> first,
                           of |-> textsParsed]
          /\ imported' = imported \cup
               {[row |-> first, of |-> textsParsed, begun |-> begun, on |-> importHost,
                 runOn |-> conn, parsedOn |-> parsedOn,
                 rowsKept |-> rowsKept, again |-> rows[first].status = "ok"]}
          /\ UNCHANGED resultSummary

\* The rows that retryFailed runs.
\* Mutant: what is not ok is run again.
notOk == {i \in DOMAIN importRows : importRows[i].kind = AddRecord}
failedRows == {i \in DOMAIN importRows : importRows[i].status = "failed"}

doImport ==
  /\ importOpen /\ ~importing /\ importRows # <<>> /\ ~resultSummary /\ ImportStep
  /\ RunOn(importHost, textsParsed, importRows, DOMAIN importRows)
  /\ UNCHANGED <<importHost, importOpen, parsedOn, textsParsed, rowsKept, runInterrupted>>
retryFailed ==
  /\ importOpen /\ ~importing /\ failedRows # {} /\ ImportStep
  /\ RunOn(importHost, textsParsed, importRows, failedRows)
  /\ UNCHANGED <<importHost, importOpen, parsedOn, textsParsed, rowsKept, runInterrupted>>

\* The answer to an add: its row may have been replaced by then.  A run goes on
\* only on its own connection.
RowAnswered(status) ==
  LET rows == IF importRun.of = textsParsed THEN MarkRows(importRows, {importRun.at}, status) ELSE importRows
  IN /\ importing
     /\ status = "failed" => importSteps < MaxImportSteps
     /\ importSteps' = IF status = "failed" THEN importSteps + 1 ELSE importSteps
     /\ IF importRun.left # {} /\ importHost # importRun.conn
        THEN FinishRun(rows) /\ runInterrupted' = TRUE /\ UNCHANGED imported
        ELSE RunOn(importRun.conn, importRun.begun, rows, importRun.left) /\ UNCHANGED runInterrupted
     /\ UNCHANGED <<importHost, importOpen, parsedOn, textsParsed, rowsKept>>

ImportNext ==
  \/ openImport \/ closeImport \/ doImport \/ retryFailed
  \/ \E to \in ImportHosts : switchImportHost(to)
  \/ \E kinds \in ImportTexts : runParse(kinds)
  \/ \E status \in {"ok", "failed"} : RowAnswered(status)

ImportSpec == ImportInit /\ [][ImportNext]_importVars

(* An entry is added on the connection its run began on, which is the one it *)
(* was parsed for, unless the dialog was opened again under a run, whose rows*)
(* it then keeps, or another text was parsed under the run, which then takes *)
(* rows of that; a row that was reported added is not sent again; and the    *)
(* summary of a run, unless it was interrupted, is of all rows.              *)
ImportsRunOnce ==
  /\ \A add \in imported :
       /\ add.on = add.runOn /\ ~add.again
       /\ add.on = add.parsedOn \/ add.rowsKept \/ add.begun # add.of
  /\ resultSummary /\ ~importing /\ ~runInterrupted =>
       \A i \in DOMAIN importRows : importRows[i].status # "pending"
=============================================================================
