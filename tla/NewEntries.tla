----------------------------- MODULE NewEntries -----------------------------
(* The three ways to a new entry: a copy, the wizard, an import.  They share *)
(* nothing but the current connection, of which each has a copy of its own   *)
(* here, and may all be under way at once.                                   *)
EXTENDS CopyEntry, EntryWizard, ImportEntries

NewEntriesSpec == CopySpec /\ WizardSpec /\ ImportSpec

(* All three send what was meant, to the connection it was meant for, and    *)
(* once, but for what each of them excepts: naming rows of copies edited by  *)
(* hand or behind an RDN that did not parse for a while, optional attributes *)
(* of an RDN in the wizard, rows kept or parsed anew under a run.            *)
CreatedAsMeant == CopiesAreClean /\ CreatedEntryIsWhole /\ ImportsRunOnce
=============================================================================
