---------------------------- MODULE MCWorkbench ----------------------------
(* The workbench for TLC: its parts, which share no state.  A behaviour is   *)
(* one of a single part: the others stay as they began.                      *)
EXTENDS SearchClient, EntryEditor, DnTree, SchemaView, FilterForm, Recovery, ReferenceTabs, Shell,
        NewEntries, TLC

VARIABLE part

\* ---- the data of the instance.
ListingOfBase == [base |-> <<"a">>, a |-> <<"x", "y", "z">>, x |-> <<>>, y |-> <<>>, z |-> <<>>]
ChainToZ == {<<"base", "a", "z">>}

Equal == Item("cn", "equal", "v")
Has == Item("mail", "present", "")
GivenFilters ==
  { Everything, Equal, Not(Equal), Not(Not(Has)), Not(Junction("or", <<Not(Has), Equal>>)),
    Junction("and", <<Not(Not(Not(Equal))), Not(Not(Junction("or", <<Has, Item("sn", "initial", "v")>>)))>>),
    Item("cn", "multi", "v"), Item("objectGUID", "equal", "bytes"),
    Junction("and", <<Item("cn", "equal", "blanks"), Has>>), NoFilter, Malformed }
TypedClauses == { Clause("", "equals", ""), Clause("cn", "notEquals", "v"), Clause("objectGUID", "contains", "uuid") }

ParentOf == "parent" :> "parent" @@ "child" :> "parent"

\* ---- the composition.
\* Entries, their values and connections are interchangeable: it is enough to
\* begin with one of them.
FirstDn == CHOOSE dn \in Dns : TRUE
FirstValue == CHOOSE v \in Values : TRUE
FirstHost == CHOOSE h \in CopyHosts : TRUE

WorkbenchInit ==
  /\ part \in {"search", "editor", "tree", "schema", "form", "recovery", "references", "shell",
               "copy", "wizard", "import"}
  /\ Init /\ EditorInit /\ TreeInit /\ SchemaInit /\ FormInit /\ RecoveryInit /\ ReferenceInit /\ ShellInit
  /\ CopyInit /\ WizardInit /\ ImportInit
  /\ \A dn \in Dns : dn = FirstDn <=> \E a \in Attrs : dir[dn][a] = FirstValue
  /\ link = CHOOSE l \in Links : TRUE
  /\ part # "shell" => connectionId = CHOOSE k \in Connections : TRUE
  /\ copyHost = FirstHost /\ wizardHost = FirstHost /\ importHost = FirstHost
  /\ part # "wizard" => ~wizardSchema

\* Bounds the run: the LDIF tab is entered in the editor's first opening only,
\* and may stay open into the second.
TextInFirstOpening == editorTab = "ldif" \/ editorTab' # "ldif" \/ opens' = 1

WorkbenchNext ==
  /\ UNCHANGED part
  /\ \/ part = "search" /\ Next
        /\ UNCHANGED <<editorVars, treeVars, schemaVars, formVars, recoveryVars, referenceVars,
                       shellVars, copyVars, wizardVars, importVars>>
     \/ part = "editor" /\ EditorNext /\ (opens = 0 => editorRequestedDn' = FirstDn) /\ TextInFirstOpening
        /\ UNCHANGED <<vars, treeVars, schemaVars, formVars, recoveryVars, referenceVars, shellVars,
                       copyVars, wizardVars, importVars>>
     \/ part = "tree" /\ TreeNext
        /\ UNCHANGED <<vars, editorVars, schemaVars, formVars, recoveryVars, referenceVars, shellVars,
                       copyVars, wizardVars, importVars>>
     \/ part = "schema" /\ SchemaNext
        /\ UNCHANGED <<vars, editorVars, treeVars, formVars, recoveryVars, referenceVars, shellVars,
                       copyVars, wizardVars, importVars>>
     \/ part = "form" /\ FormNext
        /\ UNCHANGED <<vars, editorVars, treeVars, schemaVars, recoveryVars, referenceVars, shellVars,
                       copyVars, wizardVars, importVars>>
     \/ part = "recovery" /\ RecoveryNext
        /\ UNCHANGED <<vars, editorVars, treeVars, schemaVars, formVars, referenceVars, shellVars,
                       copyVars, wizardVars, importVars>>
     \/ part = "references" /\ ReferenceNext
        /\ UNCHANGED <<vars, editorVars, treeVars, schemaVars, formVars, recoveryVars, shellVars,
                       copyVars, wizardVars, importVars>>
     \/ part = "shell" /\ ShellNext
        /\ UNCHANGED <<vars, editorVars, treeVars, schemaVars, formVars, recoveryVars, referenceVars,
                       copyVars, wizardVars, importVars>>
     \/ part = "copy" /\ CopyNext
        /\ UNCHANGED <<vars, editorVars, treeVars, schemaVars, formVars, recoveryVars, referenceVars,
                       shellVars, wizardVars, importVars>>
     \/ part = "wizard" /\ WizardNext
        /\ UNCHANGED <<vars, editorVars, treeVars, schemaVars, formVars, recoveryVars, referenceVars,
                       shellVars, copyVars, importVars>>
     \/ part = "import" /\ ImportNext
        /\ UNCHANGED <<vars, editorVars, treeVars, schemaVars, formVars, recoveryVars, referenceVars,
                       shellVars, copyVars, wizardVars>>

workbenchVars ==
  <<vars, editorVars, treeVars, schemaVars, formVars, recoveryVars, referenceVars, shellVars, copyVars, wizardVars,
    importVars, part>>
Workbench == WorkbenchInit /\ [][WorkbenchNext]_workbenchVars
=============================================================================
