---------------------------- MODULE EntryWizard ----------------------------
(* The wizard for a new entry (NewEntryWizard.vue) with the attributes its   *)
(* object classes ask for (newEntryTemplates.ts), and its submission         *)
(* (onWizardCreate in App.vue).  Names are compared without case.            *)
EXTENDS Naturals, FiniteSets

CONSTANTS
  WizardHosts,    \* connections
  MaxWizardSteps  \* bound: the user's steps and the failures

VARIABLES
  wizardHost,       \* the current connection
  wizard,           \* the dialog
  wizardSchema,     \* has the schema been loaded?
  wizardSubmitting,
  wizardAdds,       \* the onWizardCreate that wait for an entryAdd
  createdEntries,          \* history: what was sent
  wizardSteps

wizardVars == <<wizardHost, wizard, wizardSchema, wizardSubmitting, wizardAdds, createdEntries, wizardSteps>>

\* An object class the built-in tables know, and one only the schema knows; a
\* directory whose person needs no sn.
ObjectClasses == {"top", "person", "special"}
KNOWN_SUPERS == [top |-> {}, person |-> {"top"}, special |-> {}]
FALLBACK_MUST == [top |-> {}, person |-> {"cn", "sn"}, special |-> {}]
FALLBACK_MAY == [top |-> {}, person |-> {}, special |-> {}]
SchemaMust == [person |-> {"cn"}, special |-> {"uid"}]
SchemaMay == [person |-> {"sn"}, special |-> {"cn"}]
WizardAttrs == {"cn", "sn", "uid"}
WizardTemplates == {[classes |-> {"top", "person"}, rdnAttr |-> "cn"], [classes |-> {}, rdnAttr |-> ""]}
TypedValues == {"a", "b"}

WizardStep == wizardSteps < MaxWizardSteps /\ wizardSteps' = wizardSteps + 1

BlankWizard(host) ==
  [open |-> FALSE, of |-> host, step |-> 1, classes |-> {}, rdnAttr |-> "", rdnValue |-> "",
   values |-> [a \in WizardAttrs |-> ""]]

WizardInit ==
  /\ wizardHost \in WizardHosts /\ wizard = BlankWizard(wizardHost) /\ wizardSchema \in BOOLEAN
  /\ wizardSubmitting = FALSE /\ wizardAdds = {} /\ createdEntries = {} /\ wizardSteps = 0

\* ---- the attributes of the object classes.
superChain(class) ==
  LET upTo[n \in 0..Cardinality(ObjectClasses)] ==
        IF n = 0 THEN {class} ELSE upTo[n - 1] \cup UNION {KNOWN_SUPERS[c] : c \in upTo[n - 1]}
  IN upTo[Cardinality(ObjectClasses)]
classMust(live, class) == IF live /\ class \in DOMAIN SchemaMust THEN SchemaMust[class] ELSE FALLBACK_MUST[class]
classMay(live, class) == IF live /\ class \in DOMAIN SchemaMay THEN SchemaMay[class] ELSE FALLBACK_MAY[class]
ClassChains(classes) == UNION {superChain(c) : c \in classes}
mustAttributesFor(classes, live) == UNION {classMust(live, c) : c \in ClassChains(classes)}
mayAttributesFor(classes, live) ==
  UNION {classMay(live, c) : c \in ClassChains(classes)} \ mustAttributesFor(classes, live)

\* rdnMustKey: the mandatory attribute that the RDN is of, or "".
rdnMustKey(w, live) == IF w.rdnAttr \in mustAttributesFor(w.classes, live) THEN w.rdnAttr ELSE ""

\* The watch of the RDN's value and of rdnMustKey.
Mirrored(w, live) ==
  LET key == rdnMustKey(w, live)
  IN IF key # "" /\ <<w.rdnValue, key>> # <<wizard.rdnValue, rdnMustKey(wizard, wizardSchema)>>
     THEN [w EXCEPT !.values[key] = w.rdnValue] ELSE w

\* ---- the dialog.
WizardBecomes(w) ==
  /\ wizard' = Mirrored(w, wizardSchema)
  /\ UNCHANGED <<wizardHost, wizardSchema, wizardSubmitting, wizardAdds, createdEntries>>
AtStep(steps) == wizard.open /\ wizard.step \in steps

\* openAddChild resets everything.
openAddChild == ~wizard.open /\ WizardStep /\ WizardBecomes([BlankWizard(wizardHost) EXCEPT !.open = TRUE])
cancelWizard == wizard.open /\ WizardStep /\ WizardBecomes([wizard EXCEPT !.open = FALSE])
chooseTemplate(t) ==
  /\ AtStep({1}) /\ WizardStep
  /\ WizardBecomes([BlankWizard(wizard.of) EXCEPT
                      !.open = TRUE, !.step = 2, !.classes = t.classes, !.rdnAttr = t.rdnAttr])
addClass(c) ==
  /\ AtStep({2}) /\ c \notin wizard.classes /\ WizardStep /\ WizardBecomes([wizard EXCEPT !.classes = @ \cup {c}])
removeClass(c) ==
  /\ AtStep({2}) /\ c \in wizard.classes /\ WizardStep /\ WizardBecomes([wizard EXCEPT !.classes = @ \ {c}])
goForward ==
  /\ AtStep(1..3) /\ (wizard.step = 2 => wizard.classes # {})
  /\ WizardBecomes([wizard EXCEPT !.step = @ + 1]) /\ UNCHANGED wizardSteps
goBack == AtStep(2..4) /\ WizardBecomes([wizard EXCEPT !.step = @ - 1]) /\ UNCHANGED wizardSteps
typeRdnAttr(a) ==
  AtStep({3}) /\ a # wizard.rdnAttr /\ WizardStep /\ WizardBecomes([wizard EXCEPT !.rdnAttr = a])
typeRdnValue(v) ==
  AtStep({3}) /\ v # wizard.rdnValue /\ WizardStep /\ WizardBecomes([wizard EXCEPT !.rdnValue = v])
typeValue(a, v) ==
  /\ AtStep({4}) /\ WizardStep
  /\ a \in mustAttributesFor(wizard.classes, wizardSchema) \cup mayAttributesFor(wizard.classes, wizardSchema)
  /\ a # rdnMustKey(wizard, wizardSchema)
  /\ WizardBecomes([wizard EXCEPT !.values[a] = v])

\* The schema arrives while the wizard is open.
schemaArrives ==
  /\ ~wizardSchema /\ wizardSchema' = TRUE
  /\ wizard' = Mirrored(wizard, TRUE)
  /\ UNCHANGED <<wizardHost, wizardSubmitting, wizardAdds, createdEntries, wizardSteps>>

\* ---- the submission.
AttributeValue(w, live, a) == IF a = rdnMustKey(w, live) THEN w.rdnValue ELSE w.values[a]
missingMust(w, live) == {a \in mustAttributesFor(w.classes, live) : AttributeValue(w, live, a) = ""}
\* Mutant: what the last step showed when it was reached is not asked again.
uncheckedSubmit(w, live) == w.classes # {} /\ w.rdnAttr # "" /\ w.rdnValue # ""
canSubmit(w, live) == w.classes # {} /\ w.rdnAttr # "" /\ w.rdnValue # "" /\ missingMust(w, live) = {}

\* What the form shows and is not empty; the RDN's attribute if it is not among it.
Payload(w, live) ==
  LET shown == mustAttributesFor(w.classes, live) \cup mayAttributesFor(w.classes, live)
      filled == {a \in shown : AttributeValue(w, live, a) # ""}
  IN [a \in filled \cup {w.rdnAttr} |-> IF a \in filled THEN AttributeValue(w, live, a) ELSE w.rdnValue]

\* submit and onWizardCreate up to its await.
submitWizard ==
  /\ AtStep({4}) /\ canSubmit(wizard, wizardSchema) /\ ~wizardSubmitting
  /\ wizardSubmitting' = TRUE
  /\ LET add == [on |-> wizardHost, of |-> wizard.of, rdnAttr |-> wizard.rdnAttr, rdnValue |-> wizard.rdnValue,
                 must |-> mustAttributesFor(wizard.classes, wizardSchema),
                 attributes |-> Payload(wizard, wizardSchema)]
     IN wizardAdds' = wizardAdds \cup {add} /\ createdEntries' = createdEntries \cup {add}
  /\ UNCHANGED <<wizardHost, wizard, wizardSchema, wizardSteps>>

\* The rest of it: success closes the wizard, whatever it shows by now.
WizardAdded(add) ==
  /\ wizardAdds' = wizardAdds \ {add} /\ wizardSubmitting' = FALSE
  /\ \/ wizard' = [wizard EXCEPT !.open = FALSE] /\ UNCHANGED wizardSteps
     \/ WizardStep /\ UNCHANGED wizard
  /\ UNCHANGED <<wizardHost, wizardSchema, createdEntries>>

\* syncConnectionContext: the schema is that of the next connection.
switchWizardHost(to) ==
  /\ to # wizardHost /\ WizardStep
  /\ wizardHost' = to /\ wizardSchema' \in BOOLEAN
  /\ wizard' = Mirrored([wizard EXCEPT !.open = FALSE], wizardSchema')
  /\ UNCHANGED <<wizardSubmitting, wizardAdds, createdEntries>>

WizardNext ==
  \/ openAddChild \/ cancelWizard \/ goForward \/ goBack \/ schemaArrives \/ submitWizard
  \/ \E t \in WizardTemplates : chooseTemplate(t)
  \/ \E c \in ObjectClasses : addClass(c) \/ removeClass(c)
  \/ \E a \in WizardAttrs : typeRdnAttr(a) \/ \E v \in TypedValues : typeValue(a, v)
  \/ \E v \in TypedValues : typeRdnValue(v)
  \/ \E add \in wizardAdds : WizardAdded(add)
  \/ \E to \in WizardHosts : switchWizardHost(to)

WizardSpec == WizardInit /\ [][WizardNext]_wizardVars

(* What the wizard sends is whole, although classes and schema may change up *)
(* to the last moment: it goes to the connection the wizard was opened on,   *)
(* every attribute that is mandatory by then has a value, the attribute of   *)
(* the RDN is there, with the RDN's value if it is a mandatory one (the value*)
(* of an optional one may differ), and one submission is under way at a time.*)
CreatedEntryIsWhole ==
  /\ \A add \in createdEntries :
       /\ add.on = add.of
       /\ add.must \cup {add.rdnAttr} \subseteq DOMAIN add.attributes
       /\ \A a \in DOMAIN add.attributes : add.attributes[a] # ""
       /\ add.rdnAttr \in add.must => add.attributes[add.rdnAttr] = add.rdnValue
  /\ Cardinality(wizardAdds) <= 1 /\ (wizardSubmitting <=> wizardAdds # {})
=============================================================================
