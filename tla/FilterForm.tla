----------------------------- MODULE FilterForm -----------------------------
(* The search form's two representations of one filter: the source text and  *)
(* the visual builder (components/SearchForm.vue, components/FilterGroup.vue,*)
(* lib/ldapFilter.ts).  A text is its RFC 4515 structure: an item, "not",    *)
(* "and", "or", nothing, or malformed.  Of values it matters whether they are*)
(* plain, an objectGUID in its textual form, bytes that are no UTF-8, or     *)
(* escaped blanks.                                                           *)
EXTENDS Naturals, Sequences, FiniteSets, SequencesExt

CONSTANTS
  Given,      \* filters of presets, history, commands, intents and the keyboard
  Typed,      \* the clauses that are typed: [attr, op, value]
  MaxFormTouches  \* bound on the user's steps

\* ---- filters and what they mean: true, false or undefined for an entry.
Item(attr, shape, value) == [tag |-> "item", attr |-> attr, shape |-> shape, value |-> value]
Not(f) == [tag |-> "not", items |-> <<f>>]
Junction(join, fs) == [tag |-> join, items |-> fs]
NoFilter == [tag |-> "nothing"]
Malformed == [tag |-> "malformed"]
Everything == Item("objectClass", "present", "")

RECURSIVE Leaves(_)
Leaves(f) ==
  CASE f.tag = "item" -> {f}
    [] f.tag \in {"not", "and", "or"} -> UNION {Leaves(f.items[i]) : i \in DOMAIN f.items}
    [] OTHER -> {}

\* Truth values in the order in which "and" takes the least and "or" the most.
No == 0
Undefined == 1
Yes == 2
RECURSIVE Truth(_, _)
Truth(f, entry) ==
  LET parts == {Truth(f.items[i], entry) : i \in DOMAIN f.items}
  IN CASE f.tag = "item" -> IF f = Everything THEN Yes ELSE entry[f]
       [] f.tag = "not" -> 2 - Truth(f.items[1], entry)
       [] f.tag = "and" -> CHOOSE t \in parts : \A s \in parts : t <= s
       [] f.tag = "or" -> CHOOSE t \in parts : \A s \in parts : t >= s
       [] OTHER -> Yes
SameMeaning(f, g) ==
  f = g \/ \A entry \in [Leaves(f) \cup Leaves(g) -> {No, Undefined, Yes}] : Truth(f, entry) = Truth(g, entry)

\* ---- the builder's tree.
Unreadable == [kind |-> "null"]
Clause(attr, op, value) == [kind |-> "clause", attribute |-> attr, op |-> op, value |-> value, negate |-> FALSE]
Group(join, children, negate) == [kind |-> "group", join |-> join, children |-> children, negate |-> negate]
IsNull(node) == node.kind = "null"

\* parseClauseItem: "multi" (several stars), "empty" and "extensible" have no operator.
Operator == [present |-> "present", equal |-> "equals", inner |-> "contains", initial |-> "startsWith",
             final |-> "endsWith", ge |-> "gte", le |-> "lte", approx |-> "approx"]
unescape(value) == IF value = "bytes" THEN "replacement characters" ELSE value
parseClauseItem(f) ==
  IF f.shape \notin DOMAIN Operator THEN Unreadable
  ELSE Clause(f.attr, Operator[f.shape], unescape(f.value))

\* Mutant: a second "!" is folded into the flag of the first.
foldFlag(child) ==
  CASE child.kind = "clause" /\ child.op = "equals" -> [child EXCEPT !.op = "notEquals"]
    [] child.kind = "clause" /\ child.op = "notEquals" -> [child EXCEPT !.op = "equals"]
    [] OTHER -> [child EXCEPT !.negate = TRUE]
\* "!" over a parsed node: != and back, a group around a negated node, or a flag.
foldNegation(child) ==
  CASE child.kind = "clause" /\ child.op = "equals" /\ ~child.negate -> [child EXCEPT !.op = "notEquals"]
    [] child.kind = "clause" /\ child.op = "notEquals" /\ ~child.negate -> [child EXCEPT !.op = "equals"]
    [] child.negate -> Group("and", <<child>>, TRUE)
    [] OTHER -> [child EXCEPT !.negate = TRUE]

RECURSIVE parseFilterItem(_)
parseFilterItem(f) ==
  CASE f.tag = "item" -> parseClauseItem(f)
    [] f.tag \in {"not", "and", "or"} ->
         LET nodes == [i \in DOMAIN f.items |-> parseFilterItem(f.items[i])]
         IN IF \E i \in DOMAIN nodes : IsNull(nodes[i]) THEN Unreadable
            ELSE IF f.tag = "not" THEN foldNegation(nodes[1]) ELSE Group(f.tag, nodes, FALSE)
    [] OTHER -> Unreadable
toBuilderRoot(node) == IF node.kind = "clause" THEN Group("and", <<node>>, FALSE) ELSE node

\* ---- the builder's text.
Blank(value) == value \in {"", "blanks"}
ShapeOf(op) == CHOOSE s \in DOMAIN Operator : Operator[s] = op
encode(c) == IF c.attribute = "objectGUID" /\ c.value = "uuid" THEN "bytes" ELSE c.value
buildBuilderClauseFilter(c) ==
  IF c.attribute = "" \/ (c.op # "present" /\ Blank(c.value)) THEN NoFilter
  ELSE CASE c.op = "present" -> Item(c.attribute, "present", "")
         [] c.op = "notEquals" -> Not(Item(c.attribute, "equal", encode(c)))
         [] c.op = "equals" -> Item(c.attribute, "equal", encode(c))
         [] OTHER -> Item(c.attribute, ShapeOf(c.op), c.value)

Meaningful(fs) == SelectSeq(fs, LAMBDA f : f # NoFilter)
combineFilters(fs, join) ==
  LET cleaned == Meaningful(fs)
  IN CASE cleaned = <<>> -> NoFilter [] Len(cleaned) = 1 -> cleaned[1] [] OTHER -> Junction(join, cleaned)

RECURSIVE buildNodeFilter(_)
buildNodeFilter(node) ==
  LET inner == IF node.kind = "clause" THEN buildBuilderClauseFilter(node)
               ELSE combineFilters([i \in DOMAIN node.children |-> buildNodeFilter(node.children[i])], node.join)
      negated == node.negate /\ (node.kind = "clause" => node.op # "notEquals")
  IN IF inner # NoFilter /\ negated THEN Not(inner) ELSE inner

\* collectBuilderErrors: an empty clause is none, a half-filled one is.
RECURSIVE builderValid(_)
builderValid(node) ==
  IF node.kind = "group" THEN \A i \in DOMAIN node.children : builderValid(node.children[i])
  ELSE IF node.attribute = "" THEN Blank(node.value) ELSE node.op = "present" \/ ~Blank(node.value)

(* What the rows of the builder say: every sign of negation counts, and one  *)
(* more at `flip`, the row whose NOT is clicked.                             *)
Nowhere == <<0>>
RECURSIVE Says(_, _)
Says(node, flip) ==
  LET within(i) == IF flip # <<>> /\ Head(flip) = i THEN Tail(flip) ELSE Nowhere
      parts == IF node.kind = "clause" THEN <<>>
               ELSE Meaningful([i \in DOMAIN node.children |-> Says(node.children[i], within(i))])
      plain == IF node.kind = "group"
               THEN IF parts = <<>> THEN NoFilter ELSE Junction(node.join, parts)
               ELSE buildBuilderClauseFilter([node EXCEPT !.op = IF @ = "notEquals" THEN "equals" ELSE @])
      signs == <<node.negate, node.kind = "clause" /\ node.op = "notEquals", flip = <<>>>>
  IN IF plain = NoFilter THEN NoFilter
     ELSE FoldLeft(LAMBDA f, sign : IF sign THEN Not(f) ELSE f, plain, signs)

\* ---- the form.
VARIABLES
  builderRoot,
  builderMode,
  sourceFilter,
  draftFilter,  \* draft.filter: of the last preset, command or intent
  said,         \* history: the filter the user has asked for
  formTouches

formVars == <<builderRoot, builderMode, sourceFilter, draftFilter, said, formTouches>>

generatedFilter == buildNodeFilter(builderRoot)
filterValid == IF builderMode THEN builderValid(builderRoot) ELSE sourceFilter # Malformed
toModel ==
  LET active == IF builderMode THEN generatedFilter ELSE sourceFilter
  IN IF active = NoFilter THEN Everything ELSE active

FormInit ==
  /\ builderRoot = Group("and", <<Clause("objectClass", "present", "")>>, FALSE)
  /\ builderMode = TRUE /\ sourceFilter = NoFilter
  /\ draftFilter = Everything /\ said = Everything /\ formTouches = 0

Touch == formTouches < MaxFormTouches /\ formTouches' = formTouches + 1

presentFilter(f) ==
  LET root == toBuilderRoot(parseFilterItem(f))
  IN /\ builderMode' = ~IsNull(root) /\ said' = f
     /\ IF IsNull(root) THEN sourceFilter' = f /\ UNCHANGED builderRoot
        ELSE builderRoot' = root /\ UNCHANGED sourceFilter

\* applyPreset, applyCommand, applyIntentSearch and resetSearch; applyHistory keeps the draft.
ApplyFilter(f) == f # Malformed /\ f # NoFilter /\ Touch /\ presentFilter(f) /\ draftFilter' = f
applyHistory(f) == f # Malformed /\ f # NoFilter /\ Touch /\ presentFilter(f) /\ UNCHANGED draftFilter

\* onCompactFilterInput, the source editor, and runFilterAt from the tree.
EnterSource(f) ==
  /\ Touch
  /\ sourceFilter' = f /\ builderMode' = FALSE /\ said' = f
  /\ UNCHANGED <<builderRoot, draftFilter>>

\* Rows that say nothing, or not enough, are gone with the builder: then the text is what counts.
switchToSource ==
  /\ builderMode /\ Touch
  /\ sourceFilter' = IF generatedFilter # NoFilter THEN generatedFilter ELSE draftFilter
  /\ builderMode' = FALSE
  /\ said' = IF builderValid(builderRoot) /\ generatedFilter # NoFilter THEN said ELSE sourceFilter'
  /\ UNCHANGED <<builderRoot, draftFilter>>

switchToBuilder ==
  LET root == toBuilderRoot(parseFilterItem(sourceFilter))
  IN /\ ~builderMode /\ Touch /\ ~IsNull(root)
     /\ builderRoot' = root /\ builderMode' = TRUE
     /\ UNCHANGED <<sourceFilter, draftFilter, said>>

\* ---- FilterGroup: the rows are edited in place.
RECURSIVE NodeAt(_, _)
NodeAt(node, path) == IF path = <<>> THEN node ELSE NodeAt(node.children[Head(path)], Tail(path))
RECURSIVE With(_, _, _)
With(node, path, new) ==
  IF path = <<>> THEN new
  ELSE [node EXCEPT !.children[Head(path)] = With(@, Tail(path), new)]
RECURSIVE PathsOf(_)
PathsOf(node) ==
  {<<>>} \cup (IF node.kind = "clause" THEN {}
               ELSE UNION {{<<i>> \o p : p \in PathsOf(node.children[i])} : i \in DOMAIN node.children})

EditBuilder(path, new, means) ==
  /\ Touch
  /\ builderRoot' = With(builderRoot, path, new)
  /\ said' = means
  /\ UNCHANGED <<builderMode, sourceFilter, draftFilter>>
Rewrite(path, new) == EditBuilder(path, new, Says(With(builderRoot, path, new), Nowhere))
Flip(path, new) == EditBuilder(path, new, Says(builderRoot, path))

setJoin(path, g) == Rewrite(path, [g EXCEPT !.join = IF @ = "and" THEN "or" ELSE "and"])
toggleGroupNot(path, g) == Flip(path, [g EXCEPT !.negate = ~@])
toggleClauseNot(path, c) ==
  Flip(path, IF c.op = "notEquals" THEN [c EXCEPT !.op = "equals", !.negate = FALSE] ELSE [c EXCEPT !.negate = ~@])
onClauseOpChange(path, c, op) ==
  Rewrite(path, [c EXCEPT !.op = op, !.negate = IF op = "notEquals" THEN FALSE ELSE @])
TypeClause(path, c, new) == Rewrite(path, [c EXCEPT !.attribute = new.attribute, !.value = new.value])
addClause(path, g) == Rewrite(path, [g EXCEPT !.children = Append(@, Clause("", "equals", ""))])
addGroup(path, g) ==
  /\ Len(path) < 1
  /\ Rewrite(path, [g EXCEPT !.children = Append(@, Group("and", <<Clause("", "equals", "")>>, FALSE))])
removeChild(path, g, i) == Rewrite(path, [g EXCEPT !.children = RemoveAt(@, i)])

EditGroup(path) ==
  LET g == NodeAt(builderRoot, path)
  IN /\ g.kind = "group"
     /\ \/ setJoin(path, g) \/ toggleGroupNot(path, g) \/ addClause(path, g) \/ addGroup(path, g)
        \/ \E i \in DOMAIN g.children : removeChild(path, g, i)
EditClause(path) ==
  LET c == NodeAt(builderRoot, path)
  IN /\ c.kind = "clause"
     /\ \/ toggleClauseNot(path, c)
        \/ \E new \in Typed : onClauseOpChange(path, c, new.op) \/ TypeClause(path, c, new)

FormNext ==
  \/ \E f \in Given : ApplyFilter(f) \/ applyHistory(f) \/ EnterSource(f)
  \/ switchToSource \/ switchToBuilder
  \/ builderMode /\ \E path \in PathsOf(builderRoot) : EditGroup(path) \/ EditClause(path)

(* A form that may run searches for what was asked: the filter it sends is   *)
(* true, false and undefined for the same entries as the one that was given, *)
(* through every parse, fold of a negation, edit and switch of the mode.     *)
(* Two kinds of values do not survive the builder and are excepted: bytes    *)
(* that are no UTF-8 (they are decoded to replacement characters) and values *)
(* of escaped blanks (they are trimmed away, and the clause with them).      *)
FilterMeansTheSame ==
  filterValid =>
    \/ SameMeaning(toModel, said)
    \/ \E leaf \in Leaves(said) : leaf.value \in {"bytes", "blanks"}
=============================================================================
