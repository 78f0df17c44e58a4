------------------------------ MODULE ReadOps -------------------------------
(* The reads of ldapconn (operations.go): gated, bounded and filtered.  A    *)
(* search by pages runs against a server that may break the paging rules;    *)
(* the other reads are one request.  Nothing writes while a read runs: the   *)
(* entries a read finds are DirectoryOps' initial ones.                      *)
EXTENDS DirectoryOps

CONSTANTS
  SearchLimit,  \* the aggregate limit of the search
  CountLimit,   \* countLimit
  MaxPage,      \* bound: entries in a page of the server
  MaxEmpty,     \* maxPagedEmptyPages
  Cookies       \* the cookies of a server, naturals; 0 is no cookie

ASSUME ReadAssumption ==
  SearchLimit \in Nat \ {0} /\ CountLimit \in Nat /\ MaxPage \in Nat /\ MaxEmpty \in Nat \ {0}

VARIABLES
  readPc,           \* what the read does: "idle", "paging", "done"
  answer,       \* what it returned
  paging,       \* the state of the loop of pagedSearchEntries
  cursor        \* the result set the server keeps: "none", "open", "abandoned"

readVars == <<readPc, answer, paging, cursor>>

NoAnswer == [result |-> "none"]
Children(dn) == {d \in Below(dn) : Len(d) = Len(dn) + 1}
InScope(base, scope) ==
  CASE scope = "base" -> {base} \cap tree [] scope = "one" -> Children(base) [] scope = "sub" -> Under(base)

\* What the server finds, external.  With derefAliases other than "never" it
\* follows aliases, which lead anywhere in the tree; only a search asks for that.
Matches(base, scope, derefAliases) ==
  IF derefAliases THEN SUBSET tree ELSE {InScope(base, scope)}

Denied == [result |-> "denied"]
Failed == [result |-> "error"]
\* `given` is what the server found, `cut` what was kept of it.
Found(given, cut, derefAliases, asked) ==
  [result |-> "entries", given |-> given, dns |-> cut.dns, truncated |-> cut.truncated,
   derefAliases |-> derefAliases, asked |-> asked,
   attrs |-> newLDAPBlockedAttributeFilter(policy, IF asked = {} THEN Attrs ELSE asked \ {"1.1"})]

Gives(a) == readPc' = "done" /\ answer' = a /\ UNCHANGED <<paging, cursor>>
Whole(dns) == [dns |-> dns, truncated |-> FALSE]
\* The server answers, or the request fails.
Reads(dn, a) ==
  /\ readPc = "idle"
  /\ IF ensureLDAPReadAllowed(policy, dn) THEN Gives(a) \/ Gives(Failed) ELSE Gives(Denied)

GetEntry(dn, requested) ==
  Reads(dn, IF dn \in tree THEN Found({dn}, Whole({dn}), FALSE, effectiveReadAttributes(policy, requested)) ELSE Failed)

\* The root DSE is no entry of the tree: with read bases it is not read at all.
RootDSE(requested) ==
  /\ readPc = "idle"
  /\ IF policy.readBases # {} THEN Gives(Denied)
     ELSE Gives(Failed) \/ Gives(Found({}, Whole({}), FALSE, effectiveReadAttributes(policy, requested)))

Compare(dn, attr) == dn # <<>> /\ Reads(dn, IF dn \in tree THEN [result |-> "compared"] ELSE Failed)

WhoAmI == readPc = "idle" /\ (Gives([result |-> "identity"]) \/ Gives(Failed))

\* A server that cuts the answer off has more than it gave.
countFromSearchResult(dn, n, exceeded) ==
  IF exceeded \/ n > CountLimit
  THEN [result |-> "count", dn |-> dn, count |-> CountLimit, truncated |-> TRUE]
  ELSE [result |-> "count", dn |-> dn, count |-> n, truncated |-> FALSE]

Count(dn) ==
  LET n == Cardinality(Children(dn))
  IN \E exceeded \in IF n > CountLimit THEN BOOLEAN ELSE {FALSE} :
       Reads(dn, countFromSearchResult(dn, n, exceeded))

Cuts(given) == {d \in SUBSET given : Cardinality(d) = SearchLimit}

\* Mutant: what was cut off is not marked.
CutUnmarked(given) == {Whole(d) : d \in IF Cardinality(given) > SearchLimit THEN Cuts(given) ELSE {given}}

clampSearchEntries(given) ==
  IF Cardinality(given) > SearchLimit
  THEN {[dns |-> d, truncated |-> TRUE] : d \in Cuts(given)} ELSE {Whole(given)}

\* The base is gated, what comes back is not looked at again but for its attributes.
SearchOnce(base, scope, derefAliases, requested) ==
  \E given \in Matches(base, scope, derefAliases) : \E cut \in clampSearchEntries(given) :
    Reads(base, IF base \in tree
                THEN Found(given, cut, derefAliases, effectiveReadAttributes(policy, requested)) ELSE Failed)

SearchPaged(base) ==
  /\ readPc = "idle"
  /\ IF ensureLDAPReadAllowed(policy, base)
     THEN /\ readPc' = "paging" /\ paging' = [got |-> 0, empty |-> 0, last |-> 0, pages |-> 0]
          /\ UNCHANGED <<answer, cursor>>
     ELSE Gives(Denied)

\* Mutant: empty pages are taken for as long as they come.
NeverGivesUp(n, empty) == FALSE

GivesUp(n, empty) == n = 0 /\ empty >= MaxEmpty

(* One turn of the loop of pagedSearchEntries: the server gives n entries    *)
(* and the cookie k, or an error.                                            *)
Stop(a, abandon) ==
  /\ readPc' = "done" /\ answer' = a
  /\ cursor' = IF abandon THEN "abandoned" ELSE cursor
Page(n, k, truncated) ==
  [result |-> "page", got |-> n, truncated |-> truncated, more |-> k # 0]

PageFails ==
  /\ readPc = "paging"
  /\ Stop(Failed, paging.last # 0) /\ UNCHANGED paging

PageArrives(n, k) ==
  LET got == paging.got + n
      empty == IF n = 0 THEN paging.empty + 1 ELSE 0
      seen == IF k = 0 THEN "none" ELSE "open"
      Ends(truncated, abandon) ==
        /\ readPc' = "done" /\ answer' = Page(IF got > SearchLimit THEN SearchLimit ELSE got, k, truncated)
        /\ cursor' = IF abandon THEN "abandoned" ELSE seen
  IN /\ readPc = "paging"
     /\ paging' = [got |-> got, empty |-> empty, last |-> k, pages |-> paging.pages + 1]
     /\ IF got >= SearchLimit THEN Ends(TRUE, k # 0)
        ELSE IF k = 0 THEN Ends(FALSE, FALSE)
        ELSE IF n = 0 /\ k = paging.last THEN Ends(FALSE, FALSE)
        ELSE IF GivesUp(n, empty) THEN Ends(TRUE, TRUE)
        ELSE cursor' = seen /\ UNCHANGED <<readPc, answer>>

ReadInit ==
  /\ readPc = "idle" /\ answer = NoAnswer /\ cursor = "none"
  /\ paging = [got |-> 0, empty |-> 0, last |-> 0, pages |-> 0]

ReadNext ==
  \/ \E dn \in Dns, requested \in SUBSET Attrs :
       \/ GetEntry(dn, requested)
       \/ \E scope \in {"base", "one", "sub"}, derefAliases \in BOOLEAN :
            SearchOnce(dn, scope, derefAliases, requested)
  \/ \E requested \in SUBSET Attrs : RootDSE(requested)
  \/ \E dn \in Dns : Count(dn) \/ SearchPaged(dn) \/ \E attr \in Attrs : Compare(dn, attr)
  \/ WhoAmI
  \/ PageFails
  \/ \E n \in 0..MaxPage, k \in Cookies : PageArrives(n, k)

ReadSpec == DirInit /\ ReadInit /\ [][ReadNext /\ UNCHANGED dirVars]_<<dirVars, readVars>>

\* What a read returns holds no blocked attribute, a request of blocked
\* attributes only asks for none, and its entries lie within the read bases,
\* unless it had the server follow aliases: where these lead is not gated.  A
\* search by one request returns all that the server gave or is marked as
\* truncated, and a count that is not marked is exact.
ReadsAreFiltered ==
  /\ answer.result = "entries" =>
       /\ answer.attrs \cap firstBlockedLDAPAttribute(policy, Attrs) = {}
       /\ answer.asked \cap firstBlockedLDAPAttribute(policy, Attrs) = {}
       /\ answer.derefAliases \/ \A d \in answer.dns : policy.readBases = {} \/ dnWithinAnyBase(d, policy.readBases)
       /\ answer.truncated \/ answer.dns = answer.given
  /\ answer.result = "count" /\ ~answer.truncated => answer.count = Cardinality(Children(answer.dn))

\* The loop ends against every server, however it pages: after so many pages
\* at most, with no more than the limit.  A result that is not marked as
\* truncated ends with the server's last page, and no result set is left on the
\* server, with one exception: an empty page that repeats its cookie ends the
\* loop unmarked, and the result set stays.
PagingEnds ==
  /\ paging.pages <= SearchLimit * MaxEmpty
  /\ readPc = "done" /\ paging.pages > 0 =>
       /\ answer.result = "page" => answer.got <= SearchLimit
       /\ answer.result = "page" /\ ~answer.truncated => ~answer.more \/ paging.empty > 0
       /\ cursor = "open" => answer.result = "page" /\ ~answer.truncated /\ paging.empty > 0

\* Whatever the policy and the pages of the server, a read comes to an end with
\* what it may return, all that the server gave or marked as cut off, but for
\* what ReadsAreFiltered and PagingEnds except: followed aliases, and a server
\* that repeats its cookie with an empty page.
ReadsAreSound == ReadsAreFiltered /\ PagingEnds
=============================================================================
