---------------------------- MODULE DirectoryOps ----------------------------
(* The LDAP operations of ldapconn (operations.go) under the policy of the   *)
(* connection's profile (policy.go), against a directory that other clients  *)
(* change too.  A write is gated, sent once, and audited; a read is gated    *)
(* and its answer filtered.  A DN is a sequence of RDNs, the entry's own     *)
(* first, as ldap.ParseDN gives it; the lifecycle of the connection itself   *)
(* is ConnLifecycle's.                                                       *)
EXTENDS Integers, Sequences, FiniteSets

CONSTANTS
  Callers,      \* the requests that may be in flight together
  Rdns,         \* the RDNs below the root of the directory
  Profiles,     \* the profiles a connection may have, see ProfileType
  MaxOps,       \* bound: how many writes are started
  MaxOther,     \* bound: how many entries other clients add or delete
  MaxSubtree,   \* maxSubtreeDeleteEntries
  NoOp          \* a caller that runs nothing

Names == {"r", "R"} \cup Rdns
Attrs == {"cn", "pw", "pw;binary"}
ProfileType == [readOnly : BOOLEAN, readBases : SUBSET Seq(Names),
                writeBases : SUBSET Seq(Names), blocked : SUBSET Attrs]
OpKinds == {"add", "modify", "rename", "delete"}

ASSUME DirAssumption == Profiles \subseteq ProfileType /\ NoOp \notin OpKinds

VARIABLES
  policy,       \* the profile of the connection
  tree,         \* the DNs of the entries of the directory
  ops,          \* what each caller does
  audit,        \* write -> its audit record, one or none
  unrecorded,   \* history: the writes whose record the store did not take
  executed,     \* the writes the server has executed, in part or whole
  killed,       \* the writes in flight when the process was killed
  nextOp,       \* the number of the next write
  others        \* how often another client changed the directory

dirVars == <<policy, tree, ops, audit, unrecorded, executed, killed, nextOp, others>>

Root == <<"r">>
NamesUnder(dn) == {<<x>> \o dn : x \in Rdns}
Dns == {Root} \cup NamesUnder(Root) \cup UNION {NamesUnder(d) : d \in NamesUnder(Root)}

(* ------------------------------- policy.go ------------------------------- *)
\* RDNs compare without regard to case: "R" is another spelling of "r".
canonicalRDN(rdn) == IF rdn = "R" THEN "r" ELSE rdn

dnWithinBase(dn, base) ==
  /\ Len(dn) >= Len(base)
  /\ \A i \in 1..Len(base) :
       canonicalRDN(dn[Len(dn) - Len(base) + i]) = canonicalRDN(base[i])

dnWithinAnyBase(dn, bases) == \E base \in bases : dnWithinBase(dn, base)

\* A transport option does not make another attribute.
ldapAttrNameKey(attr) == IF attr = "pw;binary" THEN "pw" ELSE attr

DefaultBlocked == {"pw"}

\* An empty list stands for the default one; a configured one replaces it.
blockedKeys(p) ==
  {ldapAttrNameKey(a) : a \in IF p.blocked = {} THEN DefaultBlocked ELSE p.blocked}

firstBlockedLDAPAttribute(p, attrs) == {a \in attrs : ldapAttrNameKey(a) \in blockedKeys(p)}

ensureLDAPReadAllowed(p, dn) ==
  dn = <<>> \/ p.readBases = {} \/ dnWithinAnyBase(dn, p.readBases)

writeBasesOf(p) == IF p.writeBases = {} THEN p.readBases ELSE p.writeBases

WriteCovers(p, dn) == writeBasesOf(p) = {} \/ dnWithinAnyBase(dn, writeBasesOf(p))

ensureLDAPWriteAllowed(p, dn, attrs) ==
  /\ ~p.readOnly
  /\ dn # <<>>
  /\ WriteCovers(p, dn)
  /\ firstBlockedLDAPAttribute(p, attrs) = {}

\* An empty superior keeps the old parent; a DN of one RDN has none.
ldapModifyDNDestinationDN(dn, newRDN, newSuperior) ==
  <<newRDN>> \o IF newSuperior = <<>> THEN Tail(dn) ELSE newSuperior

\* {} asks for every attribute, {"1.1"} for none: a request of blocked
\* attributes only must not turn into a request for all of them.
effectiveReadAttributes(p, requested) ==
  LET kept == requested \ firstBlockedLDAPAttribute(p, requested)
  IN IF kept = {} /\ requested # {} THEN {"1.1"} ELSE kept

\* Mutant: the options of a name are taken for a part of it.
FilterByName(p, attrs) == attrs \ blockedKeys(p)

newLDAPBlockedAttributeFilter(p, attrs) == attrs \ firstBlockedLDAPAttribute(p, attrs)

(* ------------------------------- the writes ------------------------------ *)
Under(dn) == {d \in tree : dnWithinBase(d, dn)}
Below(dn) == Under(dn) \ {dn}
Parent(dn) == Tail(dn)

Idle == [kind |-> NoOp]
Running(c) == ops[c] # Idle

record(result, dn) == [result |-> result, target |-> dn]
audited(n, rec) == [m \in DOMAIN audit \cup {n} |-> IF m = n THEN rec ELSE audit[m]]
\* The record of a write, and the callback that appends it: without a store, or
\* when the append fails, there is none, and the write goes on as if there were.
EmitAudit(n, rec) ==
  \/ audit' = audited(n, rec) /\ UNCHANGED unrecorded
  \/ unrecorded' = unrecorded \cup {n} /\ UNCHANGED audit

\* A gate that refuses leaves a "write-policy" record and ends the request;
\* one that admits sends the request.  `dns` are the DNs it checks, in order.
Gated(c, dns, attrs, o) ==
  /\ ~Running(c) /\ nextOp <= MaxOps
  /\ nextOp' = nextOp + 1
  /\ LET Refuses(i) == ~ensureLDAPWriteAllowed(policy, dns[i], attrs)
     IN \/ \E i \in DOMAIN dns :
             /\ Refuses(i) /\ \A j \in 1..(i - 1) : ~Refuses(j)
             /\ EmitAudit(nextOp, record("denied", dns[i])) /\ UNCHANGED ops
        \/ /\ \A i \in DOMAIN dns : ~Refuses(i)
           /\ ops' = [ops EXCEPT ![c] = o] /\ UNCHANGED <<audit, unrecorded>>
  /\ UNCHANGED <<policy, tree, executed, killed, others>>

Request(kind, dn, to, attrs) ==
  [kind |-> kind, id |-> nextOp, dn |-> dn, to |-> to, attrs |-> attrs,
   pc |-> "send", todo |-> {}]

AddEntry(c, dn, attrs) ==
  Gated(c, <<dn>>, attrs, Request("add", dn, dn, attrs))

\* A modification changes no DN; an extended password operation neither, and
\* it names no attribute to the gate, though it writes userPassword.
ModifyEntry(c, dn, attrs) ==
  Gated(c, <<dn>>, attrs, Request("modify", dn, dn, attrs))

PasswordModify(c, dn, identity) ==
  LET target == IF identity = <<>> THEN dn ELSE identity
  IN Gated(c, <<target>>, {}, Request("modify", target, target, {}))

\* Mutant: the destination is not gated.
RenameChecksSource(c, dn, newRDN, newSuperior) ==
  Gated(c, <<dn>>, {}, Request("rename", dn, ldapModifyDNDestinationDN(dn, newRDN, newSuperior), {}))

ModifyDN(c, dn, newRDN, newSuperior) ==
  LET to == ldapModifyDNDestinationDN(dn, newRDN, newSuperior)
  IN Gated(c, <<dn, to>>, {}, Request("rename", dn, to, {}))

DeleteEntry(c, dn, recursive) ==
  Gated(c, <<dn>>, {},
        [Request("delete", dn, dn, {}) EXCEPT !.pc = IF recursive THEN "list" ELSE "send"])

(* The server, external: what it does with one request, where it can.        *)
Moved(d, dn, to) == SubSeq(d, 1, Len(d) - Len(dn)) \o to
Serves(o) ==
  CASE o.kind = "add" -> o.dn \notin tree /\ Parent(o.dn) \in tree
    [] o.kind = "modify" -> o.dn \in tree
    [] o.kind = "delete" -> o.dn \in tree /\ Below(o.dn) = {}
    [] o.kind = "rename" -> /\ o.dn \in tree /\ o.to \notin tree /\ Parent(o.to) \in tree \ Under(o.dn)
                            /\ \A d \in Under(o.dn) : Moved(d, o.dn, o.to) \in Dns
Effect(o) ==
  CASE o.kind = "add" -> tree \cup {o.dn}
    [] o.kind = "modify" -> tree
    [] o.kind = "delete" -> tree \ {o.dn}
    [] o.kind = "rename" -> (tree \ Under(o.dn)) \cup {Moved(d, o.dn, o.to) : d \in Under(o.dn)}

\* Mutant: only what succeeded is recorded.
FinishRecordsSuccess(c, result) ==
  /\ IF result = "ok" THEN EmitAudit(ops[c].id, record(result, ops[c].dn))
     ELSE UNCHANGED <<audit, unrecorded>>
  /\ ops' = [ops EXCEPT ![c] = Idle]

\* The end of a write: the record, then the answer.
Finish(c, result) ==
  /\ EmitAudit(ops[c].id, record(result, ops[c].dn))
  /\ ops' = [ops EXCEPT ![c] = Idle]

\* The operation runs once (WithConnOnce): the server serves it or refuses it,
\* and the answer may be lost after it was served.
Send(c) ==
  /\ Running(c) /\ ops[c].pc = "send"
  /\ \/ /\ Serves(ops[c])
        /\ tree' = Effect(ops[c]) /\ executed' = executed \cup {ops[c].id}
        /\ \E result \in {"ok", "error"} : Finish(c, result)
     \/ Finish(c, "error") /\ UNCHANGED <<tree, executed>>
  /\ UNCHANGED <<policy, killed, nextOp, others>>

\* The subtree is listed first; one that is larger than the limit is refused.
listSubtreeDNs(c) ==
  /\ Running(c) /\ ops[c].pc = "list"
  /\ LET dns == Under(ops[c].dn)
     IN \/ /\ ops[c].dn \in tree /\ Cardinality(dns) <= MaxSubtree
           /\ ops' = [ops EXCEPT ![c].pc = "tree", ![c].todo = dns] /\ UNCHANGED <<audit, unrecorded>>
        \/ Finish(c, "error")
  /\ UNCHANGED <<policy, tree, executed, killed, nextOp, others>>

\* The DNs that may come next; those of one depth in the order of the list.
orderDeepestFirst(dns) == {d \in dns : \A e \in dns : Len(d) >= Len(e)}

\* One request with the tree-delete control; a server that does not know the
\* control has the entries deleted one by one.
deleteSubtree(c) ==
  /\ Running(c) /\ ops[c].pc = "tree"
  /\ \/ /\ ops[c].dn \in tree
        /\ tree' = tree \ Under(ops[c].dn) /\ executed' = executed \cup {ops[c].id}
        /\ \E result \in {"ok", "error"} : Finish(c, result)
     \/ /\ ops' = [ops EXCEPT ![c].pc = "each"]
        /\ UNCHANGED <<tree, executed, audit, unrecorded>>
     \/ Finish(c, "error") /\ UNCHANGED <<tree, executed>>
  /\ UNCHANGED <<policy, killed, nextOp, others>>

\* The first entry that is refused ends it, with what was deleted deleted.
DeleteNext(c) ==
  /\ Running(c) /\ ops[c].pc = "each"
  /\ \/ \E d \in orderDeepestFirst(ops[c].todo) :
          /\ d \in tree /\ Below(d) = {}
          /\ tree' = tree \ {d} /\ executed' = executed \cup {ops[c].id}
          /\ \/ ops[c].todo = {d} /\ Finish(c, "ok")
             \/ ops[c].todo # {d} /\ ops' = [ops EXCEPT ![c].todo = @ \ {d}] /\ UNCHANGED <<audit, unrecorded>>
             \/ Finish(c, "error")
     \/ Finish(c, "error") /\ UNCHANGED <<tree, executed>>
  /\ UNCHANGED <<policy, killed, nextOp, others>>

(* ----------------------------- the environment --------------------------- *)
OtherClient ==
  /\ others < MaxOther /\ others' = others + 1
  /\ \E d \in Dns \ {Root} :
       \/ d \notin tree /\ Parent(d) \in tree /\ tree' = tree \cup {d}
       \/ d \in tree /\ Below(d) = {} /\ tree' = tree \ {d}
  /\ UNCHANGED <<policy, ops, audit, unrecorded, executed, killed, nextOp>>

\* SIGKILL: whatever is in flight ends here; the audit file stays.
Kill ==
  /\ killed' = killed \cup {ops[c].id : c \in {c \in Callers : Running(c)}}
  /\ killed' # killed
  /\ ops' = [c \in Callers |-> Idle]
  /\ UNCHANGED <<policy, tree, audit, unrecorded, executed, nextOp, others>>

DirInit ==
  /\ policy \in Profiles
  /\ tree = {Root} \cup {<<x>> \o Root : x \in Rdns} \cup {<<x>> \o (<<x>> \o Root) : x \in Rdns}
  /\ ops = [c \in Callers |-> Idle]
  /\ audit = <<>> /\ unrecorded = {} /\ executed = {} /\ killed = {} /\ nextOp = 1 /\ others = 0

DirNext ==
  \/ \E c \in Callers, dn \in Dns, attrs \in {{"cn"}, {"cn", "pw;binary"}} :
       AddEntry(c, dn, attrs) \/ ModifyEntry(c, dn, attrs)
  \/ \E c \in Callers, dn \in Dns, identity \in Dns \cup {<<>>} : PasswordModify(c, dn, identity)
  \/ \E c \in Callers, dn \in Dns, x \in Rdns, up \in Dns \cup {<<>>} : ModifyDN(c, dn, x, up)
  \/ \E c \in Callers, dn \in Dns, recursive \in BOOLEAN : DeleteEntry(c, dn, recursive)
  \/ \E c \in Callers : Send(c) \/ listSubtreeDNs(c) \/ deleteSubtree(c) \/ DeleteNext(c)
  \/ OtherClient
  \/ Kill

DirSpec == DirInit /\ [][DirNext]_dirVars

(* ------------------------------- properties ------------------------------ *)
\* Whatever a request of this connection changes in the directory, the entry
\* it names and each one that is added, deleted or renamed with it, under its
\* old and its new name, lies within the write bases of a profile that is not
\* read-only, and none of the attributes that an addition or a modification
\* names is blocked.  A rename and a password operation name none: that the one
\* may change a blocked naming attribute, and the other changes userPassword
\* while it is blocked, is left open.
WritesStayInside ==
  [][\A c \in Callers : Running(c) /\ ops'[c] # ops[c] /\ <<tree, executed>>' # <<tree, executed>> =>
       /\ ~policy.readOnly
       /\ ops[c].attrs \cap firstBlockedLDAPAttribute(policy, Attrs) = {}
       /\ \A d \in (tree \ tree') \cup (tree' \ tree) \cup {ops[c].dn} : WriteCovers(policy, d)]_dirVars

\* The audit file knows every write that it can: one that the server executed
\* has a record unless it is still in flight, was in flight when the process
\* was killed, or had a record that the store did not take; its record says
\* "ok" only if it was executed, and a write with a "denied" record was never
\* sent.
AuditIsComplete ==
  /\ \A n \in executed :
       n \in DOMAIN audit \cup unrecorded \cup killed \cup {ops[c].id : c \in {c \in Callers : Running(c)}}
  /\ \A n \in DOMAIN audit : /\ audit[n].result = "ok" => n \in executed
                             /\ audit[n].result = "denied" => n \notin executed
=============================================================================
