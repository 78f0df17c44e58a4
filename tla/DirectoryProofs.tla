--------------------------- MODULE DirectoryProofs ---------------------------
(* The proofs about what the directory side of the sidecar does with one     *)
(* connection: the steps of a dial, the schema cache with the values it      *)
(* names, and the writes and the reads under a profile.                      *)
EXTENDS ReadOps, Dialing, SchemaValues, SequenceTheorems, TLAPS

(* Dialing *)

Channels == {"none", "plain", "tls", "closed"}
Unbound  == {"idle", "tlsConfig", "dial", "startTLS"}
Attempt  == {"client", "init", "reply"}              \* of Kerberos, with its file
Bindings == {"testProbe", "krb5conf"} \cup Attempt   \* steps of a bind
Connected == {"dialed"} \cup Bindings
Steps == Unbound \cup Connected \cup {"probe", "ok", "failed"}
IsContext(c) == c = [ctxSent |-> c.ctxSent, needInit |-> c.needInit, verified |-> c.verified, replies |-> c.replies]

\* The socket: there is none before the dial, an open one from the dial to the
\* bind, with TLS if the endpoint wants it, and it is closed by what fails.
SocketOfStep ==
  /\ at \in Steps /\ channel \in Channels
  /\ at \in {"idle", "tlsConfig", "dial"} => channel = "none"
  /\ at \in {"startTLS"} \cup Connected => channel \in {"plain", "tls"}
  /\ at \in Connected /\ Secure(dial.endpoint) => channel = "tls"
  /\ at = "probe" => channel = "closed"
  /\ at = "failed" => channel \in {"none", "closed"}
  /\ at = "ok" => channel \in IF dial.level = "connect" THEN {"plain", "tls"} ELSE {"none", "closed"}

\* What is asked for: only a Connect and a test come to the bind.
LevelOfStep ==
  /\ at \in Bindings => dial.level \in Binding
  /\ at = "testProbe" => dial.level = "test"
  /\ at = "probe" => dial.level \notin Binding

\* What was sent, and over what.
SentOnSecure ==
  /\ at \in Unbound => ~sent
  /\ sent => dial.level \in Binding
  /\ sent /\ Secure(dial.endpoint) => channel \in {"tls", "closed"}

\* The file lives as long as the attempt, and a context that asks for mutual
\* authentication is complete only with the proof of the server.
AttemptOfStep ==
  /\ IsContext(gss)
  /\ at \notin Attempt => krb5conf = {}
  /\ at = "reply" /\ dial.auth.mutual /\ ~gss.needInit => gss.verified

DialInv == SocketOfStep /\ LevelOfStep /\ SentOnSecure /\ AttemptOfStep

USE DEF Channels, Unbound, Attempt, Bindings, Connected, Steps, Binding

\* The end of an attempt keeps the invariant, from each of its steps.
LEMMA AttemptEnds ==
  ASSUME DialInv, at \in {"krb5conf"} \cup Attempt,
         NEW ok \in BOOLEAN, NEW unreachable \in BOOLEAN, Kerberos(ok, unreachable),
         UNCHANGED <<dial, session>>, UNCHANGED sent
  PROVE  DialInv'
<1>1. IsContext(gss)' /\ krb5conf' = {}
  BY DEF Kerberos, NoContext, IsContext
<1>2. CASE ok
  <2>1. channel' = channel /\ at' = IF dial.level = "test" THEN "testProbe" ELSE "ok"
    BY <1>2 DEF Kerberos, Bound
  <2>2. dial.level \in {"connect", "test"}
    BY DEF DialInv, LevelOfStep
  <2> QED
    BY <1>1, <2>1, <2>2 DEF DialInv, SocketOfStep, LevelOfStep, SentOnSecure, AttemptOfStep, Secure
<1>3. CASE ~ok /\ unreachable /\ dial.auth.oddPort /\ ~fallback
  BY <1>1, <1>3 DEF Kerberos, DialInv, SocketOfStep, LevelOfStep, SentOnSecure, AttemptOfStep, Secure
<1>4. CASE ~ok /\ ~(unreachable /\ dial.auth.oddPort /\ ~fallback)
  <2>1. at' = "failed" /\ channel' = "closed"
    BY <1>4 DEF Kerberos, Fails, DialInv, SocketOfStep
  <2> QED
    BY <1>1, <2>1 DEF DialInv, SocketOfStep, LevelOfStep, SentOnSecure, AttemptOfStep, Secure
<1> QED
  BY <1>2, <1>3, <1>4

THEOREM DialInductive == DialSpec => []DialInv
<1>1. DialInit => DialInv
  BY DEF DialInit, DialInv, SocketOfStep, LevelOfStep, SentOnSecure, AttemptOfStep, NoContext, IsContext
<1>2. DialInv /\ [DialNext]_dialVars => DialInv'
  <2> SUFFICES ASSUME DialInv, [DialNext]_dialVars PROVE DialInv'
    OBVIOUS
  <2> USE DEF DialInv, SocketOfStep, LevelOfStep, SentOnSecure, AttemptOfStep
  <2>1. ASSUME NEW level \in Levels, NEW e \in Endpoints, NEW a \in Auths, BeginDial(level, e, a)
        PROVE  DialInv'
    BY <2>1 DEF BeginDial
  <2>2. CASE ldapTLSConfig
    BY <2>2 DEF ldapTLSConfig
  <2>3. CASE DialURL
    BY <2>3 DEF DialURL, Fails, Secure
  <2>4. CASE StartTLS
    BY <2>4 DEF StartTLS, Fails, Secure
  <2>5. CASE checkDial \/ checkProbe \/ SessionChanges
    BY <2>5 DEF checkDial, checkProbe, SessionChanges
  <2>6. CASE bindLDAPConnection
    BY <2>6 DEF bindLDAPConnection, Fails, Bound, Secure
  <2>7. CASE Test
    BY <2>7 DEF Test
  <2>8. CASE ldapKerberosConfigPath
    <3>1. CASE Kerberos(FALSE, FALSE)
      BY <2>8, <3>1, AttemptEnds DEF ldapKerberosConfigPath
    <3>2. CASE at' = "client" /\ UNCHANGED <<channel, fallback, gss>>
      BY <2>8, <3>2 DEF ldapKerberosConfigPath
    <3> QED
      BY <2>8, <3>1, <3>2 DEF ldapKerberosConfigPath
  <2>9. CASE newLDAPGSSAPIClient
    <3>1. CASE Kerberos(FALSE, FALSE)
      BY <2>9, <3>1, AttemptEnds DEF newLDAPGSSAPIClient
    <3>2. CASE at' = "init" /\ UNCHANGED <<channel, krb5conf, fallback, gss>>
      BY <2>9, <3>2 DEF newLDAPGSSAPIClient
    <3> QED
      BY <2>9, <3>1, <3>2 DEF newLDAPGSSAPIClient
  <2>10. CASE InitSecContext
    <3>1. ASSUME NEW unreachable \in BOOLEAN, Kerberos(FALSE, unreachable), UNCHANGED sent PROVE DialInv'
      BY <2>10, <3>1, AttemptEnds DEF InitSecContext
    <3>2. CASE /\ sent' = TRUE /\ at' = "reply"
               /\ gss' = [gss EXCEPT !.ctxSent = TRUE, !.needInit = dial.auth.mutual]
               /\ UNCHANGED <<channel, krb5conf, fallback>>
      <4>1. dial.auth.mutual => gss'.needInit
        BY <3>2 DEF IsContext
      <4>2. IsContext(gss)'
        BY <3>2 DEF IsContext
      <4> QED
        BY <2>10, <3>2, <4>1, <4>2 DEF InitSecContext
    <3> QED
      BY <2>10, <3>1, <3>2 DEF InitSecContext
  <2>11. ASSUME NEW token \in {"none", "apRep", "other", "wrap", "error"}, Reply(token) PROVE DialInv'
    <3>1. ASSUME NEW ok \in BOOLEAN, NEW reset \in BOOLEAN, Kerberos(ok, reset) PROVE DialInv'
      BY <2>11, <3>1, AttemptEnds DEF Reply
    <3>2. CASE at' = "init" /\ UNCHANGED <<channel, krb5conf, fallback, gss>>
      BY <2>11, <3>2 DEF Reply
    <3>3. CASE /\ gss' = [gss EXCEPT !.needInit = FALSE, !.verified = TRUE, !.replies = @ + 1]
               /\ UNCHANGED <<at, channel, krb5conf, fallback>>
      <4>1. IsContext(gss)' /\ gss'.verified
        BY <3>3 DEF IsContext
      <4> QED
        BY <2>11, <3>3, <4>1 DEF Reply
    <3>4. CASE gss' = [gss EXCEPT !.replies = @ + 1] /\ UNCHANGED <<at, channel, krb5conf, fallback>>
      <4>1. IsContext(gss)' /\ gss'.verified = gss.verified /\ gss'.needInit = gss.needInit
        BY <3>4 DEF IsContext
      <4> QED
        BY <2>11, <3>4, <4>1 DEF Reply
    <3> QED
      BY <2>11, <3>1, <3>2, <3>3, <3>4 DEF Reply
  <2>12. CASE UNCHANGED dialVars
    BY <2>12 DEF dialVars
  <2> QED
    BY <2>1, <2>2, <2>3, <2>4, <2>5, <2>6, <2>7, <2>8, <2>9, <2>10, <2>11, <2>12 DEF DialNext
<1> QED
  BY <1>1, <1>2, PTL DEF DialSpec

\* No bind goes out on a channel the profile does not ask for, a mutual
\* authentication succeeds only after the server's proof, and however a dial
\* ends it leaves no socket and no file that nobody closes or removes (dial.go,
\* auth_gssapi.go, ldapgssapi/client.go, check.go).
THEOREM DialsAreSafe == DialSpec => []DialIsSafe
<1>1. DialInv => DialIsSafe
  BY DEF DialInv, SocketOfStep, SentOnSecure, AttemptOfStep, DialIsSafe, DialLeavesNothing, BindIsProtected
<1> QED
  BY <1>1, DialInductive, PTL
------------------------------------------------------------------------------
(* The schema cache *)

\* The wire format of an attribute whose name says what it is, is decided by
\* the name alone.
WireByName ==
  /\ attr \in NamedPassword => wire \in {"none", "plain"}
  /\ attr \in NamedBinary => wire \in {"none", "b64"}

\* A name that a profile blocks is in no type of the filtered schema.
LEMMA FilterRemoves ==
  ASSUME NEW blocked
  PROVE  (UNION filterLDAPSchemaMetadataForProfile(blocked).types) \cap blocked = {}
  BY DEF filterLDAPSchemaMetadataForProfile

\* The schema in the cache is that of the configuration in force, filtered by
\* its profile, but for a load that overlapped the Connect, and between the two
\* steps of the Connect (schema.go against service.go).
THEOREM CacheIsCurrent == SchemaSpec => []StaleOnlyByOverlap
<1>1. SchemaInit => StaleOnlyByOverlap
  BY DEF SchemaInit, StaleOnlyByOverlap
<1>2. StaleOnlyByOverlap /\ [SchemaNext]_schemaVars => StaleOnlyByOverlap'
  <2> SUFFICES ASSUME StaleOnlyByOverlap, [SchemaNext]_schemaVars PROVE StaleOnlyByOverlap'
    OBVIOUS
  <2>1. CASE Replace
    BY <2>1 DEF Replace, StaleOnlyByOverlap, valueVars
  <2>2. CASE Invalidate
    BY <2>2 DEF Invalidate, StaleOnlyByOverlap, valueVars
  <2>3. CASE SchemaTick
    BY <2>3 DEF SchemaTick, StaleOnlyByOverlap, valueVars
  <2>4. ASSUME NEW l \in Loaders, SchemaMetadata(l) PROVE StaleOnlyByOverlap'
    <3>1. CASE UNCHANGED cached
      BY <2>4, <3>1 DEF SchemaMetadata, StaleOnlyByOverlap, valueVars
    <3>2. CASE cached' = [config |-> loads[l].config, at |-> clock, late |-> loads[l].config # config,
                 metadata |-> filterLDAPSchemaMetadataForProfile(BlockedIn[loads[l].config])]
      <4>1. cached'.config = loads[l].config /\ cached'.late = (loads[l].config # config)
        BY <3>2
      <4>2. cached'.metadata = filterLDAPSchemaMetadataForProfile(BlockedIn[cached'.config])
        BY <3>2
      <4>3. config' = config
        BY <2>4 DEF SchemaMetadata
      <4>4. (UNION cached'.metadata.types) \cap BlockedIn[cached'.config] = {}
        BY <4>2, FilterRemoves
      <4> QED
        BY <4>1, <4>3, <4>4 DEF StaleOnlyByOverlap
    <3> QED
      BY <2>4, <3>1, <3>2 DEF SchemaMetadata
  <2>5. ASSUME NEW l \in Loaders, NEW refresh \in BOOLEAN, StartLoad(l, refresh) PROVE StaleOnlyByOverlap'
    BY <2>5 DEF StartLoad, StaleOnlyByOverlap, valueVars
  <2>6. CASE ldapEntryToType \/ decodeBinaryProtocolValues
    BY <2>6 DEF ldapEntryToType, decodeBinaryProtocolValues, StaleOnlyByOverlap, cacheVars
  <2>7. CASE UNCHANGED schemaVars
    BY <2>7 DEF StaleOnlyByOverlap, schemaVars, cacheVars
  <2> QED
    BY <2>1, <2>2, <2>3, <2>4, <2>5, <2>6, <2>7 DEF SchemaNext
<1> QED
  BY <1>1, <1>2, PTL DEF SchemaSpec

\* A password, and an attribute with a binary name, is written back as it was
\* read, whatever loads, Connects and expiries come between (operations.go).
THEOREM ValuesSurvive == SchemaSpec => []NamedValuesSurvive
<1> DEFINE Inv == WireByName /\ NamedValuesSurvive
<1>1. SchemaInit => Inv
  BY DEF SchemaInit, WireByName, NamedValuesSurvive
<1>2. Inv /\ [SchemaNext]_schemaVars => Inv'
  <2> SUFFICES ASSUME Inv, [SchemaNext]_schemaVars PROVE Inv'
    OBVIOUS
  <2>1. CASE ldapEntryToType
    BY <2>1 DEF ldapEntryToType, ldapBinaryValuePredicate, NamedPassword, NamedBinary, Text,
      WireByName, NamedValuesSurvive
  <2>2. CASE decodeBinaryProtocolValues
    <3>1. attr' = attr /\ wire' = "none"
      BY <2>2 DEF decodeBinaryProtocolValues
    <3>2. CASE attr \in NamedPassword
      <4>1. ~ldapBinaryValuePredicate(attr) /\ wire # "b64"
        BY <3>2 DEF ldapBinaryValuePredicate, WireByName
      <4> QED
        BY <2>2, <3>1, <3>2, <4>1 DEF decodeBinaryProtocolValues, WireByName, NamedValuesSurvive
    <3>3. CASE attr \in NamedBinary
      <4>1. ldapBinaryValuePredicate(attr) /\ wire # "plain"
        BY <3>3 DEF ldapBinaryValuePredicate, WireByName, NamedPassword, NamedBinary
      <4> QED
        BY <2>2, <3>1, <3>3, <4>1 DEF decodeBinaryProtocolValues, WireByName, NamedValuesSurvive
    <3> QED
      BY <3>1, <3>2, <3>3 DEF WireByName, NamedValuesSurvive
  <2>3. CASE UNCHANGED valueVars
    BY <2>3 DEF valueVars, WireByName, NamedValuesSurvive
  <2>4. Replace \/ Invalidate \/ SchemaTick
          \/ (\E l \in Loaders : SchemaMetadata(l) \/ \E refresh \in BOOLEAN : StartLoad(l, refresh))
        => UNCHANGED valueVars
    BY DEF Replace, Invalidate, SchemaTick, SchemaMetadata, StartLoad, valueVars
  <2> QED
    BY <2>1, <2>2, <2>3, <2>4 DEF SchemaNext, schemaVars
<1> QED
  BY <1>1, <1>2, PTL DEF SchemaSpec

(* ------------------------- the writes and their audit ---------------------- *)
\* A request that is under way; dn and to are what it names.
IsRequest(o) ==
  o = [kind |-> o.kind, id |-> o.id, dn |-> o.dn, to |-> o.to, attrs |-> o.attrs,
       pc |-> o.pc, todo |-> o.todo]
Shaped(o) == o = Idle \/ (IsRequest(o) /\ o.kind \in OpKinds)
Writes == {c \in Callers : Running(c)}

WriteTyped ==
  /\ nextOp \in Nat \ {0}
  /\ DOMAIN ops = Callers
  /\ \A c \in Callers : Shaped(ops[c])

\* Every request has a number of its own, and no record yet.
NumbersAreFresh ==
  /\ \A c \in Writes : ops[c].id \in 1..(nextOp - 1) /\ ops[c].id \notin DOMAIN audit
  /\ \A c, d \in Writes : ops[c].id = ops[d].id => c = d
  /\ DOMAIN audit \subseteq 1..(nextOp - 1) /\ executed \subseteq 1..(nextOp - 1)

AuditInv == WriteTyped /\ NumbersAreFresh /\ AuditIsComplete

USE DirAssumption

\* A request is not the mark of a caller that runs nothing.
LEMMA RequestRuns ==
  ASSUME NEW o, IsRequest(o), o.kind \in OpKinds
  PROVE  o # Idle
BY DEF Idle

LEMMA AuditInit == DirInit => AuditInv
<1> SUFFICES ASSUME DirInit PROVE AuditInv
  OBVIOUS
<1>1. Writes = {} /\ executed = {} /\ nextOp = 1 /\ DOMAIN ops = Callers /\ \A c \in Callers : ops[c] = Idle
  BY DEF DirInit, Writes, Running
<1>2. DOMAIN audit = {}
  BY DEF DirInit
<1> QED BY <1>1, <1>2 DEF AuditInv, WriteTyped, Shaped, NumbersAreFresh, AuditIsComplete

\* A record that is emitted is in the file, or counted as not taken.
LEMMA Emitted ==
  ASSUME NEW n, n \notin DOMAIN audit, NEW rec, EmitAudit(n, rec)
  PROVE  /\ DOMAIN audit \subseteq DOMAIN audit' /\ unrecorded \subseteq unrecorded'
         /\ DOMAIN audit' \subseteq DOMAIN audit \cup {n} /\ n \in DOMAIN audit' \cup unrecorded'
         /\ n \in DOMAIN audit' => audit'[n] = rec
         /\ \A m \in DOMAIN audit : audit'[m] = audit[m]
<1>1. CASE audit' = audited(n, rec) /\ unrecorded' = unrecorded
  BY <1>1 DEF audited
<1>2. CASE unrecorded' = unrecorded \cup {n} /\ audit' = audit
  BY <1>2
<1> QED BY <1>1, <1>2 DEF EmitAudit

\* A write that is sent or refused.
LEMMA AuditGated ==
  ASSUME AuditInv, NEW c \in Callers, NEW dns, NEW attrs, NEW o, Gated(c, dns, attrs, o),
         IsRequest(o), o.kind \in OpKinds, o.id = nextOp
  PROVE  AuditInv'
<1>1. /\ nextOp \in Nat \ {0} /\ nextOp' = nextOp + 1 /\ executed' = executed /\ killed' = killed
      /\ ~Running(c)
  BY DEF Gated, AuditInv, WriteTyped
<1>2. 1..(nextOp' - 1) = 1..(nextOp - 1) \cup {nextOp} /\ nextOp \notin 1..(nextOp - 1)
  <2>1. \A n \in Nat \ {0} : 1..((n + 1) - 1) = 1..(n - 1) \cup {n} /\ n \notin 1..(n - 1)
    OBVIOUS
  <2> QED BY <1>1, <2>1
<1>3. CASE /\ ops' = ops
           /\ \E dn : EmitAudit(nextOp, record("denied", dn))
  <2>1. PICK dn : EmitAudit(nextOp, record("denied", dn))
    BY <1>3
  <2>2. /\ DOMAIN audit \subseteq DOMAIN audit' /\ unrecorded \subseteq unrecorded'
        /\ DOMAIN audit' \subseteq DOMAIN audit \cup {nextOp}
        /\ nextOp \in DOMAIN audit' => audit'[nextOp].result = "denied"
        /\ \A m \in DOMAIN audit : audit'[m] = audit[m]
    <3> DEFINE rec == record("denied", dn)
    <3>1. rec.result = "denied"
      BY DEF record
    <3>2. nextOp \notin DOMAIN audit
      BY <1>2 DEF AuditInv, NumbersAreFresh
    <3> HIDE DEF rec
    <3>3. EmitAudit(nextOp, rec)
      BY <2>1 DEF rec
    <3> QED BY <3>1, <3>2, <3>3, Emitted
  <2>3. Writes' = Writes
    BY <1>3 DEF Writes, Running, Idle
  <2>4. WriteTyped'
    BY <1>1, <1>3 DEF AuditInv, WriteTyped, Shaped
  <2>5. NumbersAreFresh'
    BY <1>1, <1>2, <1>3, <2>2, <2>3 DEF AuditInv, NumbersAreFresh
  <2>6. AuditIsComplete'
    BY <1>1, <1>2, <1>3, <2>2, <2>3 DEF AuditInv, NumbersAreFresh, AuditIsComplete, Writes
  <2> QED BY <2>4, <2>5, <2>6 DEF AuditInv
<1>4. CASE ops' = [ops EXCEPT ![c] = o] /\ UNCHANGED <<audit, unrecorded>>
  <2>1. /\ DOMAIN ops' = Callers /\ ops'[c] = o
        /\ \A d \in Callers \ {c} : ops'[d] = ops[d]
    BY <1>4 DEF AuditInv, WriteTyped
  <2>2. WriteTyped'
    BY <1>1, <2>1 DEF AuditInv, WriteTyped, Shaped
  <2>3. o # Idle /\ c \notin Writes
    BY <1>1, RequestRuns DEF Writes
  <2>4. Writes' = Writes \cup {c}
    BY <2>1, <2>3 DEF Writes, Running, Idle
  <2>5. NumbersAreFresh'
    BY <1>1, <1>2, <1>4, <2>1, <2>3, <2>4 DEF AuditInv, NumbersAreFresh, Writes
  <2>6. AuditIsComplete'
    BY <1>1, <1>4, <2>1, <2>3, <2>4 DEF AuditInv, AuditIsComplete, Writes
  <2> QED BY <2>2, <2>5, <2>6 DEF AuditInv
<1> QED BY <1>3, <1>4 DEF Gated

\* A write that ends: it is recorded, as "ok" only when it was executed.
LEMMA AuditFinish ==
  ASSUME AuditInv, NEW c \in Callers, Running(c), NEW result, Finish(c, result),
         result \in {"ok", "error"},
         UNCHANGED <<nextOp, killed>>,
         executed' = executed \/ executed' = executed \cup {ops[c].id},
         result = "ok" => ops[c].id \in executed'
  PROVE  AuditInv'
<1> DEFINE n == ops[c].id
<1>1. /\ c \in Writes /\ n \in 1..(nextOp - 1) /\ n \notin DOMAIN audit
  BY DEF AuditInv, NumbersAreFresh, Writes
<1>2. /\ DOMAIN audit \subseteq DOMAIN audit' /\ unrecorded \subseteq unrecorded'
      /\ DOMAIN audit' \subseteq DOMAIN audit \cup {n} /\ n \in DOMAIN audit' \cup unrecorded'
      /\ n \in DOMAIN audit' => audit'[n].result = result
      /\ \A m \in DOMAIN audit : audit'[m] = audit[m]
  <2> DEFINE rec == record(result, ops[c].dn)
  <2>1. rec.result = result
    BY DEF record
  <2> HIDE DEF rec
  <2>2. EmitAudit(n, rec)
    BY DEF Finish, rec
  <2> HIDE DEF n
  <2> QED BY <1>1, <2>1, <2>2, Emitted
<1>3. /\ DOMAIN ops' = Callers /\ ops'[c] = Idle
      /\ \A d \in Callers \ {c} : ops'[d] = ops[d]
  BY DEF Finish, AuditInv, WriteTyped
<1>4. Writes' = Writes \ {c}
  BY <1>3 DEF Writes, Running, Idle
<1>5. WriteTyped'
  BY <1>3 DEF AuditInv, WriteTyped, Shaped
<1>6. \A d \in Writes' : d \in Callers /\ ops'[d] = ops[d] /\ ops[d].id # n
  BY <1>1, <1>3, <1>4 DEF AuditInv, NumbersAreFresh, Writes
<1> HIDE DEF n
<1>7. executed' \subseteq executed \cup {n}
  BY DEF n
<1>8. NumbersAreFresh'
  BY <1>1, <1>2, <1>4, <1>6, <1>7 DEF AuditInv, NumbersAreFresh
<1>9. AuditIsComplete'
  <2>1. ASSUME NEW m \in executed'
        PROVE  m \in DOMAIN audit' \cup unrecorded' \cup killed' \cup {ops'[d].id : d \in Writes'}
    <3>1. CASE m = n
      BY <1>2, <3>1
    <3>2. CASE m # n /\ m \in executed
      <4>1. m \in DOMAIN audit \cup unrecorded \cup killed \cup {ops[d].id : d \in Writes}
        BY <3>2 DEF AuditInv, AuditIsComplete, Writes
      <4>2. CASE m \in {ops[d].id : d \in Writes}
        <5>1. PICK d \in Writes : m = ops[d].id
          BY <4>2
        <5>2. d # c
          BY <3>2, <5>1 DEF n
        <5> QED BY <1>4, <1>6, <5>1, <5>2
      <4> QED BY <1>2, <4>1, <4>2
    <3> QED BY <1>7, <3>1, <3>2
  <2>2. ASSUME NEW m \in DOMAIN audit'
        PROVE  /\ audit'[m].result = "ok" => m \in executed'
               /\ audit'[m].result = "denied" => m \notin executed'
    <3>1. CASE m = n
      BY <1>2, <3>1 DEF n
    <3>2. CASE m # n
      BY <1>2, <1>7, <3>2 DEF AuditInv, AuditIsComplete
    <3> QED BY <3>1, <3>2
  <2> QED BY <2>1, <2>2 DEF AuditIsComplete, Writes
<1> QED BY <1>5, <1>8, <1>9 DEF AuditInv

\* A step of a write that does not end it.
LEMMA AuditOn ==
  ASSUME AuditInv, NEW c \in Callers, Running(c), NEW o, ops' = [ops EXCEPT ![c] = o],
         IsRequest(o), o.kind = ops[c].kind, o.id = ops[c].id,
         UNCHANGED <<nextOp, killed, audit, unrecorded>>,
         executed' = executed \/ executed' = executed \cup {ops[c].id}
  PROVE  AuditInv'
<1>1. /\ DOMAIN ops' = Callers /\ ops'[c] = o /\ o.kind \in OpKinds
      /\ \A d \in Callers \ {c} : ops'[d] = ops[d]
  BY DEF AuditInv, WriteTyped, Shaped, Running
<1>2. c \in Writes /\ o # Idle
  BY <1>1, RequestRuns DEF Writes
<1>3. Writes' = Writes /\ \A d \in Writes : d \in Callers /\ ops'[d].id = ops[d].id
  BY <1>1, <1>2 DEF Writes, Running, Idle
<1>4. WriteTyped'
  BY <1>1 DEF AuditInv, WriteTyped, Shaped
<1>5. ops[c].id \in 1..(nextOp - 1) /\ ops[c].id \notin DOMAIN audit
  BY <1>2 DEF AuditInv, NumbersAreFresh
<1>6. NumbersAreFresh'
  <2>1. executed' \subseteq 1..(nextOp - 1)
    BY <1>5 DEF AuditInv, NumbersAreFresh
  <2> QED BY <1>3, <2>1 DEF AuditInv, NumbersAreFresh
<1>7. AuditIsComplete'
  BY <1>2, <1>3, <1>5 DEF AuditInv, AuditIsComplete, Writes
<1> QED BY <1>4, <1>6, <1>7 DEF AuditInv

LEMMA AuditStep == ASSUME AuditInv, [DirNext]_dirVars PROVE AuditInv'
<1>1. ASSUME NEW c \in Callers, NEW kind \in OpKinds, NEW dns, NEW dn, NEW to, NEW attrs, NEW gate,
             Gated(c, dns, gate, Request(kind, dn, to, attrs))
      PROVE  AuditInv'
  BY <1>1, AuditGated DEF Request, IsRequest
<1>2. ASSUME NEW c \in Callers, NEW dn, NEW recursive, DeleteEntry(c, dn, recursive)
      PROVE  AuditInv'
  <2> DEFINE o == [Request("delete", dn, dn, {}) EXCEPT !.pc = IF recursive THEN "list" ELSE "send"]
  <2>1. IsRequest(o) /\ o.kind \in OpKinds /\ o.id = nextOp
    BY DEF Request, IsRequest, OpKinds
  <2> HIDE DEF o
  <2>2. Gated(c, <<dn>>, {}, o)
    BY <1>2 DEF DeleteEntry, o
  <2> QED BY <2>1, <2>2, AuditGated
<1>3. ASSUME NEW c \in Callers, Send(c) PROVE AuditInv'
  BY <1>3, AuditFinish DEF Send
<1>4. ASSUME NEW c \in Callers, Running(c), NEW pc, NEW todo, UNCHANGED <<nextOp, killed, audit, unrecorded>>,
             ops' = [ops EXCEPT ![c] = [ops[c] EXCEPT !.pc = pc, !.todo = todo]],
             executed' = executed \/ executed' = executed \cup {ops[c].id}
      PROVE  AuditInv'
  <2> DEFINE o == [ops[c] EXCEPT !.pc = pc, !.todo = todo]
  <2>1. IsRequest(ops[c])
    BY <1>4 DEF AuditInv, WriteTyped, Shaped, Running
  <2>2. IsRequest(o) /\ o.kind = ops[c].kind /\ o.id = ops[c].id
    <3> DEFINE q == ops[c]
    <3>1. IsRequest(q)
      BY <2>1
    <3> HIDE DEF q
    <3> DEFINE t == [q EXCEPT !.pc = pc, !.todo = todo]
               all == {q.pc, q.todo, pc, todo}
    <3>2. q \in [kind : {q.kind}, id : {q.id}, dn : {q.dn}, to : {q.to}, attrs : {q.attrs}, pc : all, todo : all]
      <4> HIDE DEF all
      <4>1. q.pc \in all /\ q.todo \in all
        BY DEF all
      <4> QED BY <3>1, <4>1 DEF IsRequest
    <3>3. pc \in all /\ todo \in all
      OBVIOUS
    <3> HIDE DEF all
    <3>4. t \in [kind : {q.kind}, id : {q.id}, dn : {q.dn}, to : {q.to}, attrs : {q.attrs}, pc : all, todo : all]
      BY <3>2, <3>3
    <3> HIDE DEF t
    <3>5. IsRequest(t) /\ t.kind = q.kind /\ t.id = q.id
      BY <3>4 DEF IsRequest
    <3> QED BY <3>5 DEF q, t
  <2>3. ops' = [ops EXCEPT ![c] = o]
    BY <1>4
  <2> HIDE DEF o
  <2> QED BY <1>4, <2>2, <2>3, AuditOn
<1>5. ASSUME NEW c \in Callers, listSubtreeDNs(c) PROVE AuditInv'
  <2>1. Running(c) /\ UNCHANGED <<nextOp, killed, executed>>
    BY <1>5 DEF listSubtreeDNs
  <2>2. CASE Finish(c, "error")
    BY <2>1, <2>2, AuditFinish
  <2>3. CASE ops' = [ops EXCEPT ![c].pc = "tree", ![c].todo = Under(ops[c].dn)] /\ UNCHANGED <<audit, unrecorded>>
    <3>1. ops' = [ops EXCEPT ![c] = [ops[c] EXCEPT !.pc = "tree", !.todo = Under(ops[c].dn)]]
      BY <2>3 DEF AuditInv, WriteTyped
    <3> QED BY <1>4, <2>1, <2>3, <3>1
  <2> QED BY <1>5, <2>2, <2>3 DEF listSubtreeDNs
<1>6. ASSUME NEW c \in Callers, deleteSubtree(c) PROVE AuditInv'
  <2>1. /\ Running(c) /\ UNCHANGED <<nextOp, killed>>
        /\ executed' = executed \/ executed' = executed \cup {ops[c].id}
    BY <1>6 DEF deleteSubtree
  <2>2. ASSUME NEW result \in {"ok", "error"}, Finish(c, result),
               result = "ok" => executed' = executed \cup {ops[c].id}
        PROVE  AuditInv'
    BY <2>1, <2>2, AuditFinish
  <2>3. CASE ops' = [ops EXCEPT ![c].pc = "each"] /\ UNCHANGED <<audit, unrecorded>>
    <3>1. ops' = [ops EXCEPT ![c] = [ops[c] EXCEPT !.pc = "each", !.todo = ops[c].todo]]
      <4>1. IsRequest(ops[c])
        BY <2>1 DEF AuditInv, WriteTyped, Shaped, Running
      <4>2. [ops[c] EXCEPT !.pc = "each", !.todo = ops[c].todo] = [ops[c] EXCEPT !.pc = "each"]
        BY <4>1 DEF IsRequest
      <4> QED BY <2>3, <4>2
    <3> QED BY <1>4, <2>1, <2>3, <3>1
  <2> QED BY <1>6, <2>2, <2>3 DEF deleteSubtree
<1>7. ASSUME NEW c \in Callers, DeleteNext(c) PROVE AuditInv'
  <2>1. /\ Running(c) /\ UNCHANGED <<nextOp, killed>>
        /\ executed' = executed \/ executed' = executed \cup {ops[c].id}
    BY <1>7 DEF DeleteNext
  <2>2. ASSUME NEW result \in {"ok", "error"}, Finish(c, result),
               result = "ok" => executed' = executed \cup {ops[c].id}
        PROVE  AuditInv'
    BY <2>1, <2>2, AuditFinish
  <2>3. ASSUME NEW d, ops' = [ops EXCEPT ![c].todo = @ \ {d}], UNCHANGED <<audit, unrecorded>>
        PROVE  AuditInv'
    <3>1. ops' = [ops EXCEPT ![c] = [ops[c] EXCEPT !.pc = ops[c].pc, !.todo = ops[c].todo \ {d}]]
      <4>1. IsRequest(ops[c])
        BY <2>1 DEF AuditInv, WriteTyped, Shaped, Running
      <4>2. [ops[c] EXCEPT !.pc = ops[c].pc, !.todo = ops[c].todo \ {d}] = [ops[c] EXCEPT !.todo = ops[c].todo \ {d}]
        BY <4>1 DEF IsRequest
      <4> QED BY <2>3, <4>2
    <3> QED BY <1>4, <2>1, <2>3, <3>1
  <2> QED BY <1>7, <2>2, <2>3 DEF DeleteNext
<1>8. CASE OtherClient
  BY <1>8 DEF OtherClient, AuditInv, WriteTyped, NumbersAreFresh, AuditIsComplete, Writes, Running, Idle
<1>9. CASE Kill
  <2>1. /\ Writes' = {} /\ DOMAIN ops' = Callers /\ \A c \in Callers : ops'[c] = Idle
        /\ UNCHANGED <<nextOp, audit, unrecorded, executed>>
        /\ killed' = killed \cup {ops[c].id : c \in Writes}
    BY <1>9 DEF Kill, Writes, Running, Idle
  <2> QED BY <2>1 DEF AuditInv, WriteTyped, Shaped, NumbersAreFresh, AuditIsComplete, Writes
<1>10. CASE UNCHANGED dirVars
  BY <1>10 DEF dirVars, AuditInv, WriteTyped, NumbersAreFresh, AuditIsComplete, Writes, Running, Idle
<1>11. ASSUME NEW c \in Callers, NEW dn, NEW attrs, AddEntry(c, dn, attrs) \/ ModifyEntry(c, dn, attrs)
       PROVE  AuditInv'
  BY <1>1, <1>11 DEF AddEntry, ModifyEntry, OpKinds
<1>12. ASSUME NEW c \in Callers, NEW dn, NEW identity, PasswordModify(c, dn, identity)
       PROVE  AuditInv'
  BY <1>1, <1>12 DEF PasswordModify, OpKinds
<1>13. ASSUME NEW c \in Callers, NEW dn, NEW x, NEW up, ModifyDN(c, dn, x, up)
       PROVE  AuditInv'
  BY <1>1, <1>13 DEF ModifyDN, OpKinds
<1> QED BY <1>2, <1>3, <1>5, <1>6, <1>7, <1>8, <1>9, <1>10, <1>11, <1>12, <1>13 DEF DirNext

\* The audit file is an account of the writes, however they overlap, end or are cut
\* off: what it lacks was in flight, killed, or not taken by a store that is absent
\* or failed (operations.go:69-83, 397-632; main.go:659-674).
THEOREM AuditIsKept == DirSpec => []AuditIsComplete
<1>1. AuditInv => AuditIsComplete
  BY DEF AuditInv
<1> QED BY AuditInit, AuditStep, <1>1, PTL DEF DirSpec

(* ---------------------- the writes and their bases ------------------------ *)
DnType == Seq(Names)

LEMMA DnsAreTyped == Dns \subseteq DnType /\ <<>> \notin Dns /\ Root \in Dns
<1>1. Root \in DnType /\ Len(Root) = 1
  BY DEF Root, DnType, Names
<1>2. ASSUME NEW e \in DnType, NEW d \in NamesUnder(e)
      PROVE  d \in DnType /\ Len(d) # 0
  <2>1. PICK x \in Rdns : d = <<x>> \o e
    BY <1>2 DEF NamesUnder
  <2>2. <<x>> \in Seq(Names) /\ Len(<<x>>) = 1 /\ e \in Seq(Names)
    BY DEF DnType, Names
  <2>3. d \in Seq(Names) /\ Len(d) = 1 + Len(e) /\ Len(e) \in Nat
    BY <2>1, <2>2, ConcatProperties
  <2> QED BY <2>3 DEF DnType
<1>3. ASSUME NEW d \in Dns PROVE d \in DnType /\ Len(d) # 0
  <2>1. d = Root \/ d \in NamesUnder(Root) \/ \E e \in NamesUnder(Root) : d \in NamesUnder(e)
    BY DEF Dns
  <2> QED BY <1>1, <1>2, <2>1
<1>4. Len(<<>>) = 0 /\ Root \in Dns
  BY DEF Dns
<1> QED BY <1>3, <1>4

\* Lying within a base is transitive.
LEMMA WithinBase ==
  ASSUME NEW d \in DnType, NEW e \in DnType, NEW base \in DnType,
         dnWithinBase(d, e), dnWithinBase(e, base)
  PROVE  dnWithinBase(d, base)
<1> DEFINE a == Len(d)
           b == Len(e)
           k == Len(base)
<1>1. a \in Nat /\ b \in Nat /\ k \in Nat
  BY DEF DnType
<1>2. /\ a >= b /\ b >= k
      /\ \A i \in 1..b : canonicalRDN(d[a - b + i]) = canonicalRDN(e[i])
      /\ \A i \in 1..k : canonicalRDN(e[b - k + i]) = canonicalRDN(base[i])
  BY DEF dnWithinBase
<1> HIDE DEF a, b, k
<1>3. ASSUME NEW i \in 1..k PROVE canonicalRDN(d[a - k + i]) = canonicalRDN(base[i])
  <2> DEFINE j == b - k + i
  <2>1. j \in 1..b /\ a - b + j = a - k + i
    BY <1>1, <1>2
  <2> HIDE DEF j
  <2>2. canonicalRDN(d[a - b + j]) = canonicalRDN(e[j])
    BY <1>2, <2>1
  <2>3. canonicalRDN(e[j]) = canonicalRDN(base[i])
    BY <1>2 DEF j
  <2> QED BY <2>1, <2>2, <2>3
<1>4. a >= k
  BY <1>1, <1>2
<1> QED BY <1>3, <1>4 DEF dnWithinBase, a, k

LEMMA WithinItself == ASSUME NEW d \in DnType PROVE dnWithinBase(d, d)
<1>1. Len(d) \in Nat /\ \A i \in 1..Len(d) : Len(d) - Len(d) + i = i
  BY DEF DnType
<1> QED BY <1>1 DEF dnWithinBase

\* What is moved with an entry comes to lie within its new DN.
LEMMA MovedWithin ==
  ASSUME NEW d \in DnType, NEW dn \in DnType, NEW to \in DnType, dnWithinBase(d, dn)
  PROVE  Moved(d, dn, to) \in DnType /\ dnWithinBase(Moved(d, dn, to), to)
<1> DEFINE k == Len(d) - Len(dn)
           front == SubSeq(d, 1, k)
           m == Moved(d, dn, to)
<1>1. Len(d) \in Nat /\ Len(dn) \in Nat /\ Len(to) \in Nat /\ k \in Nat /\ k <= Len(d)
  BY DEF DnType, dnWithinBase
<1>2. front \in DnType /\ Len(front) = k
  <2>1. \A i \in 1..k : d[i] \in Names
    BY <1>1 DEF DnType
  <2> HIDE DEF k
  <2>2. front \in Seq(Names) /\ Len(front) = IF 1 <= k THEN (k - 1) + 1 ELSE 0
    BY <1>1, <2>1, SubSeqProperties
  <2> QED BY <1>1, <2>2 DEF DnType
<1>3. m = front \o to
  BY DEF Moved
<1> HIDE DEF front, k, m
<1>4. /\ m \in DnType /\ Len(m) = k + Len(to)
      /\ \A i \in 1..(k + Len(to)) : m[i] = IF i <= k THEN front[i] ELSE to[i - k]
  BY <1>2, <1>3, ConcatProperties DEF DnType
<1>5. ASSUME NEW i \in 1..Len(to) PROVE m[Len(m) - Len(to) + i] = to[i]
  <2>1. Len(m) - Len(to) + i = k + i /\ k + i \in 1..(k + Len(to)) /\ ~(k + i <= k) /\ (k + i) - k = i
    BY <1>1, <1>4
  <2> QED BY <1>4, <2>1
<1>6. Len(m) >= Len(to)
  BY <1>1, <1>4
<1> QED BY <1>4, <1>5, <1>6 DEF dnWithinBase, m

\* What lies within a DN that the profile lets write is covered as well.
LEMMA CoversBelow ==
  ASSUME NEW p \in ProfileType, NEW d \in DnType, NEW e \in DnType,
         dnWithinBase(d, e), WriteCovers(p, e)
  PROVE  WriteCovers(p, d)
<1>1. \A base \in writeBasesOf(p) : base \in DnType
  BY DEF ProfileType, DnType, writeBasesOf
<1> QED BY <1>1, WithinBase DEF WriteCovers, dnWithinAnyBase

\* A write that has passed the gate.
Passed(o) ==
  /\ ~policy.readOnly
  /\ o.attrs \cap firstBlockedLDAPAttribute(policy, Attrs) = {}
  /\ o.dn \in Dns /\ WriteCovers(policy, o.dn)
  /\ o.kind = "rename" => o.to \in DnType /\ WriteCovers(policy, o.to)
  /\ \A d \in o.todo : d \in DnType /\ dnWithinBase(d, o.dn)

GateInv ==
  /\ policy \in ProfileType
  /\ tree \subseteq Dns
  /\ \A c \in Writes : Passed(ops[c])

LEMMA GateInit == DirInit => GateInv
<1> SUFFICES ASSUME DirInit PROVE GateInv
  OBVIOUS
<1>1. Writes = {}
  BY DEF DirInit, Writes, Running
<1>2. policy \in ProfileType
  BY DEF DirInit
<1>3. tree \subseteq Dns
  <2>1. \A x \in Rdns : <<x>> \o Root \in Dns /\ <<x>> \o (<<x>> \o Root) \in Dns
    <3>1. \A x \in Rdns : \A e : <<x>> \o e \in NamesUnder(e)
      BY DEF NamesUnder
    <3> QED BY <3>1 DEF Dns
  <2> QED BY <2>1, DnsAreTyped DEF DirInit
<1> QED BY <1>1, <1>2, <1>3 DEF GateInv

\* The gate lets only such a write pass.
LEMMA GatePassed ==
  ASSUME WriteTyped, GateInv, NEW c \in Callers, NEW dns, NEW attrs, NEW o, Gated(c, dns, attrs, o),
         (\A i \in DOMAIN dns : ensureLDAPWriteAllowed(policy, dns[i], attrs)) => Passed(o)
  PROVE  GateInv'
<1>1. UNCHANGED <<policy, tree>>
  BY DEF Gated
<1>2. CASE ops' = ops
  BY <1>1, <1>2 DEF GateInv, Writes, Running, Idle, Passed
<1>3. CASE ops' = [ops EXCEPT ![c] = o] /\ Passed(o)
  BY <1>1, <1>3 DEF GateInv, WriteTyped, Writes, Running, Idle, Passed
<1> QED BY <1>2, <1>3 DEF Gated

\* A write that goes on or ends, for the bases and for the tree.
LEMMA GateOn ==
  ASSUME WriteTyped, GateInv, NEW c \in Callers, Running(c), policy' = policy, tree' \subseteq Dns,
         NEW o, ops' = [ops EXCEPT ![c] = o], o = Idle \/ Passed(o)
  PROVE  GateInv'
BY DEF GateInv, WriteTyped, Writes, Running, Idle, Passed
\* What a rename takes along.
LEMMA RenameInside ==
  ASSUME GateInv, NEW c \in Writes, ops[c].kind = "rename", Serves(ops[c])
  PROVE  \A d \in (tree \ Effect(ops[c])) \cup (Effect(ops[c]) \ tree) : WriteCovers(policy, d)
<1> DEFINE o == ops[c]
<1>1. /\ o.dn \in DnType /\ o.to \in DnType /\ WriteCovers(policy, o.dn) /\ WriteCovers(policy, o.to)
      /\ policy \in ProfileType
  BY DnsAreTyped DEF GateInv, Passed
<1>2. Effect(o) = (tree \ Under(o.dn)) \cup {Moved(d, o.dn, o.to) : d \in Under(o.dn)}
  BY DEF Effect
<1> HIDE DEF o
<1>3. ASSUME NEW d \in Under(o.dn)
      PROVE  WriteCovers(policy, d) /\ WriteCovers(policy, Moved(d, o.dn, o.to))
  <2>1. d \in DnType /\ dnWithinBase(d, o.dn)
    BY <1>3, DnsAreTyped DEF Under, GateInv
  <2>2. Moved(d, o.dn, o.to) \in DnType /\ dnWithinBase(Moved(d, o.dn, o.to), o.to)
    BY <1>1, <2>1, MovedWithin
  <2> QED BY <1>1, <2>1, <2>2, CoversBelow
<1> QED BY <1>2, <1>3 DEF o

\* One request: what the server does with it lies within the bases.
LEMMA EffectInside ==
  ASSUME GateInv, WriteTyped, NEW c \in Writes, Serves(ops[c])
  PROVE  /\ \A d \in (tree \ Effect(ops[c])) \cup (Effect(ops[c]) \ tree) : WriteCovers(policy, d)
         /\ Effect(ops[c]) \subseteq Dns
<1> DEFINE o == ops[c]
<1>1. o.kind \in OpKinds /\ Passed(o) /\ tree \subseteq Dns
  BY DEF GateInv, WriteTyped, Shaped, Writes, Running
<1>2. CASE o.kind = "rename"
  <2>1. \A d \in Under(o.dn) : Moved(d, o.dn, o.to) \in Dns
    BY <1>2 DEF Serves
  <2>2. Effect(o) \subseteq Dns
    BY <1>1, <1>2, <2>1 DEF Effect
  <2> QED BY <1>2, <2>2, RenameInside
<1>3. CASE o.kind \in {"add", "modify", "delete"}
  <2>1. Effect(o) \in {tree, tree \cup {o.dn}, tree \ {o.dn}}
    BY <1>3 DEF Effect
  <2>2. Effect(o) \subseteq Dns
    BY <1>1, <2>1 DEF Passed
  <2> QED BY <1>1, <2>1, <2>2 DEF Passed
<1> QED BY <1>1, <1>2, <1>3 DEF OpKinds

\* What one step of a write changes.
Inside(c) ==
  /\ ~policy.readOnly
  /\ ops[c].attrs \cap firstBlockedLDAPAttribute(policy, Attrs) = {}
  /\ \A d \in (tree \ tree') \cup (tree' \ tree) \cup {ops[c].dn} : WriteCovers(policy, d)

LEMMA GateSend ==
  ASSUME GateInv, WriteTyped, NEW c \in Callers, Send(c)
  PROVE  GateInv' /\ Inside(c)
<1>1. c \in Writes /\ Passed(ops[c]) /\ policy' = policy
  BY DEF Send, Writes, GateInv
<1>2. ops' = [ops EXCEPT ![c] = Idle]
  BY DEF Send, Finish
<1>3. CASE Serves(ops[c]) /\ tree' = Effect(ops[c])
  <2>2. /\ \A d \in (tree \ tree') \cup (tree' \ tree) : WriteCovers(policy, d)
        /\ tree' \subseteq Dns
    BY <1>1, <1>3, EffectInside
  <2>3. GateInv'
    BY <1>1, <1>2, <2>2, GateOn DEF Writes
  <2> QED BY <1>1, <2>2, <2>3 DEF Inside, Passed
<1>4. CASE tree' = tree
  <2>1. GateInv'
    BY <1>1, <1>2, <1>4, GateOn DEF Writes, GateInv
  <2> QED BY <1>1, <1>4, <2>1 DEF Inside, Passed
<1> QED BY <1>3, <1>4 DEF Send
LEMMA GateList ==
  ASSUME GateInv, WriteTyped, NEW c \in Callers, listSubtreeDNs(c)
  PROVE  GateInv' /\ UNCHANGED <<tree, executed>>
<1>1. c \in Writes /\ Passed(ops[c]) /\ UNCHANGED <<policy, tree, executed>>
  BY DEF listSubtreeDNs, Writes, GateInv
<1>2. CASE Finish(c, "error")
  BY <1>1, <1>2, GateOn DEF Finish, Writes, GateInv
<1>3. CASE ops' = [ops EXCEPT ![c].pc = "tree", ![c].todo = Under(ops[c].dn)]
  <2> DEFINE o == [ops[c] EXCEPT !.pc = "tree", !.todo = Under(ops[c].dn)]
  <2>1. IsRequest(ops[c])
    BY <1>1 DEF WriteTyped, Shaped, Writes, Running
  <2>2. /\ o.attrs = ops[c].attrs /\ o.dn = ops[c].dn /\ o.kind = ops[c].kind /\ o.to = ops[c].to
        /\ o.todo = Under(ops[c].dn)
    BY <2>1 DEF IsRequest
  <2>3. \A d \in Under(ops[c].dn) : d \in DnType /\ dnWithinBase(d, ops[c].dn)
    BY DnsAreTyped DEF Under, GateInv
  <2>4. ops' = [ops EXCEPT ![c] = o]
    BY <1>3 DEF WriteTyped
  <2> HIDE DEF o
  <2>5. Passed(o)
    BY <1>1, <2>2, <2>3 DEF Passed
  <2> QED BY <1>1, <2>4, <2>5, GateOn DEF Writes, GateInv
<1> QED BY <1>1, <1>2, <1>3 DEF listSubtreeDNs

LEMMA GateSubtree ==
  ASSUME GateInv, WriteTyped, NEW c \in Callers, deleteSubtree(c)
  PROVE  GateInv' /\ Inside(c)
<1>1. c \in Writes /\ Passed(ops[c]) /\ policy' = policy
  BY DEF deleteSubtree, Writes, GateInv
<1>2. tree' = tree \/ tree' = tree \ Under(ops[c].dn)
  BY DEF deleteSubtree
<1>3. \A d \in Under(ops[c].dn) : WriteCovers(policy, d)
  <2>1. \A d \in Under(ops[c].dn) : d \in DnType /\ dnWithinBase(d, ops[c].dn)
    BY DnsAreTyped DEF Under, GateInv
  <2> QED BY <1>1, <2>1, CoversBelow, DnsAreTyped DEF GateInv, Passed
<1>4. tree' \subseteq Dns
  BY <1>2 DEF GateInv
<1>5. Inside(c)
  BY <1>1, <1>2, <1>3 DEF Inside, Passed
<1>6. CASE ops' = [ops EXCEPT ![c] = Idle]
  BY <1>1, <1>4, <1>5, <1>6, GateOn DEF Writes
<1>7. CASE ops' = [ops EXCEPT ![c].pc = "each"]
  <2> DEFINE o == [ops[c] EXCEPT !.pc = "each"]
  <2>1. IsRequest(ops[c])
    BY <1>1 DEF WriteTyped, Shaped, Writes, Running
  <2>2. /\ o.attrs = ops[c].attrs /\ o.dn = ops[c].dn /\ o.kind = ops[c].kind /\ o.to = ops[c].to
        /\ o.todo = ops[c].todo
    BY <2>1 DEF IsRequest
  <2>3. ops' = [ops EXCEPT ![c] = o]
    BY <1>7 DEF WriteTyped
  <2> HIDE DEF o
  <2>4. Passed(o)
    BY <1>1, <2>2 DEF Passed
  <2> QED BY <1>1, <1>4, <1>5, <2>3, <2>4, GateOn DEF Writes
<1> QED BY <1>6, <1>7 DEF deleteSubtree, Finish

LEMMA GateDelete ==
  ASSUME GateInv, WriteTyped, NEW c \in Callers, DeleteNext(c)
  PROVE  GateInv' /\ Inside(c)
<1>1. c \in Writes /\ Passed(ops[c]) /\ policy' = policy
  BY DEF DeleteNext, Writes, GateInv
<1>2. tree' = tree \/ \E d \in ops[c].todo : tree' = tree \ {d}
  BY DEF DeleteNext, orderDeepestFirst
<1>3. \A d \in ops[c].todo : WriteCovers(policy, d)
  BY <1>1, CoversBelow, DnsAreTyped DEF GateInv, Passed
<1>4. tree' \subseteq Dns
  BY <1>2 DEF GateInv
<1>5. Inside(c)
  BY <1>1, <1>2, <1>3 DEF Inside, Passed
<1>6. CASE ops' = [ops EXCEPT ![c] = Idle]
  BY <1>1, <1>4, <1>5, <1>6, GateOn DEF Writes
<1>7. ASSUME NEW d, ops' = [ops EXCEPT ![c].todo = @ \ {d}]
      PROVE  GateInv'
  <2> DEFINE o == [ops[c] EXCEPT !.todo = @ \ {d}]
  <2>1. IsRequest(ops[c])
    BY <1>1 DEF WriteTyped, Shaped, Writes, Running
  <2>2. /\ o.attrs = ops[c].attrs /\ o.dn = ops[c].dn /\ o.kind = ops[c].kind /\ o.to = ops[c].to
        /\ o.todo = ops[c].todo \ {d}
    BY <2>1 DEF IsRequest
  <2>3. ops' = [ops EXCEPT ![c] = o]
    BY <1>7 DEF WriteTyped
  <2> HIDE DEF o
  <2>4. Passed(o)
    BY <1>1, <2>2 DEF Passed
  <2> QED BY <1>1, <1>4, <2>3, <2>4, GateOn DEF Writes
<1> QED BY <1>5, <1>6, <1>7 DEF DeleteNext, Finish

\* What the operations hand to the gate, and what they send once it is passed.
LEMMA GateOperations ==
  ASSUME GateInv, WriteTyped, NEW c \in Callers, NEW dn \in Dns,
         \/ \E attrs : AddEntry(c, dn, attrs) \/ ModifyEntry(c, dn, attrs)
         \/ \E identity \in Dns \cup {<<>>} : PasswordModify(c, dn, identity)
         \/ \E x \in Rdns, up \in Dns \cup {<<>>} : ModifyDN(c, dn, x, up)
         \/ \E recursive \in BOOLEAN : DeleteEntry(c, dn, recursive)
  PROVE  GateInv' /\ UNCHANGED <<tree, executed>>
<1>1. ASSUME NEW d \in Dns, NEW to \in DnType, NEW attrs, NEW kind \in OpKinds, NEW pc,
             ensureLDAPWriteAllowed(policy, d, attrs),
             kind = "rename" => ensureLDAPWriteAllowed(policy, to, attrs)
      PROVE  Passed([kind |-> kind, id |-> nextOp, dn |-> d, to |-> to, attrs |-> attrs, pc |-> pc, todo |-> {}])
  BY <1>1 DEF Passed, ensureLDAPWriteAllowed, firstBlockedLDAPAttribute
<1>2. \A d \in Dns : d \in DnType
  BY DnsAreTyped
<1>3. ASSUME NEW attrs, AddEntry(c, dn, attrs) PROVE GateInv' /\ UNCHANGED <<tree, executed>>
  <2>1. Gated(c, <<dn>>, attrs, Request("add", dn, dn, attrs))
    BY <1>3 DEF AddEntry
  <2>2. ensureLDAPWriteAllowed(policy, <<dn>>[1], attrs) => Passed(Request("add", dn, dn, attrs))
    BY <1>1, <1>2 DEF Request, OpKinds
  <2>3. GateInv'
    BY <2>1, <2>2, GatePassed
  <2> QED BY <2>1, <2>3 DEF Gated
<1>4. ASSUME NEW attrs, ModifyEntry(c, dn, attrs) PROVE GateInv' /\ UNCHANGED <<tree, executed>>
  <2>1. Gated(c, <<dn>>, attrs, Request("modify", dn, dn, attrs))
    BY <1>4 DEF ModifyEntry
  <2>2. ensureLDAPWriteAllowed(policy, <<dn>>[1], attrs) => Passed(Request("modify", dn, dn, attrs))
    BY <1>1, <1>2 DEF Request, OpKinds
  <2>3. GateInv'
    BY <2>1, <2>2, GatePassed
  <2> QED BY <2>1, <2>3 DEF Gated
<1>5. ASSUME NEW identity \in Dns \cup {<<>>}, PasswordModify(c, dn, identity)
      PROVE  GateInv' /\ UNCHANGED <<tree, executed>>
  <2> DEFINE target == IF identity = <<>> THEN dn ELSE identity
  <2>1. Gated(c, <<target>>, {}, Request("modify", target, target, {})) /\ target \in Dns
    BY <1>5 DEF PasswordModify
  <2> HIDE DEF target
  <2>2. ensureLDAPWriteAllowed(policy, <<target>>[1], {}) => Passed(Request("modify", target, target, {}))
    BY <1>1, <1>2, <2>1 DEF Request, OpKinds
  <2>3. GateInv'
    BY <2>1, <2>2, GatePassed
  <2> QED BY <2>1, <2>3 DEF Gated
<1>6. ASSUME NEW x \in Rdns, NEW up \in Dns \cup {<<>>}, ModifyDN(c, dn, x, up)
      PROVE  GateInv' /\ UNCHANGED <<tree, executed>>
  <2> DEFINE to == ldapModifyDNDestinationDN(dn, x, up)
  <2>1. Gated(c, <<dn, to>>, {}, Request("rename", dn, to, {}))
    BY <1>6 DEF ModifyDN
  <2>2. to \in DnType
    <3>1. Tail(dn) \in Seq(Names) /\ (up # <<>> => up \in Seq(Names)) /\ <<x>> \in Seq(Names)
      BY DnsAreTyped DEF DnType, Names
    <3> QED BY <3>1, ConcatProperties DEF DnType, ldapModifyDNDestinationDN
  <2> HIDE DEF to
  <2>3. ensureLDAPWriteAllowed(policy, <<dn, to>>[1], {}) /\ ensureLDAPWriteAllowed(policy, <<dn, to>>[2], {})
          => Passed(Request("rename", dn, to, {}))
    BY <1>1, <2>2 DEF Request, OpKinds
  <2>4. GateInv'
    BY <2>1, <2>3, GatePassed
  <2> QED BY <2>1, <2>4 DEF Gated
<1>7. ASSUME NEW recursive \in BOOLEAN, DeleteEntry(c, dn, recursive)
      PROVE  GateInv' /\ UNCHANGED <<tree, executed>>
  <2> DEFINE pc == IF recursive THEN "list" ELSE "send"
             o == [Request("delete", dn, dn, {}) EXCEPT !.pc = pc]
  <2>1. Gated(c, <<dn>>, {}, o)
    BY <1>7 DEF DeleteEntry
  <2> HIDE DEF pc
  <2>2. /\ o.attrs = {} /\ o.dn = dn /\ o.kind = "delete" /\ o.todo = {}
    BY DEF Request
  <2> HIDE DEF o
  <2>3. ensureLDAPWriteAllowed(policy, <<dn>>[1], {}) => Passed(o)
    BY <2>2 DEF Passed, ensureLDAPWriteAllowed
  <2>4. GateInv'
    BY <2>1, <2>3, GatePassed
  <2> QED BY <2>1, <2>4 DEF Gated
<1> QED BY <1>3, <1>4, <1>5, <1>6, <1>7

\* Every step of a write stays inside.
LEMMA GateStep ==
  ASSUME GateInv, WriteTyped, [DirNext]_dirVars
  PROVE  /\ GateInv'
         /\ \A c \in Callers : Running(c) /\ ops'[c] # ops[c] /\ <<tree, executed>>' # <<tree, executed>> => Inside(c)
<1> DEFINE Fine == \A c \in Callers : ops'[c] # ops[c] /\ <<tree, executed>>' # <<tree, executed>> => Inside(c)
<1>1. ASSUME NEW c \in Callers, GateInv', Inside(c), \A d \in Callers \ {c} : ops'[d] = ops[d]
      PROVE  GateInv' /\ Fine
  BY <1>1
<1>2. ASSUME NEW c \in Callers, Send(c) \/ deleteSubtree(c) \/ DeleteNext(c)
      PROVE  GateInv' /\ Fine
  <2>1. GateInv' /\ Inside(c)
    BY <1>2, GateSend, GateSubtree, GateDelete
  <2>2. \A d \in Callers \ {c} : ops'[d] = ops[d]
    BY <1>2 DEF Send, deleteSubtree, DeleteNext, Finish, WriteTyped
  <2> QED BY <1>1, <2>1, <2>2
<1>3. ASSUME NEW c \in Callers, listSubtreeDNs(c) PROVE GateInv' /\ Fine
  BY <1>3, GateList
<1>4. ASSUME OtherClient PROVE GateInv' /\ Fine
  <2>1. ops' = ops /\ policy' = policy /\ tree' \subseteq Dns
    BY <1>4 DEF OtherClient, GateInv
  <2> QED BY <2>1 DEF GateInv, Writes, Running, Idle, Passed
<1>5. ASSUME Kill PROVE GateInv' /\ Fine
  <2>1. UNCHANGED <<policy, tree, executed>> /\ Writes' = {}
    BY <1>5 DEF Kill, Writes, Running, Idle
  <2> QED BY <2>1 DEF GateInv
<1>6. ASSUME UNCHANGED dirVars PROVE GateInv' /\ Fine
  BY <1>6 DEF dirVars, GateInv, Writes, Running, Idle, Passed
<1>7. ASSUME NEW c \in Callers, NEW dn \in Dns,
             \/ \E attrs : AddEntry(c, dn, attrs) \/ ModifyEntry(c, dn, attrs)
             \/ \E identity \in Dns \cup {<<>>} : PasswordModify(c, dn, identity)
             \/ \E x \in Rdns, up \in Dns \cup {<<>>} : ModifyDN(c, dn, x, up)
             \/ \E recursive \in BOOLEAN : DeleteEntry(c, dn, recursive)
      PROVE  GateInv' /\ Fine
  BY <1>7, GateOperations
<1>8. GateInv' /\ Fine
  <2> HIDE DEF Fine
  <2>1. ASSUME NEW c \in Callers, NEW dn \in Dns,
               NEW identity \in Dns \cup {<<>>}, PasswordModify(c, dn, identity)
        PROVE  GateInv' /\ Fine
    BY <1>7, <2>1
  <2>2. ASSUME NEW c \in Callers, NEW dn \in Dns, NEW x \in Rdns, NEW up \in Dns \cup {<<>>},
               ModifyDN(c, dn, x, up)
        PROVE  GateInv' /\ Fine
    BY <1>7, <2>2
  <2>3. ASSUME NEW c \in Callers, NEW dn \in Dns, NEW recursive \in BOOLEAN, DeleteEntry(c, dn, recursive)
        PROVE  GateInv' /\ Fine
    BY <1>7, <2>3
  <2>4. ASSUME NEW c \in Callers, NEW dn \in Dns, NEW attrs, AddEntry(c, dn, attrs) \/ ModifyEntry(c, dn, attrs)
        PROVE  GateInv' /\ Fine
    BY <1>7, <2>4
  <2>5. CASE \E c \in Callers : Send(c) \/ deleteSubtree(c) \/ DeleteNext(c)
    BY <1>2, <2>5
  <2>6. CASE \E c \in Callers : listSubtreeDNs(c)
    BY <1>3, <2>6
  <2>7. CASE \E c \in Callers, dn \in Dns, attrs \in {{"cn"}, {"cn", "pw;binary"}} :
               AddEntry(c, dn, attrs) \/ ModifyEntry(c, dn, attrs)
    <3>1. PICK c \in Callers, dn \in Dns, attrs \in {{"cn"}, {"cn", "pw;binary"}} :
                 AddEntry(c, dn, attrs) \/ ModifyEntry(c, dn, attrs)
      BY <2>7, Zenon
    <3> QED BY <2>4, <3>1
  <2>8. CASE \E c \in Callers, dn \in Dns, identity \in Dns \cup {<<>>} : PasswordModify(c, dn, identity)
    BY <2>1, <2>8
  <2>9. CASE \E c \in Callers, dn \in Dns, x \in Rdns, up \in Dns \cup {<<>>} : ModifyDN(c, dn, x, up)
    BY <2>2, <2>9
  <2>10. CASE \E c \in Callers, dn \in Dns, recursive \in BOOLEAN : DeleteEntry(c, dn, recursive)
    BY <2>3, <2>10
  <2>11. CASE DirNext
    BY <1>4, <1>5, <2>5, <2>6, <2>7, <2>8, <2>9, <2>10, <2>11, Zenon DEF DirNext
  <2> QED BY <1>6, <2>11, Zenon
<1> QED BY <1>8

\* Whatever the profile, a write changes the directory only within its bases, and
\* an addition or a modification names no attribute that it blocks; a rename and a
\* password operation name none to the gate (policy.go:295-374, operations.go:397-814).
THEOREM WritesAreCovered == DirSpec => WritesStayInside
<1>1. DirInit => AuditInv /\ GateInv
  BY AuditInit, GateInit
<1>2. AuditInv /\ GateInv /\ [DirNext]_dirVars => AuditInv' /\ GateInv'
  BY AuditStep, GateStep DEF AuditInv
<1>3. AuditInv /\ GateInv /\ [DirNext]_dirVars =>
        [\A c \in Callers : Running(c) /\ ops'[c] # ops[c] /\ <<tree, executed>>' # <<tree, executed>> =>
           /\ ~policy.readOnly
           /\ ops[c].attrs \cap firstBlockedLDAPAttribute(policy, Attrs) = {}
           /\ \A d \in (tree \ tree') \cup (tree' \ tree) \cup {ops[c].dn} : WriteCovers(policy, d)]_dirVars
  BY GateStep DEF AuditInv, Inside
<1> QED BY <1>1, <1>2, <1>3, PTL DEF DirSpec, WritesStayInside

(* -------------------------------- the reads ------------------------------- *)
USE ReadAssumption

\* What the loop of a search by pages has counted.
PagingTyped ==
  /\ paging = [got |-> paging.got, empty |-> paging.empty, last |-> paging.last, pages |-> paging.pages]
  /\ paging.got \in Nat /\ paging.empty \in Nat /\ paging.pages \in Nat

\* A page is one of those that brought entries, or an empty one after the last of these.
LoopIsBounded ==
  readPc = "paging" =>
    /\ paging.got < SearchLimit /\ paging.empty < MaxEmpty
    /\ paging.pages <= paging.got * MaxEmpty + paging.empty
    /\ cursor = IF paging.last = 0 THEN "none" ELSE "open"

ReadInv ==
  /\ policy \in ProfileType /\ tree \subseteq Dns
  /\ readPc \in {"idle", "paging", "done"}
  /\ readPc # "done" => answer = NoAnswer
  /\ readPc = "idle" => paging.pages = 0 /\ cursor = "none"
  /\ PagingTyped /\ LoopIsBounded
  /\ ReadsAreSound

LEMMA ReadInitInv == DirInit /\ ReadInit => ReadInv
<1> SUFFICES ASSUME DirInit, ReadInit PROVE ReadInv
  OBVIOUS
<1>1. policy \in ProfileType /\ tree \subseteq Dns
  BY GateInit DEF GateInv
<1>2. /\ readPc = "idle" /\ cursor = "none" /\ answer.result = "none" /\ answer = NoAnswer
      /\ paging = [got |-> 0, empty |-> 0, last |-> 0, pages |-> 0]
  BY DEF ReadInit, NoAnswer
<1>3. SearchLimit * MaxEmpty \in Nat
  OBVIOUS
<1>4. ReadsAreFiltered
  BY <1>2 DEF ReadsAreFiltered
<1>5. PagingEnds
  BY <1>2, <1>3 DEF PagingEnds
<1> QED BY <1>1, <1>2, <1>4, <1>5 DEF ReadInv, PagingTyped, LoopIsBounded, ReadsAreSound

\* An answer that may be given.
Sound(a) ==
  /\ a.result = "entries" =>
       /\ a.attrs \cap firstBlockedLDAPAttribute(policy, Attrs) = {}
       /\ a.asked \cap firstBlockedLDAPAttribute(policy, Attrs) = {}
       /\ a.derefAliases \/ \A d \in a.dns : policy.readBases = {} \/ dnWithinAnyBase(d, policy.readBases)
       /\ a.truncated \/ a.dns = a.given
  /\ a.result = "count" /\ ~a.truncated => a.count = Cardinality(Children(a.dn))

LEMMA PlainAnswers ==
  /\ Sound(Denied) /\ Sound(Failed) /\ Sound([result |-> "compared"]) /\ Sound([result |-> "identity"])
  /\ \A n, k, truncated : Sound(Page(n, k, truncated)) /\ Page(n, k, truncated).result = "page"
BY DEF Sound, Denied, Failed, Page

\* What is asked for holds no blocked attribute, and neither does the answer.
LEMMA AskedIsFiltered ==
  ASSUME NEW requested \in SUBSET Attrs
  PROVE  effectiveReadAttributes(policy, requested) \cap firstBlockedLDAPAttribute(policy, Attrs) = {}
<1>1. "1.1" \notin Attrs
  BY DEF Attrs
<1> QED BY <1>1 DEF effectiveReadAttributes, firstBlockedLDAPAttribute

LEMMA FoundIsSound ==
  ASSUME NEW given, NEW cut, NEW deref \in BOOLEAN, NEW requested \in SUBSET Attrs,
         deref \/ \A d \in cut.dns : policy.readBases = {} \/ dnWithinAnyBase(d, policy.readBases),
         cut.truncated \/ cut.dns = given
  PROVE  Sound(Found(given, cut, deref, effectiveReadAttributes(policy, requested)))
<1> DEFINE asked == effectiveReadAttributes(policy, requested)
           a == Found(given, cut, deref, asked)
<1>1. asked \cap firstBlockedLDAPAttribute(policy, Attrs) = {}
  BY AskedIsFiltered
<1> HIDE DEF asked
<1>2. /\ a.result = "entries" /\ a.dns = cut.dns /\ a.asked = asked
      /\ a.given = given /\ a.truncated = cut.truncated /\ a.derefAliases = deref
      /\ a.attrs = newLDAPBlockedAttributeFilter(policy, IF asked = {} THEN Attrs ELSE asked \ {"1.1"})
  BY DEF Found
<1>3. \A attrs : newLDAPBlockedAttributeFilter(policy, attrs) \cap firstBlockedLDAPAttribute(policy, Attrs) = {}
  BY DEF newLDAPBlockedAttributeFilter, firstBlockedLDAPAttribute
<1> HIDE DEF a
<1> QED BY <1>1, <1>2, <1>3 DEF Sound, a, asked

\* A cut is marked and is a part of what was given.
LEMMA CutIsMarked ==
  ASSUME NEW given, NEW cut \in clampSearchEntries(given)
  PROVE  cut.dns \subseteq given /\ (cut.truncated \/ cut.dns = given)
<1>1. CASE Cardinality(given) > SearchLimit
  <2>1. PICK d \in Cuts(given) : cut = [dns |-> d, truncated |-> TRUE]
    BY <1>1 DEF clampSearchEntries
  <2> QED BY <2>1 DEF Cuts
<1>2. CASE ~(Cardinality(given) > SearchLimit)
  BY <1>2 DEF clampSearchEntries, Whole
<1> QED BY <1>1, <1>2

\* What lies in the scope of a base that may be read may be read.
LEMMA ScopeIsReadable ==
  ASSUME policy \in ProfileType, tree \subseteq Dns, NEW base \in Dns, ensureLDAPReadAllowed(policy, base),
         NEW scope \in {"base", "one", "sub"}, NEW d \in InScope(base, scope) \cup {base}
  PROVE  policy.readBases = {} \/ dnWithinAnyBase(d, policy.readBases)
<1>1. d = base \/ (d \in tree /\ dnWithinBase(d, base))
  BY DEF InScope, Children, Below, Under
<1>2. base \in DnType /\ d \in DnType /\ base # <<>>
  BY <1>1, DnsAreTyped
<1>3. dnWithinBase(d, base)
  BY <1>1, <1>2, WithinItself
<1>4. \A b \in policy.readBases : b \in DnType
  BY DEF ProfileType, DnType
<1> QED BY <1>2, <1>3, <1>4, WithinBase DEF ensureLDAPReadAllowed, dnWithinAnyBase

\* A read that is one request.
LEMMA GivesSound ==
  ASSUME ReadInv, readPc = "idle", NEW a, Gives(a), Sound(a), UNCHANGED dirVars
  PROVE  ReadInv'
<1>1. readPc' = "done" /\ answer' = a /\ paging' = paging /\ cursor' = cursor /\ policy' = policy /\ tree' = tree
  BY DEF Gives, dirVars
<1>2. ReadsAreFiltered'
  BY <1>1 DEF Sound, ReadsAreFiltered, Children, Below, Under
<1>3. PagingEnds' /\ PagingTyped'
  BY <1>1 DEF ReadInv, ReadsAreSound, PagingEnds, PagingTyped
<1> QED BY <1>1, <1>2, <1>3 DEF ReadInv, LoopIsBounded, ReadsAreSound

LEMMA ReadsSound ==
  ASSUME ReadInv, NEW dn, NEW a, Reads(dn, a), ensureLDAPReadAllowed(policy, dn) => Sound(a), UNCHANGED dirVars
  PROVE  ReadInv'
BY GivesSound, PlainAnswers DEF Reads

\* The end of the loop.
LEMMA LoopEnds ==
  ASSUME ReadInv, readPc' = "done", Sound(answer'), UNCHANGED dirVars,
         PagingTyped', paging'.pages <= SearchLimit * MaxEmpty,
         answer'.result = "page" => answer'.got <= SearchLimit,
         answer'.result = "page" /\ ~answer'.truncated => ~answer'.more \/ paging'.empty > 0,
         cursor' = "open" => answer'.result = "page" /\ ~answer'.truncated /\ paging'.empty > 0
  PROVE  ReadInv'
<1>1. policy' = policy /\ tree' = tree
  BY DEF dirVars
<1>2. ReadsAreFiltered'
  BY <1>1 DEF Sound, ReadsAreFiltered, Children, Below, Under
<1>3. PagingEnds'
  BY DEF PagingEnds
<1> QED BY <1>1, <1>2, <1>3 DEF ReadInv, LoopIsBounded, ReadsAreSound

LEMMA ReadPageFails ==
  ASSUME ReadInv, PageFails, UNCHANGED dirVars
  PROVE  ReadInv'
<1>1. /\ readPc = "paging" /\ readPc' = "done" /\ answer' = Failed /\ paging' = paging
      /\ cursor' = IF paging.last # 0 THEN "abandoned" ELSE cursor
  BY DEF PageFails, Stop
<1>2. cursor' # "open"
  BY <1>1 DEF ReadInv, LoopIsBounded
<1>3. answer'.result = "error" /\ Sound(answer')
  BY <1>1, PlainAnswers DEF Failed
<1>4. PagingTyped' /\ paging'.pages <= SearchLimit * MaxEmpty
  BY <1>1 DEF ReadInv, PagingTyped, ReadsAreSound, PagingEnds
<1> QED BY <1>1, <1>2, <1>3, <1>4, LoopEnds

\* Numbers: what n more entries or an empty page leave of the bound.
LEMMA PageBound ==
  ASSUME NEW L \in Nat \ {0}, NEW M \in Nat \ {0}, NEW got \in Nat, NEW empty \in Nat, NEW pages \in Nat,
         got < L, empty < M, pages <= got * M + empty, NEW n \in Nat
  PROVE  /\ pages + 1 <= L * M
         /\ n = 0 => pages + 1 <= (got + n) * M + (empty + 1)
         /\ n # 0 => pages + 1 <= (got + n) * M
<1>1. \A m \in Nat : \A l \in Nat : m < l => m * M + M <= l * M
  <2> TAKE m \in Nat, l \in Nat
  <2> HAVE m < l
  <2>1. PICK k \in Nat : l = (m + 1) + k
    <3>1. l - (m + 1) \in Nat /\ l = (m + 1) + (l - (m + 1))
      OBVIOUS
    <3> QED BY <3>1
  <2>2. l * M = m * M + M + k * M /\ k * M \in Nat /\ m * M \in Nat
    BY <2>1
  <2> QED BY <2>2
<1>2. got * M \in Nat /\ got * M + M <= L * M
  BY <1>1
<1>3. pages + 1 <= got * M + M
  <2> DEFINE p == got * M
  <2>1. p \in Nat /\ pages <= p + empty
    BY <1>2
  <2> HIDE DEF p
  <2>2. pages + 1 <= p + M
    BY <2>1
  <2> QED BY <2>2 DEF p
<1>4. L * M \in Nat
  OBVIOUS
<1>5. n # 0 => got * M + M <= (got + n) * M /\ (got + n) * M \in Nat
  BY <1>1
<1>6. got * M + M \in Nat
  BY <1>2
<1> DEFINE a == got * M + M
           b == L * M
           c == (got + n) * M
<1> HIDE DEF a, b, c
<1>7. a \in Nat /\ b \in Nat /\ a <= b /\ pages + 1 <= a /\ (n # 0 => c \in Nat /\ a <= c)
  BY <1>2, <1>3, <1>4, <1>5, <1>6 DEF a, b, c
<1>8. pages + 1 <= b /\ (n # 0 => pages + 1 <= c)
  BY <1>7
<1>9. n = 0 => (got + n) * M = got * M
  OBVIOUS
<1>10. n = 0 => pages + 1 <= (got + n) * M + (empty + 1)
  <2> DEFINE p == got * M
  <2>1. p \in Nat /\ pages <= p + empty /\ (n = 0 => (got + n) * M = p)
    BY <1>2, <1>9
  <2> HIDE DEF p
  <2> QED BY <2>1
<1> QED BY <1>8, <1>10 DEF b, c

LEMMA ReadPageArrives ==
  ASSUME ReadInv, NEW n \in 0..MaxPage, NEW k \in Cookies, PageArrives(n, k), UNCHANGED dirVars
  PROVE  ReadInv'
<1> DEFINE got == paging.got + n
           empty == IF n = 0 THEN paging.empty + 1 ELSE 0
           seen == IF k = 0 THEN "none" ELSE "open"
           Ends(truncated, abandon) ==
             /\ readPc' = "done" /\ answer' = Page(IF got > SearchLimit THEN SearchLimit ELSE got, k, truncated)
             /\ cursor' = IF abandon THEN "abandoned" ELSE seen
<1>1. /\ readPc = "paging" /\ n \in Nat
      /\ paging' = [got |-> got, empty |-> empty, last |-> k, pages |-> paging.pages + 1]
  BY DEF PageArrives
<1>2. \/ got >= SearchLimit /\ Ends(TRUE, k # 0)
      \/ k = 0 /\ Ends(FALSE, FALSE)
      \/ n = 0 /\ k = paging.last /\ Ends(FALSE, FALSE)
      \/ k # 0 /\ GivesUp(n, empty) /\ Ends(TRUE, TRUE)
      \/ k # 0 /\ ~(got >= SearchLimit) /\ ~GivesUp(n, empty) /\ cursor' = seen /\ UNCHANGED <<readPc, answer>>
  BY DEF PageArrives
<1>3. /\ paging.got \in Nat /\ paging.empty \in Nat /\ paging.pages \in Nat
      /\ paging.got < SearchLimit /\ paging.empty < MaxEmpty
      /\ paging.pages <= paging.got * MaxEmpty + paging.empty
  BY <1>1 DEF ReadInv, PagingTyped, LoopIsBounded
<1>4. /\ paging.pages + 1 <= SearchLimit * MaxEmpty
      /\ n = 0 => paging.pages + 1 <= (paging.got + n) * MaxEmpty + (paging.empty + 1)
      /\ n # 0 => paging.pages + 1 <= (paging.got + n) * MaxEmpty
  BY <1>1, <1>3, PageBound
<1>5. got \in Nat /\ empty \in Nat /\ (n = 0 => empty > 0)
  BY <1>1, <1>3
<1>6. PagingTyped'
  <2> HIDE DEF got, empty
  <2> QED BY <1>1, <1>3, <1>5 DEF PagingTyped
<1>7. ASSUME NEW truncated, NEW abandon, Ends(truncated, abandon),
             abandon \/ k = 0 \/ (~truncated /\ n = 0), truncated \/ k = 0 \/ n = 0
      PROVE  ReadInv'
  <2> DEFINE kept == IF got > SearchLimit THEN SearchLimit ELSE got
  <2>1. kept <= SearchLimit
    BY <1>5
  <2> HIDE DEF kept
  <2>2. answer' = Page(kept, k, truncated) /\ readPc' = "done"
    BY <1>7 DEF kept
  <2>3. answer'.result = "page" /\ answer'.got = kept /\ answer'.truncated = truncated /\ Sound(answer')
       /\ answer'.more = (k # 0)
    BY <2>2, PlainAnswers DEF Page
  <2>4. cursor' = "open" => ~truncated /\ n = 0
    BY <1>7
  <2>5. paging'.pages = paging.pages + 1 /\ paging'.empty = empty
    BY <1>1
  <2> HIDE DEF got, empty, seen
  <2>6. truncated \/ k = 0 \/ paging'.empty > 0
    BY <1>5, <1>7, <2>5
  <2>7. answer'.result = "page" /\ ~answer'.truncated => ~answer'.more \/ paging'.empty > 0
    BY <2>3, <2>6
  <2> QED BY <1>4, <1>5, <1>6, <2>1, <2>2, <2>3, <2>4, <2>5, <2>7, LoopEnds
<1>8. CASE /\ k # 0 /\ ~(got >= SearchLimit) /\ ~GivesUp(n, empty) /\ cursor' = seen
           /\ UNCHANGED <<readPc, answer>>
  <2>1. got < SearchLimit /\ empty < MaxEmpty
    BY <1>1, <1>5, <1>8 DEF GivesUp
  <2>2. paging.pages + 1 <= got * MaxEmpty + empty
    <3>1. CASE n = 0
      BY <1>4, <3>1
    <3>2. CASE n # 0
      <4> DEFINE g == (paging.got + n) * MaxEmpty
      <4>1. g \in Nat /\ paging.pages + 1 <= g
        BY <1>1, <1>3, <1>4, <3>2
      <4> HIDE DEF g
      <4>2. paging.pages + 1 <= g + 0
        BY <1>3, <4>1
      <4> QED BY <3>2, <4>2 DEF g
    <3> QED BY <3>1, <3>2
  <2>3. cursor' = "open"
    BY <1>8
  <2>4. /\ paging'.got = got /\ paging'.empty = empty /\ paging'.last = k /\ paging'.pages = paging.pages + 1
    BY <1>1
  <2> HIDE DEF got, empty
  <2>5. LoopIsBounded'
    BY <1>8, <2>1, <2>2, <2>3, <2>4 DEF LoopIsBounded
  <2>6. readPc' = "paging" /\ answer' = NoAnswer /\ policy' = policy /\ tree' = tree
    BY <1>1, <1>8 DEF ReadInv, dirVars
  <2>7. ReadsAreFiltered'
    BY <2>6 DEF ReadsAreFiltered, NoAnswer
  <2>8. PagingEnds'
    BY <1>4, <2>4, <2>6 DEF PagingEnds
  <2> QED BY <1>6, <2>5, <2>6, <2>7, <2>8 DEF ReadInv, ReadsAreSound
<1> HIDE DEF got, empty, seen, Ends
<1>9. GivesUp(n, empty) => n = 0
  BY DEF GivesUp
<1> QED BY <1>2, <1>7, <1>8

LEMMA ReadStarts ==
  ASSUME ReadInv, NEW base \in Dns, SearchPaged(base), UNCHANGED dirVars
  PROVE  ReadInv'
<1>1. CASE Gives(Denied) /\ readPc = "idle"
  BY <1>1, GivesSound, PlainAnswers
<1>2. CASE /\ readPc = "idle" /\ readPc' = "paging" /\ paging' = [got |-> 0, empty |-> 0, last |-> 0, pages |-> 0]
           /\ UNCHANGED <<answer, cursor>>
  <2>1. /\ policy' = policy /\ tree' = tree /\ answer' = NoAnswer /\ PagingTyped' /\ 0 * MaxEmpty = 0
        /\ SearchLimit * MaxEmpty \in Nat
    BY <1>2 DEF dirVars, ReadInv, PagingTyped
  <2>2. LoopIsBounded'
    BY <1>2, <2>1 DEF LoopIsBounded, ReadInv
  <2>3. ReadsAreFiltered' /\ PagingEnds'
    BY <1>2, <2>1 DEF ReadsAreFiltered, PagingEnds, NoAnswer
  <2> QED BY <1>2, <2>1, <2>2, <2>3 DEF ReadInv, ReadsAreSound
<1> QED BY <1>1, <1>2 DEF SearchPaged
\* The reads that are one request.
LEMMA ReadOne ==
  ASSUME ReadInv, NEW dn \in Dns, NEW requested \in SUBSET Attrs, UNCHANGED dirVars,
         \/ GetEntry(dn, requested)
         \/ \E scope \in {"base", "one", "sub"}, deref \in BOOLEAN : SearchOnce(dn, scope, deref, requested)
         \/ RootDSE(requested)
         \/ Count(dn)
         \/ \E name : Compare(dn, name)
         \/ WhoAmI
  PROVE  ReadInv'
<1>1. policy \in ProfileType /\ tree \subseteq Dns
  BY DEF ReadInv
<1>2. CASE GetEntry(dn, requested)
  <2> DEFINE a == IF dn \in tree THEN Found({dn}, Whole({dn}), FALSE, effectiveReadAttributes(policy, requested)) ELSE Failed
  <2>1. ensureLDAPReadAllowed(policy, dn) => Sound(a)
    <3>1. CASE dn \in tree /\ ensureLDAPReadAllowed(policy, dn)
      <4>1. /\ \A d \in {dn} : policy.readBases = {} \/ dnWithinAnyBase(d, policy.readBases)
            /\ Whole({dn}).dns = {dn}
        BY <1>1, <3>1, ScopeIsReadable DEF Whole
      <4> QED BY <3>1, <4>1, FoundIsSound
    <3> QED BY <3>1, PlainAnswers
  <2>2. Reads(dn, a)
    BY <1>2 DEF GetEntry
  <2> HIDE DEF a
  <2> QED BY <2>1, <2>2, ReadsSound
<1>3. ASSUME NEW scope \in {"base", "one", "sub"}, NEW deref \in BOOLEAN, SearchOnce(dn, scope, deref, requested)
      PROVE  ReadInv'
  <2>1. PICK given \in Matches(dn, scope, deref) : \E cut \in clampSearchEntries(given) :
          Reads(dn, IF dn \in tree THEN Found(given, cut, deref, effectiveReadAttributes(policy, requested)) ELSE Failed)
    BY <1>3 DEF SearchOnce
  <2>0. PICK cut \in clampSearchEntries(given) :
          Reads(dn, IF dn \in tree THEN Found(given, cut, deref, effectiveReadAttributes(policy, requested)) ELSE Failed)
    BY <2>1
  <2> DEFINE a == IF dn \in tree THEN Found(given, cut, deref, effectiveReadAttributes(policy, requested)) ELSE Failed
  <2>2. (deref \/ given = InScope(dn, scope)) /\ cut.dns \subseteq given /\ (cut.truncated \/ cut.dns = given)
    BY CutIsMarked DEF Matches
  <2>3. ensureLDAPReadAllowed(policy, dn) => Sound(a)
    <3>1. CASE dn \in tree /\ ensureLDAPReadAllowed(policy, dn)
      <4>1. deref \/ \A d \in cut.dns : policy.readBases = {} \/ dnWithinAnyBase(d, policy.readBases)
        BY <1>1, <2>2, <3>1, ScopeIsReadable
      <4> QED BY <2>2, <3>1, <4>1, FoundIsSound
    <3> QED BY <3>1, PlainAnswers
  <2>4. Reads(dn, a)
    BY <2>0
  <2> HIDE DEF a
  <2> QED BY <2>3, <2>4, ReadsSound
<1>4. CASE RootDSE(requested)
  <2> DEFINE a == Found({}, Whole({}), FALSE, effectiveReadAttributes(policy, requested))
  <2>1. Sound(a)
    <3>1. Whole({}).dns = {}
      BY DEF Whole
    <3> QED BY <3>1, FoundIsSound
  <2>2. readPc = "idle" /\ (Gives(Denied) \/ Gives(Failed) \/ Gives(a))
    BY <1>4 DEF RootDSE
  <2> HIDE DEF a
  <2> QED BY <2>1, <2>2, GivesSound, PlainAnswers
<1>5. CASE Count(dn)
  <2> DEFINE n == Cardinality(Children(dn))
  <2>1. PICK exceeded \in BOOLEAN : Reads(dn, countFromSearchResult(dn, n, exceeded))
    BY <1>5 DEF Count
  <2>2. Sound(countFromSearchResult(dn, n, exceeded))
    <3>1. \A m, truncated : LET a == [result |-> "count", dn |-> dn, count |-> m, truncated |-> truncated]
                            IN a.result # "entries" /\ a.truncated = truncated /\ a.count = m /\ a.dn = dn
      OBVIOUS
    <3> HIDE DEF n
    <3>2. CASE exceeded \/ n > CountLimit
      BY <3>1, <3>2 DEF countFromSearchResult, Sound
    <3>3. CASE ~(exceeded \/ n > CountLimit)
      BY <3>1, <3>3 DEF countFromSearchResult, Sound, n
    <3> QED BY <3>2, <3>3
  <2> HIDE DEF n
  <2> QED BY <2>1, <2>2, ReadsSound
<1>6. ASSUME NEW name, Compare(dn, name) PROVE ReadInv'
  <2> DEFINE a == IF dn \in tree THEN [result |-> "compared"] ELSE Failed
  <2>1. Sound(a) /\ Reads(dn, a)
    BY <1>6, PlainAnswers DEF Compare
  <2> HIDE DEF a
  <2> QED BY <2>1, ReadsSound
<1>7. CASE WhoAmI
  BY <1>7, GivesSound, PlainAnswers DEF WhoAmI
<1> QED BY <1>2, <1>3, <1>4, <1>5, <1>6, <1>7

\* Whatever the profile, the requests and the pages of the server, a read ends with
\* what it may return, entries that aliases lead to aside; it is whole or marked as
\* cut off, unless an empty page repeated its cookie; and the loop of a search by
\* pages is bounded (policy.go:338-347, 453-536; operations.go:994-1101).
THEOREM ReadsStaySound == ReadSpec => []ReadsAreSound
<1>1. ASSUME ReadInv, [ReadNext /\ UNCHANGED dirVars]_<<dirVars, readVars>> PROVE ReadInv'
  <2>1. CASE UNCHANGED <<dirVars, readVars>>
    <3>1. UNCHANGED <<policy, tree, readPc, answer, paging, cursor>>
      BY <2>1 DEF dirVars, readVars
    <3> QED BY <1>1, <3>1 DEF ReadInv, PagingTyped, LoopIsBounded, ReadsAreSound, ReadsAreFiltered, PagingEnds,
                              Children, Below, Under
  <2>2. CASE ReadNext /\ UNCHANGED dirVars
    <3>1. {} \in SUBSET Attrs /\ Root \in Dns
      BY DnsAreTyped
    <3>2. ASSUME NEW dn \in Dns, NEW requested \in SUBSET Attrs,
                 \/ GetEntry(dn, requested)
                 \/ \E scope \in {"base", "one", "sub"}, deref \in BOOLEAN : SearchOnce(dn, scope, deref, requested)
          PROVE  ReadInv'
      BY <1>1, <2>2, <3>2, ReadOne
    <3>3. ASSUME NEW requested \in SUBSET Attrs, RootDSE(requested) PROVE ReadInv'
      BY <1>1, <2>2, <3>1, <3>3, ReadOne
    <3>4. ASSUME NEW dn \in Dns, Count(dn) \/ SearchPaged(dn) \/ \E name \in Attrs : Compare(dn, name)
          PROVE  ReadInv'
      BY <1>1, <2>2, <3>1, <3>4, ReadOne, ReadStarts
    <3>5. CASE WhoAmI
      BY <1>1, <2>2, <3>1, <3>5, ReadOne
    <3>6. CASE PageFails
      BY <1>1, <2>2, <3>6, ReadPageFails
    <3>7. ASSUME NEW n \in 0..MaxPage, NEW k \in Cookies, PageArrives(n, k) PROVE ReadInv'
      BY <1>1, <2>2, <3>7, ReadPageArrives
    <3> QED BY <2>2, <3>2, <3>3, <3>4, <3>5, <3>6, <3>7 DEF ReadNext
  <2> QED BY <1>1, <2>1, <2>2
<1>2. ReadInv => ReadsAreSound
  BY DEF ReadInv
<1> QED BY ReadInitInv, <1>1, <1>2, PTL DEF ReadSpec
=============================================================================
