------------------------------- MODULE Dialing ------------------------------
(* How ldapconn gets a bound connection (dial.go, auth_gssapi.go), the       *)
(* Kerberos client that go-ldap's SASL loop drives (ldapgssapi/client.go),   *)
(* and the connection check that uses the same transport (check.go).  One    *)
(* dial at a time: it is sequential code, and each one has its own socket.   *)
EXTENDS Integers, FiniteSets

CONSTANTS
  Endpoints,  \* [scheme, startTLS, verified]: verified says the files of its TLS fields load
  Auths,      \* [type, named, mutual, qop, inline, oddPort]
  Levels,     \* what is asked for: "connect", "test", or "network" and "bind" by Check
  MaxReplies  \* bound: the answers of the server to one SASL bind

VARIABLES
  dial,       \* what is asked for: [level, endpoint, auth], and whether there was a session then
  at,         \* the step that runs next
  channel,    \* the socket: "none", "plain", "tls" or "closed"
  sent,       \* whether a bind went out on it
  krb5conf,   \* the temporary krb5.conf files there are
  fallback,   \* whether the KDC's port 88 is tried now
  gss,        \* the security context of the Kerberos client
  session     \* Check: whether the entry has a connection now

dialVars == <<dial, at, channel, sent, krb5conf, fallback, gss, session>>

NoDial == [level |-> "none"]
NoContext == [ctxSent |-> FALSE, needInit |-> TRUE, verified |-> FALSE, replies |-> 0]
Schemes == {"ldap", "ldaps", "ldapi"}
Secure(e) == e.scheme = "ldaps" \/ e.startTLS

\* What is bound is kept, or read from once by a test.
Bound == at' = IF dial.level = "test" THEN "testProbe" ELSE "ok"
Binding == {"connect", "test"}

(* Every failure of the transport and of the bind goes through here: the     *)
(* socket that there is gets closed.                                         *)
Fails ==
  /\ at' = "failed"
  /\ channel' = IF channel = "none" THEN "none" ELSE "closed"

BeginDial(level, e, a) ==
  /\ at = "idle"
  /\ dial' = [level |-> level, endpoint |-> e, auth |-> a, had |-> session]
  /\ \/ e.scheme \in Schemes /\ at' = "tlsConfig"
     \/ (e.scheme \notin Schemes \/ level = "test") /\ at' = "failed"   \* a test looks at its base DN first
  /\ UNCHANGED <<channel, sent, krb5conf, fallback, gss, session>>

\* The files of hidden TLS fields are not read for a plain connection.
ldapTLSConfig ==
  /\ at = "tlsConfig"
  /\ at' = IF Secure(dial.endpoint) /\ ~dial.endpoint.verified THEN "failed" ELSE "dial"
  /\ UNCHANGED <<dial, channel, sent, krb5conf, fallback, gss, session>>

DialURL ==
  /\ at = "dial"
  /\ \/ Fails
     \/ /\ channel' = IF dial.endpoint.scheme = "ldaps" THEN "tls" ELSE "plain"
        /\ at' = IF dial.endpoint.startTLS THEN "startTLS" ELSE "dialed"
  /\ UNCHANGED <<dial, sent, krb5conf, fallback, gss, session>>

\* Mutant: it goes on without TLS.
StartTLSOptional ==
  /\ at = "startTLS" /\ at' = "dialed" /\ channel' \in {"plain", "tls"}
  /\ UNCHANGED <<dial, sent, krb5conf, fallback, gss, session>>

StartTLS ==
  /\ at = "startTLS"
  /\ \/ Fails
     \/ dial.endpoint.scheme = "ldap" /\ channel' = "tls" /\ at' = "dialed"
  /\ UNCHANGED <<dial, sent, krb5conf, fallback, gss, session>>

\* A check closes the socket and goes on with the connection of the entry.
checkDial ==
  /\ at = "dialed" /\ dial.level \notin Binding
  /\ channel' = "closed" /\ at' = IF dial.level = "network" THEN "ok" ELSE "probe"
  /\ UNCHANGED <<dial, sent, krb5conf, fallback, gss, session>>

\* Check looked for a session before it dialed; a Disconnect may have taken it.
checkProbe ==
  /\ at = "probe" /\ at' \in (IF dial.had /\ session THEN {"ok", "failed"} ELSE {"failed"})
  /\ UNCHANGED <<dial, channel, sent, krb5conf, fallback, gss, session>>
SessionChanges ==
  /\ at = "probe" /\ session' = ~session
  /\ UNCHANGED <<dial, at, channel, sent, krb5conf, fallback, gss>>

\* Without the name it needs a bind fails before anything is sent.
bindLDAPConnection ==
  /\ at = "dialed" /\ dial.level \in Binding
  /\ \/ dial.auth.type = "kerberos" /\ at' = "krb5conf" /\ UNCHANGED <<channel, sent>>
     \/ /\ dial.auth.type # "kerberos"
        /\ \/ Fails /\ sent' \in {sent, dial.auth.named}
           \/ dial.auth.named /\ sent' = TRUE /\ Bound /\ UNCHANGED channel
  /\ UNCHANGED <<dial, krb5conf, fallback, gss, session>>

\* The test reads its base DN, if it has one, and closes the socket either way.
Test ==
  /\ at = "testProbe" /\ at' \in {"ok", "failed"} /\ channel' = "closed"
  /\ UNCHANGED <<dial, sent, krb5conf, fallback, gss, session>>

(* --------------------------------- Kerberos ------------------------------ *)
\* The end of one attempt: the client is destroyed and its file removed, and
\* an error that reads like that of an unreachable KDC (a reset or closed
\* connection, also the LDAP one) is tried again on port 88 once.
Kerberos(ok, kdcUnreachable) ==
  /\ krb5conf' = {} /\ gss' = NoContext
  /\ IF ok THEN Bound /\ UNCHANGED <<channel, fallback>>
     ELSE IF kdcUnreachable /\ dial.auth.oddPort /\ ~fallback
     THEN fallback' = TRUE /\ at' = "krb5conf" /\ UNCHANGED channel
     ELSE Fails /\ UNCHANGED fallback

\* An inline realm is written to a file of its own; a file that cannot be
\* written, or is not there, ends the attempt.
ldapKerberosConfigPath ==
  /\ at = "krb5conf"
  /\ \/ Kerberos(FALSE, FALSE)
     \/ /\ krb5conf' = IF dial.auth.inline THEN {fallback} ELSE {}
        /\ at' = "client" /\ UNCHANGED <<channel, fallback, gss>>
  /\ UNCHANGED <<dial, sent, session>>

\* The quality of protection, the principal and the credentials are checked.
newLDAPGSSAPIClient ==
  /\ at = "client"
  /\ \/ Kerberos(FALSE, FALSE)
     \/ /\ dial.auth.qop = "auth" /\ dial.auth.named
        /\ at' = "init" /\ UNCHANGED <<channel, krb5conf, fallback, gss>>
  /\ UNCHANGED <<dial, sent, session>>

\* The first token: a ticket from the KDC, at most once for a context.  The
\* loop comes back here with nothing when the server was done without a token.
InitSecContext ==
  /\ at = "init"
  /\ \/ gss.ctxSent /\ Kerberos(FALSE, FALSE) /\ UNCHANGED sent
     \/ \E unreachable \in BOOLEAN : ~gss.ctxSent /\ Kerberos(FALSE, unreachable) /\ UNCHANGED sent
     \/ /\ ~gss.ctxSent /\ sent' = TRUE /\ at' = "reply"
        /\ gss' = [gss EXCEPT !.ctxSent = TRUE, !.needInit = dial.auth.mutual]
        /\ UNCHANGED <<channel, krb5conf, fallback>>
  /\ UNCHANGED <<dial, session>>

\* go-ldap's loop, external: it ends when no more is to be initialised and the
\* server sends no token.  A mutual context is done with an AP-REP that
\* decrypts; any other token keeps it waiting for one.
Reply(token) ==
  /\ at = "reply" /\ gss.replies < MaxReplies
  /\ \/ token = "error" /\ \E reset \in BOOLEAN : Kerberos(FALSE, reset)
     \/ token = "none" /\ ~gss.needInit /\ Kerberos(TRUE, FALSE)
     \/ /\ token = "none" /\ gss.needInit /\ at' = "init"
        /\ UNCHANGED <<channel, krb5conf, fallback, gss>>
     \/ /\ token = "apRep" /\ gss.needInit
        /\ gss' = [gss EXCEPT !.needInit = FALSE, !.verified = TRUE, !.replies = @ + 1]
        /\ UNCHANGED <<at, channel, krb5conf, fallback>>
     \/ /\ token = "other" /\ gss.needInit
        /\ gss' = [gss EXCEPT !.replies = @ + 1] /\ UNCHANGED <<at, channel, krb5conf, fallback>>
     \/ token \in {"apRep", "other"} /\ ~gss.needInit /\ Kerberos(FALSE, FALSE)
     \/ /\ token = "wrap" /\ ~gss.needInit
        /\ gss' = [gss EXCEPT !.replies = @ + 1] /\ UNCHANGED <<at, channel, krb5conf, fallback>>
     \/ token = "wrap" /\ gss.needInit /\ Kerberos(FALSE, FALSE)
  /\ UNCHANGED <<dial, sent, session>>

DialInit ==
  /\ dial = NoDial /\ at = "idle" /\ channel = "none" /\ sent = FALSE
  /\ krb5conf = {} /\ fallback = FALSE /\ gss = NoContext /\ session \in BOOLEAN

DialNext ==
  \/ \E level \in Levels, e \in Endpoints, a \in Auths : BeginDial(level, e, a)
  \/ ldapTLSConfig \/ DialURL \/ StartTLS \/ checkDial \/ checkProbe \/ SessionChanges
  \/ bindLDAPConnection \/ Test \/ ldapKerberosConfigPath \/ newLDAPGSSAPIClient \/ InitSecContext
  \/ \E token \in {"none", "apRep", "other", "wrap", "error"} : Reply(token)

DialSpec == DialInit /\ [][DialNext]_dialVars

(* -------------------------------- properties ----------------------------- *)
\* However a dial ends, no temporary file is left; the socket of one that
\* failed, of a test and of a check is closed, that of a connection is open.
DialLeavesNothing ==
  at \in {"ok", "failed"} =>
    /\ krb5conf = {}
    /\ at = "failed" \/ dial.level # "connect" => channel \in {"none", "closed"}
    /\ at = "ok" /\ dial.level = "connect" => channel \in {"plain", "tls"}

\* A bind goes out on the channel the profile asks for and never for a check;
\* a bind that asks for mutual authentication succeeds only after the server
\* has proved itself, within one context.
BindIsProtected ==
  /\ sent => dial.level \in Binding
  /\ sent /\ Secure(dial.endpoint) => channel \in {"tls", "closed"}
  /\ at = "reply" /\ dial.auth.mutual /\ ~gss.needInit => gss.verified

\* A dial takes nothing along and gives nothing away.
DialIsSafe == DialLeavesNothing /\ BindIsProtected
=============================================================================
