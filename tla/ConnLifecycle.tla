--------------------------- MODULE ConnLifecycle ---------------------------
(***************************************************************************)
(* The connection table of the sidecar (ldapconn.Service) and every        *)
(* operation that goes through it: connection/connect, disconnect, the     *)
(* shared-connection operations (WithConn, WithConnOnce), the aggregate    *)
(* reads on a connection of their own (withDedicatedConn), CloseAll.       *)
(*                                                                         *)
(* The SDK runs each request in a goroutine of its own: a process is one   *)
(* such worker, serving one request after another.  s.mu only guards short *)
(* sections without a wait inside, so each such section is one atomic      *)
(* step; entry.mu is held across the network and is the variable mu.       *)
(***************************************************************************)
EXTENDS Naturals, FiniteSets

CONSTANTS
  Procs,     \* the request goroutines
  ConnIds,   \* host connection ids, the keys of s.conns
  Entries,   \* the *connEntry objects Connect can allocate (bounds a run)
  Configs,   \* connection configurations: profile, secrets and target
  ReadOnly,  \* the configurations whose read_only flag is set
  Workload,  \* the kinds of request the clients send
  None       \* nil

ASSUME ConfigAssumption == ReadOnly \subseteq Configs
ASSUME NoneAssumption ==
  None \notin Procs \cup ConnIds \cup Entries \cup Configs \cup [id: ConnIds, cfg: Configs]

VARIABLES
  conns,    \* s.conns: the current entry of each connection id
  profile,  \* the id and configuration an entry was made from; None: not allocated
  conn,     \* the entries whose conn is not nil
  status,   \* entry.status
  mu,       \* the holder of entry.mu
  retired,  \* entries closed by the Connect, Disconnect or CloseAll that dropped them
  serving,  \* Serve has not returned
  waited,   \* Serve had waited for its workers when it returned
  toClose,  \* the entries CloseAll has taken out of the table and not closed yet
  pc,       \* the next step of a process
  ent,      \* the entry a process works on
  sock,     \* the processes holding a dialed connection that no entry owns
  req       \* the request of a process and what happened to it so far

tableVars == <<conns, profile, retired, serving, waited, toClose>>
entryVars == <<conn, status, mu>>
procVars  == <<pc, ent, sock, req>>
vars == <<tableVars, entryVars, procVars>>

CallKinds == {"read", "write", "aggregate"}
Kinds     == CallKinds \cup {"connect", "disconnect"}
ASSUME WorkloadAssumption == Workload \subseteq Kinds

Statuses  == {"idle", "connected", "error", "closed"}
Results   == {"none", "ok", "error", "denied"}

\* The steps a process takes with entry.mu held.
Holding    == {"check", "dial", "recheck", "install", "fn"}
LifecycleSteps == {"swap", "remove", "closeOld", "cleanup"}
CallSteps  == {"policy", "lookup", "lock", "snapshot", "ddial", "dcheck", "dfn"} \cup Holding
Steps      == {"idle"} \cup CallSteps \cup LifecycleSteps

Requests ==
  [kind: Kinds, id: ConnIds, cfg: Configs \cup {None}, seen: Configs \cup {None},
   via: {"shared", "own"}, try: 1..2, hits: 0..2, res: Results]

\* A request as it arrives; aggregate reads ask for a connection of their own.
NewRequest(k, i, c) ==
  [kind |-> k, id |-> i, cfg |-> c, seen |-> None,
   via |-> IF k = "aggregate" THEN "own" ELSE "shared", try |-> 1, hits |-> 0, res |-> "none"]

TypeOK ==
  /\ conns \in [ConnIds -> Entries \cup {None}]
  /\ profile \in [Entries -> [id: ConnIds, cfg: Configs] \cup {None}]
  /\ conn \subseteq Entries
  /\ status \in [Entries -> Statuses]
  /\ mu \in [Entries -> Procs \cup {None}]
  /\ retired \subseteq Entries
  /\ serving \in BOOLEAN
  /\ waited \in BOOLEAN
  /\ toClose \subseteq Entries
  /\ pc \in [Procs -> Steps]
  /\ ent \in [Procs -> Entries \cup {None}]
  /\ sock \subseteq Procs
  /\ req \in [Procs -> Requests]

Init ==
  /\ conns = [i \in ConnIds |-> None]
  /\ profile = [e \in Entries |-> None]
  /\ conn = {}
  /\ status = [e \in Entries |-> "idle"]
  /\ mu = [e \in Entries |-> None]
  /\ retired = {}
  /\ serving = TRUE
  /\ waited = FALSE
  /\ toClose = {}
  /\ pc = [p \in Procs |-> "idle"]
  /\ ent = [p \in Procs |-> None]
  /\ sock = {}
  /\ \E i \in ConnIds : req = [p \in Procs |-> NewRequest("disconnect", i, None)]

----------------------------------------------------------------------------
(* Helpers *)

\* Broken: no identity check during the dial.
AlwaysCurrent(e) == TRUE

\* connectionEntryCurrent: the entry is still the one the table holds.
EntryCurrent(e) == conns[profile[e].id] = e

\* An entry Connect allocated that the table no longer holds.
Detached(e) == profile[e] # None /\ conns[profile[e].id] # e

\* Broken: the status survives the close.
CloseKeepsStatus(e, st) == conn' = conn \ {e} /\ UNCHANGED status

\* Broken: the connection survives the close.
CloseStatusOnly(e, st) == status' = [status EXCEPT ![e] = st] /\ UNCHANGED conn

\* connEntry.closeLocked
CloseLocked(e, st) ==
  /\ conn' = conn \ {e}
  /\ status' = [status EXCEPT ![e] = st]

\* Broken: writes go through WithConn.
AlwaysRetries(p) == TRUE

\* WithConn retries once after a reconnect; WithConnOnce (writes) never does.
Retries(p) == req[p].kind # "write"

\* The request has already reconnected once.
SecondTry(p) == req[p].try = 2

Goto(p, step) == pc' = [pc EXCEPT ![p] = step]

\* The request returns to its caller with result r.
Return(p, r) ==
  /\ Goto(p, "idle")
  /\ req' = [req EXCEPT ![p].res = r]

Unlock(p) == mu' = [mu EXCEPT ![ent[p]] = None]

----------------------------------------------------------------------------
(* A request arrives *)

\* The bound of a run: a Connect begins only when an entry is left for it.
EntriesLeft ==
  Cardinality({e \in Entries : profile[e] = None}) > Cardinality({q \in Procs : pc[q] = "swap"})

Begin(p, k, i, c) ==
  /\ serving
  /\ k = "connect" => EntriesLeft
  /\ pc[p] = "idle"
  /\ c = None <=> k # "connect"
  /\ req' = [req EXCEPT ![p] = NewRequest(k, i, c)]
  /\ Goto(p, CASE k = "connect" -> "swap" [] k = "disconnect" -> "remove" [] OTHER -> "policy")
  /\ ent' = [ent EXCEPT ![p] = None]
  /\ UNCHANGED <<tableVars, entryVars, sock>>

----------------------------------------------------------------------------
(* Connect and Disconnect *)

\* The critical section of Connect: the same configuration again is a no-op,
\* another one replaces the entry, which is closed in the steps that follow.
Swap(p) ==
  LET i == req[p].id  old == conns[i] IN
  /\ pc[p] = "swap"
  /\ \/ /\ old # None
        /\ profile[old].cfg = req[p].cfg
        /\ Return(p, "ok")
        /\ UNCHANGED <<conns, profile, ent>>
     \/ /\ old # None => profile[old].cfg # req[p].cfg
        /\ \E e \in Entries :
             /\ profile[e] = None
             /\ profile' = [profile EXCEPT ![e] = [id |-> i, cfg |-> req[p].cfg]]
             /\ conns' = [conns EXCEPT ![i] = e]
        /\ ent' = [ent EXCEPT ![p] = old]
        /\ Goto(p, IF old = None THEN "cleanup" ELSE "closeOld")
        /\ UNCHANGED req
  /\ UNCHANGED <<retired, serving, waited, toClose, entryVars, sock>>

\* The critical section of Disconnect; an id without an entry is a no-op.
Remove(p) ==
  LET i == req[p].id IN
  /\ pc[p] = "remove"
  /\ conns' = [conns EXCEPT ![i] = None]
  /\ ent' = [ent EXCEPT ![p] = conns[i]]
  /\ IF conns[i] = None THEN Return(p, "ok") ELSE Goto(p, "closeOld") /\ UNCHANGED req
  /\ UNCHANGED <<profile, retired, serving, waited, toClose, entryVars, sock>>

\* Broken: entry.mu is not awaited.
CloseAtOnce(p) ==
  /\ pc[p] = "closeOld"
  /\ CloseLocked(ent[p], "closed")
  /\ retired' = retired \cup {ent[p]}
  /\ Goto(p, "cleanup")
  /\ UNCHANGED <<conns, profile, serving, waited, toClose, mu, ent, sock, req>>

\* Both then wait for the operation that runs on the old entry and close it.
CloseOld(p) ==
  /\ pc[p] = "closeOld"
  /\ mu[ent[p]] = None
  /\ CloseLocked(ent[p], "closed")
  /\ retired' = retired \cup {ent[p]}
  /\ Goto(p, "cleanup")
  /\ UNCHANGED <<conns, profile, serving, waited, toClose, mu, ent, sock, req>>

\* Cancelling the search sessions and invalidating the schema cache come last;
\* what they do to those two tables is in SearchSessions and SchemaCache.
Cleanup(p) ==
  /\ pc[p] = "cleanup"
  /\ Return(p, "ok")
  /\ UNCHANGED <<tableVars, entryVars, ent, sock>>

----------------------------------------------------------------------------
(* Operations: the policy gate, then withConn or withDedicatedConn *)

\* s.Get, then the gate of the handler on the profile it returned.
Policy(p) ==
  LET e == conns[req[p].id] IN
  /\ pc[p] = "policy"
  /\ \/ e = None /\ Return(p, "error")
     \/ /\ e # None
        /\ req[p].kind = "write" /\ profile[e].cfg \in ReadOnly
        /\ Return(p, "denied")
     \/ /\ e # None
        /\ req[p].kind = "write" => profile[e].cfg \notin ReadOnly
        /\ req' = [req EXCEPT ![p].seen = profile[e].cfg]
        /\ Goto(p, "lookup")
  /\ UNCHANGED <<tableVars, entryVars, ent, sock>>

Lookup(p) ==
  LET e == conns[req[p].id] IN
  /\ pc[p] = "lookup"
  /\ ent' = [ent EXCEPT ![p] = e]
  /\ IF e = None THEN Return(p, "error")
     ELSE Goto(p, IF req[p].via = "own" THEN "snapshot" ELSE "lock") /\ UNCHANGED req
  /\ UNCHANGED <<tableVars, entryVars, sock>>

\* entry.mu.Lock, then the lazy connect when there is no connection yet.
Lock(p) ==
  /\ pc[p] = "lock"
  /\ mu[ent[p]] = None
  /\ mu' = [mu EXCEPT ![ent[p]] = p]
  /\ Goto(p, IF ent[p] \in conn THEN "fn" ELSE "check")
  /\ UNCHANGED <<tableVars, conn, status, ent, sock, req>>

\* connectLocked, the first identity check.
Check(p) ==
  /\ pc[p] = "check"
  /\ IF EntryCurrent(ent[p]) THEN Goto(p, "dial") /\ UNCHANGED <<mu, req>>
     ELSE Unlock(p) /\ Return(p, "error")
  /\ UNCHANGED <<tableVars, conn, status, ent, sock>>

\* Broken: a dial that fails returns with entry.mu held.
DialKeepsLock(p) ==
  /\ pc[p] = "dial"
  /\ \/ sock' = sock \cup {p} /\ Goto(p, "recheck") /\ UNCHANGED <<status, req>>
     \/ status' = [status EXCEPT ![ent[p]] = "error"] /\ Return(p, "error") /\ UNCHANGED sock
  /\ UNCHANGED <<tableVars, conn, mu, ent>>

\* connectLocked, connectDialFn.
Dial(p) ==
  /\ pc[p] = "dial"
  /\ \/ /\ sock' = sock \cup {p}
        /\ Goto(p, "recheck")
        /\ UNCHANGED <<status, mu, req>>
     \/ /\ status' = [status EXCEPT ![ent[p]] = "error"]
        /\ Unlock(p)
        /\ Return(p, "error")
        /\ UNCHANGED sock
  /\ UNCHANGED <<tableVars, conn, ent>>

\* connectLocked, the second identity check: the new connection is dropped
\* when the entry was detached during the dial.
Recheck(p) ==
  /\ pc[p] = "recheck"
  /\ IF EntryCurrent(ent[p]) THEN Goto(p, "install") /\ UNCHANGED <<sock, mu, req>>
     ELSE /\ sock' = sock \ {p}
          /\ Unlock(p)
          /\ Return(p, "error")
  /\ UNCHANGED <<tableVars, conn, status, ent>>

Install(p) ==
  /\ pc[p] = "install"
  /\ conn' = conn \cup {ent[p]}
  /\ status' = [status EXCEPT ![ent[p]] = "connected"]
  /\ sock' = sock \ {p}
  /\ Goto(p, "fn")
  /\ UNCHANGED <<tableVars, mu, ent, req>>

\* fn on the shared connection.  The server has applied the operation when it
\* answers ok, and may have applied it when the answer is lost with the
\* connection (ldapNeedsReconnect).
Fn(p) ==
  LET e == ent[p]
      Applied(n) == [req EXCEPT ![p].hits = @ + n]
      Finish(n, st, r) ==
        /\ status' = [status EXCEPT ![e] = st]
        /\ Unlock(p)
        /\ Goto(p, "idle")
        /\ req' = [Applied(n) EXCEPT ![p].res = r]
  IN
  /\ pc[p] = "fn"
  /\ \/ Finish(1, "connected", "ok") /\ UNCHANGED conn
     \/ Finish(0, "error", "error") /\ UNCHANGED conn      \* refused by the server
     \/ \E n \in 0..1 :                                     \* the connection is lost
          IF SecondTry(p) THEN Finish(n, "error", "error") /\ UNCHANGED conn
          ELSE IF Retries(p)
          THEN /\ CloseLocked(e, "closed")
               /\ req' = [Applied(n) EXCEPT ![p].try = 2]
               /\ Goto(p, "check")
               /\ UNCHANGED mu
          ELSE /\ conn' = conn \ {e}
               /\ Finish(n, "error", "error")
  /\ UNCHANGED <<tableVars, ent, sock>>

----------------------------------------------------------------------------
(* withDedicatedConn *)

\* The snapshot of profile, secrets and target waits for entry.mu.
Snapshot(p) ==
  /\ pc[p] = "snapshot"
  /\ mu[ent[p]] = None
  /\ Goto(p, "ddial")
  /\ UNCHANGED <<tableVars, entryVars, ent, sock, req>>

\* A first dial that fails falls back to WithConn, which looks the id up again.
DedicatedDial(p) ==
  /\ pc[p] = "ddial"
  /\ \/ /\ sock' = sock \cup {p}
        /\ Goto(p, "dcheck")
        /\ UNCHANGED req
     \/ /\ IF SecondTry(p) THEN Return(p, "error")
           ELSE Goto(p, "lookup") /\ req' = [req EXCEPT ![p].via = "shared"]
        /\ UNCHANGED sock
  /\ UNCHANGED <<tableVars, entryVars, ent>>

\* Broken: the connection of a read that is refused is not closed.
DedicatedCheckOpen(p) ==
  /\ pc[p] = "dcheck"
  /\ IF EntryCurrent(ent[p]) THEN Goto(p, "dfn") /\ UNCHANGED req ELSE Return(p, "error")
  /\ UNCHANGED <<tableVars, entryVars, sock, ent>>

DedicatedCheck(p) ==
  /\ pc[p] = "dcheck"
  /\ IF EntryCurrent(ent[p]) THEN Goto(p, "dfn") /\ UNCHANGED <<sock, req>>
     ELSE sock' = sock \ {p} /\ Return(p, "error")
  /\ UNCHANGED <<tableVars, entryVars, ent>>

\* fn on the connection of its own, which is closed whatever the outcome.
DedicatedFn(p) ==
  /\ pc[p] = "dfn"
  /\ sock' = sock \ {p}
  /\ \/ Goto(p, "idle") /\ req' = [req EXCEPT ![p].hits = @ + 1, ![p].res = "ok"]
     \/ Return(p, "error")
     \/ \E n \in 0..1 :
          IF SecondTry(p)
          THEN Goto(p, "idle") /\ req' = [req EXCEPT ![p].hits = @ + n, ![p].res = "error"]
          ELSE Goto(p, "ddial") /\ req' = [req EXCEPT ![p].hits = @ + n, ![p].try = 2]
  /\ UNCHANGED <<tableVars, entryVars, ent>>

----------------------------------------------------------------------------
(* CloseAll, once Serve has returned.  At the end of input Serve waits for  *)
(* its workers first; when a write or a read of its pipes fails it does     *)
(* not, and CloseAll runs beside the requests still in flight.              *)

\* The s.mu section of CloseAll takes every entry out of the table.
CloseAll ==
  /\ serving
  /\ waited' \in BOOLEAN
  /\ waited' => \A p \in Procs : pc[p] = "idle"
  /\ serving' = FALSE
  /\ toClose' = {e \in Entries : \E i \in ConnIds : conns[i] = e}
  /\ conns' = [i \in ConnIds |-> None]
  /\ UNCHANGED <<profile, retired, entryVars, procVars>>

\* It then closes them one by one, each behind the operation that runs on it.
CloseEntry(e) ==
  /\ e \in toClose
  /\ mu[e] = None
  /\ CloseLocked(e, "closed")
  /\ retired' = retired \cup {e}
  /\ toClose' = toClose \ {e}
  /\ UNCHANGED <<conns, profile, serving, waited, mu, procVars>>

\* main returns or calls os.Exit: requests still in flight need not go on.
Exited == ~serving /\ toClose = {} /\ UNCHANGED vars

----------------------------------------------------------------------------

Work(p) ==
  \/ Swap(p) \/ Remove(p) \/ Cleanup(p)
  \/ Policy(p) \/ Lookup(p) \/ Check(p) \/ Dial(p) \/ Recheck(p) \/ Install(p) \/ Fn(p)
  \/ DedicatedDial(p) \/ DedicatedCheck(p) \/ DedicatedFn(p)

\* The steps that wait for entry.mu.
Acquire(p) == Lock(p) \/ Snapshot(p) \/ CloseOld(p)

Next ==
  \/ \E p \in Procs, k \in Workload, i \in ConnIds, c \in Configs \cup {None} : Begin(p, k, i, c)
  \/ \E p \in Procs : Work(p) \/ Acquire(p)
  \/ CloseAll
  \/ \E e \in Entries : CloseEntry(e)
  \/ Exited

Spec == Init /\ [][Next]_vars

(* Dials and LDAP messages are bounded by timeouts (contextWithTimeout,    *)
(* SetTimeout; NormalizeProfile makes the timeout positive), so a running  *)
(* step ends; sync.Mutex is starvation free, so a waiting Lock gets it.    *)
Fairness ==
  /\ \A p \in Procs : WF_vars(Work(p)) /\ SF_vars(Acquire(p))
  /\ \A e \in Entries : SF_vars(CloseEntry(e))

FairSpec == Spec /\ Fairness

----------------------------------------------------------------------------
(* Properties *)

\* No orphan socket: an entry the table no longer holds has a connection only
\* while the Connect, Disconnect or CloseAll that detached it is still about to
\* close it (connectLocked's identity checks against all three).
DetachedHasCloser ==
  \A e \in Entries :
    Detached(e) /\ e \in conn =>
      e \in toClose \/ \E p \in Procs : pc[p] = "closeOld" /\ ent[p] = e

\* Once Connect, Disconnect or CloseAll has closed the entry it dropped, no operation
\* runs on it any more: neither one that held entry.mu at the time nor one
\* that looked it up before and comes late (WithConn against Connect).
RetiredNeverServes ==
  \A p \in Procs : pc[p] \in {"install", "fn"} => ent[p] \notin retired

\* ldap/connections/statuses shows "connected" only for an entry that has a
\* connection, whatever closed the last one (status in closeLocked, withConn).
StatusTruthful == \A e \in Entries : status[e] = "connected" => e \in conn

\* Every dialed connection is closed or owned: an idle worker holds none, an
\* entry once closed never gets one again, and when Serve had waited for its
\* workers none is left after CloseAll.  When it had not, a request in flight may
\* still open one on an entry registered later: that one ends with the process.
NoSocketLeft ==
  /\ \A p \in Procs : pc[p] = "idle" => p \notin sock
  /\ conn \cap retired = {}
  /\ ~serving /\ waited /\ toClose = {} => conn = {} /\ sock = {}

\* While it serves, every request is answered: no cycle of waits between entry.mu
\* holders, and no path of withConn, withDedicatedConn or Connect that keeps
\* entry.mu.  Once it stops serving the process may end before the answer.
EveryRequestReturns == \A p \in Procs : pc[p] # "idle" ~> pc[p] = "idle" \/ ~serving

\* The connection of a replaced or removed entry is closed in the end, those
\* CloseAll dropped too: the process ends only after CloseAll has closed them.
DetachedIsClosed ==
  \A e \in Entries : Detached(e) ~> e \notin conn \/ (~serving /\ toClose = {})

\* README.en.md:40: "every write passes read-only mode", and dedicated_conn.go:63
\* for the reads that filter by an allowlist: an operation runs under the
\* configuration its gate was read from, or one that permits it as well.
RunsUnderItsGate ==
  \A p \in Procs :
    pc[p] \in {"fn", "dfn"} =>
      /\ req[p].kind = "write" => profile[ent[p]].cfg \notin ReadOnly
      /\ req[p].kind = "aggregate" => profile[ent[p]].cfg = req[p].seen

----------------------------------------------------------------------------
(* What a caller is promised: RequestOnce, with the call of a process read *)
(* off its request record.                                                 *)

Call(p) ==
  IF req[p].kind \notin CallKinds
  THEN [st |-> "idle", kind |-> "read", hits |-> 0, answer |-> "none"]
  ELSE [st     |-> IF pc[p] = "idle" THEN "done" ELSE "running",
        kind   |-> IF req[p].kind = "write" THEN "write" ELSE "read",
        hits   |-> req[p].hits,
        answer |-> IF pc[p] # "idle" THEN "none"
                   ELSE IF req[p].res = "ok" THEN "ok" ELSE "error"]

Promise == INSTANCE RequestOnce WITH call <- [p \in Procs |-> Call(p)]
\* A write request changes the directory at most once whatever is lost on the
\* way, and is reported ok only if it did (WithConnOnce); reads may repeat once.
AtMostOnce == Promise!Spec
=============================================================================
