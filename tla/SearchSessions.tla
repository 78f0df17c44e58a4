--------------------------- MODULE SearchSessions ---------------------------
(***************************************************************************)
(* The incremental paged searches (search_sessions.go): a session owns a    *)
(* dialed connection and the server's paging cookie; it is reached through  *)
(* the table s.searchSessions, paged under session.mu, and closed by the    *)
(* last page, an error, SearchCancel, Connect or Disconnect of its          *)
(* connection id, the expiry of its TTL (found by the next Start or Next or *)
(* by the background reaper), or CloseAll.                                  *)
(*                                                                          *)
(* A section under searchSessionsMu or s.mu has no wait inside and is one   *)
(* step; session.mu is held across the network and is the variable smu.     *)
(* What Connect does to its own entry is ConnLifecycle; here it replaces    *)
(* the entry and later cancels the sessions of its id.  A Connect with the  *)
(* configuration in force touches nothing of this module.                   *)
(* One page stands for the entries of a page, and counts one of remaining.  *)
(***************************************************************************)
EXTENDS Naturals, FiniteSets

CONSTANTS
  Procs,        \* the request goroutines
  Reaper,       \* the reaper goroutine; the main one once it has stopped it
  ConnIds,      \* host connection ids
  Entries,      \* the *connEntry objects Connect can allocate (bounds a run)
  Sessions,     \* the *ldapSearchSession objects (bounds a run)
  Pages,        \* the pages the server has for a search
  Limit,        \* the size limit of a search, in pages; 0: none
  MaxSessions,  \* maxSearchSessions
  None          \* nil

ASSUME PagesAssumption == Pages \in Nat \ {0} /\ Limit \in Nat /\ MaxSessions \in Nat
ASSUME NamesAssumption ==
  /\ Reaper \notin Procs
  /\ None \notin Procs \cup {Reaper} \cup ConnIds \cup Entries \cup Sessions

VARIABLES
  current,  \* s.conns
  connId,   \* the connection id an entry was made for; None: not allocated
  table,    \* s.searchSessions
  made,     \* the entry a session was dialed from; None: not allocated
  open,     \* the sessions whose connection is open
  closed,   \* session.closed
  smu,      \* the holder of session.mu
  cookie,   \* the pages the cookie is past; 0: an empty cookie
  left,     \* session.remaining; 0: no limit
  age,      \* session.expiresAt against the clock: zero, in the future, past
  serving,  \* Serve has not returned
  pc,       \* the next step of a process
  job,      \* what a process does: the operation, its connection id and entry
  cur,      \* the session it works on
  sent,     \* the cookie of its request to the server
  todo,     \* the sessions it has taken out of the table and must close
  after     \* its step once these are closed

Workers == Procs \cup {Reaper}

connVars    == <<current, connId>>
sessionVars == <<made, open, closed, smu, cookie, left, age>>
procVars    == <<pc, job, cur, sent, todo, after>>
vars == <<connVars, table, sessionVars, serving, procVars>>

Ops   == {"start", "next", "cancel", "connect", "disconnect", "none"}
Steps == {"idle", "lookup", "prune", "drain", "shut", "count", "dial", "identity", "install",
          "find", "lock", "send", "receive", "finish", "swap", "cancelAll", "cancelOne", "takeAll"}
Jobs  == [op: Ops, id: ConnIds \cup {None}, ent: Entries \cup {None}]
NoJob == [op |-> "none", id |-> None, ent |-> None]

TypeOK ==
  /\ current \in [ConnIds -> Entries \cup {None}]
  /\ connId \in [Entries -> ConnIds \cup {None}]
  /\ table \subseteq Sessions
  /\ made \in [Sessions -> Entries \cup {None}]
  /\ open \subseteq Sessions
  /\ closed \subseteq Sessions
  /\ smu \in [Sessions -> Procs \cup {None}]
  /\ cookie \in [Sessions -> 0..Pages - 1]
  /\ left \in [Sessions -> 0..Limit]
  /\ age \in [Sessions -> {"unset", "fresh", "expired"}]
  /\ serving \in BOOLEAN
  /\ pc \in [Workers -> Steps]
  /\ job \in [Workers -> Jobs]
  /\ cur \in [Workers -> Sessions \cup {None}]
  /\ sent \in [Workers -> 0..Pages - 1]
  /\ todo \in [Workers -> SUBSET Sessions]
  /\ after \in [Workers -> Steps]

Init ==
  /\ current = [i \in ConnIds |-> None]
  /\ connId = [e \in Entries |-> None]
  /\ table = {} /\ open = {} /\ closed = {}
  /\ made = [s \in Sessions |-> None]
  /\ smu = [s \in Sessions |-> None]
  /\ cookie = [s \in Sessions |-> 0]
  /\ left = [s \in Sessions |-> 0]
  /\ age = [s \in Sessions |-> "unset"]
  /\ serving = TRUE
  /\ pc = [p \in Workers |-> "idle"]
  /\ job = [p \in Workers |-> NoJob]
  /\ cur = [p \in Workers |-> None]
  /\ sent = [p \in Workers |-> 0]
  /\ todo = [p \in Workers |-> {}]
  /\ after = [p \in Workers |-> "idle"]

----------------------------------------------------------------------------
(* Helpers *)

Goto(p, step) == pc' = [pc EXCEPT ![p] = step]

\* The request is answered.
Return(p) ==
  /\ Goto(p, "idle")
  /\ job' = [job EXCEPT ![p] = NoJob]
  /\ cur' = [cur EXCEPT ![p] = None]

\* The connection id of a session (session.connectionID).
IdOf(s) == connId[made[s]]

\* Sessions taken out of the table are closed one after another, in the step
\* "drain", by the process that took them.
Take(p, ss, then) ==
  /\ table' = table \ ss
  /\ todo' = [todo EXCEPT ![p] = ss]
  /\ after' = [after EXCEPT ![p] = then]
  /\ Goto(p, "drain")

----------------------------------------------------------------------------
(* A request arrives *)

\* The bounds of a run: no more Starts and Connects than sessions and entries.
SessionsLeft ==
  Cardinality({s \in Sessions : made[s] = None})
    > Cardinality({q \in Procs : job[q].op = "start" /\ cur[q] = None})
EntriesLeft ==
  Cardinality({e \in Entries : connId[e] = None})
    > Cardinality({q \in Procs : pc[q] = "swap" /\ job[q].op = "connect"})

Begin(p, op, i, s) ==
  /\ serving
  /\ pc[p] = "idle"
  /\ op = "start" => SessionsLeft
  /\ op = "connect" => EntriesLeft
  /\ op \in {"next", "cancel"} <=> s # None
  /\ s # None => age[s] # "unset"      \* its id is in the answer to its Start
  /\ op # "none"
  /\ job' = [job EXCEPT ![p] = [op |-> op, id |-> i, ent |-> None]]
  /\ cur' = [cur EXCEPT ![p] = s]
  /\ Goto(p, CASE op = "start" -> "lookup" [] op = "next" -> "prune"
               [] op = "cancel" -> "cancelOne" [] OTHER -> "swap")
  /\ UNCHANGED <<connVars, table, sessionVars, serving, sent, todo, after>>

----------------------------------------------------------------------------
(* Closing *)

\* pruneExpiredSearchSessions: TryLock skips the sessions that are being paged.
Prune(p) ==
  /\ pc[p] = "prune"
  /\ Take(p, {s \in table : smu[s] = None /\ age[s] = "expired"},
          CASE job[p].op = "start" -> "count" [] job[p].op = "next" -> "find" [] OTHER -> "idle")
  /\ UNCHANGED <<connVars, sessionVars, serving, job, cur, sent>>

\* close, under session.mu; a session is closed once.
CloseNext(p, s) ==
  /\ pc[p] = "drain"
  /\ s \in todo[p]
  /\ smu[s] = None
  /\ IF s \in closed
     THEN todo' = [todo EXCEPT ![p] = @ \ {s}] /\ UNCHANGED <<closed, pc>>
     ELSE closed' = closed \cup {s} /\ Goto(p, "shut") /\ UNCHANGED todo
  /\ UNCHANGED <<connVars, table, made, open, smu, cookie, left, age, serving, job, cur, sent, after>>

\* close, after session.mu is released: the cancellation of the server's
\* cursor, whatever comes of it, and the close of the connection.
Shut(p, s) ==
  /\ pc[p] = "shut"
  /\ s \in todo[p] \cap closed \cap open
  /\ open' = open \ {s}
  /\ todo' = [todo EXCEPT ![p] = @ \ {s}]
  /\ Goto(p, "drain")
  /\ UNCHANGED <<connVars, table, made, closed, smu, cookie, left, age, serving, job, cur, sent, after>>

Drained(p) ==
  /\ pc[p] = "drain"
  /\ todo[p] = {}
  /\ after' = [after EXCEPT ![p] = "idle"]
  /\ IF after[p] = "idle" THEN Return(p) ELSE Goto(p, after[p]) /\ UNCHANGED <<job, cur>>
  /\ UNCHANGED <<connVars, table, sessionVars, serving, sent, todo>>

----------------------------------------------------------------------------
(* SearchStart *)

\* The entry and its settings; the request may be refused by validation.
StartLookup(p) ==
  LET e == current[job[p].id] IN
  /\ pc[p] = "lookup"
  /\ \/ e # None /\ job' = [job EXCEPT ![p].ent = e] /\ Goto(p, "prune") /\ UNCHANGED cur
     \/ Return(p)
  /\ UNCHANGED <<connVars, table, sessionVars, serving, sent, todo, after>>

\* ensureSearchSessionCapacity, after the prune.
Count(p) ==
  /\ pc[p] = "count"
  /\ IF Cardinality(table) < MaxSessions THEN Goto(p, "dial") /\ UNCHANGED <<job, cur>> ELSE Return(p)
  /\ UNCHANGED <<connVars, table, sessionVars, serving, sent, todo, after>>

StartDial(p) ==
  /\ pc[p] = "dial"
  /\ \/ \E s \in Sessions :
          /\ made[s] = None
          /\ made' = [made EXCEPT ![s] = job[p].ent]
          /\ open' = open \cup {s}
          /\ left' = [left EXCEPT ![s] = Limit]
          /\ cur' = [cur EXCEPT ![p] = s]
          /\ Goto(p, "identity")
          /\ UNCHANGED job
     \/ Return(p) /\ UNCHANGED <<made, open, left>>
  /\ UNCHANGED <<connVars, table, closed, smu, cookie, age, serving, sent, todo, after>>

\* addSearchSession, the identity check in its own critical section of s.mu.
Identity(p) ==
  /\ pc[p] = "identity"
  /\ IF current[job[p].id] = job[p].ent THEN Goto(p, "install") /\ UNCHANGED <<open, job, cur>>
     ELSE Return(p) /\ open' = open \ {cur[p]}
  /\ UNCHANGED <<connVars, table, made, closed, smu, cookie, left, age, serving, sent, todo, after>>

\* Broken: the capacity counted before the dial is believed.
InstallUnchecked(p) ==
  /\ pc[p] = "install"
  /\ table' = table \cup {cur[p]}
  /\ Goto(p, "lock")
  /\ UNCHANGED <<connVars, sessionVars, serving, job, cur, sent, todo, after>>

\* addSearchSession, the second check of the capacity and the installation.
InstallSession(p) ==
  /\ pc[p] = "install"
  /\ IF Cardinality(table) < MaxSessions
     THEN table' = table \cup {cur[p]} /\ Goto(p, "lock") /\ UNCHANGED <<open, job, cur>>
     ELSE Return(p) /\ open' = open \ {cur[p]} /\ UNCHANGED table
  /\ UNCHANGED <<connVars, made, closed, smu, cookie, left, age, serving, sent, todo, after>>

----------------------------------------------------------------------------
(* SearchNext and the paging itself *)

\* findSearchSession, after the prune.
Find(p) ==
  /\ pc[p] = "find"
  /\ IF cur[p] \in table /\ IdOf(cur[p]) = job[p].id THEN Goto(p, "lock") /\ UNCHANGED <<job, cur>>
     ELSE Return(p)
  /\ UNCHANGED <<connVars, table, sessionVars, serving, sent, todo, after>>

\* Broken: the session is paged although it was closed while waiting.
LockUnchecked(p) ==
  /\ pc[p] = "lock"
  /\ smu[cur[p]] = None
  /\ smu' = [smu EXCEPT ![cur[p]] = p]
  /\ Goto(p, "send")
  /\ UNCHANGED <<connVars, table, made, open, closed, cookie, left, age, serving, job, cur, sent,
                 todo, after>>

\* nextSearchSession: session.mu, then the checks of closed and expiresAt.
LockSession(p) ==
  LET s == cur[p] IN
  /\ pc[p] = "lock"
  /\ smu[s] = None
  /\ IF s \in closed \/ age[s] = "expired" THEN Goto(p, "finish") /\ UNCHANGED smu
     ELSE smu' = [smu EXCEPT ![s] = p] /\ Goto(p, "send")
  /\ UNCHANGED <<connVars, table, made, open, closed, cookie, left, age, serving, job, cur, sent,
                 todo, after>>

\* The search request leaves with the cookie of the session.
Send(p) ==
  /\ pc[p] = "send"
  /\ sent' = [sent EXCEPT ![p] = cookie[cur[p]]]
  /\ Goto(p, "receive")
  /\ UNCHANGED <<connVars, table, sessionVars, serving, job, cur, todo, after>>

\* A limit of zero is none, and stays so.
Remaining(n) == IF n = 0 THEN 0 ELSE n - 1

\* The answer: an error, or the page after the cookie and the next cookie,
\* which is empty after the server's last page.
Receive(p) ==
  LET s == cur[p]
      next == (sent[p] + 1) % Pages
      truncated == left[s] = 1
      more == next # 0 /\ ~truncated
  IN
  /\ pc[p] = "receive"
  /\ smu' = [smu EXCEPT ![s] = None]
  /\ sent' = [sent EXCEPT ![p] = 0]
  /\ \/ Goto(p, "finish") /\ UNCHANGED <<cookie, left, age, job, cur>>
     \/ /\ cookie' = [cookie EXCEPT ![s] = next]
        /\ left' = [left EXCEPT ![s] = Remaining(@)]
        /\ age' = [age EXCEPT ![s] = "fresh"]
        /\ \/ more /\ Return(p)
           \/ ~more /\ Goto(p, "finish") /\ UNCHANGED <<job, cur>>
  /\ UNCHANGED <<connVars, table, made, open, closed, serving, todo, after>>

\* Broken: the session leaves the table and is not closed.
FinishUnclosed(p) ==
  /\ pc[p] = "finish"
  /\ table' = table \ {cur[p]}
  /\ Return(p)
  /\ UNCHANGED <<connVars, sessionVars, serving, sent, todo, after>>

\* removeAndCloseSearchSession
Finish(p) ==
  /\ pc[p] = "finish"
  /\ Take(p, {cur[p]} \cap table, "idle")
  /\ UNCHANGED <<connVars, sessionVars, serving, job, cur, sent>>

----------------------------------------------------------------------------
(* SearchCancel, Connect, Disconnect, the reaper, CloseAll *)

\* Broken: any connection may cancel a session whose id it has.
CancelAny(p) ==
  /\ pc[p] = "cancelOne"
  /\ Take(p, {cur[p]} \cap table, "idle")
  /\ UNCHANGED <<connVars, sessionVars, serving, job, cur, sent>>

SearchCancel(p) ==
  /\ pc[p] = "cancelOne"
  /\ Take(p, {s \in {cur[p]} \cap table : IdOf(s) = job[p].id}, "idle")
  /\ UNCHANGED <<connVars, sessionVars, serving, job, cur, sent>>

\* Connect puts a new entry in the table; Disconnect removes the one there, and
\* is done when there is none.
Replace(p) ==
  LET i == job[p].id IN
  /\ pc[p] = "swap"
  /\ \/ /\ job[p].op = "connect"
        /\ \E e \in Entries :
             /\ connId[e] = None
             /\ connId' = [connId EXCEPT ![e] = i]
             /\ current' = [current EXCEPT ![i] = e]
        /\ Goto(p, "cancelAll")
        /\ UNCHANGED <<job, cur>>
     \/ /\ job[p].op = "disconnect"
        /\ current' = [current EXCEPT ![i] = None]
        /\ IF current[i] = None THEN Return(p) ELSE Goto(p, "cancelAll") /\ UNCHANGED <<job, cur>>
        /\ UNCHANGED connId
  /\ UNCHANGED <<table, sessionVars, serving, sent, todo, after>>

\* cancelSearchSessionsForConnection
CancelAll(p) ==
  /\ pc[p] = "cancelAll"
  /\ Take(p, {s \in table : IdOf(s) = job[p].id}, "idle")
  /\ UNCHANGED <<connVars, sessionVars, serving, job, cur, sent>>

\* Broken: expired sessions are only found by the next Start or Next.
NoTick == FALSE

\* The reaper's ticker.
Tick ==
  /\ serving
  /\ pc[Reaper] = "idle"
  /\ Goto(Reaper, "prune")
  /\ UNCHANGED <<connVars, table, sessionVars, serving, job, cur, sent, todo, after>>

\* A session that delivered a page outlives its TTL.
Expire(s) ==
  /\ s \in table
  /\ age[s] = "fresh"
  /\ age' = [age EXCEPT ![s] = "expired"]
  /\ UNCHANGED <<connVars, table, made, open, closed, smu, cookie, left, serving, procVars>>

\* Serve has returned, not always after its workers (ConnLifecycle): CloseAll
\* stops the reaper, waits for it and drops the entries.
CloseAll ==
  /\ serving
  /\ pc[Reaper] = "idle"
  /\ serving' = FALSE
  /\ current' = [i \in ConnIds |-> None]
  /\ Goto(Reaper, "takeAll")
  /\ UNCHANGED <<connId, table, sessionVars, job, cur, sent, todo, after>>

\* cancelAllSearchSessions: every session is taken, then closed.
TakeAll ==
  /\ pc[Reaper] = "takeAll"
  /\ Take(Reaper, table, "idle")
  /\ UNCHANGED <<connVars, sessionVars, serving, job, cur, sent>>

\* The process ends; requests still in flight need not go on.
Exited == ~serving /\ pc[Reaper] = "idle" /\ UNCHANGED vars

----------------------------------------------------------------------------

Work(p) ==
  \/ Prune(p) \/ (\E s \in Sessions : Shut(p, s)) \/ Drained(p)
  \/ StartLookup(p) \/ Count(p) \/ StartDial(p) \/ Identity(p) \/ InstallSession(p)
  \/ Find(p) \/ Send(p) \/ Receive(p) \/ Finish(p)
  \/ SearchCancel(p) \/ Replace(p) \/ CancelAll(p)

\* The steps that wait for session.mu.
Acquire(p) == LockSession(p) \/ \E s \in Sessions : CloseNext(p, s)

Next ==
  \/ \E p \in Procs, op \in Ops, i \in ConnIds, s \in Sessions \cup {None} : Begin(p, op, i, s)
  \/ \E p \in Workers : Work(p) \/ Acquire(p)
  \/ \E s \in Sessions : Expire(s)
  \/ Tick
  \/ CloseAll
  \/ TakeAll
  \/ Exited

Spec == Init /\ [][Next]_vars

\* Network steps end by their timeouts, session.mu is a starvation-free mutex,
\* and the ticker of the reaper keeps ticking.
RequestFairness == (\A p \in Workers : WF_vars(Work(p)) /\ SF_vars(Acquire(p))) /\ WF_vars(TakeAll)

Fairness == RequestFairness /\ WF_vars(Tick)

FairSpec == Spec /\ Fairness

----------------------------------------------------------------------------
(* Properties *)

\* No leaked cursor: the connection of a session is open only while the table
\* has the session, the Start that dialed it has not installed it yet, or the
\* one process that took it out of the table is about to close it.
OpenHasOwner ==
  \A s \in open :
    \/ s \in table
    \/ \E p \in Procs : pc[p] \in {"identity", "install"} /\ cur[p] = s
    \/ \E p \in Workers : pc[p] \in {"drain", "shut"} /\ s \in todo[p]

\* Nobody pages on a connection that a canceller, the reaper or a Connect has
\* closed under it, and a page is answered before its session can be closed.
PagesOnOpenSession ==
  \A p \in Procs : pc[p] \in {"send", "receive"} => cur[p] \in open \ closed

\* The cap on dedicated connections in use holds although ensureSearchSession-
\* Capacity counts long before the installation.
WithinCapacity == Cardinality(table) <= MaxSessions

\* However requests on a session overlap, the answer to each is the page after
\* the last one fetched.  After the last page the cookie is empty again: a
\* SearchNext that waited behind the one that fetched it starts over with the
\* first (search_sessions.go:283-341), so a page may come twice; none is skipped.
PagesInOrder == \A p \in Procs : pc[p] = "receive" => sent[p] = cookie[cur[p]]

\* What SearchNext reads is the page the cookie left by the last one asks for,
\* page one again after the last, from a connection nobody closes meanwhile.
PagesAreServed == PagesOnOpenSession /\ PagesInOrder

\* A session leaves the table by expiry, at exit, or by a request on its own
\* connection id: Connect, Disconnect and SearchCancel spare the searches of
\* the other connections.
OnlyOwnSessions ==
  [][\A s \in table \ table' :
       \/ age[s] = "expired" \/ ~serving'
       \/ \E p \in Procs : /\ pc[p] \in {"finish", "cancelOne", "cancelAll"} /\ pc'[p] = "drain"
                           /\ job[p].id = IdOf(s)]_vars

\* A session whose client went away is closed soon after its TTL, unless a
\* page under way then renews it (the reaper's promise), or the process stops
\* serving.
ExpiredIsReclaimed ==
  \A s \in Sessions :
    (s \in table /\ age[s] = "expired") ~> (s \notin open \/ age[s] = "fresh" \/ ~serving)

\* While it serves, every request on a session is answered: nobody holds
\* session.mu or searchSessionsMu while waiting for the other.
EveryRequestReturns == \A p \in Procs : pc[p] # "idle" ~> pc[p] = "idle" \/ ~serving

\* search_sessions.go:250: no cursor is retained that was made against a
\* profile just replaced: once the Connect or Disconnect that replaced an
\* entry has cancelled its sessions, none of them is in the table.
CursorsAreCurrent ==
  \A s \in table :
    \/ current[IdOf(s)] = made[s] \/ ~serving
    \/ \E p \in Procs : pc[p] = "cancelAll" /\ job[p].id = IdOf(s)
=============================================================================
