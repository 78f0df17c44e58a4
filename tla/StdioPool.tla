----------------------------- MODULE StdioPool -----------------------------
(***************************************************************************)
(* The connection pool of the stand-alone stdio MCP server (mcp/stdio.go):  *)
(* a call that carries connection parameters is given the connection id     *)
(* that is their hash, registered with the connection service on first use; *)
(* the pool keeps the Cap most recently used ids and disconnects the ones   *)
(* it evicts, after it has released its lock.                               *)
(*                                                                          *)
(* A key stands for the parameters and for the id they hash to.  Of the     *)
(* service (ConnLifecycle) only the table of registered ids is seen: the    *)
(* Connect of a registered id with its own parameters changes nothing.      *)
(***************************************************************************)
EXTENDS Naturals, SequencesExt

CONSTANTS
  Procs,    \* the request goroutines, one for each place in the semaphore
  Keys,     \* inline connection parameters
  Refused,  \* the parameters that svc.Connect refuses
  Cap,      \* inlinePoolCap
  None      \* no key

ASSUME CapAssumption == Cap \in Nat \ {0} /\ Refused \subseteq Keys /\ None \notin Keys

VARIABLES
  pool,        \* s.hash and s.ids
  order,       \* s.order, the next victim first
  registered,  \* the ids the connection service knows
  serving,     \* Serve has not returned
  pc,          \* the next step of a process
  job,         \* its call: the key, by parameters or by connection id
  evicted,     \* the ids it has evicted and must disconnect
  recency      \* history: the keys resolved by their parameters, latest last

poolVars == <<pool, order>>
procVars == <<pc, job, evicted>>
vars == <<poolVars, registered, serving, procVars, recency>>

Steps == {"idle", "resolve", "disconnect", "gate", "run"}
Jobs  == [key: Keys \cup {None}, by: {"params", "id"}, ok: BOOLEAN]
NoJob == [key |-> None, by |-> "id", ok |-> FALSE]

TypeOK ==
  /\ pool \subseteq Keys
  /\ order \in Seq(Keys) /\ Len(order) <= Cap
  /\ registered \subseteq Keys \ Refused
  /\ serving \in BOOLEAN
  /\ pc \in [Procs -> Steps]
  /\ job \in [Procs -> Jobs]
  /\ evicted \in [Procs -> SUBSET Keys]
  /\ recency \in Seq(Keys)

Init ==
  /\ pool = {} /\ order = <<>> /\ registered = {}
  /\ serving = TRUE
  /\ pc = [p \in Procs |-> "idle"]
  /\ job = [p \in Procs |-> NoJob]
  /\ evicted = [p \in Procs |-> {}]
  /\ recency = <<>>

----------------------------------------------------------------------------
(* Helpers *)

Goto(p, step) == pc' = [pc EXCEPT ![p] = step]

Return(p) == Goto(p, "idle") /\ job' = [job EXCEPT ![p] = NoJob]

\* Where a key stands in a sequence that lists it once.
PlaceOf(seq, k) == CHOOSE i \in DOMAIN seq : seq[i] = k

ToEnd(seq, k) == Append(IF k \in ToSet(seq) THEN RemoveAt(seq, PlaceOf(seq, k)) ELSE seq, k)

\* Broken: a hit leaves the order of eviction as it was.
TouchNothing(k) == order

\* touchPoolLocked
Touch(k) == ToEnd(order, k)

\* The first n keys of the order.
Oldest(n) == {order[i] : i \in 1..n}

\* How many keys the eviction loop takes off the order.
Victims == Min({n \in 0..Len(order) : Cardinality(pool \ Oldest(n)) < Cap})

\* Broken: an evicted id stays registered.
KeepsStale(p) == evicted' = [evicted EXCEPT ![p] = {}]

\* The ids to disconnect once s.mu is released.
Stale(p) == evicted' = [evicted EXCEPT ![p] = Oldest(Victims) \cap pool]

\* Connect refused the parameters: the victims are gone, the new key as well.
Withdraw(k) == pool' = pool \ Oldest(Victims) /\ order' = SubSeq(order, Victims + 1, Len(order))

----------------------------------------------------------------------------
(* A call of a tool that needs a connection *)

Begin(p, k, by) ==
  /\ serving
  /\ pc[p] = "idle"
  /\ job' = [job EXCEPT ![p] = [key |-> k, by |-> by, ok |-> TRUE]]
  /\ Goto(p, "resolve")
  /\ UNCHANGED <<poolVars, registered, serving, evicted, recency>>

\* pooledConnectionID, a known key.
Hit(p) ==
  LET k == job[p].key IN
  /\ pc[p] = "resolve" /\ job[p].by = "params" /\ k \in pool
  /\ order' = Touch(k)
  /\ recency' = ToEnd(recency, k)
  /\ Goto(p, "gate")
  /\ UNCHANGED <<pool, registered, serving, job, evicted>>

\* pooledConnectionID, a new key: eviction and Connect in one critical section.
Miss(p) ==
  LET k == job[p].key IN
  /\ pc[p] = "resolve" /\ job[p].by = "params" /\ k \notin pool
  /\ Stale(p)
  /\ Goto(p, "disconnect")
  /\ \/ /\ k \notin Refused
        /\ pool' = (pool \ Oldest(Victims)) \cup {k}
        /\ order' = Append(SubSeq(order, Victims + 1, Len(order)), k)
        /\ registered' = registered \cup {k}
        /\ recency' = ToEnd(recency, k)
        /\ UNCHANGED job
     \/ /\ k \in Refused
        /\ Withdraw(k)
        /\ job' = [job EXCEPT ![p].ok = FALSE]
        /\ UNCHANGED <<registered, recency>>
  /\ UNCHANGED serving

\* The evicted ids are disconnected, s.mu no longer held.
Disconnect(p) ==
  /\ pc[p] = "disconnect"
  /\ registered' = registered \ evicted[p]
  /\ evicted' = [evicted EXCEPT ![p] = {}]
  /\ IF job[p].ok THEN Goto(p, "gate") /\ UNCHANGED job ELSE Return(p)
  /\ UNCHANGED <<poolVars, serving, recency>>

\* A call by connection id: poolHas; an id that is not pooled is forwarded to
\* the bridge of the application, which knows its own connections.
ById(p) ==
  LET k == job[p].key IN
  /\ pc[p] = "resolve" /\ job[p].by = "id"
  /\ IF k \in pool THEN Goto(p, "gate") /\ UNCHANGED job
     ELSE Return(p)
  /\ UNCHANGED <<poolVars, registered, serving, evicted, recency>>

\* The tool's own look at the connection (svc.Get), which it may not survive.
Gate(p) ==
  /\ pc[p] = "gate"
  /\ IF job[p].key \in registered THEN Goto(p, "run") /\ UNCHANGED job ELSE Return(p)
  /\ UNCHANGED <<poolVars, registered, serving, evicted, recency>>

\* The operation of the service, whatever comes of it.
Run(p) ==
  /\ pc[p] = "run"
  /\ Return(p)
  /\ UNCHANGED <<poolVars, registered, serving, evicted, recency>>

\* End of input, the calls under way are done: Close, and the process ends.
Close ==
  /\ serving
  /\ \A p \in Procs : pc[p] = "idle"
  /\ serving' = FALSE
  /\ registered' = {}
  /\ UNCHANGED <<poolVars, procVars, recency>>

Exited == ~serving /\ UNCHANGED vars

Next ==
  \/ \E p \in Procs, k \in Keys, by \in {"params", "id"} : Begin(p, k, by)
  \/ \E p \in Procs : Hit(p) \/ Miss(p) \/ Disconnect(p) \/ ById(p) \/ Gate(p) \/ Run(p)
  \/ Close
  \/ Exited

Spec == Init /\ [][Next]_vars

----------------------------------------------------------------------------
(* Properties *)

\* No leaked registration: an id the service knows is in the pool, or the call
\* that evicted it is about to disconnect it, so the table of the service is
\* bounded by the cap and the number of calls under way.
RegisteredIsOwned ==
  \A k \in registered : k \in pool \/ \E p \in Procs : pc[p] = "disconnect" /\ k \in evicted[p]

\* However calls overlap, and whatever Connect refuses, the pool holds the keys
\* that were resolved last, and evicts in the order of their last resolution.
PoolIsMostRecent ==
  LET n == Len(recency) - Len(order) IN n >= 0 /\ order = SubSeq(recency, n + 1, Len(recency))

\* stdio.go:692-694: a call that takes a pooled id finds it registered ("不会撞
\* svc.Get 的 connection not found").
PooledIsRegistered == serving => pool \subseteq registered
=============================================================================
