------------------------ MODULE ConnLifecycleProofs ------------------------
(***************************************************************************)
(* Proofs of the safety properties of ConnLifecycle for every number of     *)
(* goroutines, connection ids, entries and configurations, and that it      *)
(* implements RequestOnce.                                                  *)
(***************************************************************************)
EXTENDS ConnLifecycle, TLAPS

\* The steps that work on the entry found before.
OnEntry == Holding \cup {"lock", "snapshot", "ddial", "dcheck", "dfn", "closeOld"}

\* The first try of a request has not reached the server before it ends.
Tries ==
  \A p \in Procs : pc[p] # "idle" => req[p].hits <= req[p].try - 1

\* entry.mu: its holder is in a step under the lock on that entry, and conversely.
Locking ==
  /\ \A e \in Entries : mu[e] # None => ent[mu[e]] = e /\ pc[mu[e]] \in Holding
  /\ \A p \in Procs : pc[p] \in Holding => mu[ent[p]] = p

\* A process works on allocated entries; the table maps an id to its own entry.
Allocated ==
  /\ \A p \in Procs : pc[p] \in OnEntry => ent[p] # None /\ profile[ent[p]] # None
  /\ \A i \in ConnIds : conns[i] # None => profile[conns[i]] # None /\ profile[conns[i]].id = i
  /\ \A e \in conn : profile[e] # None

\* An entry the table dropped is closed, or the one who dropped it will do so.
Closing ==
  /\ \A p \in Procs : pc[p] = "closeOld" => Detached(ent[p])
  /\ \A e \in toClose : Detached(e)
  /\ \A e \in Entries :
       Detached(e) => e \in retired \cup toClose \/ \E p \in Procs : pc[p] = "closeOld" /\ ent[p] = e

\* A closed entry stays closed: who passed the first identity check while it
\* was current held entry.mu, so the closing waited for him.
Retired ==
  \A e \in retired :
    /\ Detached(e)
    /\ e \notin conn
    /\ \A p \in Procs : pc[p] \in {"dial", "recheck", "install", "fn"} => ent[p] # e

\* What a step under the lock knows of its entry and of the socket it dialed,
\* and what a Connect carries.
Working ==
  /\ \A p \in Procs : pc[p] = "swap" => req[p].cfg # None
  /\ \A p \in Procs : pc[p] = "fn" => ent[p] \in conn
  /\ \A p \in sock : pc[p] \in {"recheck", "install", "dcheck", "dfn"}

\* A CloseAll that ran after the workers has only what it took from the table.
Stopped ==
  ~serving /\ waited => /\ \A p \in Procs : pc[p] = "idle"
                        /\ \A i \in ConnIds : conns[i] = None
                        /\ conn \subseteq toClose

\* CloseAll is the first to put an entry on its list.
Serving == serving => toClose = {}

IInv ==
  /\ TypeOK
  /\ Tries
  /\ Locking
  /\ Allocated
  /\ Closing
  /\ Retired
  /\ Working
  /\ Stopped
  /\ Serving
  /\ StatusTruthful

USE ConfigAssumption, NoneAssumption, WorkloadAssumption

LEMMA InitIInv == Init => IInv
<1> SUFFICES ASSUME Init PROVE IInv
  OBVIOUS
<1>1. TypeOK
  <2>1. \A i \in ConnIds : NewRequest("disconnect", i, None) \in Requests
    BY DEF Requests, NewRequest, Kinds, CallKinds, Results
  <2>2. req \in [Procs -> Requests]
    BY <2>1 DEF Init
  <2> QED BY <2>2 DEF Init, TypeOK, Steps, Statuses
<1>2. Tries /\ Locking /\ Allocated /\ Closing
  BY DEF Init, Tries, Locking, Allocated, Closing, Detached, OnEntry, Holding
<1>3. Retired /\ Working /\ Stopped /\ Serving /\ StatusTruthful
  BY DEF Init, Retired, Working, Stopped, Serving, StatusTruthful
<1> QED BY <1>1, <1>2, <1>3 DEF IInv

\* The ways a step changes the record of a request.
RequestStep(p) ==
  \/ req' = req
  \/ \E x \in Results : req' = [req EXCEPT ![p].res = x]
  \/ \E c \in Configs : req' = [req EXCEPT ![p].seen = c]
  \/ req' = [req EXCEPT ![p].via = "shared"]
  \/ \E h \in 0..2, x \in Results : req' = [req EXCEPT ![p].hits = h, ![p].res = x]
  \/ \E h \in 0..2, n \in 1..2 : req' = [req EXCEPT ![p].hits = h, ![p].try = n]

LEMMA RequestUpdate ==
  ASSUME TypeOK, NEW p \in Procs, RequestStep(p)
  PROVE  req' \in [Procs -> Requests]
<1>1. req \in [Procs -> Requests]
  BY DEF TypeOK
<1>2. req[p] \in Requests
  BY <1>1
<1>3. CASE req' = req
  BY <1>3, <1>1
<1>4. ASSUME NEW x \in Results, req' = [req EXCEPT ![p].res = x]
      PROVE  req' \in [Procs -> Requests]
  <2>1. [req[p] EXCEPT !.res = x] \in Requests
    BY <1>2 DEF Requests
  <2> QED BY <1>1, <1>4, <2>1
<1>5. ASSUME NEW c \in Configs, req' = [req EXCEPT ![p].seen = c]
      PROVE  req' \in [Procs -> Requests]
  <2>1. [req[p] EXCEPT !.seen = c] \in Requests
    BY <1>2 DEF Requests
  <2> QED BY <1>1, <1>5, <2>1
<1>6. CASE req' = [req EXCEPT ![p].via = "shared"]
  <2>1. [req[p] EXCEPT !.via = "shared"] \in Requests
    BY <1>2 DEF Requests
  <2> QED BY <1>1, <1>6, <2>1
<1>7. ASSUME NEW h \in 0..2, NEW x \in Results,
             req' = [req EXCEPT ![p].hits = h, ![p].res = x]
      PROVE  req' \in [Procs -> Requests]
  <2>1. [[req[p] EXCEPT !.hits = h] EXCEPT !.res = x] \in Requests
    BY <1>2 DEF Requests
  <2> QED BY <1>1, <1>7, <2>1
<1>8. ASSUME NEW h \in 0..2, NEW n \in 1..2,
             req' = [req EXCEPT ![p].hits = h, ![p].try = n]
      PROVE  req' \in [Procs -> Requests]
  <2>1. [[req[p] EXCEPT !.hits = h] EXCEPT !.try = n] \in Requests
    BY <1>2 DEF Requests
  <2> QED BY <1>1, <1>8, <2>1
<1> QED BY <1>3, <1>4, <1>5, <1>6, <1>7, <1>8 DEF RequestStep

LEMMA RequestTyped ==
  ASSUME TypeOK, NEW p \in Procs
  PROVE  /\ req[p].id \in ConnIds
         /\ req[p].cfg \in Configs \cup {None}
         /\ conns[req[p].id] \in Entries \cup {None}
BY DEF TypeOK, Requests

\* One more hit is within the bound for every request under way.
LEMMA HitsBound ==
  ASSUME TypeOK, Tries, NEW p \in Procs, pc[p] # "idle"
  PROVE  \A n \in 0..1 : req[p].hits + n \in 0..2
BY DEF TypeOK, Tries, Requests

LEMMA BeginIInv ==
  ASSUME IInv, NEW p \in Procs, NEW k \in Workload, NEW i \in ConnIds, NEW c \in Configs \cup {None},
         Begin(p, k, i, c)
  PROVE  IInv'
<1> USE DEF Begin, IInv, Goto, tableVars, entryVars
<1>1. TypeOK'
  <2>1. NewRequest(k, i, c) \in Requests
    BY DEF Requests, NewRequest, Kinds, CallKinds, Results
  <2>2. (CASE k = "connect" -> "swap" [] k = "disconnect" -> "remove" [] OTHER -> "policy") \in Steps
    BY DEF Steps, CallSteps, LifecycleSteps
  <2> QED BY <2>1, <2>2 DEF TypeOK
<1>2. Tries'
  BY DEF TypeOK, Tries, Requests, NewRequest, Kinds, CallKinds
<1>3. Locking'
  BY DEF TypeOK, Locking, Holding
<1>4. Allocated'
  BY DEF TypeOK, Allocated, OnEntry, Holding
<1>5. Closing'
  BY DEF TypeOK, Closing, Detached, EntryCurrent
<1>6. Retired'
  BY DEF TypeOK, Retired, Detached, EntryCurrent
<1>7. Working'
  BY DEF TypeOK, Working, Requests, NewRequest
<1>8. Stopped' /\ Serving' /\ StatusTruthful'
  BY DEF Serving, TypeOK, Stopped, StatusTruthful
<1> QED BY <1>1, <1>2, <1>3, <1>4, <1>5, <1>6, <1>7, <1>8

LEMMA SwapIInv ==
  ASSUME IInv, NEW p \in Procs, Swap(p)
  PROVE  IInv'
<1> USE DEF IInv
<1> DEFINE old == conns[req[p].id]
<1>t. req[p].id \in ConnIds /\ req[p].cfg \in Configs /\ old \in Entries \cup {None}
  BY RequestTyped DEF Swap, Working
<1>1. ASSUME Return(p, "ok"), UNCHANGED <<conns, profile, ent>> PROVE IInv'
  <2>1. req' \in [Procs -> Requests]
    BY <1>1, RequestUpdate DEF Return, RequestStep, Results
  <2>2. TypeOK'
    BY <1>1, <2>1 DEF Swap, Return, Goto, entryVars, TypeOK, Steps
  <2>3. Tries' /\ Locking' /\ Working'
    BY <1>1 DEF Swap, Return, Goto, entryVars, TypeOK, Requests, Tries, Locking, Holding, Working
  <2>4. Allocated' /\ Closing' /\ Retired'
    BY <1>1 DEF Swap, Return, Goto, entryVars, TypeOK, Allocated, OnEntry, Holding, Closing,
      Retired, Detached, EntryCurrent
  <2>5. Stopped' /\ Serving' /\ StatusTruthful'
    BY <1>1 DEF Swap, Return, Goto, entryVars, TypeOK, Stopped, Serving, StatusTruthful
  <2> QED BY <2>2, <2>3, <2>4, <2>5
<1>2. ASSUME NEW e \in Entries,
             profile[e] = None,
             profile' = [profile EXCEPT ![e] = [id |-> req[p].id, cfg |-> req[p].cfg]],
             conns' = [conns EXCEPT ![req[p].id] = e],
             ent' = [ent EXCEPT ![p] = old],
             Goto(p, IF old = None THEN "cleanup" ELSE "closeOld"),
             UNCHANGED req
      PROVE  IInv'
  <2> USE <1>t
  <2>1. pc[p] = "swap" /\ UNCHANGED <<retired, serving, waited, toClose, conn, status, mu, sock>>
    BY DEF Swap, entryVars
  <2>2. pc' = [pc EXCEPT ![p] = IF old = None THEN "cleanup" ELSE "closeOld"]
    BY <1>2 DEF Goto
  <2>3. TypeOK'
    <3>1. [id |-> req[p].id, cfg |-> req[p].cfg] \in [id: ConnIds, cfg: Configs]
      OBVIOUS
    <3>2. profile' \in [Entries -> [id: ConnIds, cfg: Configs] \cup {None}]
      BY <1>2, <3>1 DEF TypeOK
    <3>3. conns' \in [ConnIds -> Entries \cup {None}] /\ ent' \in [Procs -> Entries \cup {None}]
      BY <1>2 DEF TypeOK
    <3>4. pc' \in [Procs -> Steps]
      BY <2>2 DEF TypeOK, Steps, LifecycleSteps
    <3> QED BY <1>2, <2>1, <3>2, <3>3, <3>4 DEF TypeOK
  <2>4. Tries' /\ Working'
    BY <1>2, <2>1, <2>2 DEF TypeOK, Requests, Tries, Working
  <2>5. Locking'
    BY <1>2, <2>1, <2>2 DEF TypeOK, Locking, Holding
  <2>6. \A d \in Entries : profile[d] # None => d # e /\ profile'[d] = profile[d]
    BY <1>2 DEF TypeOK
  <2>7. profile'[e] # None /\ profile'[e].id = req[p].id /\ conns'[req[p].id] = e
    BY <1>2, <2>3 DEF TypeOK
  <2>8. Allocated'
    BY <1>2, <2>1, <2>2, <2>6, <2>7 DEF TypeOK, Allocated, OnEntry, Holding
  <2>9. \A d \in Entries : Detached(d)' <=> Detached(d) \/ d = old
    BY <1>2, <2>6, <2>7 DEF TypeOK, Allocated, Detached, EntryCurrent
  <2>10. Closing'
    <3>1. \A q \in Procs : pc'[q] = "closeOld" =>
            \/ q # p /\ pc[q] = "closeOld" /\ ent'[q] = ent[q]
            \/ q = p /\ ent'[q] = old /\ old \in Entries
      BY <1>2, <2>1, <2>2 DEF TypeOK
    <3>2. \A q \in Procs : pc[q] = "closeOld" =>
            ent[q] \in Entries /\ pc'[q] = "closeOld" /\ ent'[q] = ent[q]
      BY <1>2, <2>1, <2>2 DEF TypeOK, Allocated, OnEntry
    <3>3. old \in Entries => pc'[p] = "closeOld" /\ ent'[p] = old
      BY <1>2, <2>1, <2>2 DEF TypeOK
    <3>4. (\A q \in Procs : pc[q] = "closeOld" => Detached(ent[q]))'
      <4>1. \A q \in Procs : pc[q] = "closeOld" => Detached(ent[q])
        BY DEF Closing
      <4>2. ASSUME NEW q \in Procs, pc'[q] = "closeOld" PROVE Detached(ent[q])'
        BY <2>6, <2>9, <3>1, <3>2, <4>1, <4>2 DEF Detached, EntryCurrent
      <4> QED BY <4>2
    <3>5. (\A d \in Entries :
             Detached(d) => d \in retired \cup toClose \/ \E q \in Procs : pc[q] = "closeOld" /\ ent[q] = d)'
      BY <2>1, <2>9, <3>2, <3>3 DEF Closing
    <3>6. (\A d \in toClose : Detached(d))'
      BY <2>1, <2>9 DEF Closing, TypeOK
    <3> QED BY <3>4, <3>5, <3>6 DEF Closing
  <2>11. Retired'
    BY <1>2, <2>1, <2>2, <2>9 DEF TypeOK, Retired
  <2>12. Stopped' /\ Serving' /\ StatusTruthful'
    BY <1>2, <2>1 DEF TypeOK, Stopped, Serving, StatusTruthful
  <2> QED BY <2>3, <2>4, <2>5, <2>8, <2>10, <2>11, <2>12
<1> QED BY <1>1, <1>2 DEF Swap

LEMMA RemoveIInv ==
  ASSUME IInv, NEW p \in Procs, Remove(p)
  PROVE  IInv'
<1> USE DEF IInv
<1>t. req[p].id \in ConnIds /\ req[p].cfg \in Configs \cup {None} /\ conns[req[p].id] \in Entries \cup {None}
  BY RequestTyped
<1>1. TypeOK'
  <2>1. pc' \in [Procs -> Steps]
    BY DEF Remove, Goto, Return, TypeOK, Steps, CallSteps, LifecycleSteps, Holding
  <2>2. req' \in [Procs -> Requests]
    <3>1. RequestStep(p)
      BY <1>t DEF Remove, Return, RequestStep, Results
    <3> QED BY <3>1, RequestUpdate
  <2> QED BY <1>t, <2>1, <2>2 DEF Remove, entryVars, TypeOK, Statuses, Allocated, OnEntry, Holding
<1>2. Tries'
  BY DEF Remove, Goto, Return, entryVars, TypeOK, Tries, Requests
<1>3. Locking'
  BY DEF Remove, Goto, Return, entryVars, TypeOK, Locking, Holding, Allocated, OnEntry
<1>4. Allocated'
  BY <1>t DEF Remove, Goto, Return, entryVars, TypeOK, Allocated, OnEntry, Holding
<1>5. Closing'
  BY <1>t DEF Remove, Goto, Return, entryVars, TypeOK, Closing, Detached, EntryCurrent, Allocated, OnEntry, Holding, Retired
<1>6. Retired'
  BY <1>t DEF Remove, Goto, Return, entryVars, TypeOK, Retired, Detached, EntryCurrent, Locking, Holding, Allocated, OnEntry, Closing
<1>7. Working'
  BY DEF Remove, Goto, Return, entryVars, TypeOK, Working, Locking, Holding
<1>8. Stopped' /\ Serving' /\ StatusTruthful'
  BY DEF Serving, Remove, Goto, Return, entryVars, TypeOK, Stopped, StatusTruthful, Working
<1> QED BY <1>1, <1>2, <1>3, <1>4, <1>5, <1>6, <1>7, <1>8

LEMMA CloseOldIInv ==
  ASSUME IInv, NEW p \in Procs, CloseOld(p)
  PROVE  IInv'
<1> USE DEF IInv
<1>1. TypeOK'
  <2>1. pc' \in [Procs -> Steps]
    BY DEF CloseOld, Goto, TypeOK, Steps, CallSteps, LifecycleSteps, Holding
  <2>2. req' \in [Procs -> Requests]
    BY DEF CloseOld, TypeOK
  <2> QED BY <2>1, <2>2 DEF CloseOld, CloseLocked, TypeOK, Statuses, Allocated, OnEntry, Holding
<1>2. Tries'
  BY DEF CloseOld, Goto, CloseLocked, TypeOK, Tries, Requests
<1>3. Locking'
  BY DEF CloseOld, Goto, CloseLocked, TypeOK, Locking, Holding, Allocated, OnEntry
<1>4. Allocated'
  BY DEF CloseOld, Goto, CloseLocked, TypeOK, Allocated, OnEntry, Holding
<1>5. Closing'
  BY DEF CloseOld, Goto, CloseLocked, TypeOK, Closing, Detached, EntryCurrent, Allocated, OnEntry, Holding, Retired
<1>6. Retired'
  BY DEF CloseOld, Goto, CloseLocked, TypeOK, Retired, Detached, EntryCurrent, Locking, Holding, Allocated, OnEntry, Closing
<1>7. Working'
  BY DEF CloseOld, Goto, CloseLocked, TypeOK, Working, Locking, Holding
<1>8. Stopped' /\ Serving' /\ StatusTruthful'
  BY DEF Serving, CloseOld, Goto, CloseLocked, TypeOK, Stopped, StatusTruthful, Working
<1> QED BY <1>1, <1>2, <1>3, <1>4, <1>5, <1>6, <1>7, <1>8

LEMMA CleanupIInv ==
  ASSUME IInv, NEW p \in Procs, Cleanup(p)
  PROVE  IInv'
<1> USE DEF IInv
<1>1. TypeOK'
  <2>1. pc' \in [Procs -> Steps]
    BY DEF Cleanup, Goto, Return, TypeOK, Steps, CallSteps, LifecycleSteps, Holding
  <2>2. req' \in [Procs -> Requests]
    <3>1. RequestStep(p)
      BY DEF Cleanup, Return, RequestStep, Results
    <3> QED BY <3>1, RequestUpdate
  <2> QED BY <2>1, <2>2 DEF Cleanup, tableVars, entryVars, TypeOK, Statuses, Allocated, OnEntry, Holding
<1>2. Tries'
  BY DEF Cleanup, Goto, Return, tableVars, entryVars, TypeOK, Tries, Requests
<1>3. Locking'
  BY DEF Cleanup, Goto, Return, tableVars, entryVars, TypeOK, Locking, Holding, Allocated, OnEntry
<1>4. Allocated'
  BY DEF Cleanup, Goto, Return, tableVars, entryVars, TypeOK, Allocated, OnEntry, Holding
<1>5. Closing'
  BY DEF Cleanup, Goto, Return, tableVars, entryVars, TypeOK, Closing, Detached, EntryCurrent, Allocated, OnEntry, Holding, Retired
<1>6. Retired'
  BY DEF Cleanup, Goto, Return, tableVars, entryVars, TypeOK, Retired, Detached, EntryCurrent, Locking, Holding, Allocated, OnEntry, Closing
<1>7. Working'
  BY DEF Cleanup, Goto, Return, tableVars, entryVars, TypeOK, Working, Locking, Holding
<1>8. Stopped' /\ Serving' /\ StatusTruthful'
  BY DEF Serving, Cleanup, Goto, Return, tableVars, entryVars, TypeOK, Stopped, StatusTruthful, Working
<1> QED BY <1>1, <1>2, <1>3, <1>4, <1>5, <1>6, <1>7, <1>8

LEMMA PolicyIInv ==
  ASSUME IInv, NEW p \in Procs, Policy(p)
  PROVE  IInv'
<1> USE DEF IInv
<1>t. req[p].id \in ConnIds /\ req[p].cfg \in Configs \cup {None} /\ conns[req[p].id] \in Entries \cup {None}
  BY RequestTyped
<1>1. TypeOK'
  <2>1. pc' \in [Procs -> Steps]
    BY DEF Policy, Goto, Return, TypeOK, Steps, CallSteps, LifecycleSteps, Holding
  <2>2. req' \in [Procs -> Requests]
    <3>1. RequestStep(p)
      BY <1>t DEF Policy, Return, RequestStep, Results, Allocated, TypeOK
    <3> QED BY <3>1, RequestUpdate
  <2> QED BY <1>t, <2>1, <2>2 DEF Policy, tableVars, entryVars, TypeOK, Statuses, Allocated, OnEntry, Holding
<1>2. Tries'
  <2>1. \A q \in Procs : /\ req'[q].hits = req[q].hits /\ req'[q].try = req[q].try
                         /\ pc'[q] # "idle" => pc[q] # "idle"
    BY DEF Policy, Goto, Return, TypeOK, Requests
  <2> QED BY <2>1 DEF Tries
<1>3. Locking'
  BY DEF Policy, Goto, Return, tableVars, entryVars, TypeOK, Locking, Holding, Allocated, OnEntry
<1>4. Allocated'
  BY <1>t DEF Policy, Goto, Return, tableVars, entryVars, TypeOK, Allocated, OnEntry, Holding
<1>5. Closing'
  BY <1>t DEF Policy, Goto, Return, tableVars, entryVars, TypeOK, Closing, Detached, EntryCurrent, Allocated, OnEntry, Holding, Retired
<1>6. Retired'
  BY <1>t DEF Policy, Goto, Return, tableVars, entryVars, TypeOK, Retired, Detached, EntryCurrent, Locking, Holding, Allocated, OnEntry, Closing
<1>7. Working'
  BY DEF Policy, Goto, Return, tableVars, entryVars, TypeOK, Working, Locking, Holding
<1>8. Stopped' /\ Serving' /\ StatusTruthful'
  BY DEF Serving, Policy, Goto, Return, tableVars, entryVars, TypeOK, Stopped, StatusTruthful, Working
<1> QED BY <1>1, <1>2, <1>3, <1>4, <1>5, <1>6, <1>7, <1>8

LEMMA LookupIInv ==
  ASSUME IInv, NEW p \in Procs, Lookup(p)
  PROVE  IInv'
<1> USE DEF IInv
<1>t. req[p].id \in ConnIds /\ req[p].cfg \in Configs \cup {None} /\ conns[req[p].id] \in Entries \cup {None}
  BY RequestTyped
<1>1. TypeOK'
  <2>1. pc' \in [Procs -> Steps]
    BY DEF Lookup, Goto, Return, TypeOK, Steps, CallSteps, LifecycleSteps, Holding
  <2>2. req' \in [Procs -> Requests]
    <3>1. RequestStep(p)
      BY <1>t DEF Lookup, Return, RequestStep, Results
    <3> QED BY <3>1, RequestUpdate
  <2> QED BY <1>t, <2>1, <2>2 DEF Lookup, tableVars, entryVars, TypeOK, Statuses, Allocated, OnEntry, Holding
<1>2. Tries'
  BY DEF Lookup, Goto, Return, tableVars, entryVars, TypeOK, Tries, Requests
<1>3. Locking'
  BY DEF Lookup, Goto, Return, tableVars, entryVars, TypeOK, Locking, Holding, Allocated, OnEntry
<1>4. Allocated'
  BY <1>t DEF Lookup, Goto, Return, tableVars, entryVars, TypeOK, Allocated, OnEntry, Holding
<1>5. Closing'
  BY <1>t DEF Lookup, Goto, Return, tableVars, entryVars, TypeOK, Closing, Detached, EntryCurrent, Allocated, OnEntry, Holding, Retired
<1>6. Retired'
  BY <1>t DEF Lookup, Goto, Return, tableVars, entryVars, TypeOK, Retired, Detached, EntryCurrent, Locking, Holding, Allocated, OnEntry, Closing
<1>7. Working'
  BY DEF Lookup, Goto, Return, tableVars, entryVars, TypeOK, Working, Locking, Holding
<1>8. Stopped' /\ Serving' /\ StatusTruthful'
  BY DEF Serving, Lookup, Goto, Return, tableVars, entryVars, TypeOK, Stopped, StatusTruthful, Working
<1> QED BY <1>1, <1>2, <1>3, <1>4, <1>5, <1>6, <1>7, <1>8

LEMMA LockIInv ==
  ASSUME IInv, NEW p \in Procs, Lock(p)
  PROVE  IInv'
<1> USE DEF IInv
<1>1. TypeOK'
  <2>1. pc' \in [Procs -> Steps]
    BY DEF Lock, Goto, TypeOK, Steps, CallSteps, LifecycleSteps, Holding
  <2>2. req' \in [Procs -> Requests]
    BY DEF Lock, TypeOK
  <2> QED BY <2>1, <2>2 DEF Lock, tableVars, TypeOK, Statuses, Allocated, OnEntry, Holding
<1>2. Tries'
  BY DEF Lock, Goto, tableVars, TypeOK, Tries, Requests
<1>3. Locking'
  BY DEF Lock, Goto, tableVars, TypeOK, Locking, Holding, Allocated, OnEntry
<1>4. Allocated'
  BY DEF Lock, Goto, tableVars, TypeOK, Allocated, OnEntry, Holding
<1>5. Closing'
  BY DEF Lock, Goto, tableVars, TypeOK, Closing, Detached, EntryCurrent, Allocated, OnEntry, Holding, Retired
<1>6. Retired'
  BY DEF Lock, Goto, tableVars, TypeOK, Retired, Detached, EntryCurrent, Locking, Holding, Allocated, OnEntry, Closing
<1>7. Working'
  BY DEF Lock, Goto, tableVars, TypeOK, Working, Locking, Holding
<1>8. Stopped' /\ Serving' /\ StatusTruthful'
  BY DEF Serving, Lock, Goto, tableVars, TypeOK, Stopped, StatusTruthful, Working
<1> QED BY <1>1, <1>2, <1>3, <1>4, <1>5, <1>6, <1>7, <1>8

LEMMA CheckIInv ==
  ASSUME IInv, NEW p \in Procs, Check(p)
  PROVE  IInv'
<1> USE DEF IInv
<1>1. TypeOK'
  <2>1. pc' \in [Procs -> Steps]
    BY DEF Check, Goto, Return, TypeOK, Steps, CallSteps, LifecycleSteps, Holding
  <2>2. req' \in [Procs -> Requests]
    <3>1. RequestStep(p)
      BY DEF Check, Return, RequestStep, Results
    <3> QED BY <3>1, RequestUpdate
  <2> QED BY <2>1, <2>2 DEF Check, tableVars, Unlock, TypeOK, Statuses, Allocated, OnEntry, Holding
<1>2. Tries'
  BY DEF Check, Goto, Return, Unlock, tableVars, TypeOK, Tries, Requests
<1>3. Locking'
  BY DEF Check, Goto, Return, Unlock, tableVars, TypeOK, Locking, Holding, Allocated, OnEntry
<1>4. Allocated'
  BY DEF Check, Goto, Return, Unlock, tableVars, TypeOK, Allocated, OnEntry, Holding
<1>5. Closing'
  BY DEF Check, Goto, Return, Unlock, tableVars, TypeOK, Closing, Detached, EntryCurrent, Allocated, OnEntry, Holding, Retired
<1>6. Retired'
  BY DEF Check, Goto, Return, Unlock, tableVars, TypeOK, Retired, Detached, EntryCurrent, Locking, Holding, Allocated, OnEntry, Closing
<1>7. Working'
  BY DEF Check, Goto, Return, Unlock, tableVars, TypeOK, Working, Locking, Holding
<1>8. Stopped' /\ Serving' /\ StatusTruthful'
  BY DEF Serving, Check, Goto, Return, Unlock, tableVars, TypeOK, Stopped, StatusTruthful, Working
<1> QED BY <1>1, <1>2, <1>3, <1>4, <1>5, <1>6, <1>7, <1>8

LEMMA DialIInv ==
  ASSUME IInv, NEW p \in Procs, Dial(p)
  PROVE  IInv'
<1> USE DEF IInv
<1>1. TypeOK'
  <2>1. pc' \in [Procs -> Steps]
    BY DEF Dial, Goto, Return, TypeOK, Steps, CallSteps, LifecycleSteps, Holding
  <2>2. req' \in [Procs -> Requests]
    <3>1. RequestStep(p)
      BY DEF Dial, Return, RequestStep, Results
    <3> QED BY <3>1, RequestUpdate
  <2> QED BY <2>1, <2>2 DEF Dial, tableVars, Unlock, TypeOK, Statuses, Allocated, OnEntry, Holding
<1>2. Tries'
  BY DEF Dial, Goto, Return, Unlock, tableVars, TypeOK, Tries, Requests
<1>3. Locking'
  BY DEF Dial, Goto, Return, Unlock, tableVars, TypeOK, Locking, Holding, Allocated, OnEntry
<1>4. Allocated'
  BY DEF Dial, Goto, Return, Unlock, tableVars, TypeOK, Allocated, OnEntry, Holding
<1>5. Closing'
  BY DEF Dial, Goto, Return, Unlock, tableVars, TypeOK, Closing, Detached, EntryCurrent, Allocated, OnEntry, Holding, Retired
<1>6. Retired'
  BY DEF Dial, Goto, Return, Unlock, tableVars, TypeOK, Retired, Detached, EntryCurrent, Locking, Holding, Allocated, OnEntry, Closing
<1>7. Working'
  BY DEF Dial, Goto, Return, Unlock, tableVars, TypeOK, Working, Locking, Holding
<1>8. Stopped' /\ Serving' /\ StatusTruthful'
  BY DEF Serving, Dial, Goto, Return, Unlock, tableVars, TypeOK, Stopped, StatusTruthful, Working
<1> QED BY <1>1, <1>2, <1>3, <1>4, <1>5, <1>6, <1>7, <1>8

LEMMA RecheckIInv ==
  ASSUME IInv, NEW p \in Procs, Recheck(p)
  PROVE  IInv'
<1> USE DEF IInv
<1>1. TypeOK'
  <2>1. pc' \in [Procs -> Steps]
    BY DEF Recheck, Goto, Return, TypeOK, Steps, CallSteps, LifecycleSteps, Holding
  <2>2. req' \in [Procs -> Requests]
    <3>1. RequestStep(p)
      BY DEF Recheck, Return, RequestStep, Results
    <3> QED BY <3>1, RequestUpdate
  <2> QED BY <2>1, <2>2 DEF Recheck, tableVars, Unlock, TypeOK, Statuses, Allocated, OnEntry, Holding
<1>2. Tries'
  BY DEF Recheck, Goto, Return, Unlock, tableVars, TypeOK, Tries, Requests
<1>3. Locking'
  BY DEF Recheck, Goto, Return, Unlock, tableVars, TypeOK, Locking, Holding, Allocated, OnEntry
<1>4. Allocated'
  BY DEF Recheck, Goto, Return, Unlock, tableVars, TypeOK, Allocated, OnEntry, Holding
<1>5. Closing'
  BY DEF Recheck, Goto, Return, Unlock, tableVars, TypeOK, Closing, Detached, EntryCurrent, Allocated, OnEntry, Holding, Retired
<1>6. Retired'
  BY DEF Recheck, Goto, Return, Unlock, tableVars, TypeOK, Retired, Detached, EntryCurrent, Locking, Holding, Allocated, OnEntry, Closing
<1>7. Working'
  BY DEF Recheck, Goto, Return, Unlock, tableVars, TypeOK, Working, Locking, Holding
<1>8. Stopped' /\ Serving' /\ StatusTruthful'
  BY DEF Serving, Recheck, Goto, Return, Unlock, tableVars, TypeOK, Stopped, StatusTruthful, Working
<1> QED BY <1>1, <1>2, <1>3, <1>4, <1>5, <1>6, <1>7, <1>8

LEMMA InstallIInv ==
  ASSUME IInv, NEW p \in Procs, Install(p)
  PROVE  IInv'
<1> USE DEF IInv
<1>1. TypeOK'
  <2>1. pc' \in [Procs -> Steps]
    BY DEF Install, Goto, TypeOK, Steps, CallSteps, LifecycleSteps, Holding
  <2>2. req' \in [Procs -> Requests]
    BY DEF Install, TypeOK
  <2> QED BY <2>1, <2>2 DEF Install, tableVars, TypeOK, Statuses, Allocated, OnEntry, Holding
<1>2. Tries'
  BY DEF Install, Goto, tableVars, TypeOK, Tries, Requests
<1>3. Locking'
  BY DEF Install, Goto, tableVars, TypeOK, Locking, Holding, Allocated, OnEntry
<1>4. Allocated'
  BY DEF Install, Goto, tableVars, TypeOK, Allocated, OnEntry, Holding
<1>5. Closing'
  BY DEF Install, Goto, tableVars, TypeOK, Closing, Detached, EntryCurrent, Allocated, OnEntry, Holding, Retired
<1>6. Retired'
  BY DEF Install, Goto, tableVars, TypeOK, Retired, Detached, EntryCurrent, Locking, Holding, Allocated, OnEntry, Closing
<1>7. Working'
  BY DEF Install, Goto, tableVars, TypeOK, Working, Locking, Holding
<1>8. Stopped' /\ Serving' /\ StatusTruthful'
  BY DEF Serving, Install, Goto, tableVars, TypeOK, Stopped, StatusTruthful, Working
<1> QED BY <1>1, <1>2, <1>3, <1>4, <1>5, <1>6, <1>7, <1>8

LEMMA FnIInv ==
  ASSUME IInv, NEW p \in Procs, Fn(p)
  PROVE  IInv'
<1> USE DEF IInv
<1>1. TypeOK'
  <2>1. pc' \in [Procs -> Steps]
    BY DEF Fn, SecondTry, Goto, Retries, TypeOK, Steps, CallSteps, LifecycleSteps, Holding
  <2>2. req' \in [Procs -> Requests]
    <3>0. \A n \in 0..1 : req[p].hits + n \in 0..2
      BY HitsBound DEF Fn
    <3>1. RequestStep(p)
      BY <3>0 DEF Fn, SecondTry, Retries, RequestStep, Results
    <3> QED BY <3>1, RequestUpdate
  <2> QED BY <2>1, <2>2 DEF Fn, SecondTry, tableVars, CloseLocked, Unlock, TypeOK, Statuses, Allocated, OnEntry, Holding
<1>2. Tries'
  BY DEF Fn, SecondTry, Goto, Retries, CloseLocked, Unlock, tableVars, TypeOK, Tries, Requests
<1>3. Locking'
  <2>1. \/ Unlock(p) /\ pc' = [pc EXCEPT ![p] = "idle"]
        \/ mu' = mu /\ pc' = [pc EXCEPT ![p] = "check"]
    BY DEF Fn, SecondTry, Goto
  <2> QED BY <2>1 DEF Fn, SecondTry, Unlock, TypeOK, Locking, Holding, Allocated, OnEntry
<1>4. Allocated'
  BY DEF Fn, SecondTry, Goto, Retries, CloseLocked, Unlock, tableVars, TypeOK, Allocated, OnEntry, Holding
<1>5. Closing'
  BY DEF Fn, SecondTry, Goto, Retries, CloseLocked, Unlock, tableVars, TypeOK, Closing, Detached, EntryCurrent, Allocated, OnEntry, Holding, Retired
<1>6. Retired'
  BY DEF Fn, SecondTry, Goto, Retries, CloseLocked, Unlock, tableVars, TypeOK, Retired, Detached, EntryCurrent, Locking, Holding, Allocated, OnEntry, Closing
<1>7. Working'
  BY DEF Fn, SecondTry, Goto, Retries, CloseLocked, Unlock, tableVars, TypeOK, Working, Locking, Holding
<1>8. Stopped' /\ Serving' /\ StatusTruthful'
  BY DEF Serving, Fn, SecondTry, Goto, Retries, CloseLocked, Unlock, tableVars, TypeOK, Stopped, StatusTruthful, Working
<1> QED BY <1>1, <1>2, <1>3, <1>4, <1>5, <1>6, <1>7, <1>8

LEMMA SnapshotIInv ==
  ASSUME IInv, NEW p \in Procs, Snapshot(p)
  PROVE  IInv'
<1> USE DEF IInv
<1>1. TypeOK'
  <2>1. pc' \in [Procs -> Steps]
    BY DEF Snapshot, Goto, TypeOK, Steps, CallSteps, LifecycleSteps, Holding
  <2>2. req' \in [Procs -> Requests]
    BY DEF Snapshot, TypeOK
  <2> QED BY <2>1, <2>2 DEF Snapshot, tableVars, entryVars, TypeOK, Statuses, Allocated, OnEntry, Holding
<1>2. Tries'
  BY DEF Snapshot, Goto, tableVars, entryVars, TypeOK, Tries, Requests
<1>3. Locking'
  BY DEF Snapshot, Goto, tableVars, entryVars, TypeOK, Locking, Holding, Allocated, OnEntry
<1>4. Allocated'
  BY DEF Snapshot, Goto, tableVars, entryVars, TypeOK, Allocated, OnEntry, Holding
<1>5. Closing'
  BY DEF Snapshot, Goto, tableVars, entryVars, TypeOK, Closing, Detached, EntryCurrent, Allocated, OnEntry, Holding, Retired
<1>6. Retired'
  BY DEF Snapshot, Goto, tableVars, entryVars, TypeOK, Retired, Detached, EntryCurrent, Locking, Holding, Allocated, OnEntry, Closing
<1>7. Working'
  BY DEF Snapshot, Goto, tableVars, entryVars, TypeOK, Working, Locking, Holding
<1>8. Stopped' /\ Serving' /\ StatusTruthful'
  BY DEF Serving, Snapshot, Goto, tableVars, entryVars, TypeOK, Stopped, StatusTruthful, Working
<1> QED BY <1>1, <1>2, <1>3, <1>4, <1>5, <1>6, <1>7, <1>8

LEMMA DedicatedDialIInv ==
  ASSUME IInv, NEW p \in Procs, DedicatedDial(p)
  PROVE  IInv'
<1> USE DEF IInv
<1>1. TypeOK'
  <2>1. pc' \in [Procs -> Steps]
    BY DEF DedicatedDial, SecondTry, Goto, Return, TypeOK, Steps, CallSteps, LifecycleSteps, Holding
  <2>2. req' \in [Procs -> Requests]
    <3>1. RequestStep(p)
      BY DEF DedicatedDial, SecondTry, Return, RequestStep, Results
    <3> QED BY <3>1, RequestUpdate
  <2> QED BY <2>1, <2>2 DEF DedicatedDial, SecondTry, tableVars, entryVars, TypeOK, Statuses, Allocated, OnEntry, Holding
<1>2. Tries'
  <2>1. \/ req' = req
        \/ req' = [req EXCEPT ![p].res = "error"]
        \/ req' = [req EXCEPT ![p].via = "shared"]
    BY DEF DedicatedDial, SecondTry, Return
  <2>2. \A q \in Procs : req'[q].hits = req[q].hits /\ req'[q].try = req[q].try
    <3>1. CASE req' = req
      BY <3>1
    <3>2. CASE req' = [req EXCEPT ![p].res = "error"]
      BY <3>2 DEF TypeOK, Requests
    <3>3. CASE req' = [req EXCEPT ![p].via = "shared"]
      BY <3>3 DEF TypeOK, Requests
    <3> QED BY <2>1, <3>1, <3>2, <3>3
  <2>3. \A q \in Procs : pc'[q] # "idle" => pc[q] # "idle"
    BY DEF DedicatedDial, SecondTry, Goto, Return, TypeOK
  <2> QED BY <2>2, <2>3 DEF Tries
<1>3. Locking'
  BY DEF DedicatedDial, SecondTry, Goto, Return, tableVars, entryVars, TypeOK, Locking, Holding, Allocated, OnEntry
<1>4. Allocated'
  BY DEF DedicatedDial, SecondTry, Goto, Return, tableVars, entryVars, TypeOK, Allocated, OnEntry, Holding
<1>5. Closing'
  BY DEF DedicatedDial, SecondTry, Goto, Return, tableVars, entryVars, TypeOK, Closing, Detached, EntryCurrent, Allocated, OnEntry, Holding, Retired
<1>6. Retired'
  BY DEF DedicatedDial, SecondTry, Goto, Return, tableVars, entryVars, TypeOK, Retired, Detached, EntryCurrent, Locking, Holding, Allocated, OnEntry, Closing
<1>7. Working'
  BY DEF DedicatedDial, SecondTry, Goto, Return, tableVars, entryVars, TypeOK, Working, Locking, Holding
<1>8. Stopped' /\ Serving' /\ StatusTruthful'
  BY DEF Serving, DedicatedDial, SecondTry, Goto, Return, tableVars, entryVars, TypeOK, Stopped, StatusTruthful, Working
<1> QED BY <1>1, <1>2, <1>3, <1>4, <1>5, <1>6, <1>7, <1>8

LEMMA DedicatedCheckIInv ==
  ASSUME IInv, NEW p \in Procs, DedicatedCheck(p)
  PROVE  IInv'
<1> USE DEF IInv
<1>1. TypeOK'
  <2>1. pc' \in [Procs -> Steps]
    BY DEF DedicatedCheck, Goto, Return, TypeOK, Steps, CallSteps, LifecycleSteps, Holding
  <2>2. req' \in [Procs -> Requests]
    <3>1. RequestStep(p)
      BY DEF DedicatedCheck, Return, RequestStep, Results
    <3> QED BY <3>1, RequestUpdate
  <2> QED BY <2>1, <2>2 DEF DedicatedCheck, tableVars, entryVars, TypeOK, Statuses, Allocated, OnEntry, Holding
<1>2. Tries'
  BY DEF DedicatedCheck, Goto, Return, tableVars, entryVars, TypeOK, Tries, Requests
<1>3. Locking'
  BY DEF DedicatedCheck, Goto, Return, tableVars, entryVars, TypeOK, Locking, Holding, Allocated, OnEntry
<1>4. Allocated'
  BY DEF DedicatedCheck, Goto, Return, tableVars, entryVars, TypeOK, Allocated, OnEntry, Holding
<1>5. Closing'
  BY DEF DedicatedCheck, Goto, Return, tableVars, entryVars, TypeOK, Closing, Detached, EntryCurrent, Allocated, OnEntry, Holding, Retired
<1>6. Retired'
  BY DEF DedicatedCheck, Goto, Return, tableVars, entryVars, TypeOK, Retired, Detached, EntryCurrent, Locking, Holding, Allocated, OnEntry, Closing
<1>7. Working'
  BY DEF DedicatedCheck, Goto, Return, tableVars, entryVars, TypeOK, Working, Locking, Holding
<1>8. Stopped' /\ Serving' /\ StatusTruthful'
  BY DEF Serving, DedicatedCheck, Goto, Return, tableVars, entryVars, TypeOK, Stopped, StatusTruthful, Working
<1> QED BY <1>1, <1>2, <1>3, <1>4, <1>5, <1>6, <1>7, <1>8

LEMMA DedicatedFnIInv ==
  ASSUME IInv, NEW p \in Procs, DedicatedFn(p)
  PROVE  IInv'
<1> USE DEF IInv
<1>1. TypeOK'
  <2>1. pc' \in [Procs -> Steps]
    BY DEF DedicatedFn, SecondTry, Goto, Return, TypeOK, Steps, CallSteps, LifecycleSteps, Holding
  <2>2. req' \in [Procs -> Requests]
    <3>0. \A n \in 0..1 : req[p].hits + n \in 0..2
      BY HitsBound DEF DedicatedFn
    <3>1. RequestStep(p)
      BY <3>0 DEF DedicatedFn, SecondTry, Return, RequestStep, Results
    <3> QED BY <3>1, RequestUpdate
  <2> QED BY <2>1, <2>2 DEF DedicatedFn, SecondTry, tableVars, entryVars, TypeOK, Statuses, Allocated, OnEntry, Holding
<1>2. Tries'
  BY DEF DedicatedFn, SecondTry, Goto, Return, tableVars, entryVars, TypeOK, Tries, Requests
<1>3. Locking'
  BY DEF DedicatedFn, SecondTry, Goto, Return, tableVars, entryVars, TypeOK, Locking, Holding, Allocated, OnEntry
<1>4. Allocated'
  BY DEF DedicatedFn, SecondTry, Goto, Return, tableVars, entryVars, TypeOK, Allocated, OnEntry, Holding
<1>5. Closing'
  BY DEF DedicatedFn, SecondTry, Goto, Return, tableVars, entryVars, TypeOK, Closing, Detached, EntryCurrent, Allocated, OnEntry, Holding, Retired
<1>6. Retired'
  BY DEF DedicatedFn, SecondTry, Goto, Return, tableVars, entryVars, TypeOK, Retired, Detached, EntryCurrent, Locking, Holding, Allocated, OnEntry, Closing
<1>7. Working'
  BY DEF DedicatedFn, SecondTry, Goto, Return, tableVars, entryVars, TypeOK, Working, Locking, Holding
<1>8. Stopped' /\ Serving' /\ StatusTruthful'
  BY DEF Serving, DedicatedFn, SecondTry, Goto, Return, tableVars, entryVars, TypeOK, Stopped, StatusTruthful, Working
<1> QED BY <1>1, <1>2, <1>3, <1>4, <1>5, <1>6, <1>7, <1>8

LEMMA CloseAllIInv ==
  ASSUME IInv, CloseAll
  PROVE  IInv'
<1> USE DEF IInv
<1> DEFINE live == {e \in Entries : \E i \in ConnIds : conns[i] = e}
<1>1. \A e \in live : profile[e] # None /\ profile[e].id \in ConnIds
  BY DEF TypeOK, Allocated
<1>2. conns' = [i \in ConnIds |-> None] /\ toClose' = live
  BY DEF CloseAll
<1>3. UNCHANGED <<profile, conn, status, mu, retired, pc, ent, sock, req>>
  BY DEF CloseAll, entryVars, procVars
<1>4. TypeOK'
  BY <1>2, <1>3 DEF CloseAll, TypeOK
<1>5. Tries' /\ Locking' /\ Working' /\ StatusTruthful'
  BY <1>3 DEF Tries, Locking, Working, StatusTruthful
<1>6. Allocated'
  BY <1>2, <1>3 DEF Allocated
<1>7. \A e \in Entries : Detached(e)' <=> profile[e] # None
  BY <1>2, <1>3 DEF Detached, EntryCurrent, TypeOK
<1>8. \A e \in Entries : profile[e] # None => Detached(e) \/ e \in live
  BY DEF Detached, EntryCurrent, TypeOK
<1>9. Closing'
  <2>1. (\A p \in Procs : pc[p] = "closeOld" => Detached(ent[p]))'
    <3>1. \A p \in Procs : pc[p] = "closeOld" => ent[p] \in Entries /\ profile[ent[p]] # None
      BY DEF TypeOK, Allocated, OnEntry
    <3> QED BY <1>3, <1>7, <3>1
  <2>2. (\A e \in toClose : Detached(e))'
    BY <1>1, <1>2, <1>7
  <2>3. (\A e \in Entries :
           Detached(e) => e \in retired \cup toClose \/ \E p \in Procs : pc[p] = "closeOld" /\ ent[p] = e)'
    <3>1. \A e \in toClose : e \in live
      <4>1. \A e \in toClose : FALSE
        BY DEF CloseAll, Serving
      <4> QED BY <4>1
    <3> QED BY <1>2, <1>3, <1>7, <1>8, <3>1 DEF Closing
  <2> QED BY <2>1, <2>2, <2>3 DEF Closing
<1>10. Retired'
  BY <1>3, <1>7 DEF Retired, Detached, TypeOK
<1>11. Stopped' /\ Serving'
  <2>1. ASSUME waited' PROVE conn \subseteq live
    <3>1. \A p \in Procs : pc[p] = "idle"
      BY <2>1 DEF CloseAll
    <3>2. \A e \in conn : ~Detached(e)
      BY <3>1 DEF CloseAll, TypeOK, Closing, Retired, Serving
    <3> QED BY <1>8, <3>2 DEF TypeOK, Allocated
  <2> QED BY <1>2, <1>3, <2>1 DEF CloseAll, Stopped, Serving
<1> QED BY <1>4, <1>5, <1>6, <1>9, <1>10, <1>11

LEMMA CloseEntryIInv ==
  ASSUME IInv, NEW e \in Entries, CloseEntry(e)
  PROVE  IInv'
<1> USE DEF IInv
<1>1. /\ e \in toClose /\ mu[e] = None /\ Detached(e)
      /\ conn' = conn \ {e} /\ retired' = retired \cup {e} /\ toClose' = toClose \ {e}
      /\ status' = [status EXCEPT ![e] = "closed"]
      /\ UNCHANGED <<conns, profile, serving, waited, mu, pc, ent, sock, req>>
  BY DEF CloseEntry, CloseLocked, procVars, Closing
<1>2. TypeOK'
  BY <1>1 DEF TypeOK, Statuses
<1>3. Tries' /\ Locking' /\ Allocated'
  BY <1>1 DEF Tries, Locking, Allocated
<1>4. \A p \in Procs : pc[p] \in Holding => ent[p] # e
  BY <1>1 DEF Locking, TypeOK
<1>5. Closing'
  BY <1>1 DEF Closing, Detached, EntryCurrent
<1>6. Retired'
  BY <1>1, <1>4 DEF Retired, Detached, EntryCurrent, Holding
<1>7. Working'
  BY <1>1, <1>4 DEF Working, Holding
<1>8. Stopped' /\ StatusTruthful' /\ Serving'
  BY <1>1 DEF Stopped, StatusTruthful, Serving, TypeOK
<1> QED BY <1>2, <1>3, <1>5, <1>6, <1>7, <1>8

\* A step that changes nothing: Exited, or a stutter.
LEMMA StutterIInv ==
  ASSUME IInv, UNCHANGED vars
  PROVE  IInv'
BY DEF IInv, vars, tableVars, entryVars, procVars, TypeOK, Tries, Locking, Allocated, Closing,
  Retired, Working, Stopped, Serving, StatusTruthful, Detached, EntryCurrent

\* IInv is inductive: it holds initially and every step preserves it.
THEOREM Inductive == Spec => []IInv
<1>1. Init => IInv
  BY InitIInv
<1>2. IInv /\ [Next]_vars => IInv'
  <2> SUFFICES ASSUME IInv, [Next]_vars PROVE IInv'
    OBVIOUS
  <2>1. ASSUME NEW p \in Procs, NEW k \in Workload, NEW i \in ConnIds, NEW c \in Configs \cup {None},
               Begin(p, k, i, c)
        PROVE  IInv'
    BY <2>1, BeginIInv
  <2>2. ASSUME NEW p \in Procs, Work(p) PROVE IInv'
    BY <2>2, SwapIInv, RemoveIInv, CleanupIInv, PolicyIInv, LookupIInv, CheckIInv, DialIInv,
      RecheckIInv, InstallIInv, FnIInv, DedicatedDialIInv, DedicatedCheckIInv, DedicatedFnIInv
      DEF Work
  <2>3. ASSUME NEW p \in Procs, Acquire(p) PROVE IInv'
    BY <2>3, LockIInv, SnapshotIInv, CloseOldIInv DEF Acquire
  <2>4. CASE CloseAll
    BY <2>4, CloseAllIInv
  <2>6. ASSUME NEW e \in Entries, CloseEntry(e) PROVE IInv'
    BY <2>6, CloseEntryIInv
  <2>5. CASE Exited \/ UNCHANGED vars
    BY <2>5, StutterIInv DEF Exited
  <2> QED BY <2>1, <2>2, <2>3, <2>4, <2>5, <2>6 DEF Next
<1> QED BY <1>1, <1>2, PTL DEF Spec

\* Type correctness of the connection table and of its processes.
THEOREM TypeCorrect == Spec => []TypeOK
<1>1. IInv => TypeOK
  BY DEF IInv
<1> QED BY <1>1, Inductive, PTL

\* No connection outlives the Connect, Disconnect or CloseAll that detached its
\* entry: connectLocked's two identity checks against every interleaving.
THEOREM NoOrphan == Spec => []DetachedHasCloser
<1>1. IInv => DetachedHasCloser
  BY DEF IInv, Closing, Retired, DetachedHasCloser
<1> QED BY <1>1, Inductive, PTL

\* No operation runs on an entry after its replacement has closed it.
THEOREM NoServiceAfterClose == Spec => []RetiredNeverServes
<1>1. IInv => RetiredNeverServes
  BY DEF IInv, Retired, RetiredNeverServes
<1> QED BY <1>1, Inductive, PTL

\* A status of "connected" is never shown for an entry without a connection.
THEOREM StatusIsTruthful == Spec => []StatusTruthful
<1>1. IInv => StatusTruthful
  BY DEF IInv
<1> QED BY <1>1, Inductive, PTL

\* Every dialed connection is owned or closed, no closed entry gets one again,
\* and a CloseAll that follows the workers leaves none.
THEOREM NoSocketLeaks == Spec => []NoSocketLeft
<1>1. IInv => NoSocketLeft
  BY DEF IInv, TypeOK, Working, Stopped, Retired, NoSocketLeft
<1> QED BY <1>1, Inductive, PTL

(* ---------------------- the promise of RequestOnce ----------------------- *)
\* Every step of the connection layer is a step of a call, or leaves every call as it was.
OwnSteps == {"snapshot", "ddial", "dcheck", "dfn"}

\* A process takes only the steps of the kind of request it serves.
Routed ==
  \A p \in Procs :
    /\ pc[p] \in LifecycleSteps => req[p].kind \notin CallKinds
    /\ pc[p] \in CallSteps => req[p].kind \in CallKinds
    /\ req[p].via = "own" => req[p].kind = "aggregate"
    /\ pc[p] \in OwnSteps => req[p].via = "own"

\* What a step of p keeps: the kind of its request, and the other processes.
Same(p) ==
  /\ \A q \in Procs \ {p} : pc'[q] = pc[q] /\ req'[q] = req[q]
  /\ req'[p].kind = req[p].kind
  /\ req'[p].via = "own" => req[p].via = "own"

LEMMA WorkSame ==
  ASSUME TypeOK, NEW p \in Procs, Work(p) \/ Acquire(p)
  PROVE  Same(p)
<1> USE DEF TypeOK, Requests, Same
<1>1. ASSUME Swap(p) \/ Remove(p) \/ Cleanup(p) \/ Policy(p) \/ Lookup(p) \/ Check(p) PROVE Same(p)
  BY <1>1 DEF Swap, Remove, Cleanup, Policy, Lookup, Check, Return, Goto
<1>2. ASSUME Dial(p) \/ Recheck(p) \/ Install(p) \/ Lock(p) \/ Snapshot(p) \/ CloseOld(p) PROVE Same(p)
  BY <1>2 DEF Dial, Recheck, Install, Lock, Snapshot, CloseOld, Return, Goto
<1>3. CASE Fn(p)
  BY <1>3 DEF Fn, SecondTry, Goto
<1>4. CASE DedicatedDial(p) \/ DedicatedCheck(p) \/ DedicatedFn(p)
  BY <1>4 DEF DedicatedDial, SecondTry, DedicatedCheck, DedicatedFn, Return, Goto
<1> QED BY <1>1, <1>2, <1>3, <1>4 DEF Work, Acquire

LEMMA InitRouted == Init => Routed
BY DEF Init, Routed, NewRequest, Kinds, CallKinds, LifecycleSteps, CallSteps, Holding, OwnSteps

LEMMA NextRouted ==
  ASSUME TypeOK, Routed, [Next]_vars
  PROVE  Routed'
<1> USE DEF TypeOK, Routed, Steps, CallSteps, LifecycleSteps, Holding, OwnSteps
<1>1. ASSUME NEW p \in Procs, NEW k \in Workload, NEW i \in ConnIds, NEW c \in Configs \cup {None},
             Begin(p, k, i, c)
      PROVE  Routed'
  <2>1. /\ req' = [req EXCEPT ![p] = NewRequest(k, i, c)]
        /\ pc' = [pc EXCEPT ![p] = CASE k = "connect" -> "swap" [] k = "disconnect" -> "remove"
                                     [] OTHER -> "policy"]
    BY <1>1 DEF Begin, Goto
  <2>2. /\ NewRequest(k, i, c).kind = k
        /\ NewRequest(k, i, c).via = "own" => k = "aggregate"
    BY DEF NewRequest
  <2>3. \A q \in Procs \ {p} : pc'[q] = pc[q] /\ req'[q] = req[q]
    BY <2>1
  <2>4. req'[p].kind = k /\ (req'[p].via = "own" => k = "aggregate")
    BY <2>1, <2>2
  <2>5. pc'[p] = (CASE k = "connect" -> "swap" [] k = "disconnect" -> "remove" [] OTHER -> "policy")
    BY <2>1
  <2>6. /\ pc'[p] \in LifecycleSteps => req'[p].kind \notin CallKinds
        /\ pc'[p] \in CallSteps => req'[p].kind \in CallKinds
        /\ pc'[p] \notin OwnSteps
    <3>1. CASE k = "connect"
      BY <3>1, <2>4, <2>5 DEF CallKinds
    <3>2. CASE k = "disconnect"
      BY <3>2, <2>4, <2>5 DEF CallKinds
    <3>3. CASE k \in CallKinds
      <4>1. pc'[p] = "policy"
        BY <3>3, <2>5 DEF CallKinds
      <4> QED BY <3>3, <2>4, <4>1
    <3> QED BY <3>1, <3>2, <3>3, WorkloadAssumption DEF Kinds
  <2> QED BY <2>3, <2>4, <2>6
<1>2. ASSUME NEW p \in Procs, Work(p) \/ Acquire(p)
      PROVE  Routed'
  <2> DEFINE Route == /\ pc'[p] \in LifecycleSteps => pc[p] \in LifecycleSteps
                      /\ pc'[p] \in CallSteps => pc[p] \in CallSteps
                      /\ pc'[p] \in OwnSteps => req'[p].via = "own"
  <2>1. Same(p)
    BY <1>2, WorkSame
  <2>2. ASSUME Swap(p) \/ Remove(p) \/ CloseOld(p) \/ Cleanup(p) PROVE Route
    BY <2>2 DEF Swap, Remove, CloseOld, Cleanup, Return, Goto
  <2>3. ASSUME Lock(p) \/ Check(p) \/ Dial(p) \/ Recheck(p) \/ Install(p) \/ Fn(p) PROVE Route
    BY <2>3 DEF Lock, Check, Dial, Recheck, Install, Fn, SecondTry, Return, Goto
  <2>4. ASSUME Policy(p) PROVE Route
    BY <2>4 DEF Policy, Return, Goto
  <2>5. ASSUME Lookup(p) PROVE Route
    BY <2>5 DEF Lookup, Return, Goto
  <2>6. ASSUME Snapshot(p) \/ DedicatedCheck(p) PROVE Route
    BY <2>6 DEF Snapshot, DedicatedCheck, Return, Goto
  <2>7. ASSUME DedicatedDial(p) PROVE Route
    BY <2>7 DEF DedicatedDial, SecondTry, Return, Goto
  <2>8. ASSUME DedicatedFn(p) PROVE Route
    <3>1. pc' = [pc EXCEPT ![p] = "idle"] \/ pc' = [pc EXCEPT ![p] = "ddial"]
      BY <2>8 DEF DedicatedFn, SecondTry, Return, Goto
    <3>2. pc[p] = "dfn" /\ req'[p].via = req[p].via
      BY <2>8 DEF DedicatedFn, SecondTry, Return, Requests
    <3> QED BY <3>1, <3>2
  <2>9. Route
    BY <1>2, <2>2, <2>3, <2>4, <2>5, <2>6, <2>7, <2>8 DEF Work, Acquire
  <2> QED BY <2>1, <2>9 DEF Same
<1>3. CASE CloseAll \/ (\E e \in Entries : CloseEntry(e)) \/ Exited \/ UNCHANGED vars
  BY <1>3 DEF CloseAll, CloseEntry, Exited, vars, procVars
<1> QED BY <1>1, <1>2, <1>3 DEF Next
----------------------------------------------------------------------------
(* Steps of the connection layer as steps of a call *)

Calls == [p \in Procs |-> Call(p)]

\* Only the call of p changes in a step of p.
LEMMA OtherCalls ==
  ASSUME NEW p \in Procs, \A q \in Procs \ {p} : pc'[q] = pc[q] /\ req'[q] = req[q]
  PROVE  Calls' = [Calls EXCEPT ![p] = Call(p)']
<1>1. \A q \in Procs \ {p} : Call(q)' = Call(q)
  BY DEF Call
<1> QED BY <1>1 DEF Calls

\* While it runs, a call shows its kind and its hits only.
LEMMA RunningCall ==
  ASSUME NEW p \in Procs, req[p].kind \in CallKinds, pc[p] # "idle"
  PROVE  Call(p) = [st |-> "running", kind |-> IF req[p].kind = "write" THEN "write" ELSE "read",
                    hits |-> req[p].hits, answer |-> "none"]
BY DEF Call

\* The effect of a step on the call it belongs to.
Effect(p) ==
  \/ req'[p].hits = req[p].hits /\ pc'[p] # "idle"
  \/ /\ req'[p].hits = 1 /\ req[p].hits = 0 /\ pc'[p] # "idle" /\ req[p].kind # "write"
  \/ \E n \in 0..1 : /\ req'[p].hits = req[p].hits + n
                     /\ pc'[p] = "idle"
                     /\ req'[p].res = "ok" => n = 1

LEMMA EffectStep ==
  ASSUME TypeOK, Routed, NEW p \in Procs, pc[p] \in CallSteps, Same(p), Effect(p)
  PROVE  [Promise!Next]_Calls
<1>0. p \in Procs /\ pc[p] # "idle" /\ req[p].kind \in CallKinds /\ req'[p].kind = req[p].kind
  BY DEF Routed, Same, CallSteps, Holding
<1>1. Calls' = [Calls EXCEPT ![p] = Call(p)']
  BY OtherCalls DEF Same
<1>2. Calls[p] = [st |-> "running", kind |-> IF req[p].kind = "write" THEN "write" ELSE "read",
                  hits |-> req[p].hits, answer |-> "none"]
  BY <1>0, RunningCall DEF Calls
<1>3. CASE req'[p].hits = req[p].hits /\ pc'[p] # "idle"
  <2>1. Call(p)' = Calls[p]
    BY <1>0, <1>2, <1>3 DEF Call
  <2>2. Calls' = Calls
    BY <1>1, <2>1 DEF Calls
  <2> QED BY <2>2
<1>4. CASE /\ req'[p].hits = 1 /\ req[p].hits = 0 /\ pc'[p] # "idle" /\ req[p].kind # "write"
  <2>1. Call(p)' = [st |-> "running", kind |-> "read", hits |-> 1, answer |-> "none"]
    BY <1>0, <1>4 DEF Call
  <2>2. Calls[p] = [st |-> "running", kind |-> "read", hits |-> 0, answer |-> "none"]
    BY <1>2, <1>4
  <2>3. Calls' = [Calls EXCEPT ![p].hits = 1]
    <3>1. [Calls[p] EXCEPT !.hits = 1] = Call(p)'
      BY <2>1, <2>2
    <3> QED BY <1>1, <3>1
  <2>4. Promise!Lose(p)
    BY <2>2, <2>3 DEF Promise!Lose, Calls
  <2> QED BY <2>4 DEF Promise!Next
<1>5. ASSUME NEW n \in 0..1, req'[p].hits = req[p].hits + n, pc'[p] = "idle",
             req'[p].res = "ok" => n = 1
      PROVE  [Promise!Next]_Calls
  <2> DEFINE a == IF req'[p].res = "ok" THEN "ok" ELSE "error"
  <2>1. a \in {"ok", "error"} /\ (a = "ok" => n = 1)
    BY <1>5
  <2>2. Call(p)' = [st |-> "done", kind |-> IF req[p].kind = "write" THEN "write" ELSE "read",
                    hits |-> req[p].hits + n, answer |-> a]
    BY <1>0, <1>5 DEF Call
  <2> HIDE DEF a
  <2>3. Calls' = [Calls EXCEPT ![p] =
          [st |-> "done", kind |-> Calls[p].kind, hits |-> Calls[p].hits + n, answer |-> a]]
    BY <1>1, <1>2, <2>2
  <2>4. Promise!Finish(p)
    <3>1. Calls[p].st = "running"
      BY <1>2
    <3> QED BY <2>1, <2>3, <3>1 DEF Promise!Finish, Calls
  <2> QED BY <2>4 DEF Promise!Next
<1> QED BY <1>3, <1>4, <1>5 DEF Effect

\* The steps of an LDAP operation have the effect of a step of its call.
LEMMA OperationEffect ==
  ASSUME TypeOK, Tries, Routed, NEW p \in Procs, Work(p) \/ Acquire(p), pc[p] \in CallSteps
  PROVE  Effect(p)
<1> USE DEF TypeOK, Requests, Effect
<1>0. ~Swap(p) /\ ~Remove(p) /\ ~CloseOld(p) /\ ~Cleanup(p)
  BY DEF CallSteps, Holding, Swap, Remove, CloseOld, Cleanup
<1>1. CASE Policy(p)
  BY <1>1 DEF Policy, Return, Goto
<1>2. CASE Lookup(p)
  BY <1>2 DEF Lookup, Return, Goto
<1>3. CASE Lock(p) \/ Snapshot(p) \/ Install(p)
  BY <1>3 DEF Lock, Snapshot, Install, Goto
<1>4. CASE Check(p)
  BY <1>4 DEF Check, Return, Goto
<1>5. CASE Dial(p)
  BY <1>5 DEF Dial, Return, Goto
<1>6. CASE Recheck(p)
  BY <1>6 DEF Recheck, Return, Goto
<1>7. CASE Fn(p)
  <2>1. req[p].try # 2 => req[p].hits = 0
    BY <1>7 DEF Fn, SecondTry, Tries
  <2> QED BY <1>7, <2>1 DEF Fn, SecondTry, Retries, Goto
<1>8. CASE DedicatedDial(p)
  BY <1>8 DEF DedicatedDial, SecondTry, Return, Goto
<1>9. CASE DedicatedCheck(p)
  BY <1>9 DEF DedicatedCheck, Return, Goto
<1>10. CASE DedicatedFn(p)
  <2>1. req[p].try # 2 => req[p].hits = 0
    BY <1>10 DEF DedicatedFn, SecondTry, Tries
  <2>2. req[p].kind # "write"
    BY <1>10 DEF DedicatedFn, SecondTry, Routed, OwnSteps
  <2> QED BY <1>10, <2>1, <2>2 DEF DedicatedFn, SecondTry, Return, Goto
<1> QED BY <1>0, <1>1, <1>2, <1>3, <1>4, <1>5, <1>6, <1>7, <1>8, <1>9, <1>10 DEF Work, Acquire

LEMMA StepMaps ==
  ASSUME TypeOK, Tries, Routed, [Next]_vars
  PROVE  [Promise!Next]_Calls
<1>1. ASSUME NEW p \in Procs, NEW k \in Workload, NEW i \in ConnIds, NEW c \in Configs \cup {None},
             Begin(p, k, i, c)
      PROVE  [Promise!Next]_Calls
  <2>1. /\ pc[p] = "idle"
        /\ \A q \in Procs \ {p} : pc'[q] = pc[q] /\ req'[q] = req[q]
        /\ req'[p] = NewRequest(k, i, c)
        /\ pc'[p] # "idle"
    BY <1>1, WorkloadAssumption DEF Begin, Goto, TypeOK
  <2>2. Calls' = [Calls EXCEPT ![p] = Call(p)']
    BY <2>1, OtherCalls
  <2>3. Calls[p].st # "running"
    BY <2>1 DEF Calls, Call
  <2>4. CASE k \in CallKinds
    <3>1. Call(p)' = [st |-> "running", kind |-> IF k = "write" THEN "write" ELSE "read",
                      hits |-> 0, answer |-> "none"]
      BY <2>1, <2>4 DEF Call, NewRequest
    <3>2. Promise!Start(p)
      BY <2>2, <2>3, <3>1 DEF Promise!Start, Calls
    <3> QED BY <3>2 DEF Promise!Next
  <2>5. CASE k \notin CallKinds
    <3>1. Call(p)' = Promise!NoCall
      BY <2>1, <2>5 DEF Call, NewRequest, Promise!NoCall
    <3>2. Promise!Forget(p)
      BY <2>2, <2>3, <3>1 DEF Promise!Forget, Calls
    <3> QED BY <3>2 DEF Promise!Next
  <2> QED BY <2>4, <2>5
<1>2. ASSUME NEW p \in Procs, Work(p) \/ Acquire(p)
      PROVE  [Promise!Next]_Calls
  <2>1. Same(p)
    BY <1>2, WorkSame
  <2>2. CASE pc[p] \in CallSteps
    BY <1>2, <2>1, <2>2, EffectStep, OperationEffect
  <2>3. CASE pc[p] \notin CallSteps
    <3>1. req[p].kind \notin CallKinds
      <4>1. pc[p] \in LifecycleSteps
        BY <1>2, <2>3 DEF Work, Acquire, Swap, Remove, CloseOld, Cleanup, Policy, Lookup, Lock,
          Check, Dial, Recheck, Install, Fn, Snapshot, DedicatedDial, DedicatedCheck,
          DedicatedFn, CallSteps, Holding, LifecycleSteps
      <4> QED BY <4>1 DEF Routed
    <3>2. Call(p)' = Call(p)
      BY <2>1, <3>1 DEF Same, Call
    <3>3. Calls' = [Calls EXCEPT ![p] = Call(p)]
      BY <2>1, <3>2, OtherCalls DEF Same
    <3>4. Calls' = Calls
      BY <3>3 DEF Calls
    <3> QED BY <3>4
  <2> QED BY <2>2, <2>3
<1>3. CASE CloseAll \/ (\E e \in Entries : CloseEntry(e)) \/ Exited \/ UNCHANGED vars
  <2>1. pc' = pc /\ req' = req
    BY <1>3 DEF CloseAll, CloseEntry, Exited, vars, procVars
  <2>2. Calls' = Calls
    BY <2>1 DEF Calls, Call
  <2> QED BY <2>2
<1> QED BY <1>1, <1>2, <1>3 DEF Next

\* A write reaches the server at most once and is reported ok only if it did;
\* no other operation reaches it more than twice (WithConnOnce, withConn,
\* withDedicatedConn): the connection layer implements RequestOnce.
THEOREM Implements == Spec => AtMostOnce
<1>1. Init => Promise!Init
  BY DEF Init, NewRequest, CallKinds, Call, Promise!Init, Promise!NoCall
<1>2. Init => Routed
  BY InitRouted
<1>3. IInv /\ Routed /\ [Next]_vars => Routed'
  BY NextRouted DEF IInv
<1>4. IInv /\ Routed /\ [Next]_vars => [Promise!Next]_Calls
  BY StepMaps DEF IInv
<1>5. Spec => []IInv
  BY Inductive
<1> QED BY <1>1, <1>2, <1>3, <1>4, <1>5, PTL DEF Spec, AtMostOnce, Promise!Spec, Calls
=============================================================================
