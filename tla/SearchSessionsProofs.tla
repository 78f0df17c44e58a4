------------------------ MODULE SearchSessionsProofs ------------------------
(* The paged searches for any number of requests, connections, sessions and *)
(* pages: no cursor is leaked, pages come in order from an open connection, *)
(* the capacity holds, and a session is closed only by its own connection.  *)
EXTENDS SearchSessions, FiniteSetTheorems, TLAPS

Closing  == {"drain", "shut"}
Starting == {"identity", "install"}          \* a Start has dialed its session
Paging   == {"send", "receive"}              \* session.mu is held
OnOwn    == Starting \cup {"lock"} \cup Paging \cup {"finish"}

\* What the reaper does: it takes the expired sessions and closes them.
ReaperOnlyCloses ==
  /\ pc[Reaper] \in {"idle", "prune", "takeAll"} \cup Closing
  /\ pc[Reaper] = "takeAll" => ~serving
  /\ job[Reaper] = NoJob
  /\ after[Reaper] = "idle"

\* A Start on its way to the dial, with the entry it will dial from.
ToDial(p) ==
  \/ pc[p] \in {"count", "dial"}
  \/ pc[p] = "prune" /\ job[p].op = "start"
  \/ pc[p] \in Closing /\ after[p] = "count"

\* Entries, requests and sessions agree on the connection id.
NamesAgree ==
  /\ \A i \in ConnIds : current[i] # None => connId[current[i]] = i
  /\ \A p \in Procs :
       /\ pc[p] # "idle" => job[p].id \in ConnIds
       /\ ToDial(p) => job[p].ent \in Entries /\ connId[job[p].ent] = job[p].id
       /\ pc[p] \in OnOwn => /\ cur[p] \in Sessions
                             /\ made[cur[p]] \in Entries
                             /\ IdOf(cur[p]) = job[p].id

\* A session nobody has heard of: not dialed, or dialed by a Start that has not
\* installed it.
Unknown(s, p) ==
  /\ s \notin table \cup closed
  /\ age[s] = "unset"
  /\ \A q \in Workers : s \notin todo[q] /\ (q # p => cur[q] # s)

NotYetKnown ==
  /\ \A s \in Sessions : made[s] = None => s \notin open /\ Unknown(s, None)
  /\ \A p \in Procs : pc[p] \in Starting => cur[p] \in open /\ Unknown(cur[p], p)

\* A session is taken out of the table by one process, which closes it once.
TakenOnce ==
  /\ table \subseteq open \ closed
  /\ \A p \in Workers :
       /\ pc[p] \notin Closing => todo[p] = {}
       /\ todo[p] \cap table = {}
       /\ pc[p] = "drain" => todo[p] \cap closed = {}
       /\ \A s, t \in todo[p] \cap closed : s = t
       /\ \A q \in Workers : q # p => todo[p] \cap todo[q] = {}

\* A process that pages holds session.mu of an open session.
PagersHold ==
  \A p \in Procs :
    /\ pc[p] = "lock" => cur[p] \in open \cup closed
    /\ pc[p] \in Paging => smu[cur[p]] = p /\ cur[p] \in open \ closed
    /\ pc[p] = "receive" => sent[p] = cookie[cur[p]]

\* Types, and that only the Start and the Next come back from a drain.
AfterTyped == after \in [Workers -> {"idle", "count", "find"}]
Typed == TypeOK /\ IsFiniteSet(table) /\ AfterTyped

\* The inductive invariant.
SessionsInv ==
  /\ Typed /\ ReaperOnlyCloses /\ NamesAgree /\ NotYetKnown
  /\ TakenOnce /\ OpenHasOwner /\ PagersHold /\ WithinCapacity

\* What Return leaves has its types.
LEMMA ReturnTyped ==
  ASSUME TypeOK, NEW p \in Workers, Return(p)
  PROVE  pc' \in [Workers -> Steps] /\ job' \in [Workers -> Jobs] /\ cur' \in [Workers -> Sessions \cup {None}]
BY DEF TypeOK, Return, Goto, Steps, Jobs, NoJob, Ops

\* Types, with the identity of a request where its type depends on it.
LEMMA TypesStep == SessionsInv /\ [Next]_vars => TypeOK'
<1> SUFFICES ASSUME SessionsInv, [Next]_vars PROVE TypeOK'
  OBVIOUS
<1> USE NamesAssumption, PagesAssumption DEF connVars, sessionVars, procVars, Goto
<1>0. TypeOK /\ ReaperOnlyCloses /\ NamesAgree /\ Workers = Procs \cup {Reaper}
  BY DEF SessionsInv, Typed, Workers
<1>1. ASSUME NEW p \in Procs, NEW op \in Ops, NEW i \in ConnIds, NEW s \in Sessions \cup {None}, Begin(p, op, i, s)
      PROVE  TypeOK'
  BY <1>0, <1>1 DEF Begin, TypeOK, Jobs, Steps
<1>2. ASSUME NEW p \in Workers, StartLookup(p) PROVE TypeOK'
  <2>1. p \in Procs /\ job[p].id \in ConnIds
    BY <1>0, <1>2 DEF StartLookup, ReaperOnlyCloses, NamesAgree, Closing
  <2>2. job \in [Workers -> Jobs] /\ job[p] \in Jobs /\ current[job[p].id] \in Entries \cup {None}
    BY <1>0, <2>1 DEF TypeOK
  <2>3. [job EXCEPT ![p].ent = current[job[p].id]] \in [Workers -> Jobs]
    BY <2>2 DEF Jobs
  <2>4. CASE Return(p)
    BY <1>0, <1>2, <2>4, ReturnTyped DEF StartLookup, TypeOK
  <2>5. CASE job' = [job EXCEPT ![p].ent = current[job[p].id]] /\ Goto(p, "prune") /\ UNCHANGED cur
    BY <1>0, <1>2, <2>3, <2>5 DEF StartLookup, TypeOK, Steps
  <2> QED
    BY <1>2, <2>4, <2>5 DEF StartLookup
<1>3. ASSUME NEW p \in Workers, Count(p) \/ Drained(p) \/ Find(p) \/ Identity(p) \/ InstallSession(p) PROVE TypeOK'
  <2>1. UNCHANGED <<connVars, made, closed, smu, cookie, left, age, serving, sent, todo>>
    BY <1>3 DEF Count, Drained, Find, Identity, InstallSession
  <2>2. table' \subseteq Sessions /\ open' \subseteq Sessions /\ after' \in [Workers -> Steps]
    <3>1. pc[p] = "install" => cur[p] \in Sessions
      BY <1>0 DEF ReaperOnlyCloses, NamesAgree, OnOwn, Starting, Closing
    <3> QED
      BY <1>0, <1>3, <3>1 DEF Count, Drained, Find, Identity, InstallSession, TypeOK, Steps
  <2>3. \/ Return(p)
        \/ UNCHANGED <<job, cur>> /\ \E t \in Steps : Goto(p, t)
    BY <1>0, <1>3 DEF Count, Drained, Find, Identity, InstallSession, TypeOK, Steps
  <2>4. pc' \in [Workers -> Steps] /\ job' \in [Workers -> Jobs] /\ cur' \in [Workers -> Sessions \cup {None}]
    BY <1>0, <2>3, ReturnTyped DEF TypeOK
  <2> QED
    BY <1>0, <2>1, <2>2, <2>4 DEF TypeOK
<1>4. ASSUME NEW p \in Workers, StartDial(p) PROVE TypeOK'
  <2>1. CASE Return(p) /\ UNCHANGED <<made, open, left>>
    BY <1>0, <1>4, <2>1, ReturnTyped DEF StartDial, TypeOK
  <2>2. ASSUME NEW s \in Sessions, made' = [made EXCEPT ![s] = job[p].ent], open' = open \cup {s},
               left' = [left EXCEPT ![s] = Limit], cur' = [cur EXCEPT ![p] = s],
               Goto(p, "identity"), UNCHANGED job
        PROVE  TypeOK'
    <3>1. job[p].ent \in Entries \cup {None}
      BY <1>0 DEF TypeOK, Jobs
    <3> QED
      BY <1>0, <1>4, <2>2, <3>1 DEF StartDial, TypeOK, Steps
  <2> QED
    BY <1>4, <2>1, <2>2 DEF StartDial
<1>5. ASSUME NEW p \in Workers, Send(p) \/ LockSession(p) PROVE TypeOK'
  <2>1. p \in Procs /\ cur[p] \in Sessions
    BY <1>0, <1>5 DEF Send, LockSession, ReaperOnlyCloses, NamesAgree, OnOwn, Paging, Closing
  <2>2. CASE Send(p)
    BY <1>0, <2>1, <2>2 DEF Send, TypeOK, Steps
  <2>3. CASE LockSession(p)
    BY <1>0, <2>1, <2>3 DEF LockSession, TypeOK, Steps
  <2> QED
    BY <1>5, <2>2, <2>3
<1>6. ASSUME NEW p \in Workers, Receive(p) PROVE TypeOK'
  <2>1. p \in Procs /\ cur[p] \in Sessions
    BY <1>0, <1>6 DEF Receive, ReaperOnlyCloses, NamesAgree, OnOwn, Paging, Closing
  <2>2. UNCHANGED <<connVars, table, made, open, closed, serving, todo, after>>
    BY <1>6 DEF Receive
  <2>3. smu' \in [Sessions -> Procs \cup {None}] /\ sent' \in [Workers -> 0..Pages - 1]
    <3>1. 0 \in 0..Pages - 1
      OBVIOUS
    <3> QED
      BY <1>0, <1>6, <3>1 DEF Receive, TypeOK
  <2>4. cookie' \in [Sessions -> 0..Pages - 1]
    <3>1. (sent[p] + 1) % Pages \in 0..Pages - 1
      <4>1. sent[p] + 1 \in Nat
        BY <1>0 DEF TypeOK
      <4> QED
        BY <4>1
    <3> QED
      BY <1>0, <1>6, <3>1 DEF Receive, TypeOK
  <2>5. left' \in [Sessions -> 0..Limit]
    <3>1. Remaining(left[cur[p]]) \in 0..Limit
      BY <1>0, <2>1 DEF TypeOK, Remaining
    <3> QED
      BY <1>0, <1>6, <3>1 DEF Receive, TypeOK
  <2>6. age' \in [Sessions -> {"unset", "fresh", "expired"}]
    BY <1>0, <1>6 DEF Receive, TypeOK
  <2>7. pc' \in [Workers -> Steps] /\ job' \in [Workers -> Jobs] /\ cur' \in [Workers -> Sessions \cup {None}]
    <3>1. Return(p) \/ (UNCHANGED <<job, cur>> /\ Goto(p, "finish"))
      BY <1>6 DEF Receive
    <3> QED
      BY <1>0, <3>1, ReturnTyped DEF TypeOK, Steps
  <2> QED
    BY <1>0, <2>2, <2>3, <2>4, <2>5, <2>6, <2>7 DEF TypeOK
<1>7. ASSUME NEW p \in Workers, Replace(p) PROVE TypeOK'
  <2>1. job[p].id \in ConnIds \cup {None}
    BY <1>0 DEF TypeOK, Jobs
  <2>2. current' \in [ConnIds -> Entries \cup {None}] /\ connId' \in [Entries -> ConnIds \cup {None}]
    BY <1>0, <1>7, <2>1 DEF Replace, TypeOK
  <2>3. pc' \in [Workers -> Steps] /\ job' \in [Workers -> Jobs] /\ cur' \in [Workers -> Sessions \cup {None}]
    <3>1. Return(p) \/ (UNCHANGED <<job, cur>> /\ Goto(p, "cancelAll"))
      BY <1>7 DEF Replace
    <3> QED
      BY <1>0, <3>1, ReturnTyped DEF TypeOK, Steps
  <2> QED
    BY <1>0, <1>7, <2>2, <2>3 DEF Replace, TypeOK
<1>8. ASSUME NEW p \in Workers, Prune(p) \/ Finish(p) \/ SearchCancel(p) \/ CancelAll(p) PROVE TypeOK'
  BY <1>0, <1>8 DEF Prune, Finish, SearchCancel, CancelAll, Take, TypeOK, Steps
<1>9. ASSUME NEW p \in Workers, NEW s \in Sessions, Shut(p, s) \/ CloseNext(p, s) PROVE TypeOK'
  BY <1>0, <1>9 DEF Shut, CloseNext, TypeOK, Steps
<1>10. ASSUME NEW s \in Sessions, Expire(s) PROVE TypeOK'
  BY <1>0, <1>10 DEF Expire, TypeOK
<1>11. CASE Tick
  BY <1>0, <1>11 DEF Tick, TypeOK, Steps
<1>12. CASE CloseAll
  BY <1>0, <1>12 DEF CloseAll, TypeOK, Steps
<1>14. CASE TakeAll
  BY <1>0, <1>14 DEF TakeAll, Take, TypeOK, Steps
<1>13. CASE UNCHANGED vars
  BY <1>0, <1>13 DEF vars, TypeOK
<1> QED
  BY <1>1, <1>2, <1>3, <1>4, <1>5, <1>6, <1>7, <1>8, <1>9, <1>10, <1>11, <1>12, <1>13, <1>14
     DEF Next, Work, Acquire, Exited

\* Only the installation adds to the table, one session below the capacity.
LEMMA TableStep == SessionsInv /\ [Next]_vars => WithinCapacity' /\ IsFiniteSet(table')
<1> SUFFICES ASSUME SessionsInv, [Next]_vars PROVE WithinCapacity' /\ IsFiniteSet(table')
  OBVIOUS
<1>0. IsFiniteSet(table) /\ Cardinality(table) <= MaxSessions
  BY DEF SessionsInv, Typed, WithinCapacity
<1>1. ASSUME NEW p \in Workers, pc[p] = "install", Cardinality(table) < MaxSessions, table' = table \cup {cur[p]}
      PROVE  WithinCapacity' /\ IsFiniteSet(table')
  <2>1. /\ IsFiniteSet(table')
        /\ Cardinality(table') = Cardinality(table) \/ Cardinality(table') = Cardinality(table) + 1
    BY <1>0, <1>1, FS_AddElement
  <2> QED
    BY <1>0, <1>1, <2>1, FS_CardinalityType, PagesAssumption DEF WithinCapacity
<1>2. CASE table' \subseteq table
  <2>1. IsFiniteSet(table') /\ Cardinality(table') <= Cardinality(table)
    BY <1>0, <1>2, FS_Subset
  <2> QED
    BY <1>0, <2>1, FS_CardinalityType, PagesAssumption DEF WithinCapacity
<1>3. \/ table' \subseteq table
      \/ \E p \in Workers : /\ pc[p] = "install" /\ Cardinality(table) < MaxSessions
                            /\ table' = table \cup {cur[p]}
  BY DEF Next, vars, Begin, Work, Acquire, Exited, Tick, CloseAll, TakeAll, Expire, Take, Prune, Shut, Drained, StartLookup,
         Count, StartDial, Identity, InstallSession, Find, Send, Receive, Finish, SearchCancel, Replace,
         CancelAll, LockSession, CloseNext
<1> QED
  BY <1>1, <1>2, <1>3

\* What follows a drain is fixed when it begins.
LEMMA AfterStep == SessionsInv /\ [Next]_vars => AfterTyped'
<1> SUFFICES ASSUME SessionsInv, [Next]_vars PROVE AfterTyped'
  OBVIOUS
<1>0. AfterTyped
  BY DEF SessionsInv, Typed
<1>1. CASE UNCHANGED after
  BY <1>0, <1>1 DEF AfterTyped
<1>2. ASSUME NEW p \in Workers, Drained(p) PROVE AfterTyped'
  BY <1>0, <1>2 DEF Drained, AfterTyped
<1>3. ASSUME NEW p \in Workers, Prune(p) \/ Finish(p) \/ SearchCancel(p) \/ CancelAll(p) PROVE AfterTyped'
  BY <1>0, <1>3 DEF Prune, Finish, SearchCancel, CancelAll, Take, AfterTyped
<1>4. CASE TakeAll
  BY <1>0, <1>4 DEF TakeAll, Take, AfterTyped
<1>5. \/ UNCHANGED after
      \/ \E p \in Workers : Drained(p) \/ Prune(p) \/ Finish(p) \/ SearchCancel(p) \/ CancelAll(p)
      \/ TakeAll
  BY DEF Next, vars, procVars, Begin, Work, Acquire, Exited, CloseAll, Tick, Expire, Shut, StartLookup, Count, StartDial,
         Identity, InstallSession, Find, Send, Receive, Replace, LockSession, CloseNext
<1> QED
  BY <1>1, <1>2, <1>3, <1>4, <1>5

\* The reaper never pages and never answers.
LEMMA ReaperStep == SessionsInv /\ [Next]_vars => ReaperOnlyCloses'
<1> SUFFICES ASSUME SessionsInv, [Next]_vars PROVE ReaperOnlyCloses'
  OBVIOUS
<1> USE NamesAssumption, PagesAssumption DEF SessionsInv, connVars, sessionVars, procVars, Goto, Workers,
           Typed, TypeOK, ReaperOnlyCloses, Closing, NoJob, NamesAgree, OnOwn
<1>1. ASSUME NEW p \in Procs, NEW op \in Ops, NEW i \in ConnIds, NEW s \in Sessions \cup {None}, Begin(p, op, i, s)
      PROVE  ReaperOnlyCloses'
  BY <1>1 DEF Begin
<1>2. ASSUME NEW p \in Workers, Prune(p) PROVE ReaperOnlyCloses'
  BY <1>2 DEF Prune, Take
<1>3. ASSUME NEW p \in Workers, Drained(p) PROVE ReaperOnlyCloses'
  BY <1>3 DEF Drained, Return, AfterTyped
<1>4. ASSUME NEW p \in Workers, StartLookup(p) PROVE ReaperOnlyCloses'
  BY <1>4 DEF StartLookup, Return
<1>5. ASSUME NEW p \in Workers, Count(p) PROVE ReaperOnlyCloses'
  BY <1>5 DEF Count, Return
<1>6. ASSUME NEW p \in Workers, StartDial(p) PROVE ReaperOnlyCloses'
  BY <1>6 DEF StartDial, Return
<1>7. ASSUME NEW p \in Workers, Identity(p) PROVE ReaperOnlyCloses'
  BY <1>7 DEF Identity, Return
<1>8. ASSUME NEW p \in Workers, InstallSession(p) PROVE ReaperOnlyCloses'
  BY <1>8 DEF InstallSession, Return
<1>9. ASSUME NEW p \in Workers, Find(p) PROVE ReaperOnlyCloses'
  BY <1>9 DEF Find, Return
<1>10. ASSUME NEW p \in Workers, Send(p) PROVE ReaperOnlyCloses'
  BY <1>10 DEF Send
<1>11. ASSUME NEW p \in Workers, Receive(p) PROVE ReaperOnlyCloses'
  BY <1>11 DEF Receive, Return, Remaining
<1>12. ASSUME NEW p \in Workers, Finish(p) PROVE ReaperOnlyCloses'
  BY <1>12 DEF Finish, Take
<1>13. ASSUME NEW p \in Workers, SearchCancel(p) PROVE ReaperOnlyCloses'
  BY <1>13 DEF SearchCancel, Take
<1>14. ASSUME NEW p \in Workers, Replace(p) PROVE ReaperOnlyCloses'
  BY <1>14 DEF Replace, Return
<1>15. ASSUME NEW p \in Workers, CancelAll(p) PROVE ReaperOnlyCloses'
  BY <1>15 DEF CancelAll, Take
<1>16. ASSUME NEW p \in Workers, LockSession(p) PROVE ReaperOnlyCloses'
  BY <1>16 DEF LockSession
<1>17. ASSUME NEW p \in Workers, NEW s \in Sessions, Shut(p, s) PROVE ReaperOnlyCloses'
  BY <1>17 DEF Shut
<1>18. ASSUME NEW p \in Workers, NEW s \in Sessions, CloseNext(p, s) PROVE ReaperOnlyCloses'
  BY <1>18 DEF CloseNext
<1>19. ASSUME NEW s \in Sessions, Expire(s) PROVE ReaperOnlyCloses'
  BY <1>19 DEF Expire
<1>20. CASE Tick
  BY <1>20 DEF Tick
<1>21. CASE CloseAll
  BY <1>21 DEF CloseAll
<1>23. CASE TakeAll
  BY <1>23 DEF TakeAll, Take
<1>22. CASE UNCHANGED vars
  BY <1>22 DEF vars
<1> QED
  BY <1>1, <1>2, <1>3, <1>4, <1>5, <1>6, <1>7, <1>8, <1>9, <1>10, <1>11, <1>12,
     <1>13, <1>14, <1>15, <1>16, <1>17, <1>18, <1>19, <1>20, <1>21, <1>22, <1>23
     DEF Next, Work, Acquire, Exited

\* The identity of a request, its entry and its session stays the same.
LEMMA NamesStep == SessionsInv /\ [Next]_vars => NamesAgree'
<1> SUFFICES ASSUME SessionsInv, [Next]_vars PROVE NamesAgree'
  OBVIOUS
<1> USE NamesAssumption, PagesAssumption DEF SessionsInv, connVars, sessionVars, procVars, Goto, Workers,
           Typed, TypeOK, Jobs, NoJob, ReaperOnlyCloses, NamesAgree, NotYetKnown, Unknown, IdOf, ToDial,
           OnOwn, Closing, Starting, Paging
<1>1. ASSUME NEW p \in Procs, NEW op \in Ops, NEW i \in ConnIds, NEW s \in Sessions \cup {None}, Begin(p, op, i, s)
      PROVE  NamesAgree'
  BY <1>1 DEF Begin
<1>2. ASSUME NEW p \in Workers, Prune(p) PROVE NamesAgree'
  BY <1>2 DEF Prune, Take
<1>3. ASSUME NEW p \in Workers, Drained(p) PROVE NamesAgree'
  BY <1>3 DEF Drained, Return, AfterTyped
<1>4. ASSUME NEW p \in Workers, StartLookup(p) PROVE NamesAgree'
  BY <1>4 DEF StartLookup, Return
<1>5. ASSUME NEW p \in Workers, Count(p) PROVE NamesAgree'
  BY <1>5 DEF Count, Return
<1>6. ASSUME NEW p \in Workers, StartDial(p) PROVE NamesAgree'
  BY <1>6 DEF StartDial, Return
<1>7. ASSUME NEW p \in Workers, Identity(p) PROVE NamesAgree'
  BY <1>7 DEF Identity, Return
<1>8. ASSUME NEW p \in Workers, InstallSession(p) PROVE NamesAgree'
  BY <1>8 DEF InstallSession, Return
<1>9. ASSUME NEW p \in Workers, Find(p) PROVE NamesAgree'
  BY <1>9 DEF Find, Return
<1>10. ASSUME NEW p \in Workers, Send(p) PROVE NamesAgree'
  BY <1>10 DEF Send
<1>11. ASSUME NEW p \in Workers, Receive(p) PROVE NamesAgree'
  BY <1>11 DEF Receive, Return, Remaining
<1>12. ASSUME NEW p \in Workers, Finish(p) PROVE NamesAgree'
  BY <1>12 DEF Finish, Take
<1>13. ASSUME NEW p \in Workers, SearchCancel(p) PROVE NamesAgree'
  BY <1>13 DEF SearchCancel, Take
<1>14. ASSUME NEW p \in Workers, Replace(p) PROVE NamesAgree'
  BY <1>14 DEF Replace, Return
<1>15. ASSUME NEW p \in Workers, CancelAll(p) PROVE NamesAgree'
  BY <1>15 DEF CancelAll, Take
<1>16. ASSUME NEW p \in Workers, LockSession(p) PROVE NamesAgree'
  BY <1>16 DEF LockSession
<1>17. ASSUME NEW p \in Workers, NEW s \in Sessions, Shut(p, s) PROVE NamesAgree'
  BY <1>17 DEF Shut
<1>18. ASSUME NEW p \in Workers, NEW s \in Sessions, CloseNext(p, s) PROVE NamesAgree'
  BY <1>18 DEF CloseNext
<1>19. ASSUME NEW s \in Sessions, Expire(s) PROVE NamesAgree'
  BY <1>19 DEF Expire
<1>20. CASE Tick
  BY <1>20 DEF Tick
<1>21. CASE CloseAll
  BY <1>21 DEF CloseAll
<1>23. CASE TakeAll
  BY <1>23 DEF TakeAll, Take
<1>22. CASE UNCHANGED vars
  BY <1>22 DEF vars
<1> QED
  BY <1>1, <1>2, <1>3, <1>4, <1>5, <1>6, <1>7, <1>8, <1>9, <1>10, <1>11, <1>12,
     <1>13, <1>14, <1>15, <1>16, <1>17, <1>18, <1>19, <1>20, <1>21, <1>22, <1>23
     DEF Next, Work, Acquire, Exited

\* Nobody gets hold of a session before its Start has installed it.
LEMMA KnownStep == SessionsInv /\ [Next]_vars => NotYetKnown'
<1> SUFFICES ASSUME SessionsInv, [Next]_vars PROVE NotYetKnown'
  OBVIOUS
<1> USE NamesAssumption, PagesAssumption DEF SessionsInv, connVars, sessionVars, procVars, Goto, Workers,
           Typed, TypeOK, ReaperOnlyCloses, NamesAgree, NotYetKnown, TakenOnce, Unknown, ToDial, Closing,
           Starting, OnOwn
<1>1. ASSUME NEW p \in Procs, NEW op \in Ops, NEW i \in ConnIds, NEW s \in Sessions \cup {None}, Begin(p, op, i, s)
      PROVE  NotYetKnown'
  BY <1>1 DEF Begin
<1>2. ASSUME NEW p \in Workers, Prune(p) PROVE NotYetKnown'
  BY <1>2 DEF Prune, Take
<1>3. ASSUME NEW p \in Workers, Drained(p) PROVE NotYetKnown'
  BY <1>3 DEF Drained, Return, AfterTyped
<1>4. ASSUME NEW p \in Workers, StartLookup(p) PROVE NotYetKnown'
  BY <1>4 DEF StartLookup, Return
<1>5. ASSUME NEW p \in Workers, Count(p) PROVE NotYetKnown'
  BY <1>5 DEF Count, Return
<1>6. ASSUME NEW p \in Workers, StartDial(p) PROVE NotYetKnown'
  BY <1>6 DEF StartDial, Return
<1>7. ASSUME NEW p \in Workers, Identity(p) PROVE NotYetKnown'
  BY <1>7 DEF Identity, Return
<1>8. ASSUME NEW p \in Workers, InstallSession(p) PROVE NotYetKnown'
  BY <1>8 DEF InstallSession, Return
<1>9. ASSUME NEW p \in Workers, Find(p) PROVE NotYetKnown'
  BY <1>9 DEF Find, Return
<1>10. ASSUME NEW p \in Workers, Send(p) PROVE NotYetKnown'
  BY <1>10 DEF Send
<1>11. ASSUME NEW p \in Workers, Receive(p) PROVE NotYetKnown'
  BY <1>11 DEF Receive, Return, Remaining
<1>12. ASSUME NEW p \in Workers, Finish(p) PROVE NotYetKnown'
  BY <1>12 DEF Finish, Take
<1>13. ASSUME NEW p \in Workers, SearchCancel(p) PROVE NotYetKnown'
  BY <1>13 DEF SearchCancel, Take
<1>14. ASSUME NEW p \in Workers, Replace(p) PROVE NotYetKnown'
  BY <1>14 DEF Replace, Return
<1>15. ASSUME NEW p \in Workers, CancelAll(p) PROVE NotYetKnown'
  BY <1>15 DEF CancelAll, Take
<1>16. ASSUME NEW p \in Workers, LockSession(p) PROVE NotYetKnown'
  BY <1>16 DEF LockSession
<1>17. ASSUME NEW p \in Workers, NEW s \in Sessions, Shut(p, s) PROVE NotYetKnown'
  BY <1>17 DEF Shut
<1>18. ASSUME NEW p \in Workers, NEW s \in Sessions, CloseNext(p, s) PROVE NotYetKnown'
  BY <1>18 DEF CloseNext
<1>19. ASSUME NEW s \in Sessions, Expire(s) PROVE NotYetKnown'
  BY <1>19 DEF Expire
<1>20. CASE Tick
  BY <1>20 DEF Tick
<1>21. CASE CloseAll
  BY <1>21 DEF CloseAll
<1>23. CASE TakeAll
  BY <1>23 DEF TakeAll, Take
<1>22. CASE UNCHANGED vars
  BY <1>22 DEF vars
<1> QED
  BY <1>1, <1>2, <1>3, <1>4, <1>5, <1>6, <1>7, <1>8, <1>9, <1>10, <1>11, <1>12,
     <1>13, <1>14, <1>15, <1>16, <1>17, <1>18, <1>19, <1>20, <1>21, <1>22, <1>23
     DEF Next, Work, Acquire, Exited

\* Whoever takes a session out of the table is the one who closes it.
LEMMA TakenStep == SessionsInv /\ [Next]_vars => TakenOnce'
<1> SUFFICES ASSUME SessionsInv, [Next]_vars PROVE TakenOnce'
  OBVIOUS
<1> USE NamesAssumption, PagesAssumption DEF SessionsInv, connVars, sessionVars, procVars, Goto, Workers,
           Typed, TypeOK, ReaperOnlyCloses, NotYetKnown, Unknown, TakenOnce, Closing, Starting
<1>1. ASSUME NEW p \in Procs, NEW op \in Ops, NEW i \in ConnIds, NEW s \in Sessions \cup {None}, Begin(p, op, i, s)
      PROVE  TakenOnce'
  BY <1>1 DEF Begin
<1>2. ASSUME NEW p \in Workers, Prune(p) PROVE TakenOnce'
  BY <1>2 DEF Prune, Take
<1>3. ASSUME NEW p \in Workers, Drained(p) PROVE TakenOnce'
  BY <1>3 DEF Drained, Return, AfterTyped
<1>4. ASSUME NEW p \in Workers, StartLookup(p) PROVE TakenOnce'
  BY <1>4 DEF StartLookup, Return
<1>5. ASSUME NEW p \in Workers, Count(p) PROVE TakenOnce'
  BY <1>5 DEF Count, Return
<1>6. ASSUME NEW p \in Workers, StartDial(p) PROVE TakenOnce'
  BY <1>6 DEF StartDial, Return
<1>7. ASSUME NEW p \in Workers, Identity(p) PROVE TakenOnce'
  BY <1>7 DEF Identity, Return
<1>8. ASSUME NEW p \in Workers, InstallSession(p) PROVE TakenOnce'
  BY <1>8 DEF InstallSession, Return
<1>9. ASSUME NEW p \in Workers, Find(p) PROVE TakenOnce'
  BY <1>9 DEF Find, Return
<1>10. ASSUME NEW p \in Workers, Send(p) PROVE TakenOnce'
  BY <1>10 DEF Send
<1>11. ASSUME NEW p \in Workers, Receive(p) PROVE TakenOnce'
  BY <1>11 DEF Receive, Return, Remaining
<1>12. ASSUME NEW p \in Workers, Finish(p) PROVE TakenOnce'
  BY <1>12 DEF Finish, Take
<1>13. ASSUME NEW p \in Workers, SearchCancel(p) PROVE TakenOnce'
  BY <1>13 DEF SearchCancel, Take
<1>14. ASSUME NEW p \in Workers, Replace(p) PROVE TakenOnce'
  BY <1>14 DEF Replace, Return
<1>15. ASSUME NEW p \in Workers, CancelAll(p) PROVE TakenOnce'
  BY <1>15 DEF CancelAll, Take
<1>16. ASSUME NEW p \in Workers, LockSession(p) PROVE TakenOnce'
  BY <1>16 DEF LockSession
<1>17. ASSUME NEW p \in Workers, NEW s \in Sessions, Shut(p, s) PROVE TakenOnce'
  BY <1>17 DEF Shut
<1>18. ASSUME NEW p \in Workers, NEW s \in Sessions, CloseNext(p, s) PROVE TakenOnce'
  BY <1>18 DEF CloseNext
<1>19. ASSUME NEW s \in Sessions, Expire(s) PROVE TakenOnce'
  BY <1>19 DEF Expire
<1>20. CASE Tick
  BY <1>20 DEF Tick
<1>21. CASE CloseAll
  BY <1>21 DEF CloseAll
<1>23. CASE TakeAll
  BY <1>23 DEF TakeAll, Take
<1>22. CASE UNCHANGED vars
  BY <1>22 DEF vars
<1> QED
  BY <1>1, <1>2, <1>3, <1>4, <1>5, <1>6, <1>7, <1>8, <1>9, <1>10, <1>11, <1>12,
     <1>13, <1>14, <1>15, <1>16, <1>17, <1>18, <1>19, <1>20, <1>21, <1>22, <1>23
     DEF Next, Work, Acquire, Exited

\* No step leaves an open session without one who closes it.
LEMMA OwnerStep == SessionsInv /\ [Next]_vars => OpenHasOwner'
<1> SUFFICES ASSUME SessionsInv, [Next]_vars PROVE OpenHasOwner'
  OBVIOUS
<1> USE DEF connVars, sessionVars, procVars, Goto
<1>0. TypeOK /\ ReaperOnlyCloses /\ TakenOnce /\ OpenHasOwner /\ Workers = Procs \cup {Reaper}
  BY DEF SessionsInv, Typed, Workers
<1>a. /\ pc \in [Workers -> Steps] /\ cur \in [Workers -> Sessions \cup {None}]
      /\ todo \in [Workers -> SUBSET Sessions] /\ after \in [Workers -> Steps] /\ table \subseteq Sessions
  BY <1>0 DEF TypeOK
<1>1. ASSUME NEW p \in Procs, NEW op \in Ops, NEW i \in ConnIds, NEW s \in Sessions \cup {None}, Begin(p, op, i, s)
      PROVE  OpenHasOwner'
  BY <1>0, <1>a, <1>1 DEF Begin, OpenHasOwner
<1>2. ASSUME NEW p \in Workers, Prune(p) PROVE OpenHasOwner'
  BY <1>0, <1>a, <1>2 DEF Prune, Take, OpenHasOwner
<1>3. ASSUME NEW p \in Workers, Drained(p) PROVE OpenHasOwner'
  BY <1>0, <1>a, <1>3 DEF Drained, Return, AfterTyped, OpenHasOwner
<1>4. ASSUME NEW p \in Workers, StartLookup(p) PROVE OpenHasOwner'
  BY <1>0, <1>a, <1>4 DEF StartLookup, Return, OpenHasOwner
<1>5. ASSUME NEW p \in Workers, Count(p) PROVE OpenHasOwner'
  BY <1>0, <1>a, <1>5 DEF Count, Return, OpenHasOwner
<1>6. ASSUME NEW p \in Workers, StartDial(p) PROVE OpenHasOwner'
  <2>1. CASE Return(p) /\ UNCHANGED <<made, open, left>>
    BY <1>0, <1>a, <1>6, <2>1 DEF StartDial, Return, OpenHasOwner
  <2>2. ASSUME NEW s \in Sessions, made[s] = None, open' = open \cup {s}, cur' = [cur EXCEPT ![p] = s],
               Goto(p, "identity")
        PROVE  OpenHasOwner'
    <3>1. p \in Procs /\ cur'[p] = s /\ pc'[p] = "identity" /\ UNCHANGED <<table, todo>>
      BY <1>0, <1>a, <1>6, <2>2 DEF StartDial, ReaperOnlyCloses, Closing
    <3>2. ASSUME NEW t \in open', t # s
          PROVE  \/ t \in table'
                 \/ \E q \in Procs : pc'[q] \in {"identity", "install"} /\ cur'[q] = t
                 \/ \E q \in Workers : pc'[q] \in {"drain", "shut"} /\ t \in todo'[q]
      <4>1. t \in open
        BY <2>2, <3>2
      <4>2. \A q \in Workers : q # p => pc'[q] = pc[q] /\ cur'[q] = cur[q]
        BY <1>a, <2>2
      <4>3. pc[p] = "dial"
        BY <1>6 DEF StartDial
      <4> QED
        BY <1>0, <3>1, <4>1, <4>2, <4>3 DEF OpenHasOwner
    <3> QED
      BY <3>1, <3>2 DEF OpenHasOwner
  <2> QED
    BY <1>6, <2>1, <2>2 DEF StartDial
<1>7. ASSUME NEW p \in Workers, Identity(p) PROVE OpenHasOwner'
  BY <1>0, <1>a, <1>7 DEF Identity, Return, OpenHasOwner
<1>8. ASSUME NEW p \in Workers, InstallSession(p) PROVE OpenHasOwner'
  <2>1. \A q \in Workers : q # p => pc'[q] = pc[q] /\ cur'[q] = cur[q]
    BY <1>a, <1>8 DEF InstallSession, Return
  <2>2. pc[p] = "install" /\ UNCHANGED todo
    BY <1>8 DEF InstallSession
  <2>3. CASE table' = table \cup {cur[p]} /\ UNCHANGED open
    BY <1>0, <2>1, <2>2, <2>3 DEF OpenHasOwner
  <2>4. CASE open' = open \ {cur[p]} /\ UNCHANGED table
    BY <1>0, <2>1, <2>2, <2>4 DEF OpenHasOwner
  <2> QED
    BY <1>8, <2>3, <2>4 DEF InstallSession
<1>9. ASSUME NEW p \in Workers, Find(p) PROVE OpenHasOwner'
  BY <1>0, <1>a, <1>9 DEF Find, Return, OpenHasOwner
<1>10. ASSUME NEW p \in Workers, Send(p) PROVE OpenHasOwner'
  BY <1>0, <1>a, <1>10 DEF Send, OpenHasOwner
<1>11. ASSUME NEW p \in Workers, Receive(p) PROVE OpenHasOwner'
  BY <1>0, <1>a, <1>11 DEF Receive, Return, Remaining, OpenHasOwner
<1>12. ASSUME NEW p \in Workers, Finish(p) PROVE OpenHasOwner'
  BY <1>0, <1>a, <1>12 DEF Finish, Take, OpenHasOwner
<1>13. ASSUME NEW p \in Workers, SearchCancel(p) PROVE OpenHasOwner'
  BY <1>0, <1>a, <1>13 DEF SearchCancel, Take, OpenHasOwner
<1>14. ASSUME NEW p \in Workers, Replace(p) PROVE OpenHasOwner'
  <2>1. UNCHANGED <<open, table, todo>> /\ pc[p] = "swap"
    BY <1>14 DEF Replace
  <2>2. \A q \in Workers : q # p => pc'[q] = pc[q] /\ cur'[q] = cur[q]
    BY <1>a, <1>14 DEF Replace, Return
  <2> QED
    BY <1>0, <2>1, <2>2 DEF OpenHasOwner
<1>15. ASSUME NEW p \in Workers, CancelAll(p) PROVE OpenHasOwner'
  BY <1>0, <1>a, <1>15 DEF CancelAll, Take, OpenHasOwner
<1>16. ASSUME NEW p \in Workers, LockSession(p) PROVE OpenHasOwner'
  BY <1>0, <1>a, <1>16 DEF LockSession, OpenHasOwner
<1>17. ASSUME NEW p \in Workers, NEW s \in Sessions, Shut(p, s) PROVE OpenHasOwner'
  BY <1>0, <1>a, <1>17 DEF Shut, OpenHasOwner
<1>18. ASSUME NEW p \in Workers, NEW s \in Sessions, CloseNext(p, s) PROVE OpenHasOwner'
  BY <1>0, <1>a, <1>18 DEF CloseNext, OpenHasOwner, TakenOnce, Closing
<1>19. ASSUME NEW s \in Sessions, Expire(s) PROVE OpenHasOwner'
  BY <1>0, <1>a, <1>19 DEF Expire, OpenHasOwner
<1>20. CASE Tick
  BY <1>0, <1>a, <1>20 DEF Tick, OpenHasOwner
<1>21. CASE CloseAll
  BY <1>0, <1>a, <1>21 DEF CloseAll, OpenHasOwner
<1>23. CASE TakeAll
  BY <1>0, <1>a, <1>23 DEF TakeAll, Take, OpenHasOwner
<1>22. CASE UNCHANGED vars
  BY <1>0, <1>22 DEF vars, OpenHasOwner
<1> QED
  BY <1>1, <1>2, <1>3, <1>4, <1>5, <1>6, <1>7, <1>8, <1>9, <1>10, <1>11, <1>12,
     <1>13, <1>14, <1>15, <1>16, <1>17, <1>18, <1>19, <1>20, <1>21, <1>22, <1>23
     DEF Next, Work, Acquire, Exited

\* session.mu keeps the session open, and the cookie as it was sent.
LEMMA PagersStep == SessionsInv /\ [Next]_vars => PagersHold'
<1> SUFFICES ASSUME SessionsInv, [Next]_vars PROVE PagersHold'
  OBVIOUS
<1> USE NamesAssumption, PagesAssumption DEF SessionsInv, connVars, sessionVars, procVars, Goto, Workers,
           Typed, TypeOK, ReaperOnlyCloses, NamesAgree, NotYetKnown, Unknown, TakenOnce, PagersHold, Closing,
           Starting, Paging, OnOwn, IdOf
<1>1. ASSUME NEW p \in Procs, NEW op \in Ops, NEW i \in ConnIds, NEW s \in Sessions \cup {None}, Begin(p, op, i, s)
      PROVE  PagersHold'
  BY <1>1 DEF Begin
<1>2. ASSUME NEW p \in Workers, Prune(p) PROVE PagersHold'
  BY <1>2 DEF Prune, Take
<1>3. ASSUME NEW p \in Workers, Drained(p) PROVE PagersHold'
  BY <1>3 DEF Drained, Return, AfterTyped
<1>4. ASSUME NEW p \in Workers, StartLookup(p) PROVE PagersHold'
  BY <1>4 DEF StartLookup, Return
<1>5. ASSUME NEW p \in Workers, Count(p) PROVE PagersHold'
  BY <1>5 DEF Count, Return
<1>6. ASSUME NEW p \in Workers, StartDial(p) PROVE PagersHold'
  BY <1>6 DEF StartDial, Return
<1>7. ASSUME NEW p \in Workers, Identity(p) PROVE PagersHold'
  BY <1>7 DEF Identity, Return
<1>8. ASSUME NEW p \in Workers, InstallSession(p) PROVE PagersHold'
  BY <1>8 DEF InstallSession, Return
<1>9. ASSUME NEW p \in Workers, Find(p) PROVE PagersHold'
  BY <1>9 DEF Find, Return
<1>10. ASSUME NEW p \in Workers, Send(p) PROVE PagersHold'
  BY <1>10 DEF Send
<1>11. ASSUME NEW p \in Workers, Receive(p) PROVE PagersHold'
  BY <1>11 DEF Receive, Return, Remaining
<1>12. ASSUME NEW p \in Workers, Finish(p) PROVE PagersHold'
  BY <1>12 DEF Finish, Take
<1>13. ASSUME NEW p \in Workers, SearchCancel(p) PROVE PagersHold'
  BY <1>13 DEF SearchCancel, Take
<1>14. ASSUME NEW p \in Workers, Replace(p) PROVE PagersHold'
  BY <1>14 DEF Replace, Return
<1>15. ASSUME NEW p \in Workers, CancelAll(p) PROVE PagersHold'
  BY <1>15 DEF CancelAll, Take
<1>16. ASSUME NEW p \in Workers, LockSession(p) PROVE PagersHold'
  BY <1>16 DEF LockSession
<1>17. ASSUME NEW p \in Workers, NEW s \in Sessions, Shut(p, s) PROVE PagersHold'
  BY <1>17 DEF Shut
<1>18. ASSUME NEW p \in Workers, NEW s \in Sessions, CloseNext(p, s) PROVE PagersHold'
  BY <1>18 DEF CloseNext
<1>19. ASSUME NEW s \in Sessions, Expire(s) PROVE PagersHold'
  BY <1>19 DEF Expire
<1>20. CASE Tick
  BY <1>20 DEF Tick
<1>21. CASE CloseAll
  BY <1>21 DEF CloseAll
<1>23. CASE TakeAll
  BY <1>23 DEF TakeAll, Take
<1>22. CASE UNCHANGED vars
  BY <1>22 DEF vars
<1> QED
  BY <1>1, <1>2, <1>3, <1>4, <1>5, <1>6, <1>7, <1>8, <1>9, <1>10, <1>11, <1>12,
     <1>13, <1>14, <1>15, <1>16, <1>17, <1>18, <1>19, <1>20, <1>21, <1>22, <1>23
     DEF Next, Work, Acquire, Exited

\* The invariant holds at the start.
LEMMA SessionsInvInit == Init => SessionsInv
<1> SUFFICES ASSUME Init PROVE SessionsInv
  OBVIOUS
<1> USE PagesAssumption, NamesAssumption DEF Init, Workers
<1>1. TypeOK
  BY DEF TypeOK, Steps, Jobs, NoJob, Ops
<1>2. IsFiniteSet(table) /\ WithinCapacity
  BY FS_EmptySet DEF WithinCapacity
<1>3. AfterTyped
  BY DEF AfterTyped
<1>4. ReaperOnlyCloses /\ NamesAgree /\ NotYetKnown /\ TakenOnce /\ OpenHasOwner /\ PagersHold
  BY DEF ReaperOnlyCloses, NamesAgree, ToDial, OnOwn, NotYetKnown, Unknown, TakenOnce, OpenHasOwner, PagersHold,
         Closing, Starting, Paging
<1> QED
  BY <1>1, <1>2, <1>3, <1>4 DEF SessionsInv, Typed

\* The inductive invariant: what the theorems below rest on.
THEOREM SessionsInductive == Spec => []SessionsInv
<1>1. SessionsInv /\ [Next]_vars => SessionsInv'
  BY TypesStep, AfterStep, TableStep, ReaperStep, NamesStep, KnownStep, TakenStep, OwnerStep, PagersStep
     DEF SessionsInv, Typed
<1> QED
  BY <1>1, SessionsInvInit, PTL DEF Spec

\* No cursor and no connection of a search is leaked, whatever Starts, Nexts,
\* Cancels, Connects and reapings overlap (search_sessions.go).
THEOREM NoCursorLeaks == Spec => []OpenHasOwner
<1>1. SessionsInv => OpenHasOwner
  BY DEF SessionsInv
<1> QED
  BY <1>1, SessionsInductive, PTL

\* Each SearchNext reads the page that follows the last one fetched (after the
\* last page of all: the first again), from a connection nobody closes meanwhile.
THEOREM PagingIsSerial == Spec => []PagesAreServed
<1>1. SessionsInv => PagesAreServed
  BY DEF SessionsInv, PagersHold, Paging, PagesAreServed, PagesOnOpenSession, PagesInOrder
<1> QED
  BY <1>1, SessionsInductive, PTL

\* Never more than maxSearchSessions, although the dial lies between the count
\* and the installation (ensureSearchSessionCapacity, addSearchSession).
THEOREM CapacityHolds == Spec => []WithinCapacity
<1>1. SessionsInv => WithinCapacity
  BY DEF SessionsInv
<1> QED
  BY <1>1, SessionsInductive, PTL

\* No request takes a live session of another connection out of the table.
THEOREM OwnSessionsOnly == Spec => OnlyOwnSessions
<1> DEFINE Own == \A s \in table \ table' :
                    \/ age[s] = "expired" \/ ~serving'
                    \/ \E p \in Procs : /\ pc[p] \in {"finish", "cancelOne", "cancelAll"} /\ pc'[p] = "drain"
                                        /\ job[p].id = IdOf(s)
<1>1. SessionsInv /\ [Next]_vars => [Own]_vars
  <2> SUFFICES ASSUME SessionsInv, Next, NEW s \in table \ table'
               PROVE  \/ age[s] = "expired" \/ ~serving'
                      \/ \E p \in Procs : /\ pc[p] \in {"finish", "cancelOne", "cancelAll"} /\ pc'[p] = "drain"
                                          /\ job[p].id = IdOf(s)
    OBVIOUS
  <2>0. TypeOK /\ ReaperOnlyCloses /\ NamesAgree /\ Workers = Procs \cup {Reaper}
    BY DEF SessionsInv, Typed, Workers
  <2>1. ASSUME NEW p \in Workers, Finish(p) \/ SearchCancel(p) \/ CancelAll(p)
        PROVE  /\ p \in Procs /\ pc[p] \in {"finish", "cancelOne", "cancelAll"} /\ pc'[p] = "drain"
               /\ job[p].id = IdOf(s)
    <3>1. p \in Procs
      BY <2>0, <2>1 DEF Finish, SearchCancel, CancelAll, ReaperOnlyCloses, Closing
    <3> QED
      BY <2>0, <2>1, <3>1 DEF Finish, SearchCancel, CancelAll, Take, Goto, TypeOK, NamesAgree, OnOwn
  <2>2. ASSUME NEW p \in Workers, Prune(p) PROVE age[s] = "expired"
    BY <2>2 DEF Prune, Take
  <2>3. CASE TakeAll
    BY <2>0, <2>3 DEF TakeAll, ReaperOnlyCloses
  <2>4. \/ \E p \in Workers : Finish(p) \/ SearchCancel(p) \/ CancelAll(p) \/ Prune(p)
        \/ TakeAll
    BY DEF Next, vars, Begin, Work, Acquire, Exited, CloseAll, Tick, Expire, Shut, Drained, StartLookup, Count,
           StartDial, Identity, InstallSession, Find, Send, Receive, Replace, LockSession, CloseNext
  <2> QED
    BY <2>1, <2>2, <2>3, <2>4
<1> QED
  BY <1>1, SessionsInductive, PTL DEF Spec, OnlyOwnSessions
=============================================================================
