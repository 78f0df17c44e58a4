-------------------------- MODULE TwoPhaseWrites ---------------------------
(***************************************************************************)
(* The destructive writes of the MCP tools (mcp/server.go, confirm.go):     *)
(* ldap_entry_write without a token answers with a preview and a one-time   *)
(* token bound to the arguments; with the token it executes the write.  The *)
(* lifetime of a token is the setting confirmTtlSecs (settings.go), changed *)
(* by mcp/settings/set and loaded from its file when the process starts.    *)
(*                                                                          *)
(* A section of ConfirmStore.mu or Server.mu is one step; the clock is read *)
(* (s.now()) before the section that uses the time.  The gates of the       *)
(* connection, and what the write does, are in ConnLifecycle: here a        *)
(* request may be refused before it comes to its token.                     *)
(***************************************************************************)
EXTENDS Naturals, FiniteSets

CONSTANTS
  Procs,       \* the request goroutines
  ConnIds,     \* connection ids
  Targets,     \* the other arguments of a write: action, DN, recursive, new RDN
  Tokens,      \* the random tokens (bounds a run)
  TTLs,        \* the values of confirmTtlSecs
  DefaultTTL,  \* ConfirmTTL, also the default of the setting
  MaxTime,     \* bounds the clock of a run
  MaxSets,     \* bounds the mcp/settings/set of one life of the process
  MaxRestarts, \* bounds the restarts of the process
  None         \* no token, no write

Writes  == [conn: ConnIds, target: Targets]
\* The latest expiry is that of a token issued at the end of a run.
Times   == {m + n : m \in 0..MaxTime, n \in TTLs}
\* What a token is issued for, and, for the properties, in which life of the process.
Permits == [write: Writes, expires: Times]
Grants  == [write: Writes, expires: Times, life: 0..MaxRestarts]

ASSUME TTLAssumption == TTLs \subseteq Nat \ {0} /\ DefaultTTL \in TTLs
ASSUME BoundAssumption == MaxTime \in Nat /\ MaxSets \in Nat /\ MaxRestarts \in Nat
ASSUME NoneAssumption == None \notin Tokens \cup Writes \cup Permits \cup Grants

VARIABLES
  items,     \* ConfirmStore.items: what a token was issued for
  ttl,       \* ConfirmStore.ttl
  settings,  \* Server.settings.ConfirmTtlSecs
  disk,      \* confirmTtlSecs in mcp-settings.json; the default without a file
  clock,     \* the time
  pc,        \* the next step of a process
  job,       \* its request: the arguments and the token, or a setting; its time
  sets,      \* the settings saved by this process
  restarts,  \* the restarts so far
  granted,   \* history: what each token was issued for, and by which process
  tried,     \* history: the tokens that were presented
  unsaved    \* history: the last change of the settings was not persisted

storeVars == <<items, ttl>>
fileVars  == <<settings, disk, sets, unsaved>>
history   == <<granted, tried>>
vars == <<storeVars, fileVars, clock, pc, job, restarts, history>>

Steps   == {"idle", "preview", "issue", "confirm", "consume", "execute", "save", "apply"}
Jobs    == [write: Writes \cup {None}, token: Tokens \cup {None}, ttl: TTLs, now: 0..MaxTime]
Job(w, t) == [write |-> w, token |-> t, ttl |-> DefaultTTL, now |-> 0]
NoJob   == Job(None, None)

TypeOK ==
  /\ items \in [Tokens -> Permits \cup {None}]
  /\ ttl \in TTLs /\ settings \in TTLs /\ disk \in TTLs
  /\ clock \in 0..MaxTime
  /\ pc \in [Procs -> Steps]
  /\ job \in [Procs -> Jobs]
  /\ \A p \in Procs : pc[p] \in {"confirm", "consume", "execute"} => job[p].token # None
  /\ \A p \in Procs : pc[p] \in {"preview", "issue"} => job[p].write # None
  /\ sets \in Nat /\ restarts \in 0..MaxRestarts
  /\ granted \in [Tokens -> Grants \cup {None}]
  /\ tried \subseteq Tokens
  /\ unsaved \in BOOLEAN

\* A fresh installation: no file, so every TTL is the default.
Init ==
  /\ items = [t \in Tokens |-> None]
  /\ ttl = DefaultTTL /\ settings = DefaultTTL /\ disk = DefaultTTL
  /\ clock = 0
  /\ pc = [p \in Procs |-> "idle"]
  /\ job = [p \in Procs |-> NoJob]
  /\ sets = 0 /\ restarts = 0
  /\ granted = [t \in Tokens |-> None]
  /\ tried = {}
  /\ unsaved = FALSE

----------------------------------------------------------------------------
(* Helpers *)

Goto(p, step) == pc' = [pc EXCEPT ![p] = step]

Return(p) == Goto(p, "idle") /\ job' = [job EXCEPT ![p] = NoJob]

\* Broken: the connection id is not part of the hash.
HashOfTarget(w) == w.target

\* HashParams of the canonical request: all the arguments, the token excepted.
Hash(w) == w

\* Broken: a token is only used up by the write it permits.
LeavesMisused(t, ok) == IF ok THEN [items EXCEPT ![t] = None] ELSE items

\* The token is gone, whatever the outcome.
Burn(t, ok) == [items EXCEPT ![t] = None]

\* pruneLocked
Pruned(now) == [t \in Tokens |-> IF items[t] # None /\ now >= items[t].expires THEN None ELSE items[t]]

----------------------------------------------------------------------------
(* ldap_entry_write: delete, modifyDn *)

\* The bounds of a run: no more previews and changes than tokens and MaxSets.
TokensLeft ==
  Cardinality({t \in Tokens : granted[t] = None}) > Cardinality({q \in Procs : pc[q] \in {"preview", "issue"}})
SetsLeft == MaxSets > sets + Cardinality({q \in Procs : pc[q] = "save"})

\* A request arrives; the client has the tokens that were issued.
EntryWrite(p, w, t) ==
  /\ pc[p] = "idle"
  /\ IF t = None THEN TokensLeft ELSE granted[t] # None
  /\ job' = [job EXCEPT ![p] = Job(w, t)]
  /\ Goto(p, IF t = None THEN "preview" ELSE "confirm")
  /\ UNCHANGED <<storeVars, fileVars, clock, restarts, history>>

\* The gates of entryWrite, then s.now(); a preview has asked the directory for
\* the number of children in between.
Now(p) ==
  /\ pc[p] \in {"preview", "confirm"}
  /\ \/ Return(p)
     \/ /\ job' = [job EXCEPT ![p].now = clock]
        /\ Goto(p, IF pc[p] = "preview" THEN "issue" ELSE "consume")
  /\ UNCHANGED <<storeVars, fileVars, clock, restarts, history>>

Issue(p) ==
  /\ pc[p] = "issue"
  /\ \E t \in Tokens :
       LET permit == [write |-> job[p].write, expires |-> job[p].now + ttl] IN
       /\ granted[t] = None
       /\ items' = [Pruned(job[p].now) EXCEPT ![t] = permit]
       /\ granted' = [granted EXCEPT ![t] =
                        [write |-> permit.write, expires |-> permit.expires, life |-> restarts]]
  /\ Return(p)
  /\ UNCHANGED <<ttl, fileVars, clock, restarts, tried>>

\* Consume: unknown, expired, other arguments, or ok.
Consume(p) ==
  LET t == job[p].token
      ok == items[t] # None /\ job[p].now < items[t].expires /\ Hash(items[t].write) = Hash(job[p].write)
  IN
  /\ pc[p] = "consume"
  /\ items' = Burn(t, ok)
  /\ tried' = tried \cup {t}
  /\ IF ok THEN Goto(p, "execute") /\ UNCHANGED job ELSE Return(p)
  /\ UNCHANGED <<ttl, fileVars, clock, restarts, granted>>

\* DeleteEntry or ModifyDN, whatever comes of it.
Execute(p) ==
  /\ pc[p] = "execute"
  /\ Return(p)
  /\ UNCHANGED <<storeVars, fileVars, clock, restarts, history>>

----------------------------------------------------------------------------
(* mcp/settings/set *)

SettingsSet(p, v) ==
  /\ pc[p] = "idle"
  /\ SetsLeft
  /\ job' = [job EXCEPT ![p] = [NoJob EXCEPT !.ttl = v]]
  /\ Goto(p, "save")
  /\ UNCHANGED <<storeVars, fileVars, clock, restarts, history>>

\* The section of Server.mu: memory, then the file, whose failure is reported
\* and leaves the memory changed.
Save(p) ==
  /\ pc[p] = "save"
  /\ sets' = sets + 1
  /\ settings' = job[p].ttl
  /\ \/ disk' = job[p].ttl /\ unsaved' = FALSE /\ Goto(p, "apply") /\ UNCHANGED job
     \/ unsaved' = TRUE /\ Return(p) /\ UNCHANGED disk
  /\ UNCHANGED <<storeVars, clock, restarts, history>>

\* Broken: the file is written once the lock is released.
ApplyAndPersist(p) ==
  /\ pc[p] = "apply"
  /\ ttl' = job[p].ttl
  /\ disk' = job[p].ttl
  /\ Return(p)
  /\ UNCHANGED <<items, settings, sets, unsaved, clock, restarts, history>>

\* SetTTL, after the section.
Apply(p) ==
  /\ pc[p] = "apply"
  /\ ttl' = job[p].ttl
  /\ Return(p)
  /\ UNCHANGED <<items, fileVars, clock, restarts, history>>

----------------------------------------------------------------------------
(* Time and restarts *)

Tick == clock < MaxTime /\ clock' = clock + 1 /\ UNCHANGED <<storeVars, fileVars, pc, job, restarts, history>>

\* The process ends, at any time, and starts again: NewServer loads the
\* settings, NewConfirmStore takes the default.
Restart ==
  /\ restarts < MaxRestarts
  /\ restarts' = restarts + 1
  /\ items' = [t \in Tokens |-> None]
  /\ ttl' = DefaultTTL
  /\ settings' = disk /\ sets' = 0 /\ unsaved' = FALSE
  /\ pc' = [p \in Procs |-> "idle"]
  /\ job' = [p \in Procs |-> NoJob]
  /\ UNCHANGED <<disk, clock, history>>

Next ==
  \/ \E p \in Procs, w \in Writes, t \in Tokens \cup {None} : EntryWrite(p, w, t)
  \/ \E p \in Procs, v \in TTLs : SettingsSet(p, v)
  \/ \E p \in Procs : Now(p) \/ Issue(p) \/ Consume(p) \/ Execute(p) \/ Save(p) \/ Apply(p)
  \/ Tick
  \/ Restart

Spec == Init /\ [][Next]_vars

----------------------------------------------------------------------------
(* Properties *)

\* A destructive write is executed only as it was previewed: the same arguments
\* on the same connection id, within the lifetime the preview stated (a change
\* of the setting is not retroactive), by the process that previewed it.
WriteIsPreviewed ==
  \A p \in Procs : pc[p] = "execute" =>
    LET g == granted[job[p].token] IN
    g # None /\ g.write = job[p].write /\ job[p].now < g.expires /\ g.life = restarts

\* A token permits one attempt: once it was presented, with whatever arguments
\* and by however many requests at a time, it executes nothing any more.
TokenIsTriedOnce ==
  [][\A p \in Procs : pc[p] = "consume" /\ pc'[p] = "execute" => job[p].token \notin tried]_vars

\* server.go:71-73: of two concurrent mcp/settings/set the file keeps the one
\* that memory keeps, so no update is lost by a restart.
FileFollowsMemory == ~unsaved => disk = settings

\* server.go:59 and docs/MCP.zh-CN.md:274: mcp/settings/get answers the settings in
\* force, and they are persistent.  When no mcp/settings/set is under way and the
\* last one was saved, tokens are issued with the TTL that the settings state.
TTLInForce == ~unsaved /\ (\A p \in Procs : pc[p] # "apply") => ttl = settings
=============================================================================
