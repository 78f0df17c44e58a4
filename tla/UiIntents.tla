------------------------------ MODULE UiIntents -----------------------------
(* The user-interface intents of the MCP tools: ldap_ui_search, _focus and   *)
(* _select register an intent, send it to the workbenches as an event and    *)
(* wait for a report (mcp/intent.go, mcp/server.go); a workbench applies it  *)
(* and reports (shared/frontend/uiIntent.ts, App.vue).  A report may come    *)
(* late, after the call gave up, or from a second workbench.                 *)
EXTENDS Naturals, Sequences, FiniteSets

CONSTANTS
  Intents,      \* the calls, each with the intent id it makes
  Windows,      \* the workbenches that are open
  IntentTTL,    \* the lifetime of an intent, 60 s
  ReportWait,   \* reportWaitMs
  IntentCap,    \* the capacity, 20
  IntentTime    \* bound: the clock

\* NewIntentStore: 60 s and 20 unless given; an intent outlives the wait for it
\* (reportWaitMs is at most 30 s).
ASSUME IntentAssumption ==
  /\ IntentTTL \in Nat /\ ReportWait \in Nat /\ ReportWait < IntentTTL
  /\ IntentCap \in Nat \ {0}

VARIABLES
  table,     \* IntentStore.items, with the place of each in IntentStore.order
  calls,     \* the number of intents that were registered
  waiting,   \* what a call does: "idle", "waiting", "returned"
  since,     \* when it registered
  result,    \* what it returned
  inbox,     \* the events a workbench has not handled
  handling,  \* the intents a workbench applies
  reports,   \* the reports on their way
  snapshot,  \* the last snapshot
  told,      \* history: the reports that were accepted, in order
  elapsed    \* the clock

intentVars == <<table, calls, waiting, since, result, inbox, handling, reports, snapshot, told, elapsed>>

Final == {"applied", "rejected"}
\* Mutant: an intent lives as long as the call waits.
EntryOfWait(n) == [state |-> "pending", expires |-> elapsed + ReportWait, nth |-> n]

Entry(n) == [state |-> "pending", expires |-> elapsed + IntentTTL, nth |-> n]
Live(i) == elapsed < table[i].expires

\* Get: what the table says of an intent, and the table without it when it expired.
Get(i) ==
  IF i \notin DOMAIN table THEN "unknown" ELSE IF Live(i) THEN table[i].state ELSE "expired"
removeLocked(i) == [j \in DOMAIN table \ {i} |-> table[j]]
Purged(i) == IF Get(i) = "expired" THEN removeLocked(i) ELSE table

\* Register, the event, and the call waits: what has expired goes, then the
\* oldest when there are too many.
Register(i) ==
  LET all == {j \in DOMAIN table : Live(j)} \cup {i}
      items == [j \in all |-> IF j = i THEN Entry(calls + 1) ELSE table[j]]
      kept == IF Cardinality(all) > IntentCap
              THEN {j \in all : \E k \in all : items[k].nth < items[j].nth} ELSE all
  IN /\ waiting[i] = "idle"
     /\ table' = [j \in kept |-> items[j]] /\ calls' = calls + 1
     /\ waiting' = [waiting EXCEPT ![i] = "waiting"]
     /\ since' = [since EXCEPT ![i] = elapsed]
     /\ inbox' = [w \in Windows |-> inbox[w] \cup {i}]
     /\ UNCHANGED <<result, handling, reports, snapshot, told, elapsed>>

\* One turn of the loop of waitIntent; the deadline is looked at after the table.
waitIntent(i) ==
  LET got == Get(i)
      Returns(r) ==
        /\ waiting' = [waiting EXCEPT ![i] = "returned"] /\ result' = [result EXCEPT ![i] = r]
  IN /\ waiting[i] = "waiting"
     /\ table' = Purged(i)
     /\ \/ got \in {"expired", "unknown"} /\ Returns("expired")
        \/ got \in Final /\ Returns(got)
        \/ got = "pending" /\ elapsed >= since[i] + ReportWait /\ Returns("pending")
     /\ UNCHANGED <<calls, since, inbox, handling, reports, snapshot, told, elapsed>>

\* handleEvent of a workbench: the handler of the action starts.
handleIntent(w, i) ==
  /\ i \in inbox[w]
  /\ inbox' = [inbox EXCEPT ![w] = @ \ {i}] /\ handling' = [handling EXCEPT ![w] = @ \cup {i}]
  /\ UNCHANGED <<table, calls, waiting, since, result, reports, snapshot, told, elapsed>>

\* It is done, or fails: one report, and a snapshot when it showed something.
Handled(w, i) ==
  /\ i \in handling[w]
  /\ handling' = [handling EXCEPT ![w] = @ \ {i}]
  /\ \E s \in Final :
       /\ reports' = reports \cup {[id |-> i, state |-> s, from |-> w]}
       /\ IF s = "applied" THEN snapshot' = i ELSE UNCHANGED snapshot
  /\ UNCHANGED <<table, calls, waiting, since, result, inbox, told, elapsed>>

\* A workbench closes: it handles no more, what it sent is under way.
CloseWindow(w) ==
  /\ inbox[w] # {} \/ handling[w] # {}
  /\ inbox' = [inbox EXCEPT ![w] = {}] /\ handling' = [handling EXCEPT ![w] = {}]
  /\ UNCHANGED <<table, calls, waiting, since, result, reports, snapshot, told, elapsed>>

\* ReportUIState: into the table, unless the intent is unknown or expired.
ReportUIState(m) ==
  /\ m \in reports /\ reports' = reports \ {m}
  /\ IF Get(m.id) \in {"unknown", "expired"} THEN table' = Purged(m.id) /\ UNCHANGED told
     ELSE /\ table' = [table EXCEPT ![m.id].state = m.state]
          /\ told' = Append(told, m)
  /\ UNCHANGED <<calls, waiting, since, result, inbox, handling, snapshot, elapsed>>

\* ldap_ui_state: it reads, and drops what has expired.
uiState(i) == Get(i) = "expired" /\ table' = removeLocked(i)
  /\ UNCHANGED <<calls, waiting, since, result, inbox, handling, reports, snapshot, told, elapsed>>

\* Time passes, but not beyond what a call that waits notices (it looks every 25 ms).
IntentTick ==
  /\ elapsed < IntentTime /\ elapsed' = elapsed + 1
  /\ \A i \in Intents : waiting[i] = "waiting" => elapsed < since[i] + ReportWait
  /\ UNCHANGED <<table, calls, waiting, since, result, inbox, handling, reports, snapshot, told>>

IntentInit ==
  /\ table = <<>> /\ calls = 0 /\ reports = {} /\ snapshot = "none" /\ told = <<>> /\ elapsed = 0
  /\ waiting = [i \in Intents |-> "idle"] /\ since = [i \in Intents |-> 0]
  /\ result = [i \in Intents |-> "none"]
  /\ inbox = [w \in Windows |-> {}] /\ handling = [w \in Windows |-> {}]

IntentNext ==
  \/ \E i \in Intents : Register(i) \/ waitIntent(i) \/ uiState(i)
  \/ \E w \in Windows :
       CloseWindow(w) \/ \E i \in Intents : handleIntent(w, i) \/ Handled(w, i)
  \/ \E m \in reports : ReportUIState(m)
  \/ IntentTick

IntentSpec == IntentInit /\ [][IntentNext]_intentVars

\* The reports of an intent that were accepted, and the last of them.
Told(i) == {k \in DOMAIN told : told[k].id = i}
Last(i, k) == k \in Told(i) /\ \A n \in Told(i) : n <= k
\* The calls that registered after the one of an intent, or with it.
Since(i) == {j \in Intents : j # i /\ waiting[j] # "idle" /\ since[j] >= since[i]}

\* What a call returns is what a workbench reported of that intent; it ends as
\* expired, or waits for an intent that is no longer there, only when newer calls
\* pushed the intent out; and in the table its state is that of the last report.
ResultIsReported ==
  \A i \in Intents :
    /\ result[i] \in Final => \E k \in Told(i) : told[k].state = result[i]
    /\ result[i] = "expired" => Cardinality(Since(i)) >= IntentCap
    /\ i \in DOMAIN table => \A k \in Told(i) : Last(i, k) => Get(i) \in {"expired", told[k].state}
    /\ i \notin DOMAIN table /\ waiting[i] = "waiting" => Cardinality(Since(i)) >= IntentCap
=============================================================================
