----------------------------- MODULE SchemaView -----------------------------
(* The schema cache of the workbench (lib/schemaCache.ts): one cache and one *)
(* table of fetches for all views, and the schema panel's refresh.  The      *)
(* schema is its version in the sidecar, which only a refresh changes.       *)
(* clear and a bare invalidateSchema() have no caller in the app.            *)
EXTENDS Naturals, FiniteSets

CONSTANTS
  Targets,      \* connections
  SchemaViews,  \* useLdapSchemaCache instances
  Panel,        \* the one of SchemaPanel
  MaxLoads,     \* bound: ensureLoaded calls, failures and expiries
  MaxRefreshes  \* bound

ASSUME SchemaAssumption == Panel \in SchemaViews

VARIABLES
  sidecarSchema,         \* connection -> version of the schema the sidecar answers
  sharedCache,           \* connection -> [version, fresh]; version 0: no entry
  sharedInFlight,        \* connection -> the fetch of its slot, 0: none
  sharedCacheGeneration,
  sharedLoading,
  fetches,               \* id -> [key, generation, waiters, stage, version]
  refreshes,             \* the panel's refreshes under way: [id, key, stage]
  views,                 \* view -> [conn, of, version]: what it is on, what it shows
  loads,
  refreshed,             \* history: the version an answered refresh promised
  overtaken,             \* history: views whose load failed or was invalidated
  promised               \* history: `refreshed` when the view last asked

schemaVars == <<sidecarSchema, sharedCache, sharedInFlight, sharedCacheGeneration, sharedLoading,
                fetches, refreshes, views, loads, refreshed, overtaken, promised>>

NoTarget == "none"
NoEntry == [version |-> 0, fresh |-> FALSE]

Unsettled == {i \in DOMAIN fetches : fetches[i].stage # "settled"}
Waiting(v) == \E i \in Unsettled : v \in fetches[i].waiters

SchemaInit ==
  /\ sidecarSchema = [k \in Targets |-> 1] /\ sharedCache = [k \in Targets |-> NoEntry]
  /\ sharedInFlight = [k \in Targets |-> 0] /\ sharedCacheGeneration = 0 /\ sharedLoading = FALSE
  /\ fetches = <<>> /\ refreshes = {} /\ loads = 0
  /\ views = [v \in SchemaViews |-> [conn |-> NoTarget, of |-> NoTarget, version |-> 0]]
  /\ refreshed = [k \in Targets |-> 0] /\ overtaken = {} /\ promised = [v \in SchemaViews |-> 0]

(* ensureLoaded: a fresh entry is shown, a fetch under way is shared, and    *)
(* otherwise one is started; `flight` is the table it finds.                 *)
Show(vs, v, k, version) == [vs EXCEPT ![v].of = k, ![v].version = version]
Hit(v, k) ==
  /\ views' = Show([views EXCEPT ![v].conn = k], v, k, sharedCache[k].version)
  /\ UNCHANGED <<fetches, sharedInFlight, sharedLoading>>
Join(v, k) ==
  /\ fetches' = [fetches EXCEPT ![sharedInFlight[k]].waiters = @ \cup {v}]
  /\ UNCHANGED <<sharedInFlight, sharedLoading>>
StartFetch(v, k, flight) ==
  LET id == Cardinality(DOMAIN fetches) + 1
  IN /\ fetches' = [i \in 1..id |->
          IF i = id THEN [key |-> k, generation |-> sharedCacheGeneration', waiters |-> {v},
                          stage |-> "asked", version |-> 0]
          ELSE fetches[i]]
     /\ sharedInFlight' = [flight EXCEPT ![k] = id]
     /\ sharedLoading' = TRUE

\* A view opens, or follows the connection.
ensureLoaded(v, k) ==
  /\ loads < MaxLoads /\ loads' = loads + 1
  /\ UNCHANGED <<sharedCacheGeneration, sharedCache, sidecarSchema, refreshes, refreshed>>
  /\ promised' = [promised EXCEPT ![v] = refreshed[k]]
  /\ overtaken' = IF sharedInFlight[k] # 0 /\ fetches[sharedInFlight[k]].generation < sharedCacheGeneration
                  THEN overtaken \cup {v} ELSE overtaken \ {v}
  /\ IF sharedCache[k].version # 0 /\ sharedCache[k].fresh THEN Hit(v, k)
     ELSE /\ views' = [views EXCEPT ![v].conn = k]
          /\ IF sharedInFlight[k] # 0 THEN Join(v, k) ELSE StartFetch(v, k, sharedInFlight)

\* The sidecar serves ldap/schema; it is routed by the cache's key.
ServeFetch(i) ==
  /\ fetches[i].stage = "asked"
  /\ fetches' = [fetches EXCEPT ![i].stage = "served", ![i].version = sidecarSchema[fetches[i].key]]
  /\ UNCHANGED <<sidecarSchema, sharedCache, sharedInFlight, sharedCacheGeneration, sharedLoading,
                 refreshes, views, loads, refreshed, overtaken, promised>>

\* Mutant: the answer is cached whatever happened since it was asked for.
keepAnswer(f) == TRUE
\* An answer from before an invalidation is not kept.
cacheable(f) == f.generation = sharedCacheGeneration

(* The fetch's own cleanup: only the slot that is still its own.             *)
Release(i) ==
  /\ sharedInFlight' = [k \in Targets |-> IF sharedInFlight[k] = i THEN 0 ELSE sharedInFlight[k]]
  /\ sharedLoading' = (sharedLoading /\ \E k \in Targets : sharedInFlight'[k] # 0)
  /\ fetches' = [fetches EXCEPT ![i].stage = "settled", ![i].version = 0, ![i].waiters = {}]

(* The answer arrives: it is cached, expired entries are swept, and every    *)
(* waiting view that is still on the connection shows what the cache holds.  *)
SchemaAnswered(i) ==
  LET f == fetches[i]
  IN /\ f.stage = "served"
     /\ sharedCache' =
          IF ~cacheable(f) THEN sharedCache
          ELSE [k \in Targets |-> IF k = f.key THEN [version |-> f.version, fresh |-> TRUE]
                                  ELSE IF sharedCache[k].fresh THEN sharedCache[k] ELSE NoEntry]
     /\ Release(i)
     /\ views' = [v \in SchemaViews |->
          IF v \in f.waiters /\ views[v].conn = f.key /\ sharedCache'[f.key].version # 0
          THEN Show(views, v, f.key, sharedCache'[f.key].version)[v] ELSE views[v]]
     /\ UNCHANGED <<sidecarSchema, sharedCacheGeneration, refreshes, loads, refreshed, overtaken, promised>>

FetchFails(i) ==
  /\ i \in Unsettled
  /\ loads < MaxLoads /\ loads' = loads + 1
  /\ Release(i)
  /\ overtaken' = overtaken \cup fetches[i].waiters
  /\ UNCHANGED <<sidecarSchema, sharedCache, sharedCacheGeneration, refreshes, views, refreshed, promised>>

\* The entry's half hour is over; it stays until the next answer sweeps it.
Expire(k) ==
  /\ sharedCache[k].fresh
  /\ loads < MaxLoads /\ loads' = loads + 1
  /\ sharedCache' = [sharedCache EXCEPT ![k].fresh = FALSE]
  /\ UNCHANGED <<sidecarSchema, sharedInFlight, sharedCacheGeneration, sharedLoading, fetches,
                 refreshes, views, refreshed, overtaken, promised>>

(* refresh of the panel: the sidecar reloads, and its answer invalidates and *)
(* loads the connection that the panel is on by then.                        *)
Refresh ==
  /\ views[Panel].conn # NoTarget /\ ~sharedLoading
  /\ Cardinality(refreshes) < MaxRefreshes
  /\ refreshes' = refreshes \cup {[id |-> Cardinality(refreshes) + 1, key |-> views[Panel].conn, stage |-> "asked"]}
  /\ UNCHANGED <<sidecarSchema, sharedCache, sharedInFlight, sharedCacheGeneration, sharedLoading,
                 fetches, views, loads, refreshed, overtaken, promised>>

Reloaded(r, to) == refreshes' = (refreshes \ {r}) \cup {[r EXCEPT !.stage = to]}
ServeRefresh(r) ==
  /\ r.stage = "asked" /\ Reloaded(r, "served")
  /\ sidecarSchema' = [sidecarSchema EXCEPT ![r.key] = @ + 1]
  /\ UNCHANGED <<sharedCache, sharedInFlight, sharedCacheGeneration, sharedLoading,
                 fetches, views, loads, refreshed, overtaken, promised>>

\* invalidateSchema drops the entry and the slot of k, and the generation of all.
invalidateSchema(k) ==
  /\ sharedCacheGeneration' = sharedCacheGeneration + 1
  /\ sharedCache' = [sharedCache EXCEPT ![k] = NoEntry]
Refreshed(r) ==
  LET k == views[Panel].conn
  IN /\ r.stage = "served" /\ Reloaded(r, "answered")
     /\ invalidateSchema(k)
     /\ StartFetch(Panel, k, [sharedInFlight EXCEPT ![k] = 0])
     /\ refreshed' = IF r.key = k THEN [refreshed EXCEPT ![k] = sidecarSchema[k]] ELSE refreshed
     /\ promised' = [promised EXCEPT ![Panel] = refreshed'[k]]
     /\ overtaken' = (overtaken \cup {v \in SchemaViews : Waiting(v)}) \ {Panel}
     /\ UNCHANGED <<sidecarSchema, views, loads>>

SchemaNext ==
  \/ \E v \in SchemaViews, k \in Targets : ensureLoaded(v, k)
  \/ \E i \in DOMAIN fetches : ServeFetch(i) \/ SchemaAnswered(i) \/ FetchFails(i)
  \/ \E k \in Targets : Expire(k)
  \/ Refresh
  \/ \E r \in refreshes : ServeRefresh(r) \/ Refreshed(r)

SchemaSpec == SchemaInit /\ [][SchemaNext]_schemaVars

(* A schema that a refresh replaced does not come back: not into the cache,  *)
(* from where it would stay for half an hour, and not into a view that asked *)
(* after the refresh.  A view that is answered shows its own connection,     *)
(* unless its load failed or any connection was refreshed while it waited.   *)
(* The spinner turns only while there is a fetch that can end it.            *)
SchemaStaysFresh ==
  /\ \A k \in Targets : sharedCache[k].version = 0 \/ sharedCache[k].version >= refreshed[k]
  /\ \A v \in SchemaViews :
       views[v].conn # NoTarget /\ ~Waiting(v) /\ v \notin overtaken
         => views[v].of = views[v].conn /\ views[v].version >= promised[v]
  /\ sharedLoading => Unsettled # {}
  /\ \A k \in Targets : sharedInFlight[k] # 0 => sharedLoading /\ sharedInFlight[k] \in Unsettled
=============================================================================
