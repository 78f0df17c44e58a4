--------------------------- MODULE WorkbenchProofs --------------------------
(***************************************************************************)
(* Proofs about the parts of the workbench that are not its search: the     *)
(* schema cache under its views, the retries of the tree, the shell with    *)
(* its dialogs, batches, tabs and replays, the tabs of referenced entries,  *)
(* the entry editor, and the three ways to a new entry (the wizard, the     *)
(* copy, the import).  Each theorem holds for every value of its constants. *)
(***************************************************************************)
EXTENDS EntryEditor, SchemaView, Recovery, Shell, ReferenceTabs, NewEntries, FiniteSetTheorems,
        WellFoundedInduction, TLAPS

\* A set of numbers that is not empty has a least one.
LEMMA LeastNumber == ASSUME NEW S \in SUBSET Nat, S # {} PROVE \E m \in S : \A n \in S : m <= n
<1> DEFINE R == {p \in Nat \X Nat : p[1] < p[2]}
<1>1. IsWellFoundedOn(R, Nat)
  BY NatLessThanWellFounded DEF OpToRel
<1>2. \A m, n \in Nat : <<m, n>> \in R <=> m < n
  OBVIOUS
<1> HIDE DEF R
<1>3. PICK m \in S : \A n \in S : ~(<<n, m>> \in R)
  BY <1>1, WFMin
<1>4. ASSUME NEW n \in S PROVE m <= n
  <2>1. ~(n < m)
    BY <1>2, <1>3, Zenon
  <2> QED
    BY <2>1
<1> QED
  BY <1>4

\* A set of numbers below a bound that is not empty has a greatest one.
LEMMA GreatestNumber == ASSUME NEW b \in Nat, NEW S \in SUBSET (0..b), S # {} PROVE \E m \in S : \A n \in S : n <= m
<1> DEFINE T == {b - n : n \in S}
<1>1. T \in SUBSET Nat /\ T # {}
  <2>1. \A n \in S : b - n \in Nat
    OBVIOUS
  <2> QED
    BY <2>1
<1>2. PICK k \in T : \A l \in T : k <= l
  BY <1>1, LeastNumber
<1>3. PICK m \in S : k = b - m
  BY <1>2
<1>4. ASSUME NEW n \in S PROVE n <= m
  <2>1. b - n \in T
    OBVIOUS
  <2>2. b - m <= b - n
    BY <1>2, <1>3, <2>1
  <2> QED
    BY <2>2
<1> QED
  BY <1>4

(* ---------------------------- the schema cache --------------------------- *)
FetchTyped(f) ==
  /\ f \in [key : Targets, generation : Nat, waiters : SUBSET SchemaViews,
            stage : {"asked", "served", "settled"}, version : Nat]
  /\ f.generation <= sharedCacheGeneration
  /\ f.stage = "served" => f.version # 0
SchemaTypes ==
  /\ sidecarSchema \in [Targets -> Nat \ {0}] /\ refreshed \in [Targets -> Nat]
  /\ sharedCache \in [Targets -> [version : Nat, fresh : BOOLEAN]]
  /\ sharedInFlight \in [Targets -> Nat]
  /\ sharedCacheGeneration \in Nat /\ sharedLoading \in BOOLEAN
  /\ \E n \in Nat : DOMAIN fetches = 1..n
  /\ \A i \in DOMAIN fetches : FetchTyped(fetches[i])
  /\ \A r \in refreshes : r \in [id : {r.id}, key : Targets, stage : {"asked", "served", "answered"}]
  /\ refreshes # {} => views[Panel].conn \in Targets
  /\ views \in [SchemaViews -> [conn : Targets \cup {NoTarget}, of : Targets \cup {NoTarget}, version : Nat]]
  /\ promised \in [SchemaViews -> Nat] /\ overtaken \in SUBSET SchemaViews

\* A slot is of a fetch under way, and the spinner turns while one is taken.
Slots ==
  /\ \A k \in Targets : sharedInFlight[k] # 0 =>
       sharedLoading /\ sharedInFlight[k] \in Unsettled /\ fetches[sharedInFlight[k]].key = k
  /\ sharedLoading => \E k \in Targets : sharedInFlight[k] # 0

\* What is cached, or may be yet, is what the last refresh promised, or newer.
Versions ==
  /\ \A k \in Targets : /\ refreshed[k] <= sidecarSchema[k]
                        /\ sharedCache[k].version = 0 \/ sharedCache[k].version >= refreshed[k]
  /\ \A i \in DOMAIN fetches :
       fetches[i].stage = "served" /\ cacheable(fetches[i]) => fetches[i].version >= refreshed[fetches[i].key]
  /\ \A v \in SchemaViews : views[v].conn \in Targets => promised[v] <= refreshed[views[v].conn]

\* A view shows what it was promised, or its answer is to come and will be kept.
UpToDate(v) == views[v].of = views[v].conn /\ views[v].version >= promised[v]
Coming(v) == \E i \in Unsettled : v \in fetches[i].waiters /\ fetches[i].key = views[v].conn /\ cacheable(fetches[i])
Served == \A v \in SchemaViews : views[v].conn \in Targets /\ v \notin overtaken => UpToDate(v) \/ Coming(v)

SchemaInv == SchemaTypes /\ Slots /\ Versions /\ Served

USE SchemaAssumption

LEMMA SchemaInitInv == SchemaInit => SchemaInv
<1> SUFFICES ASSUME SchemaInit PROVE SchemaInv
  OBVIOUS
<1>1. DOMAIN fetches = 1..0 /\ DOMAIN fetches = {}
  <2>1. fetches = <<>>
    BY DEF SchemaInit
  <2> QED
    BY <2>1
<1>2. SchemaTypes
  <2>1. \E n \in Nat : DOMAIN fetches = 1..n
    BY <1>1
  <2>2. sidecarSchema \in [Targets -> Nat \ {0}] /\ sharedCache \in [Targets -> [version : Nat, fresh : BOOLEAN]]
    BY DEF SchemaInit, NoEntry
  <2>3. views \in [SchemaViews -> [conn : Targets \cup {NoTarget}, of : Targets \cup {NoTarget}, version : Nat]]
    BY DEF SchemaInit
  <2> QED
    BY <1>1, <2>1, <2>2, <2>3 DEF SchemaInit, SchemaTypes
<1>3. Slots /\ Versions /\ Served
  BY <1>1 DEF SchemaInit, Slots, Versions, Served, UpToDate, NoEntry
<1> QED
  BY <1>2, <1>3 DEF SchemaInv

\* A fetch under way leaves the table of slots with its answer or its failure.
LEMMA ReleaseKept ==
  ASSUME SchemaInv, NEW i \in Unsettled, Release(i), UNCHANGED sharedCacheGeneration
  PROVE  /\ sharedInFlight' \in [Targets -> Nat] /\ sharedLoading' \in BOOLEAN
         /\ DOMAIN fetches' = DOMAIN fetches
         /\ \A j \in DOMAIN fetches : FetchTyped(fetches[j])'
         /\ Unsettled' = Unsettled \ {i}
         /\ \A j \in DOMAIN fetches \ {i} : fetches'[j] = fetches[j]
         /\ fetches'[i].stage = "settled"
         /\ Slots'
<1>0. SchemaTypes /\ Slots
  BY DEF SchemaInv
<1>1. /\ sharedInFlight' = [k \in Targets |-> IF sharedInFlight[k] = i THEN 0 ELSE sharedInFlight[k]]
      /\ sharedLoading' = (sharedLoading /\ \E k \in Targets : sharedInFlight'[k] # 0)
      /\ fetches' = [fetches EXCEPT ![i].stage = "settled", ![i].version = 0, ![i].waiters = {}]
  BY DEF Release
<1>2. i \in DOMAIN fetches /\ FetchTyped(fetches[i])
  BY <1>0 DEF Unsettled, SchemaTypes
<1>3. /\ DOMAIN fetches' = DOMAIN fetches /\ \A j \in DOMAIN fetches \ {i} : fetches'[j] = fetches[j]
      /\ fetches'[i] \in [key : Targets, generation : Nat, waiters : SUBSET SchemaViews,
                          stage : {"asked", "served", "settled"}, version : Nat]
      /\ fetches'[i].stage = "settled" /\ fetches'[i].generation = fetches[i].generation
  BY <1>1, <1>2 DEF FetchTyped
<1>4. \A j \in DOMAIN fetches : FetchTyped(fetches[j])'
  BY <1>0, <1>2, <1>3 DEF FetchTyped, SchemaTypes
<1>5. Unsettled' = Unsettled \ {i}
  BY <1>2, <1>3 DEF Unsettled
<1>6. sharedInFlight' \in [Targets -> Nat] /\ sharedLoading' \in BOOLEAN
  BY <1>0, <1>1 DEF SchemaTypes
<1>7. \A k \in Targets : sharedInFlight'[k] # 0 => sharedInFlight'[k] = sharedInFlight[k] /\ sharedInFlight[k] # i
  BY <1>1
<1>8. Slots'
  <2>1. ASSUME NEW k \in Targets, sharedInFlight'[k] # 0
        PROVE  sharedLoading' /\ sharedInFlight'[k] \in Unsettled' /\ fetches'[sharedInFlight'[k]].key = k
    <3>1. sharedLoading /\ sharedInFlight[k] \in Unsettled /\ fetches[sharedInFlight[k]].key = k
      BY <1>0, <1>7, <2>1 DEF Slots
    <3>2. sharedLoading'
      BY <1>1, <2>1, <3>1
    <3> QED
      BY <1>3, <1>5, <1>7, <2>1, <3>1, <3>2 DEF Unsettled
  <2>2. sharedLoading' => \E k \in Targets : sharedInFlight'[k] # 0
    BY <1>1
  <2> QED
    BY <2>1, <2>2 DEF Slots
<1> QED
  BY <1>3, <1>4, <1>5, <1>6, <1>8

LEMMA AnswerKept == ASSUME SchemaInv, NEW i \in DOMAIN fetches, SchemaAnswered(i) PROVE SchemaInv'
<1>0. SchemaTypes /\ Slots /\ Versions /\ Served
  BY DEF SchemaInv
<1> DEFINE f == fetches[i]
<1>1. /\ f.stage = "served" /\ Release(i)
      /\ sharedCache' =
          IF ~cacheable(f) THEN sharedCache
          ELSE [k \in Targets |-> IF k = f.key THEN [version |-> f.version, fresh |-> TRUE]
                                  ELSE IF sharedCache[k].fresh THEN sharedCache[k] ELSE NoEntry]
      /\ views' = [v \in SchemaViews |->
          IF v \in f.waiters /\ views[v].conn = f.key /\ sharedCache'[f.key].version # 0
          THEN Show(views, v, f.key, sharedCache'[f.key].version)[v] ELSE views[v]]
      /\ UNCHANGED <<sidecarSchema, sharedCacheGeneration, refreshes, loads, refreshed, overtaken, promised>>
  BY DEF SchemaAnswered
<1>2. FetchTyped(f) /\ i \in Unsettled /\ f.version # 0 /\ f.key \in Targets /\ f.version \in Nat
  BY <1>0, <1>1 DEF SchemaTypes, FetchTyped, Unsettled
<1>3. /\ sharedInFlight' \in [Targets -> Nat] /\ sharedLoading' \in BOOLEAN
      /\ DOMAIN fetches' = DOMAIN fetches /\ \A j \in DOMAIN fetches : FetchTyped(fetches[j])'
      /\ Unsettled' = Unsettled \ {i} /\ \A j \in DOMAIN fetches \ {i} : fetches'[j] = fetches[j]
      /\ fetches'[i].stage = "settled" /\ Slots'
  BY <1>1, <1>2, ReleaseKept
<1>4. sharedCache' \in [Targets -> [version : Nat, fresh : BOOLEAN]]
  BY <1>0, <1>1, <1>2 DEF SchemaTypes, NoEntry
<1>5. ASSUME NEW v \in SchemaViews
      PROVE  /\ views'[v] \in [conn : Targets \cup {NoTarget}, of : Targets \cup {NoTarget}, version : Nat]
             /\ views'[v].conn = views[v].conn
             /\ v \in f.waiters /\ views[v].conn = f.key /\ sharedCache'[f.key].version # 0 =>
                  views'[v].of = f.key /\ views'[v].version = sharedCache'[f.key].version
             /\ ~(v \in f.waiters /\ views[v].conn = f.key /\ sharedCache'[f.key].version # 0) => views'[v] = views[v]
  <2>1. views[v] \in [conn : Targets \cup {NoTarget}, of : Targets \cup {NoTarget}, version : Nat]
        /\ views \in [SchemaViews -> [conn : Targets \cup {NoTarget}, of : Targets \cup {NoTarget}, version : Nat]]
    BY <1>0 DEF SchemaTypes
  <2>2. sharedCache'[f.key].version \in Nat
    BY <1>2, <1>4
  <2>3. CASE v \in f.waiters /\ views[v].conn = f.key /\ sharedCache'[f.key].version # 0
    <3>1. views'[v] = Show(views, v, f.key, sharedCache'[f.key].version)[v]
      BY <1>1, <2>3
    <3>2. views'[v] = [views[v] EXCEPT !.of = f.key, !.version = sharedCache'[f.key].version]
      BY <2>1, <3>1 DEF Show
    <3> QED
      BY <1>2, <2>1, <2>2, <2>3, <3>2
  <2>4. CASE ~(v \in f.waiters /\ views[v].conn = f.key /\ sharedCache'[f.key].version # 0)
    BY <1>1, <2>1, <2>4
  <2> QED
    BY <2>3, <2>4
<1>11. cacheable(f) => \A k \in Targets : k = f.key => sharedCache'[k] = [version |-> f.version, fresh |-> TRUE]
  BY <1>1 DEF cacheable
<1> HIDE DEF f
<1>6. views' \in [SchemaViews -> [conn : Targets \cup {NoTarget}, of : Targets \cup {NoTarget}, version : Nat]]
  BY <1>1, <1>5
<1>7. SchemaTypes'
  BY <1>0, <1>1, <1>3, <1>4, <1>5, <1>6 DEF SchemaTypes
<1>8. \A k \in Targets : sharedCache'[k].version = 0 \/ sharedCache'[k].version >= refreshed[k]
  <2> SUFFICES ASSUME NEW k \in Targets PROVE sharedCache'[k].version = 0 \/ sharedCache'[k].version >= refreshed[k]
    OBVIOUS
  <2>1. sharedCache[k].version = 0 \/ sharedCache[k].version >= refreshed[k]
    BY <1>0 DEF Versions
  <2>2. cacheable(f) => f.version >= refreshed[f.key]
    BY <1>0, <1>1 DEF Versions, f
  <2> QED
    BY <1>1, <2>1, <2>2 DEF NoEntry
<1>9. Versions'
  <2>1. \A j \in DOMAIN fetches' :
          fetches'[j].stage = "served" /\ cacheable(fetches[j])' => fetches'[j].version >= refreshed'[fetches'[j].key]
    BY <1>0, <1>1, <1>3 DEF Versions, cacheable
  <2> QED
    BY <1>0, <1>1, <1>5, <1>8, <2>1 DEF Versions, cacheable
<1>10. Served'
  <2> SUFFICES ASSUME NEW v \in SchemaViews, views[v].conn \in Targets, v \notin overtaken PROVE UpToDate(v)' \/ Coming(v)'
    BY <1>1, <1>5 DEF Served
  <2>1. promised[v] <= refreshed[views[v].conn] /\ promised[v] \in Nat /\ refreshed \in [Targets -> Nat]
    BY <1>0 DEF Versions, SchemaTypes
  <2>2. CASE v \in f.waiters /\ views[v].conn = f.key /\ sharedCache'[f.key].version # 0
    <3>1. sharedCache'[f.key].version >= refreshed[f.key] /\ sharedCache'[f.key].version \in Nat
      BY <1>2, <1>4, <1>8, <2>2
    <3>2. sharedCache'[f.key].version >= promised[v] /\ promised' = promised
      BY <1>1, <1>2, <2>1, <2>2, <3>1
    <3> QED
      BY <1>5, <2>2, <3>2 DEF UpToDate
  <2>3. CASE ~(v \in f.waiters /\ views[v].conn = f.key /\ sharedCache'[f.key].version # 0)
    <3>1. views'[v] = views[v] /\ promised' = promised
      BY <1>1, <1>5, <2>3
    <3>2. UpToDate(v) => UpToDate(v)'
      BY <3>1 DEF UpToDate
    <3>3. ASSUME Coming(v) PROVE Coming(v)'
      <4>1. PICK j \in Unsettled : v \in fetches[j].waiters /\ fetches[j].key = views[v].conn /\ cacheable(fetches[j])
        BY <3>3 DEF Coming
      <4>2. j # i
        <5> SUFFICES ASSUME j = i PROVE FALSE
          OBVIOUS
        <5>1. cacheable(f) /\ v \in f.waiters /\ views[v].conn = f.key
          BY <4>1 DEF f
        <5>2. sharedCache'[f.key].version = f.version
          BY <1>2, <1>11, <5>1
        <5> QED
          BY <1>2, <2>3, <5>1, <5>2
      <4>3. j \in Unsettled' /\ fetches'[j] = fetches[j]
        BY <1>3, <4>1, <4>2 DEF Unsettled
      <4> QED
        BY <1>1, <3>1, <4>1, <4>3 DEF Coming, cacheable
    <3> QED
      BY <1>0, <3>2, <3>3 DEF Served
  <2> QED
    BY <2>2, <2>3
<1> QED
  BY <1>3, <1>7, <1>9, <1>10 DEF SchemaInv

LEMMA FailureKept == ASSUME SchemaInv, NEW i \in DOMAIN fetches, FetchFails(i) PROVE SchemaInv'
<1>0. SchemaTypes /\ Slots /\ Versions /\ Served
  BY DEF SchemaInv
<1>1. /\ i \in Unsettled /\ Release(i) /\ overtaken' = overtaken \cup fetches[i].waiters
      /\ UNCHANGED <<sidecarSchema, sharedCache, sharedCacheGeneration, refreshes, views, refreshed, promised>>
  BY DEF FetchFails
<1>2. /\ sharedInFlight' \in [Targets -> Nat] /\ sharedLoading' \in BOOLEAN
      /\ DOMAIN fetches' = DOMAIN fetches /\ \A j \in DOMAIN fetches : FetchTyped(fetches[j])'
      /\ Unsettled' = Unsettled \ {i} /\ \A j \in DOMAIN fetches \ {i} : fetches'[j] = fetches[j]
      /\ fetches'[i].stage = "settled" /\ Slots'
  BY <1>1, ReleaseKept
<1>3. overtaken' \in SUBSET SchemaViews
  BY <1>0, <1>1 DEF SchemaTypes, FetchTyped
<1>4. SchemaTypes'
  BY <1>0, <1>1, <1>2, <1>3 DEF SchemaTypes
<1>5. Versions'
  BY <1>0, <1>1, <1>2 DEF Versions, cacheable
<1>6. Served'
  <2> SUFFICES ASSUME NEW v \in SchemaViews, views[v].conn \in Targets, v \notin overtaken' PROVE UpToDate(v)' \/ Coming(v)'
    BY <1>1 DEF Served
  <2>1. UpToDate(v) => UpToDate(v)'
    BY <1>1 DEF UpToDate
  <2>2. ASSUME Coming(v) PROVE Coming(v)'
    <3>1. PICK j \in Unsettled : v \in fetches[j].waiters /\ fetches[j].key = views[v].conn /\ cacheable(fetches[j])
      BY <2>2 DEF Coming
    <3>2. j # i
      BY <1>1, <3>1
    <3>3. j \in Unsettled' /\ fetches'[j] = fetches[j]
      BY <1>2, <3>1, <3>2 DEF Unsettled
    <3> QED
      BY <1>1, <3>1, <3>3 DEF Coming, cacheable
  <2> QED
    BY <1>0, <1>1, <2>1, <2>2 DEF Served
<1> QED
  BY <1>2, <1>4, <1>5, <1>6 DEF SchemaInv

LEMMA ServedKept == ASSUME SchemaInv, NEW i \in DOMAIN fetches, ServeFetch(i) PROVE SchemaInv'
<1>0. SchemaTypes /\ Slots /\ Versions /\ Served
  BY DEF SchemaInv
<1>1. /\ fetches[i].stage = "asked"
      /\ fetches' = [fetches EXCEPT ![i].stage = "served", ![i].version = sidecarSchema[fetches[i].key]]
      /\ UNCHANGED <<sidecarSchema, sharedCache, sharedInFlight, sharedCacheGeneration, sharedLoading,
                     refreshes, views, loads, refreshed, overtaken, promised>>
  BY DEF ServeFetch
<1>2. FetchTyped(fetches[i]) /\ fetches[i].key \in Targets /\ sidecarSchema[fetches[i].key] \in Nat \ {0}
  BY <1>0 DEF SchemaTypes, FetchTyped
<1>3. /\ DOMAIN fetches' = DOMAIN fetches /\ \A j \in DOMAIN fetches \ {i} : fetches'[j] = fetches[j]
      /\ fetches'[i] \in [key : Targets, generation : Nat, waiters : SUBSET SchemaViews,
                          stage : {"asked", "served", "settled"}, version : Nat]
      /\ fetches'[i].stage = "served" /\ fetches'[i].version = sidecarSchema[fetches[i].key]
      /\ fetches'[i].key = fetches[i].key /\ fetches'[i].generation = fetches[i].generation
      /\ fetches'[i].waiters = fetches[i].waiters
  BY <1>1, <1>2 DEF FetchTyped
<1>4. Unsettled' = Unsettled
  BY <1>1, <1>3 DEF Unsettled
<1>5. \A j \in DOMAIN fetches : FetchTyped(fetches[j])'
  BY <1>0, <1>1, <1>2, <1>3 DEF FetchTyped, SchemaTypes
<1>6. SchemaTypes'
  BY <1>0, <1>1, <1>3, <1>5 DEF SchemaTypes
<1>7. Slots'
  BY <1>0, <1>1, <1>3, <1>4 DEF Slots, Unsettled
<1>8. Versions'
  BY <1>0, <1>1, <1>2, <1>3 DEF Versions, cacheable
<1>9. Served'
  <2> SUFFICES ASSUME NEW v \in SchemaViews, views[v].conn \in Targets, v \notin overtaken PROVE UpToDate(v)' \/ Coming(v)'
    BY <1>1 DEF Served
  <2>1. UpToDate(v) \/ Coming(v)
    BY <1>0, <1>1 DEF Served
  <2>2. UpToDate(v) => UpToDate(v)'
    BY <1>1 DEF UpToDate
  <2>3. Coming(v) => Coming(v)'
    BY <1>1, <1>3, <1>4 DEF Coming, cacheable, Unsettled
  <2> QED
    BY <2>1, <2>2, <2>3
<1> QED
  BY <1>6, <1>7, <1>8, <1>9 DEF SchemaInv

\* A fetch that is started is the one of its slot, and its answer will be kept.
LEMMA StartKept ==
  ASSUME SchemaInv, NEW v \in SchemaViews, NEW k \in Targets, NEW flight, StartFetch(v, k, flight),
         flight \in [Targets -> Nat], \A l \in Targets : flight[l] \in {0, sharedInFlight[l]},
         sharedCacheGeneration' \in Nat, sharedCacheGeneration' >= sharedCacheGeneration
  PROVE  /\ sharedInFlight' \in [Targets -> Nat] /\ sharedLoading' \in BOOLEAN
         /\ \E n \in Nat : DOMAIN fetches' = 1..n
         /\ \A j \in DOMAIN fetches' : FetchTyped(fetches[j])'
         /\ \E id \in DOMAIN fetches' :
              /\ id \in Unsettled' /\ fetches'[id].key = k /\ v \in fetches'[id].waiters
              /\ fetches'[id].generation = sharedCacheGeneration' /\ fetches'[id].stage = "asked"
              /\ DOMAIN fetches' = DOMAIN fetches \cup {id} /\ id \notin DOMAIN fetches
         /\ \A j \in DOMAIN fetches : fetches'[j] = fetches[j]
         /\ Slots'
<1>0. SchemaTypes /\ Slots
  BY DEF SchemaInv
<1>1. PICK n \in Nat : DOMAIN fetches = 1..n
  BY <1>0 DEF SchemaTypes
<1>2. Cardinality(DOMAIN fetches) = n
  BY <1>1, FS_Interval
<1> DEFINE id == n + 1
           new == [key |-> k, generation |-> sharedCacheGeneration', waiters |-> {v}, stage |-> "asked", version |-> 0]
<1>3. /\ fetches' = [i \in 1..id |-> IF i = id THEN new ELSE fetches[i]]
      /\ sharedInFlight' = [flight EXCEPT ![k] = id] /\ sharedLoading' = TRUE
  BY <1>2 DEF StartFetch
<1>4. /\ DOMAIN fetches' = 1..id /\ fetches'[id] = new /\ \A j \in 1..n : fetches'[j] = fetches[j]
      /\ 1..id = (1..n) \cup {id} /\ id \notin 1..n /\ id \in Nat /\ id # 0
  BY <1>3
<1>5. new \in [key : Targets, generation : Nat, waiters : SUBSET SchemaViews,
               stage : {"asked", "served", "settled"}, version : Nat]
  OBVIOUS
<1> HIDE DEF id
<1>6. sharedInFlight' \in [Targets -> Nat] /\ sharedInFlight'[k] = id
      /\ \A l \in Targets \ {k} : sharedInFlight'[l] = flight[l]
  BY <1>3, <1>4
<1>7. \A j \in DOMAIN fetches' : FetchTyped(fetches[j])'
  <2>1. FetchTyped(fetches[id])'
    BY <1>4, <1>5 DEF FetchTyped
  <2>2. ASSUME NEW j \in DOMAIN fetches PROVE FetchTyped(fetches[j])'
    <3>1. FetchTyped(fetches[j]) /\ fetches'[j] = fetches[j] /\ sharedCacheGeneration \in Nat
      BY <1>0, <1>1, <1>4 DEF SchemaTypes
    <3> QED
      BY <3>1 DEF FetchTyped
  <2> QED
    BY <1>1, <1>4, <2>1, <2>2
<1>8. id \in Unsettled' /\ Unsettled \subseteq Unsettled'
  BY <1>1, <1>4 DEF Unsettled
<1>9. Slots'
  <2>1. ASSUME NEW l \in Targets, sharedInFlight'[l] # 0
        PROVE  sharedLoading' /\ sharedInFlight'[l] \in Unsettled' /\ fetches'[sharedInFlight'[l]].key = l
    <3>1. CASE l = k
      BY <1>3, <1>4, <1>6, <1>8, <3>1
    <3>2. CASE l # k
      <4>1. sharedInFlight'[l] = sharedInFlight[l] /\ sharedInFlight[l] # 0
        BY <1>6, <2>1, <3>2
      <4>2. sharedInFlight[l] \in Unsettled /\ fetches[sharedInFlight[l]].key = l
        BY <1>0, <4>1 DEF Slots
      <4> QED
        BY <1>1, <1>3, <1>4, <1>8, <4>1, <4>2 DEF Unsettled
    <3> QED
      BY <3>1, <3>2
  <2> QED
    BY <1>4, <1>6, <2>1 DEF Slots
<1>10. sharedLoading' \in BOOLEAN
  BY <1>3
<1>11. id \in DOMAIN fetches' /\ DOMAIN fetches' = DOMAIN fetches \cup {id} /\ id \notin DOMAIN fetches
       /\ fetches'[id].key = k /\ v \in fetches'[id].waiters
       /\ fetches'[id].generation = sharedCacheGeneration' /\ fetches'[id].stage = "asked"
  BY <1>1, <1>4
<1> QED
  BY <1>1, <1>4, <1>6, <1>7, <1>8, <1>9, <1>10, <1>11

LEMMA LoadKept == ASSUME SchemaInv, NEW v \in SchemaViews, NEW k \in Targets, ensureLoaded(v, k) PROVE SchemaInv'
<1>0. SchemaTypes /\ Slots /\ Versions /\ Served
  BY DEF SchemaInv
<1>1. /\ UNCHANGED <<sharedCacheGeneration, sharedCache, sidecarSchema, refreshes, refreshed>>
      /\ promised' = [promised EXCEPT ![v] = refreshed[k]]
      /\ overtaken' = IF sharedInFlight[k] # 0 /\ fetches[sharedInFlight[k]].generation < sharedCacheGeneration
                      THEN overtaken \cup {v} ELSE overtaken \ {v}
  BY DEF ensureLoaded
<1>2. /\ promised' \in [SchemaViews -> Nat] /\ overtaken' \in SUBSET SchemaViews
      /\ promised'[v] = refreshed[k] /\ \A w \in SchemaViews \ {v} : promised'[w] = promised[w]
      /\ \A w \in SchemaViews \ {v} : w \in overtaken <=> w \in overtaken'
  BY <1>0, <1>1 DEF SchemaTypes
<1> DEFINE ViewSet == [conn : Targets \cup {NoTarget}, of : Targets \cup {NoTarget}, version : Nat]
\* The other views stay as they are, and their answers stay to come.
<1>3. ASSUME /\ views' \in [SchemaViews -> ViewSet] /\ views'[v].conn = k
             /\ \A w \in SchemaViews \ {v} : views'[w] = views[w]
             /\ v \notin overtaken' => UpToDate(v)' \/ Coming(v)'
             /\ \A j \in DOMAIN fetches : j \in DOMAIN fetches' /\ FetchTyped(fetches[j])'
             /\ \A j \in DOMAIN fetches :
                  /\ fetches'[j].key = fetches[j].key /\ fetches'[j].generation = fetches[j].generation
                  /\ fetches'[j].stage = fetches[j].stage /\ fetches'[j].version = fetches[j].version
                  /\ fetches[j].waiters \subseteq fetches'[j].waiters
             /\ \A j \in DOMAIN fetches' \ DOMAIN fetches : fetches'[j].stage = "asked" /\ FetchTyped(fetches[j])'
             /\ \E n \in Nat : DOMAIN fetches' = 1..n
             /\ sharedInFlight' \in [Targets -> Nat] /\ sharedLoading' \in BOOLEAN /\ Slots'
      PROVE  SchemaInv'
  <2>1. SchemaTypes'
    <3>1. refreshes' # {} => views'[Panel].conn \in Targets
      BY <1>0, <1>1, <1>3 DEF SchemaTypes
    <3>2. \A j \in DOMAIN fetches' : FetchTyped(fetches[j])'
      BY <1>3
    <3> QED
      BY <1>0, <1>1, <1>2, <1>3, <3>1, <3>2 DEF SchemaTypes
  <2>2. Versions'
    <3>1. \A w \in SchemaViews : views'[w].conn \in Targets => promised'[w] <= refreshed'[views'[w].conn]
      <4>1. refreshed[k] \in Nat /\ promised'[v] = refreshed'[views'[v].conn]
        BY <1>0, <1>1, <1>2, <1>3 DEF SchemaTypes
      <4> QED
        BY <1>0, <1>1, <1>2, <1>3, <4>1 DEF Versions
    <3>2. \A j \in DOMAIN fetches' :
            fetches'[j].stage = "served" /\ cacheable(fetches[j])' => fetches'[j].version >= refreshed'[fetches'[j].key]
      BY <1>0, <1>1, <1>3 DEF Versions, cacheable
    <3> QED
      BY <1>0, <1>1, <3>1, <3>2 DEF Versions
  <2>3. ASSUME NEW w \in SchemaViews \ {v}, views[w].conn \in Targets, w \notin overtaken PROVE UpToDate(w)' \/ Coming(w)'
    <3>1. UpToDate(w) => UpToDate(w)'
      BY <1>2, <1>3 DEF UpToDate
    <3>2. Coming(w) => Coming(w)'
      BY <1>1, <1>3 DEF Coming, Unsettled, cacheable
    <3> QED
      BY <1>0, <2>3, <3>1, <3>2 DEF Served
  <2>4. Served'
    BY <1>2, <1>3, <2>3 DEF Served
  <2> QED
    BY <1>3, <2>1, <2>2, <2>4 DEF SchemaInv
<1>4. CASE sharedCache[k].version # 0 /\ sharedCache[k].fresh
  <2>1. /\ views' = Show([views EXCEPT ![v].conn = k], v, k, sharedCache[k].version)
        /\ UNCHANGED <<fetches, sharedInFlight, sharedLoading>>
    BY <1>4 DEF ensureLoaded, Hit
  <2>2. sharedCache[k].version \in Nat /\ views \in [SchemaViews -> ViewSet]
    BY <1>0 DEF SchemaTypes
  <2>3. /\ views' \in [SchemaViews -> ViewSet] /\ views'[v].conn = k /\ views'[v].of = k
        /\ views'[v].version = sharedCache[k].version /\ \A w \in SchemaViews \ {v} : views'[w] = views[w]
    BY <2>1, <2>2 DEF Show
  <2>4. UpToDate(v)'
    BY <1>0, <1>2, <1>4, <2>3 DEF UpToDate, Versions
  <2>5. Slots'
    BY <1>0, <2>1 DEF Slots, Unsettled
  <2>6. \A j \in DOMAIN fetches : FetchTyped(fetches[j])'
    BY <1>0, <1>1, <2>1 DEF SchemaTypes, FetchTyped
  <2>7. sharedInFlight' \in [Targets -> Nat] /\ sharedLoading' \in BOOLEAN /\ \E n \in Nat : DOMAIN fetches' = 1..n
    BY <1>0, <2>1 DEF SchemaTypes
  <2> HIDE DEF ViewSet
  <2> QED
    BY <1>3, <2>1, <2>3, <2>4, <2>5, <2>6, <2>7
<1>5. CASE ~(sharedCache[k].version # 0 /\ sharedCache[k].fresh)
  <2>1. views' = [views EXCEPT ![v].conn = k]
        /\ IF sharedInFlight[k] # 0 THEN Join(v, k) ELSE StartFetch(v, k, sharedInFlight)
    BY <1>5 DEF ensureLoaded
  <2>2. /\ views' \in [SchemaViews -> ViewSet] /\ views'[v].conn = k
        /\ \A w \in SchemaViews \ {v} : views'[w] = views[w]
    <3>1. views \in [SchemaViews -> ViewSet]
      BY <1>0 DEF SchemaTypes
    <3> QED
      BY <2>1, <3>1
  <2> HIDE DEF ViewSet
  <2>3. CASE sharedInFlight[k] # 0
    <3> DEFINE i == sharedInFlight[k]
    <3>1. /\ fetches' = [fetches EXCEPT ![i].waiters = @ \cup {v}] /\ UNCHANGED <<sharedInFlight, sharedLoading>>
      BY <2>1, <2>3 DEF Join
    <3>2. i \in Unsettled /\ i \in DOMAIN fetches /\ fetches[i].key = k /\ FetchTyped(fetches[i])
      BY <1>0, <2>3 DEF Slots, Unsettled, SchemaTypes
    <3> HIDE DEF i
    <3>3. /\ DOMAIN fetches' = DOMAIN fetches /\ \A j \in DOMAIN fetches \ {i} : fetches'[j] = fetches[j]
          /\ fetches'[i] \in [key : Targets, generation : Nat, waiters : SUBSET SchemaViews,
                              stage : {"asked", "served", "settled"}, version : Nat]
          /\ fetches'[i].stage = fetches[i].stage /\ fetches'[i].version = fetches[i].version
          /\ fetches'[i].key = fetches[i].key /\ fetches'[i].generation = fetches[i].generation
          /\ fetches'[i].waiters = fetches[i].waiters \cup {v}
      BY <3>1, <3>2 DEF FetchTyped
    <3>4. \A j \in DOMAIN fetches : FetchTyped(fetches[j])'
      BY <1>0, <1>1, <3>2, <3>3 DEF FetchTyped, SchemaTypes
    <3>5. Unsettled' = Unsettled
      BY <3>3 DEF Unsettled
    <3>6. Slots'
      BY <1>0, <3>1, <3>3, <3>5 DEF Slots, Unsettled
    <3>7. v \notin overtaken' => Coming(v)'
      <4>1. v \notin overtaken' => fetches[i].generation = sharedCacheGeneration
        BY <1>0, <1>1, <2>3, <3>2 DEF FetchTyped, SchemaTypes, i
      <4> QED
        BY <1>1, <2>2, <3>2, <3>3, <3>5, <4>1 DEF Coming, cacheable
    <3>8. sharedInFlight' \in [Targets -> Nat] /\ sharedLoading' \in BOOLEAN /\ \E n \in Nat : DOMAIN fetches' = 1..n
      BY <1>0, <3>1, <3>3 DEF SchemaTypes
    <3> QED
      BY <1>3, <2>2, <3>3, <3>4, <3>6, <3>7, <3>8
  <2>4. CASE sharedInFlight[k] = 0
    <3>0. sharedInFlight \in [Targets -> Nat] /\ sharedCacheGeneration' \in Nat /\ sharedCacheGeneration' >= sharedCacheGeneration
      BY <1>0, <1>1 DEF SchemaTypes
    <3>1. /\ sharedInFlight' \in [Targets -> Nat] /\ sharedLoading' \in BOOLEAN
          /\ \E n \in Nat : DOMAIN fetches' = 1..n
          /\ \A j \in DOMAIN fetches' : FetchTyped(fetches[j])'
          /\ \E id \in DOMAIN fetches' :
               /\ id \in Unsettled' /\ fetches'[id].key = k /\ v \in fetches'[id].waiters
               /\ fetches'[id].generation = sharedCacheGeneration' /\ fetches'[id].stage = "asked"
               /\ DOMAIN fetches' = DOMAIN fetches \cup {id} /\ id \notin DOMAIN fetches
          /\ \A j \in DOMAIN fetches : fetches'[j] = fetches[j]
          /\ Slots'
      BY <2>1, <2>4, <3>0, StartKept
    <3>2. Coming(v)'
      BY <2>2, <3>1 DEF Coming, cacheable
    <3> QED
      BY <1>3, <2>2, <3>1, <3>2
  <2> QED
    BY <2>3, <2>4
<1> QED
  BY <1>4, <1>5

LEMMA ExpireKept == ASSUME SchemaInv, NEW k \in Targets, Expire(k) PROVE SchemaInv'
<1>0. SchemaTypes /\ Slots /\ Versions /\ Served
  BY DEF SchemaInv
<1>1. /\ sharedCache' = [sharedCache EXCEPT ![k].fresh = FALSE]
      /\ UNCHANGED <<sidecarSchema, sharedInFlight, sharedCacheGeneration, sharedLoading, fetches,
                     refreshes, views, refreshed, overtaken, promised>>
  BY DEF Expire
<1>2. sharedCache' \in [Targets -> [version : Nat, fresh : BOOLEAN]]
      /\ \A l \in Targets : sharedCache'[l].version = sharedCache[l].version
  BY <1>0, <1>1 DEF SchemaTypes
<1>3. SchemaTypes'
  BY <1>0, <1>1, <1>2 DEF SchemaTypes, FetchTyped
<1>4. Slots' /\ Served'
  BY <1>0, <1>1 DEF Slots, Served, UpToDate, Coming, Unsettled, cacheable
<1>5. Versions'
  BY <1>0, <1>1, <1>2 DEF Versions, cacheable
<1> QED
  BY <1>3, <1>4, <1>5 DEF SchemaInv

LEMMA RefreshKept == ASSUME SchemaInv, Refresh PROVE SchemaInv'
<1>0. SchemaTypes /\ Slots /\ Versions /\ Served
  BY DEF SchemaInv
<1>1. /\ views[Panel].conn # NoTarget
      /\ refreshes' = refreshes \cup {[id |-> Cardinality(refreshes) + 1, key |-> views[Panel].conn, stage |-> "asked"]}
      /\ UNCHANGED <<sidecarSchema, sharedCache, sharedInFlight, sharedCacheGeneration, sharedLoading,
                     fetches, views, loads, refreshed, overtaken, promised>>
  BY DEF Refresh
<1>2. views[Panel].conn \in Targets
  BY <1>0, <1>1 DEF SchemaTypes
<1>3. \A q \in refreshes' : q \in [id : {q.id}, key : Targets, stage : {"asked", "served", "answered"}]
  BY <1>0, <1>1, <1>2 DEF SchemaTypes
<1>4. SchemaTypes'
  BY <1>0, <1>1, <1>2, <1>3 DEF SchemaTypes, FetchTyped
<1>5. Slots' /\ Served' /\ Versions'
  BY <1>0, <1>1 DEF Slots, Served, UpToDate, Coming, Unsettled, Versions, cacheable
<1> QED
  BY <1>4, <1>5 DEF SchemaInv

LEMMA ReloadKept == ASSUME SchemaInv, NEW r \in refreshes, ServeRefresh(r) PROVE SchemaInv'
<1>0. SchemaTypes /\ Slots /\ Versions /\ Served
  BY DEF SchemaInv
<1>1. /\ refreshes' = (refreshes \ {r}) \cup {[r EXCEPT !.stage = "served"]}
      /\ sidecarSchema' = [sidecarSchema EXCEPT ![r.key] = @ + 1]
      /\ UNCHANGED <<sharedCache, sharedInFlight, sharedCacheGeneration, sharedLoading,
                     fetches, views, loads, refreshed, overtaken, promised>>
  BY DEF ServeRefresh, Reloaded
<1>2. \A q \in refreshes' : q \in [id : {q.id}, key : Targets, stage : {"asked", "served", "answered"}]
  BY <1>0, <1>1 DEF SchemaTypes
<1>3. sidecarSchema' \in [Targets -> Nat \ {0}] /\ \A k \in Targets : sidecarSchema'[k] >= sidecarSchema[k]
  BY <1>0, <1>1 DEF SchemaTypes
<1>4. SchemaTypes'
  BY <1>0, <1>1, <1>2, <1>3 DEF SchemaTypes, FetchTyped
<1>5. Slots' /\ Served'
  BY <1>0, <1>1 DEF Slots, Served, UpToDate, Coming, Unsettled, cacheable
<1>6. Versions'
  <2>1. \A k \in Targets : refreshed[k] <= sidecarSchema'[k]
    <3>1. \A k \in Targets : refreshed[k] \in Nat /\ sidecarSchema[k] \in Nat /\ sidecarSchema'[k] \in Nat
      BY <1>0, <1>3 DEF SchemaTypes
    <3> QED
      BY <1>0, <1>3, <3>1 DEF Versions
  <2> QED
    BY <1>0, <1>1, <2>1 DEF Versions, cacheable
<1> QED
  BY <1>4, <1>5, <1>6 DEF SchemaInv

LEMMA RefreshedKept == ASSUME SchemaInv, NEW r \in refreshes, Refreshed(r) PROVE SchemaInv'
<1>0. SchemaTypes /\ Slots /\ Versions /\ Served
  BY DEF SchemaInv
<1> DEFINE k == views[Panel].conn
           flight == [sharedInFlight EXCEPT ![k] = 0]
<1>1. /\ refreshes' = (refreshes \ {r}) \cup {[r EXCEPT !.stage = "answered"]}
      /\ sharedCacheGeneration' = sharedCacheGeneration + 1
      /\ sharedCache' = [sharedCache EXCEPT ![k] = NoEntry]
      /\ StartFetch(Panel, k, flight)
      /\ refreshed' = IF r.key = k THEN [refreshed EXCEPT ![k] = sidecarSchema[k]] ELSE refreshed
      /\ promised' = [promised EXCEPT ![Panel] = refreshed'[k]]
      /\ overtaken' = (overtaken \cup {v \in SchemaViews : Waiting(v)}) \ {Panel}
      /\ UNCHANGED <<sidecarSchema, views, loads>>
  BY DEF Refreshed, Reloaded, invalidateSchema
<1>2. k \in Targets
  BY <1>0 DEF SchemaTypes
<1>3. flight \in [Targets -> Nat] /\ \A l \in Targets : flight[l] \in {0, sharedInFlight[l]}
  BY <1>0 DEF SchemaTypes
<1>4. sharedCacheGeneration \in Nat /\ sharedCacheGeneration' \in Nat /\ sharedCacheGeneration' >= sharedCacheGeneration
  BY <1>0, <1>1 DEF SchemaTypes
<1> HIDE DEF k, flight
<1>5. /\ sharedInFlight' \in [Targets -> Nat] /\ sharedLoading' \in BOOLEAN
      /\ \E n \in Nat : DOMAIN fetches' = 1..n
      /\ \A j \in DOMAIN fetches' : FetchTyped(fetches[j])'
      /\ \E id \in DOMAIN fetches' :
           /\ id \in Unsettled' /\ fetches'[id].key = k /\ Panel \in fetches'[id].waiters
           /\ fetches'[id].generation = sharedCacheGeneration' /\ fetches'[id].stage = "asked"
           /\ DOMAIN fetches' = DOMAIN fetches \cup {id} /\ id \notin DOMAIN fetches
      /\ \A j \in DOMAIN fetches : fetches'[j] = fetches[j]
      /\ Slots'
  BY <1>1, <1>2, <1>3, <1>4, StartKept
<1>6. /\ refreshed' \in [Targets -> Nat]
      /\ \A l \in Targets : refreshed[l] <= refreshed'[l] /\ refreshed'[l] <= sidecarSchema[l]
      /\ \A l \in Targets \ {k} : refreshed'[l] = refreshed[l]
  <2>1. refreshed \in [Targets -> Nat] /\ sidecarSchema \in [Targets -> Nat \ {0}]
        /\ \A l \in Targets : refreshed[l] <= sidecarSchema[l]
    BY <1>0 DEF SchemaTypes, Versions
  <2> QED
    BY <1>1, <1>2, <2>1
<1>7. /\ promised' \in [SchemaViews -> Nat] /\ promised'[Panel] = refreshed'[k]
      /\ \A v \in SchemaViews \ {Panel} : promised'[v] = promised[v]
  BY <1>0, <1>1, <1>2, <1>6 DEF SchemaTypes
<1>8. sharedCache' \in [Targets -> [version : Nat, fresh : BOOLEAN]] /\ sharedCache'[k].version = 0
      /\ \A l \in Targets \ {k} : sharedCache'[l] = sharedCache[l]
  BY <1>0, <1>1, <1>2 DEF SchemaTypes, NoEntry
<1>9. \A q \in refreshes' : q \in [id : {q.id}, key : Targets, stage : {"asked", "served", "answered"}]
  BY <1>0, <1>1 DEF SchemaTypes
<1>10. SchemaTypes'
  <2>1. overtaken' \in SUBSET SchemaViews
    BY <1>0, <1>1 DEF SchemaTypes
  <2>2. views'[Panel].conn \in Targets
    BY <1>1, <1>2 DEF k
  <2> QED
    BY <1>0, <1>1, <1>4, <1>5, <1>6, <1>7, <1>8, <1>9, <2>1, <2>2 DEF SchemaTypes
<1>11. Versions'
  <2>1. \A l \in Targets : sharedCache'[l].version = 0 \/ sharedCache'[l].version >= refreshed'[l]
    BY <1>0, <1>6, <1>8 DEF Versions
  <2>2. ASSUME NEW j \in DOMAIN fetches', fetches'[j].stage = "served" PROVE fetches'[j].generation # sharedCacheGeneration'
    <3>1. j \in DOMAIN fetches /\ fetches'[j] = fetches[j]
      BY <1>5, <2>2
    <3>2. fetches[j].generation \in Nat /\ fetches[j].generation <= sharedCacheGeneration
      BY <1>0, <3>1 DEF SchemaTypes, FetchTyped
    <3> QED
      BY <1>1, <1>4, <3>1, <3>2
  <2>3. \A v \in SchemaViews : views[v].conn \in Targets => promised'[v] <= refreshed'[views[v].conn]
    <3> SUFFICES ASSUME NEW v \in SchemaViews, views[v].conn \in Targets PROVE promised'[v] <= refreshed'[views[v].conn]
      OBVIOUS
    <3>1. CASE v = Panel
      BY <1>2, <1>6, <1>7, <3>1 DEF k
    <3>2. CASE v # Panel
      <4>1. promised[v] <= refreshed[views[v].conn] /\ promised[v] \in Nat /\ refreshed[views[v].conn] \in Nat
        BY <1>0 DEF Versions, SchemaTypes
      <4>2. refreshed[views[v].conn] <= refreshed'[views[v].conn] /\ refreshed'[views[v].conn] \in Nat
        BY <1>6
      <4> QED
        BY <1>7, <3>2, <4>1, <4>2
    <3> QED
      BY <3>1, <3>2
  <2> QED
    BY <1>1, <1>6, <2>1, <2>2, <2>3 DEF Versions, cacheable
<1>12. Served'
  <2> SUFFICES ASSUME NEW v \in SchemaViews, views[v].conn \in Targets, v \notin overtaken' PROVE UpToDate(v)' \/ Coming(v)'
    BY <1>1 DEF Served
  <2>1. CASE v = Panel
    <3>1. Coming(v)'
      BY <1>1, <1>5, <2>1 DEF Coming, cacheable, k
    <3> QED
      BY <3>1
  <2>2. CASE v # Panel
    <3>1. v \notin overtaken /\ ~Waiting(v)
      BY <1>1, <2>2
    <3>2. UpToDate(v)
      BY <1>0, <3>1 DEF Served, Coming, Waiting
    <3> QED
      BY <1>1, <1>7, <2>2, <3>2 DEF UpToDate
  <2> QED
    BY <2>1, <2>2
<1> QED
  BY <1>5, <1>10, <1>11, <1>12 DEF SchemaInv

LEMMA SchemaStep == SchemaInv /\ [SchemaNext]_schemaVars => SchemaInv'
<1> SUFFICES ASSUME SchemaInv, [SchemaNext]_schemaVars PROVE SchemaInv'
  OBVIOUS
<1>1. CASE UNCHANGED schemaVars
  BY <1>1 DEF schemaVars, SchemaInv, SchemaTypes, FetchTyped, Slots, Unsettled, Versions, cacheable, Served, UpToDate, Coming
<1> QED
  BY <1>1, LoadKept, ServedKept, AnswerKept, FailureKept, ExpireKept, RefreshKept, ReloadKept, RefreshedKept DEF SchemaNext

\* Any number of views, connections, loads, failures, expiries and refreshes: a
\* schema that a refresh replaced comes back neither into the cache nor into a view
\* that asked after it, a view shows the schema of its own connection, and the
\* spinner turns only while a fetch can end it (schemaCache.ts).
THEOREM SchemaIsFresh == SchemaSpec => []SchemaStaysFresh
<1>1. SchemaInv => SchemaStaysFresh
  <2> SUFFICES ASSUME SchemaInv PROVE SchemaStaysFresh
    OBVIOUS
  <2>0. SchemaTypes /\ Slots /\ Versions /\ Served
    BY DEF SchemaInv
  <2>1. ASSUME NEW v \in SchemaViews, views[v].conn # NoTarget, ~Waiting(v), v \notin overtaken
        PROVE  views[v].of = views[v].conn /\ views[v].version >= promised[v]
    <3>1. views[v].conn \in Targets /\ ~Coming(v)
      BY <2>0, <2>1 DEF SchemaTypes, Coming, Waiting
    <3> QED
      BY <2>0, <2>1, <3>1 DEF Served, UpToDate
  <2>2. sharedLoading => Unsettled # {}
    BY <2>0 DEF Slots
  <2> QED
    BY <2>0, <2>1, <2>2 DEF Versions, Slots, SchemaStaysFresh
<1> QED
  BY <1>1, SchemaInitInv, SchemaStep, PTL DEF SchemaSpec

(* ---------------------- retries, reconnects, outages --------------------- *)
Ladders == [retry : Nat, timer : BOOLEAN, attempt : Nat, raw : {"none", "transient", "final"}]
RecoveryTypes ==
  /\ link \in Links
  /\ boot \in [at : {"whoami", "reopen", "wait", "ready"}, attempt : Nat, waiting : BOOLEAN]
  /\ watch \in [probe : Links \cup {NoLink}, subject : Links \cup {NoLink}, recovery : {"idle", "under way"}]
  /\ transportUnavailable \in BOOLEAN /\ abandoned \in BOOLEAN /\ givenUp \in BOOLEAN
  /\ reconnect \in [at : {"idle", "reopen", "reload"}, load : Nat]
  /\ rootLoad \in Nat /\ \A g \in rootLoads : g \in Nat /\ g <= rootLoad
  /\ treeError \in {"none", "transient", "final"} /\ fired \in Nat
  /\ ladder \in Ladders

\* A countdown runs unguarded and stands still guarded; a failure waits only guarded.
Steady(l, guarded) ==
  /\ l.retry # 0 => (l.timer <=> ~guarded)
  /\ l.timer => l.retry # 0
  /\ l.retry # 0 => l.raw = "none"
  /\ l.raw # "none" => guarded
  /\ l.attempt <= AutoRetryMax

\* What is known of the root's loads and of the load that a reconnect waits for.
RootIsKnown ==
  /\ boot.waiting => boot.at # "ready" /\ treeError = "none" /\ rootLoad \notin rootLoads
  /\ rootLoad \in rootLoads => treeError = "none"
  /\ reconnect.at = "reload" => reconnect.load \in rootLoads
  /\ ladder.raw # "none" => rootLoad \notin rootLoads \/ reconnect = [at |-> "reload", load |-> rootLoad]

\* A retry that is owed is counted down for, remembered, or under way.
OwedIsKept ==
  treeError = "transient" /\ rootLoad \notin rootLoads /\ ~givenUp =>
    \/ ladder.retry # 0
    \/ ladder.raw = "transient" /\ ladder.attempt < AutoRetryMax
    \/ reconnect.at = "reopen"

\* Every retry was climbed for, unless the ladder was given up and stays so until
\* somebody loads the root anew.
Spent == ladder.retry = 0 /\ ladder.raw = "none" /\ rootLoad \notin rootLoads /\ reconnect.at = "idle"
Budget ==
  /\ fired <= AutoRetryMax
  /\ Spent \/ fired + (IF ladder.retry # 0 THEN 1 ELSE 0) <= ladder.attempt

OutageIsWatched == transportUnavailable => watch.subject # NoLink \/ abandoned

RecoveryInv ==
  /\ RecoveryTypes /\ Steady(ladder, treeRetryGuarded) /\ RootIsKnown /\ OwedIsKept /\ Budget /\ OutageIsWatched

USE RetryAssumption


LEMMA GuardIsBoolean == treeRetryGuarded \in BOOLEAN /\ treeRetryGuarded' \in BOOLEAN
  BY DEF treeRetryGuarded

LEMMA FreshIsSteady == ASSUME NEW guarded PROVE Fresh \in Ladders /\ Steady(Fresh, guarded)
  BY DEF Fresh, Ladders, Steady

LEMMA RecoveryInitInv == RecoveryInit => RecoveryInv
<1> SUFFICES ASSUME RecoveryInit PROVE RecoveryInv
  OBVIOUS
<1>1. ladder \in Ladders /\ Steady(ladder, treeRetryGuarded) /\ ladder.retry = 0 /\ ladder.raw = "none" /\ ladder.attempt = 0
  BY FreshIsSteady DEF RecoveryInit, Fresh
<1>2. RecoveryTypes
  <2>1. \A g \in rootLoads : g \in Nat /\ g <= rootLoad
    BY DEF RecoveryInit
  <2>2. boot \in [at : {"whoami", "reopen", "wait", "ready"}, attempt : Nat, waiting : BOOLEAN]
        /\ watch \in [probe : Links \cup {NoLink}, subject : Links \cup {NoLink}, recovery : {"idle", "under way"}]
        /\ reconnect \in [at : {"idle", "reopen", "reload"}, load : Nat]
    BY DEF RecoveryInit
  <2> QED
    BY <1>1, <2>1, <2>2 DEF RecoveryInit, RecoveryTypes
<1>3. RootIsKnown
  BY <1>1 DEF RecoveryInit, RootIsKnown
<1>4. OwedIsKept /\ OutageIsWatched
  BY DEF RecoveryInit, OwedIsKept, OutageIsWatched
<1>5. Budget
  BY <1>1 DEF RecoveryInit, Budget
<1> QED
  BY <1>1, <1>2, <1>3, <1>4, <1>5 DEF RecoveryInv

\* A climb counts down for the next retry, or starts the ladder anew.
LEMMA Climbs ==
  ASSUME NEW l \in Ladders, NEW raw \in {"transient", "final"}, l.attempt <= AutoRetryMax
  PROVE  /\ Climb(l, raw) \in Ladders /\ Steady(Climb(l, raw), FALSE) /\ Climb(l, raw).raw = "none"
         /\ \/ Climb(l, raw).retry = 0 /\ (raw = "transient" => l.attempt = AutoRetryMax)
            \/ Climb(l, raw).retry # 0 /\ Climb(l, raw).attempt = l.attempt + 1
<1>1. l.attempt \in Nat
  BY DEF Ladders
<1>2. CASE decideTreeAutoRetry(l, raw)
  <2>1. Climb(l, raw) = [retry |-> l.attempt + 1, timer |-> TRUE, attempt |-> l.attempt + 1, raw |-> "none"]
    BY <1>2 DEF Climb
  <2>2. l.attempt + 1 \in Nat /\ l.attempt + 1 # 0 /\ l.attempt + 1 <= AutoRetryMax
    BY <1>1, <1>2 DEF decideTreeAutoRetry
  <2> QED
    BY <2>1, <2>2 DEF Ladders, Steady
<1>3. CASE ~decideTreeAutoRetry(l, raw)
  BY <1>1, <1>3 DEF Climb, Fresh, Ladders, Steady, decideTreeAutoRetry
<1> QED
  BY <1>2, <1>3

\* What the watcher of the guard does to a ladder.
Resumed(l) ==
  /\ l.retry = 0 /\ l.raw # "none" /\ treeRetryGuarded /\ ~treeRetryGuarded'
  /\ ladder'.raw = "none"
  /\ \/ ladder'.retry = 0 /\ (l.raw = "transient" => l.attempt = AutoRetryMax)
     \/ ladder'.retry # 0 /\ ladder'.attempt = l.attempt + 1
LEMMA LadderKept ==
  ASSUME NEW l \in Ladders, Steady(l, treeRetryGuarded), LadderIs(l)
  PROVE  /\ ladder' \in Ladders /\ Steady(ladder, treeRetryGuarded)'
         /\ \/ ladder'.retry = l.retry /\ ladder'.raw = l.raw /\ ladder'.attempt = l.attempt
            \/ Resumed(l)
<1>1. treeRetryGuarded \in BOOLEAN /\ treeRetryGuarded' \in BOOLEAN
  BY GuardIsBoolean
<1>2. l = [retry |-> l.retry, timer |-> l.timer, attempt |-> l.attempt, raw |-> l.raw]
      /\ l.retry \in Nat /\ l.timer \in BOOLEAN /\ l.attempt \in Nat /\ l.raw \in {"none", "transient", "final"}
  BY DEF Ladders
<1>3. CASE treeRetryGuarded' = treeRetryGuarded
  BY <1>1, <1>3 DEF LadderIs, Steady
<1>4. CASE treeRetryGuarded' /\ ~treeRetryGuarded
  <2>1. ladder' = [l EXCEPT !.timer = FALSE]
    BY <1>4 DEF LadderIs, pauseAutoRetry
  <2>2. ladder' \in Ladders /\ ladder'.retry = l.retry /\ ladder'.raw = l.raw /\ ladder'.attempt = l.attempt /\ ladder'.timer = FALSE
    BY <2>1 DEF Ladders
  <2> QED
    BY <1>4, <2>2 DEF Steady
<1>5. CASE ~treeRetryGuarded' /\ treeRetryGuarded
  <2>0. ladder' = resumeAutoRetry(l)
    BY <1>5 DEF LadderIs
  <2>1. CASE l.retry # 0
    <3>1. ladder' = [l EXCEPT !.timer = TRUE]
      BY <2>0, <2>1 DEF resumeAutoRetry
    <3>2. ladder' \in Ladders /\ ladder'.retry = l.retry /\ ladder'.raw = l.raw /\ ladder'.attempt = l.attempt /\ ladder'.timer = TRUE
      BY <3>1 DEF Ladders
    <3>3. l.raw = "none"
      BY <1>5, <2>1 DEF Steady
    <3> QED
      BY <1>5, <2>1, <3>2, <3>3 DEF Steady
  <2>2. CASE l.retry = 0 /\ l.raw = "none"
    <3>1. ladder' = l
      BY <2>0, <2>2 DEF resumeAutoRetry
    <3> QED
      BY <2>2, <3>1 DEF Steady
  <2>3. CASE l.retry = 0 /\ l.raw # "none"
    <3> DEFINE m == [l EXCEPT !.raw = "none"]
    <3>1. ladder' = Climb(m, l.raw)
      BY <2>0, <2>3 DEF resumeAutoRetry
    <3>2. m \in Ladders /\ m.attempt = l.attempt
      BY DEF Ladders
    <3>3. m.attempt <= AutoRetryMax /\ l.raw \in {"transient", "final"}
      BY <1>2, <2>3, <3>2 DEF Steady
    <3> HIDE DEF m
    <3>4. /\ ladder' \in Ladders /\ Steady(ladder', FALSE) /\ ladder'.raw = "none"
          /\ \/ ladder'.retry = 0 /\ (l.raw = "transient" => m.attempt = AutoRetryMax)
             \/ ladder'.retry # 0 /\ ladder'.attempt = m.attempt + 1
      BY <3>1, <3>2, <3>3, Climbs
    <3>5. Steady(ladder, treeRetryGuarded)'
      BY <1>5, <3>4 DEF Steady
    <3> QED
      BY <1>5, <2>3, <3>2, <3>4, <3>5 DEF Resumed
  <2> QED
    BY <1>2, <2>1, <2>2, <2>3
<1> QED
  BY <1>1, <1>3, <1>4, <1>5

\* The user's steps and the recoveries load the root anew, with a ladder of its own.
LEMMA FreshLoadKept ==
  ASSUME RecoveryInv, Reload, reconnect' = reconnect, OutageIsWatched',
         link' \in Links, boot' \in [at : {"whoami", "reopen", "wait", "ready"}, attempt : Nat, waiting : BOOLEAN],
         boot'.waiting => boot'.at # "ready",
         watch' \in [probe : Links \cup {NoLink}, subject : Links \cup {NoLink}, recovery : {"idle", "under way"}],
         transportUnavailable' \in BOOLEAN, abandoned' \in BOOLEAN
  PROVE  RecoveryInv'
<1>0. RecoveryTypes /\ RootIsKnown
  BY DEF RecoveryInv
<1>1. /\ treeError' = "none" /\ rootLoad' = rootLoad + 1 /\ givenUp' = FALSE /\ fired' = 0 /\ LadderIs(Fresh)
      /\ rootLoads' = IF boot'.waiting THEN rootLoads ELSE rootLoads \cup {rootLoad + 1}
  BY DEF Reload, LoadRoot
<1>2. ladder' \in Ladders /\ Steady(ladder, treeRetryGuarded)' /\ ladder'.retry = 0 /\ ladder'.raw = "none" /\ ladder'.attempt = 0
  BY <1>1, FreshIsSteady, LadderKept DEF Resumed, Fresh
<1>8. rootLoad \in Nat /\ \A g \in rootLoads : g \in Nat /\ g <= rootLoad
  BY <1>0 DEF RecoveryTypes
<1>3. rootLoad' \in Nat /\ \A g \in rootLoads' : g \in Nat /\ g <= rootLoad'
  BY ONLY <1>1, <1>8
<1>4. boot'.waiting => rootLoad' \notin rootLoads'
  BY ONLY <1>1, <1>8
<1>5. RecoveryTypes'
  BY <1>0, <1>1, <1>2, <1>3 DEF RecoveryTypes
<1>6. RootIsKnown'
  BY <1>0, <1>1, <1>2, <1>4 DEF RootIsKnown
<1>7. OwedIsKept' /\ Budget'
  <2>1. fired' + (IF ladder'.retry # 0 THEN 1 ELSE 0) = 0
    BY ONLY <1>1, <1>2
  <2> QED
    BY ONLY <1>1, <1>2, <2>1, RetryAssumption DEF OwedIsKept, Budget
<1> QED
  BY <1>2, <1>5, <1>6, <1>7 DEF RecoveryInv

\* Steps that touch neither the tree nor what guards its retries.
LEMMA TreeKept ==
  ASSUME RecoveryInv, TreeStays, UNCHANGED <<reconnect, ladder>>, OutageIsWatched', link' = link,
         treeRetryGuarded' = treeRetryGuarded, boot'.waiting = boot.waiting, boot'.waiting => boot'.at # "ready",
         boot' \in [at : {"whoami", "reopen", "wait", "ready"}, attempt : Nat, waiting : BOOLEAN],
         watch' \in [probe : Links \cup {NoLink}, subject : Links \cup {NoLink}, recovery : {"idle", "under way"}],
         transportUnavailable' \in BOOLEAN, abandoned' \in BOOLEAN
  PROVE  RecoveryInv'
<1>1. UNCHANGED <<rootLoads, rootLoad, treeError, givenUp, fired>>
  BY DEF TreeStays
<1>2. RecoveryTypes' /\ Steady(ladder, treeRetryGuarded)' /\ RootIsKnown'
  BY <1>1 DEF RecoveryInv, RecoveryTypes, Steady, RootIsKnown
<1>3. OwedIsKept' /\ Budget'
  BY <1>1 DEF RecoveryInv, OwedIsKept, Budget, Spent
<1> QED
  BY <1>2, <1>3 DEF RecoveryInv

LEMMA BootKept == ASSUME RecoveryInv, BootReady \/ BootNotConnected \/ BootReopened \/ BootRetries PROVE RecoveryInv'
<1>0. RecoveryTypes /\ Steady(ladder, treeRetryGuarded) /\ RootIsKnown /\ OwedIsKept /\ Budget /\ OutageIsWatched
  BY DEF RecoveryInv
<1>1. ASSUME UNCHANGED <<watch, transportUnavailable, abandoned>> PROVE OutageIsWatched'
  BY <1>0, <1>1 DEF OutageIsWatched
<1>2. CASE BootReady
  <2>1. boot' = [boot EXCEPT !.at = "ready", !.waiting = FALSE] /\ Reload
        /\ UNCHANGED <<link, watch, transportUnavailable, reconnect, abandoned>>
    BY <1>2 DEF BootReady
  <2>2. boot' \in [at : {"whoami", "reopen", "wait", "ready"}, attempt : Nat, waiting : BOOLEAN] /\ ~boot'.waiting
    BY <1>0, <2>1 DEF RecoveryTypes
  <2> QED
    BY <1>0, <1>1, <2>1, <2>2, FreshLoadKept DEF RecoveryTypes
<1>3. CASE BootNotConnected
  <2>1. boot.at = "whoami" /\ boot' = [boot EXCEPT !.at = IF boot.attempt = 0 THEN "reopen" ELSE "wait"] /\ TreeStays
        /\ UNCHANGED <<link, watch, transportUnavailable, reconnect, abandoned, ladder>>
    BY <1>3 DEF BootNotConnected
  <2>2. boot' \in [at : {"whoami", "reopen", "wait", "ready"}, attempt : Nat, waiting : BOOLEAN]
        /\ boot'.waiting = boot.waiting /\ boot'.at # "ready"
    <3>1. boot \in [at : {"whoami", "reopen", "wait", "ready"}, attempt : Nat, waiting : BOOLEAN]
      BY <1>0 DEF RecoveryTypes
    <3>2. boot.attempt + 1 \in Nat
      BY <3>1
    <3> QED
      BY <2>1, <3>1, <3>2
  <2>3. treeRetryGuarded' = treeRetryGuarded
    BY <2>1, <2>2 DEF treeRetryGuarded
  <2> QED
    BY <1>0, <1>1, <2>1, <2>2, <2>3, TreeKept DEF RecoveryTypes
<1>4. CASE BootRetries
  <2>1. boot.at = "wait" /\ boot' = [boot EXCEPT !.at = "whoami", !.attempt = @ + 1] /\ TreeStays
        /\ UNCHANGED <<link, watch, transportUnavailable, reconnect, abandoned, ladder>>
    BY <1>4 DEF BootRetries
  <2>2. boot' \in [at : {"whoami", "reopen", "wait", "ready"}, attempt : Nat, waiting : BOOLEAN]
        /\ boot'.waiting = boot.waiting /\ boot'.at # "ready"
    <3>1. boot \in [at : {"whoami", "reopen", "wait", "ready"}, attempt : Nat, waiting : BOOLEAN]
      BY <1>0 DEF RecoveryTypes
    <3>2. boot.attempt + 1 \in Nat
      BY <3>1
    <3> QED
      BY <2>1, <3>1, <3>2
  <2>3. treeRetryGuarded' = treeRetryGuarded
    BY <2>1, <2>2 DEF treeRetryGuarded
  <2> QED
    BY <1>0, <1>1, <2>1, <2>2, <2>3, TreeKept DEF RecoveryTypes
<1>5. CASE BootReopened
  <2>1. /\ boot.at = "reopen" /\ boot' = [boot EXCEPT !.at = "wait", !.waiting = TRUE]
        /\ rootLoad' = rootLoad + 1 /\ treeError' = "none" /\ ladder' = Fresh /\ fired' = 0
        /\ UNCHANGED <<link, watch, transportUnavailable, reconnect, rootLoads, abandoned, givenUp>>
    BY <1>5 DEF BootReopened
  <2>2. boot' \in [at : {"whoami", "reopen", "wait", "ready"}, attempt : Nat, waiting : BOOLEAN] /\ boot'.at = "wait"
    BY <1>0, <2>1 DEF RecoveryTypes
  <2>3. rootLoad' \in Nat /\ rootLoad' \notin rootLoads' /\ \A g \in rootLoads' : g \in Nat /\ g <= rootLoad'
    <3>1. rootLoad \in Nat /\ \A g \in rootLoads : g \in Nat /\ g <= rootLoad
      BY <1>0 DEF RecoveryTypes
    <3> QED
      BY <2>1, <3>1
  <2>4. ladder' \in Ladders /\ Steady(ladder, treeRetryGuarded)'
    BY <2>1, FreshIsSteady
  <2>5. RecoveryTypes'
    BY <1>0, <2>1, <2>2, <2>3, <2>4 DEF RecoveryTypes
  <2>6. RootIsKnown' /\ OwedIsKept' /\ Budget'
    BY <1>0, <2>1, <2>2, <2>3 DEF RootIsKnown, OwedIsKept, Budget, Fresh
  <2> QED
    BY <1>1, <2>1, <2>4, <2>5, <2>6 DEF RecoveryInv
<1> QED
  BY <1>2, <1>3, <1>4, <1>5

LEMMA UserKept ==
  ASSUME RecoveryInv, RefreshTree \/ UserActs \/ Recovered \/ \E k \in Links : SwitchLink(k)
  PROVE  RecoveryInv'
<1>0. RecoveryTypes /\ Steady(ladder, treeRetryGuarded) /\ RootIsKnown /\ OwedIsKept /\ Budget /\ OutageIsWatched
  BY DEF RecoveryInv
<1>1. ASSUME UNCHANGED <<watch, transportUnavailable, abandoned>> PROVE OutageIsWatched'
  BY <1>0, <1>1 DEF OutageIsWatched
<1>2. CASE RefreshTree
  <2>1. UNCHANGED <<link, boot, watch, transportUnavailable, reconnect, abandoned>> /\ Reload
    BY <1>2 DEF RefreshTree
  <2> QED
    BY <1>0, <1>1, <2>1, FreshLoadKept DEF RecoveryTypes, RootIsKnown
<1>3. ASSUME NEW k \in Links, SwitchLink(k) PROVE RecoveryInv'
  <2>1. link' = k /\ UNCHANGED <<boot, watch, transportUnavailable, reconnect, abandoned>> /\ Reload
    BY <1>3 DEF SwitchLink
  <2> QED
    BY <1>0, <1>1, <2>1, FreshLoadKept DEF RecoveryTypes, RootIsKnown
<1>4. CASE Recovered
  <2>1. /\ watch' = [watch EXCEPT !.subject = NoLink, !.recovery = "idle"] /\ transportUnavailable' = FALSE
        /\ abandoned' = FALSE /\ UNCHANGED <<link, boot, reconnect>> /\ Reload
    BY <1>4 DEF Recovered, WatchOnly
  <2>2. watch' \in [probe : Links \cup {NoLink}, subject : Links \cup {NoLink}, recovery : {"idle", "under way"}]
    BY <1>0, <2>1 DEF RecoveryTypes
  <2>3. OutageIsWatched'
    BY <2>1 DEF OutageIsWatched
  <2> QED
    BY <1>0, <2>1, <2>2, <2>3, FreshLoadKept DEF RecoveryTypes, RootIsKnown
<1>5. CASE UserActs
  <2>1. /\ ladder' = Fresh /\ givenUp' = TRUE /\ fired' = 0
        /\ UNCHANGED <<link, boot, watch, transportUnavailable, reconnect, rootLoads, rootLoad, treeError, abandoned>>
    BY <1>5 DEF UserActs
  <2>2. ladder' \in Ladders /\ Steady(ladder, treeRetryGuarded)'
    BY <2>1, FreshIsSteady
  <2>3. RecoveryTypes'
    BY <1>0, <2>1, <2>2 DEF RecoveryTypes
  <2>4. RootIsKnown' /\ OwedIsKept' /\ Budget'
    BY <1>0, <2>1 DEF RootIsKnown, OwedIsKept, Budget, Fresh
  <2> QED
    BY <1>1, <2>1, <2>2, <2>3, <2>4 DEF RecoveryInv
<1> QED
  BY <1>2, <1>3, <1>4, <1>5

\* A load of the root ends, and with it the reconnect that waits for it.
LEMMA Settles ==
  ASSUME RecoveryInv, NEW g \in rootLoads, Settled(g)
  PROVE  /\ rootLoads' = rootLoads \ {g} /\ rootLoad' = rootLoad
         /\ UNCHANGED <<link, boot, watch, transportUnavailable, abandoned>>
         /\ reconnect' \in [at : {"idle", "reopen", "reload"}, load : Nat]
         /\ reconnect'.at = "reload" => reconnect' = reconnect /\ reconnect.load # g /\ reconnect.load \in rootLoads'
         /\ (reconnect'.at = "reopen") <=> (reconnect.at = "reopen")
         /\ reconnect.at = "idle" => reconnect'.at = "idle"
         /\ reconnect # [at |-> "reload", load |-> g] => reconnect' = reconnect
         /\ treeRetryGuarded /\ ~treeRetryGuarded' => reconnect = [at |-> "reload", load |-> g]
         /\ ~treeRetryGuarded' => reconnect'.at = "idle"
         /\ ~treeRetryGuarded => ~treeRetryGuarded'
         /\ OutageIsWatched'
<1>0. RecoveryTypes /\ RootIsKnown /\ OutageIsWatched
  BY DEF RecoveryInv
<1>1. /\ rootLoads' = rootLoads \ {g} /\ UNCHANGED <<link, boot, watch, transportUnavailable, rootLoad, abandoned>>
      /\ reconnect' = IF reconnect = [at |-> "reload", load |-> g] THEN [at |-> "idle", load |-> 0] ELSE reconnect
  BY DEF Settled
<1>2. reconnect \in [at : {"idle", "reopen", "reload"}, load : Nat]
  BY <1>0 DEF RecoveryTypes
<1>3. reconnect.at = "reload" => reconnect.load \in rootLoads
  BY <1>0 DEF RootIsKnown
<1>4. CASE reconnect = [at |-> "reload", load |-> g]
  BY <1>0, <1>1, <1>2, <1>4 DEF treeRetryGuarded, OutageIsWatched
<1>5. CASE reconnect # [at |-> "reload", load |-> g]
  <2>1. reconnect.at = "reload" => reconnect.load # g
    BY <1>2, <1>5
  <2>2. treeRetryGuarded' = treeRetryGuarded
    BY <1>1, <1>5 DEF treeRetryGuarded
  <2> QED
    BY <1>0, <1>1, <1>2, <1>3, <1>5, <2>1, <2>2 DEF treeRetryGuarded, OutageIsWatched
<1> QED
  BY <1>4, <1>5

\* The answer of a load that is not the latest one: it may end the reconnect.
LEMMA OldLoadKept ==
  ASSUME RecoveryInv, NEW g \in rootLoads, Settled(g), g # rootLoad, LadderIs(ladder),
         UNCHANGED <<treeError, givenUp, fired>>
  PROVE  RecoveryInv'
<1>0. RecoveryTypes /\ Steady(ladder, treeRetryGuarded) /\ RootIsKnown /\ OwedIsKept /\ Budget /\ OutageIsWatched
  BY DEF RecoveryInv
<1>1. /\ rootLoads' = rootLoads \ {g} /\ rootLoad' = rootLoad
      /\ UNCHANGED <<link, boot, watch, transportUnavailable, abandoned>>
      /\ reconnect' \in [at : {"idle", "reopen", "reload"}, load : Nat]
      /\ reconnect'.at = "reload" => reconnect' = reconnect /\ reconnect.load # g /\ reconnect.load \in rootLoads'
      /\ (reconnect'.at = "reopen") <=> (reconnect.at = "reopen")
      /\ reconnect.at = "idle" => reconnect'.at = "idle"
      /\ reconnect # [at |-> "reload", load |-> g] => reconnect' = reconnect
      /\ treeRetryGuarded /\ ~treeRetryGuarded' => reconnect = [at |-> "reload", load |-> g]
      /\ ~treeRetryGuarded' => reconnect'.at = "idle"
      /\ OutageIsWatched'
  BY Settles
<1>2. /\ ladder \in Ladders /\ ladder' \in Ladders /\ Steady(ladder, treeRetryGuarded)'
      /\ \/ ladder'.retry = ladder.retry /\ ladder'.raw = ladder.raw /\ ladder'.attempt = ladder.attempt
         \/ Resumed(ladder)
  <2>1. ladder \in Ladders
    BY <1>0 DEF RecoveryTypes
  <2> QED
    BY <1>0, <2>1, LadderKept
<1>3. rootLoad \in rootLoads' <=> rootLoad \in rootLoads
  BY <1>1
<1>4. RecoveryTypes'
  <2>1. \A h \in rootLoads' : h \in Nat /\ h <= rootLoad
    BY <1>0, <1>1 DEF RecoveryTypes
  <2> QED
    BY <1>0, <1>1, <1>2, <2>1 DEF RecoveryTypes
<1>5. Resumed(ladder) => ladder.retry = 0 /\ ladder.raw # "none" /\ rootLoad \notin rootLoads /\ reconnect'.at = "idle"
                         /\ reconnect.at = "reload" /\ ladder'.raw = "none"
  <2> SUFFICES ASSUME Resumed(ladder)
               PROVE  rootLoad \notin rootLoads /\ reconnect'.at = "idle" /\ reconnect.at = "reload"
    BY DEF Resumed
  <2>1. reconnect = [at |-> "reload", load |-> g] /\ ladder.raw # "none" /\ reconnect'.at = "idle"
    BY <1>1 DEF Resumed
  <2>2. reconnect # [at |-> "reload", load |-> rootLoad]
    BY <2>1
  <2> QED
    BY <1>0, <2>1, <2>2 DEF RootIsKnown
<1>6. RootIsKnown'
  <2>1. ladder'.raw # "none" => rootLoad \notin rootLoads \/ reconnect' = [at |-> "reload", load |-> rootLoad]
    <3> SUFFICES ASSUME ladder'.raw # "none", rootLoad \in rootLoads PROVE reconnect' = [at |-> "reload", load |-> rootLoad]
      OBVIOUS
    <3>1. reconnect = [at |-> "reload", load |-> rootLoad]
      BY <1>0, <1>2, <1>5 DEF RootIsKnown
    <3>2. reconnect # [at |-> "reload", load |-> g]
      BY <3>1
    <3> QED
      BY <1>1, <3>1, <3>2
  <2> QED
    BY <1>0, <1>1, <1>3, <2>1 DEF RootIsKnown
<1>7. OwedIsKept'
  <2> SUFFICES ASSUME treeError = "transient", rootLoad \notin rootLoads, ~givenUp
               PROVE  \/ ladder'.retry # 0
                      \/ ladder'.raw = "transient" /\ ladder'.attempt < AutoRetryMax
                      \/ reconnect'.at = "reopen"
    BY <1>1, <1>3 DEF OwedIsKept
  <2>1. ladder.retry # 0 \/ (ladder.raw = "transient" /\ ladder.attempt < AutoRetryMax) \/ reconnect.at = "reopen"
    BY <1>0 DEF OwedIsKept
  <2>2. ladder.attempt \in Nat
    BY <1>2 DEF Ladders
  <2>3. CASE Resumed(ladder)
    BY <1>5, <2>1, <2>2, <2>3 DEF Resumed
  <2>4. CASE ~Resumed(ladder)
    BY <1>1, <1>2, <2>1, <2>4
  <2> QED
    BY <2>3, <2>4
<1>8. Budget'
  <2>1. fired \in Nat /\ ladder.attempt \in Nat
    BY <1>0, <1>2 DEF RecoveryTypes, Ladders
  <2>2. CASE Resumed(ladder)
    <3>1. fired <= ladder.attempt /\ fired <= AutoRetryMax
      BY <1>0, <1>5, <2>1, <2>2 DEF Budget, Spent
    <3>2. ladder'.retry = 0 => Spent'
      BY <1>1, <1>3, <1>5, <2>2 DEF Spent
    <3>3. ladder'.retry # 0 => ladder'.attempt = ladder.attempt + 1
      BY <2>2 DEF Resumed
    <3>4. ladder'.retry # 0 => fired + 1 <= ladder'.attempt
      BY <2>1, <3>1, <3>3
    <3> QED
      BY <3>1, <3>2, <3>4 DEF Budget
  <2>3. CASE ~Resumed(ladder)
    BY <1>0, <1>1, <1>2, <1>3, <2>3 DEF Budget, Spent
  <2> QED
    BY <2>2, <2>3
<1> QED
  BY <1>1, <1>2, <1>4, <1>6, <1>7, <1>8 DEF RecoveryInv

LEMMA LoadedKept == ASSUME RecoveryInv, NEW g \in rootLoads, RootLoaded(g) PROVE RecoveryInv'
<1>0. RecoveryTypes /\ Steady(ladder, treeRetryGuarded) /\ RootIsKnown /\ OwedIsKept /\ Budget /\ OutageIsWatched
  BY DEF RecoveryInv
<1>1. Settled(g) /\ UNCHANGED <<treeError, givenUp>>
      /\ fired' = (IF g = rootLoad THEN 0 ELSE fired) /\ LadderIs(IF g = rootLoad THEN Fresh ELSE ladder)
  BY DEF RootLoaded
<1>2. CASE g # rootLoad
  BY <1>1, <1>2, OldLoadKept
<1>3. CASE g = rootLoad
  <2>1. fired' = 0 /\ LadderIs(Fresh) /\ treeError = "none" /\ ~boot.waiting
    BY <1>0, <1>1, <1>3 DEF RootIsKnown
  <2>2. /\ rootLoads' = rootLoads \ {g} /\ rootLoad' = rootLoad
        /\ UNCHANGED <<link, boot, watch, transportUnavailable, abandoned>>
        /\ reconnect' \in [at : {"idle", "reopen", "reload"}, load : Nat]
        /\ reconnect'.at = "reload" => reconnect' = reconnect /\ reconnect.load # g /\ reconnect.load \in rootLoads'
        /\ OutageIsWatched'
    BY <1>1, Settles
  <2>3. ladder' \in Ladders /\ Steady(ladder, treeRetryGuarded)' /\ ladder'.retry = 0 /\ ladder'.raw = "none" /\ ladder'.attempt = 0
    BY <2>1, FreshIsSteady, LadderKept DEF Resumed, Fresh
  <2>4. RecoveryTypes'
    <3>1. \A h \in rootLoads' : h \in Nat /\ h <= rootLoad
      BY <1>0, <2>2 DEF RecoveryTypes
    <3>2. treeError' \in {"none", "transient", "final"} /\ fired' \in Nat
      BY <1>1, <2>1
    <3>3. givenUp' \in BOOLEAN
      BY <1>0, <1>1, Zenon DEF RecoveryTypes
    <3> QED
      BY <1>0, <2>2, <2>3, <3>1, <3>2, <3>3 DEF RecoveryTypes
  <2>5. RootIsKnown' /\ OwedIsKept'
    BY <1>1, <1>3, <2>1, <2>2, <2>3 DEF RootIsKnown, OwedIsKept
  <2>6. Budget'
    <3>1. fired' + (IF ladder'.retry # 0 THEN 1 ELSE 0) = 0
      BY ONLY <2>1, <2>3
    <3> QED
      BY ONLY <2>1, <2>3, <3>1, RetryAssumption DEF Budget
  <2> QED
    BY <2>2, <2>3, <2>4, <2>5, <2>6 DEF RecoveryInv
<1> QED
  BY <1>2, <1>3

LEMMA FailsKept ==
  ASSUME RecoveryInv, NEW g \in rootLoads, NEW raw \in {"transient", "final"}, RootFails(g, raw) PROVE RecoveryInv'
<1>0. RecoveryTypes /\ Steady(ladder, treeRetryGuarded) /\ RootIsKnown /\ OwedIsKept /\ Budget /\ OutageIsWatched
  BY DEF RecoveryInv
<1>1. /\ Settled(g) /\ UNCHANGED fired
      /\ treeError' = (IF g = rootLoad THEN raw ELSE treeError)
      /\ LadderIs(IF g = rootLoad THEN armAutoRetry(ladder, raw) ELSE ladder)
      /\ givenUp' = (IF g = rootLoad THEN ladder.attempt = AutoRetryMax /\ ladder.retry = 0 ELSE givenUp)
  BY DEF RootFails
<1>2. CASE g # rootLoad
  BY <1>1, <1>2, OldLoadKept
<1>3. CASE g = rootLoad
  <2> DEFINE l == armAutoRetry(ladder, raw)
  <2>1. UNCHANGED fired /\ treeError' = raw /\ LadderIs(l) /\ ~boot.waiting
        /\ givenUp' = (ladder.attempt = AutoRetryMax /\ ladder.retry = 0)
    BY <1>0, <1>1, <1>3 DEF RootIsKnown
  <2>2. /\ rootLoads' = rootLoads \ {g} /\ rootLoad' = rootLoad
        /\ UNCHANGED <<link, boot, watch, transportUnavailable, abandoned>>
        /\ reconnect' \in [at : {"idle", "reopen", "reload"}, load : Nat]
        /\ reconnect'.at = "reload" => reconnect' = reconnect /\ reconnect.load # g /\ reconnect.load \in rootLoads'
        /\ ~treeRetryGuarded' => reconnect'.at = "idle"
        /\ ~treeRetryGuarded => ~treeRetryGuarded'
        /\ OutageIsWatched'
    BY <1>1, Settles
  <2>3. fired \in Nat /\ ladder \in Ladders /\ ladder.attempt \in Nat /\ ladder.attempt <= AutoRetryMax
        /\ fired <= AutoRetryMax /\ fired + (IF ladder.retry # 0 THEN 1 ELSE 0) <= ladder.attempt
    BY <1>0, <1>3 DEF RecoveryTypes, Ladders, Steady, Budget, Spent
  \* The ladder before the watcher of the guard sees it.
  <2>4. /\ l \in Ladders /\ Steady(l, treeRetryGuarded) /\ l.attempt \in Nat
        /\ \/ l.retry # 0 /\ fired + 1 <= l.attempt
           \/ l.retry = 0 /\ l.raw = "none" /\ ~treeRetryGuarded /\ (raw = "transient" => givenUp')
           \/ l.retry = 0 /\ l.raw = raw /\ fired <= l.attempt /\ (l.attempt = AutoRetryMax => givenUp')
    <3>1. CASE ladder.retry # 0
      BY <1>0, <2>3, <3>1 DEF armAutoRetry
    <3>2. CASE ladder.retry = 0 /\ treeRetryGuarded
      <4>1. l = [ladder EXCEPT !.raw = raw]
        BY <3>2 DEF armAutoRetry
      <4>2. l \in Ladders /\ l.retry = 0 /\ l.raw = raw /\ l.attempt = ladder.attempt /\ l.timer = ladder.timer
        BY <2>3, <3>2, <4>1 DEF Ladders
      <4> HIDE DEF l
      <4>3. Steady(l, treeRetryGuarded)
        BY <1>0, <3>2, <4>2 DEF Steady
      <4>4. ladder.attempt = AutoRetryMax => givenUp'
        BY <2>1, <3>2, Zenon
      <4>5. l.retry = 0 /\ l.raw = raw /\ fired <= l.attempt /\ l.attempt \in Nat
        BY <2>3, <3>2, <4>2
      <4>6. l.attempt = AutoRetryMax => givenUp'
        BY <4>2, <4>4, Zenon
      <4> QED
        BY <4>2, <4>3, <4>5, <4>6, Zenon
    <3>3. CASE ladder.retry = 0 /\ ~treeRetryGuarded
      <4>1. l = Climb(ladder, raw)
        BY <3>3 DEF armAutoRetry
      <4> HIDE DEF l
      <4>2. /\ l \in Ladders /\ Steady(l, FALSE) /\ l.raw = "none"
            /\ \/ l.retry = 0 /\ (raw = "transient" => ladder.attempt = AutoRetryMax)
               \/ l.retry # 0 /\ l.attempt = ladder.attempt + 1
        BY <2>3, <4>1, Climbs
      <4>3. Steady(l, treeRetryGuarded) /\ l.attempt \in Nat
        BY <3>3, <4>2 DEF Steady, Ladders
      <4>4. l.retry # 0 => fired + 1 <= l.attempt
        BY <2>3, <3>3, <4>2
      <4> QED
        BY <2>1, <3>3, <4>2, <4>3, <4>4
    <3> QED
      BY <3>1, <3>2, <3>3
  <2> HIDE DEF l
  <2>5. /\ ladder' \in Ladders /\ Steady(ladder, treeRetryGuarded)'
        /\ \/ ladder'.retry = l.retry /\ ladder'.raw = l.raw /\ ladder'.attempt = l.attempt
           \/ Resumed(l)
    BY <2>1, <2>4, LadderKept
  <2>6. RecoveryTypes'
    <3>1. \A h \in rootLoads' : h \in Nat /\ h <= rootLoad
      BY <1>0, <2>2 DEF RecoveryTypes
    <3>2. treeError' \in {"none", "transient", "final"} /\ givenUp' \in BOOLEAN
      BY <2>1
    <3> QED
      BY <1>0, <2>1, <2>2, <2>5, <3>1, <3>2 DEF RecoveryTypes
  <2>7. RootIsKnown'
    BY <1>3, <2>1, <2>2 DEF RootIsKnown
  <2>8. OwedIsKept'
    <3> SUFFICES ASSUME raw = "transient", ~givenUp'
                 PROVE  ladder'.retry # 0 \/ (ladder'.raw = "transient" /\ ladder'.attempt < AutoRetryMax)
      BY <2>1 DEF OwedIsKept
    <3>1. l.attempt <= AutoRetryMax
      BY <2>4 DEF Steady
    <3> QED
      BY <2>4, <2>5, <3>1 DEF Resumed
  <2>9. Budget'
    <3>1. CASE Resumed(l)
      <4>1. l.retry = 0 /\ l.raw # "none" /\ fired <= l.attempt /\ ladder'.raw = "none" /\ reconnect'.at = "idle"
        BY <2>2, <2>4, <3>1 DEF Resumed
      <4>2. ladder'.retry = 0 => Spent'
        BY <1>3, <2>2, <4>1 DEF Spent
      <4>3. ladder'.retry # 0 => fired + 1 <= ladder'.attempt
        BY <2>3, <2>4, <3>1, <4>1 DEF Resumed
      <4> QED
        BY <2>1, <2>3, <4>2, <4>3 DEF Budget
    <3>2. CASE ladder'.retry = l.retry /\ ladder'.raw = l.raw /\ ladder'.attempt = l.attempt
      <4>1. l.retry = 0 /\ l.raw = "none" => Spent'
        BY <1>3, <2>2, <2>4, <3>2 DEF Spent
      <4>2. l.retry # 0 => fired + 1 <= ladder'.attempt
        BY <2>4, <3>2
      <4>3. l.retry = 0 /\ l.raw # "none" => fired <= ladder'.attempt
        BY <2>4, <3>2
      <4> QED
        BY <2>1, <2>3, <3>2, <4>1, <4>2, <4>3 DEF Budget
    <3> QED
      BY <2>5, <3>1, <3>2
  <2> QED
    BY <2>2, <2>5, <2>6, <2>7, <2>8, <2>9 DEF RecoveryInv
<1> QED
  BY <1>2, <1>3

\* A retry starts a reconnect: the countdown's own, or the user's.
LEMMA RetryKept == ASSUME RecoveryInv, AutoRetry \/ onManualRetry PROVE RecoveryInv'
<1>0. RecoveryTypes /\ Steady(ladder, treeRetryGuarded) /\ RootIsKnown /\ OwedIsKept /\ Budget /\ OutageIsWatched
  BY DEF RecoveryInv
<1>1. /\ reconnect' = [at |-> "reopen", load |-> 0]
      /\ UNCHANGED <<link, boot, watch, transportUnavailable, rootLoads, rootLoad, treeError, abandoned>>
  BY DEF AutoRetry, onManualRetry, Reconnect
<1>2. treeRetryGuarded' /\ OutageIsWatched'
  BY <1>0, <1>1 DEF treeRetryGuarded, OutageIsWatched
<1>3. SUFFICES ASSUME NEW l \in Ladders, LadderIs(l), Steady(l, treeRetryGuarded), l.retry = 0, l.raw = "none",
                      givenUp' \in BOOLEAN, fired' \in Nat, fired' <= AutoRetryMax, fired' <= l.attempt
               PROVE  RecoveryInv'
  <2>1. CASE AutoRetry
    <3> DEFINE l == [ladder EXCEPT !.retry = 0, !.timer = FALSE]
    <3>1. ladder.timer /\ fired' = fired + 1 /\ UNCHANGED givenUp /\ LadderIs(l)
      BY <2>1 DEF AutoRetry
    <3>2. ladder \in Ladders /\ ladder.retry # 0 /\ ladder.raw = "none" /\ ladder.attempt <= AutoRetryMax
      BY <1>0, <3>1 DEF RecoveryTypes, Steady
    <3>3. l \in Ladders /\ l.retry = 0 /\ l.timer = FALSE /\ l.raw = "none" /\ l.attempt = ladder.attempt
      BY <3>2 DEF Ladders
    <3> HIDE DEF l
    <3>4. Steady(l, treeRetryGuarded)
      BY <3>2, <3>3 DEF Steady
    <3>5. fired \in Nat /\ ladder.attempt \in Nat /\ fired + 1 <= ladder.attempt
      BY <1>0, <3>2 DEF RecoveryTypes, Budget, Spent, Ladders
    <3>6. fired' \in Nat /\ fired' <= AutoRetryMax /\ fired' <= l.attempt
      BY ONLY <3>1, <3>2, <3>3, <3>5, RetryAssumption
    <3>7. givenUp' \in BOOLEAN
      BY <1>0, <3>1, Zenon DEF RecoveryTypes
    <3> QED
      BY <1>3, <3>1, <3>3, <3>4, <3>6, <3>7
  <2>2. CASE onManualRetry
    <3>1. LadderIs(Fresh) /\ fired' = 0 /\ givenUp' = FALSE
      BY <2>2 DEF onManualRetry
    <3>2. Fresh.retry = 0 /\ Fresh.raw = "none" /\ Fresh.attempt = 0
      BY DEF Fresh
    <3>3. Fresh \in Ladders /\ Steady(Fresh, treeRetryGuarded)
      BY FreshIsSteady
    <3>4. fired' = 0 /\ Fresh.attempt = 0
      BY <3>1, <3>2
    <3>5. fired' \in Nat /\ fired' <= AutoRetryMax /\ fired' <= Fresh.attempt
      BY ONLY <3>4, RetryAssumption
    <3> QED
      BY <1>3, <3>1, <3>2, <3>3, <3>5
  <2> QED
    BY <2>1, <2>2
<1>4. ladder' \in Ladders /\ Steady(ladder, treeRetryGuarded)' /\ ladder'.retry = 0 /\ ladder'.raw = "none"
      /\ ladder'.attempt = l.attempt
  BY <1>2, <1>3, LadderKept DEF Resumed
<1>5. RecoveryTypes'
  BY <1>0, <1>1, <1>3, <1>4 DEF RecoveryTypes
<1>6. RootIsKnown' /\ OwedIsKept'
  BY <1>0, <1>1, <1>4 DEF RootIsKnown, OwedIsKept
<1>7. Budget'
  <2>1. fired' + (IF ladder'.retry # 0 THEN 1 ELSE 0) <= ladder'.attempt
    BY ONLY <1>3, <1>4
  <2> QED
    BY ONLY <1>3, <2>1 DEF Budget
<1> QED
  BY <1>2, <1>4, <1>5, <1>6, <1>7 DEF RecoveryInv

\* The host's answer to a reconnect: the root loads, with the ladder as it is.
LEMMA ReopenedKept == ASSUME RecoveryInv, Reopened PROVE RecoveryInv'
<1>0. RecoveryTypes /\ Steady(ladder, treeRetryGuarded) /\ RootIsKnown /\ OwedIsKept /\ Budget /\ OutageIsWatched
  BY DEF RecoveryInv
<1>1. /\ reconnect.at = "reopen" /\ LadderIs(ladder)
      /\ UNCHANGED <<link, boot, watch, transportUnavailable, abandoned, givenUp, fired>>
  BY DEF Reopened
<1>2. OutageIsWatched'
  BY <1>0, <1>1 DEF OutageIsWatched
<1>3. treeRetryGuarded
  BY <1>1 DEF treeRetryGuarded
<1>4. CASE boot.waiting
  <2>1. reconnect' = [at |-> "idle", load |-> 0] /\ UNCHANGED <<rootLoads, rootLoad, treeError>>
    BY <1>4 DEF Reopened
  <2>2. treeError = "none" /\ rootLoad \notin rootLoads /\ treeRetryGuarded'
    BY <1>0, <1>1, <1>4 DEF RootIsKnown, treeRetryGuarded
  <2>3. ladder' = ladder
    BY <1>1, <1>3, <2>2, GuardIsBoolean DEF LadderIs
  <2>4. RecoveryTypes' /\ RootIsKnown' /\ OwedIsKept'
    BY <1>0, <1>1, <2>1, <2>2, <2>3 DEF RecoveryTypes, RootIsKnown, OwedIsKept
  <2>5. Steady(ladder, treeRetryGuarded)'
    BY <1>0, <1>3, <2>2, <2>3 DEF Steady
  <2>6. Budget'
    BY <1>0, <1>1, <2>3 DEF Budget, Spent
  <2> QED
    BY <1>2, <2>4, <2>5, <2>6 DEF RecoveryInv
<1>5. CASE ~boot.waiting
  <2>1. reconnect' = [at |-> "reload", load |-> rootLoad + 1] /\ LoadRoot
    BY <1>5 DEF Reopened
  <2>2. treeError' = "none" /\ rootLoad' = rootLoad + 1 /\ rootLoads' = rootLoads \cup {rootLoad + 1}
    BY <1>1, <1>5, <2>1 DEF LoadRoot
  <2>3. treeRetryGuarded' /\ ladder' = ladder
    <3>1. treeRetryGuarded'
      BY <2>1 DEF treeRetryGuarded
    <3> QED
      BY <1>1, <1>3, <3>1, GuardIsBoolean DEF LadderIs
  <2>4. rootLoad' \in Nat /\ \A g \in rootLoads' : g \in Nat /\ g <= rootLoad'
    <3>1. rootLoad \in Nat /\ \A g \in rootLoads : g \in Nat /\ g <= rootLoad
      BY <1>0 DEF RecoveryTypes
    <3> QED
      BY ONLY <2>2, <3>1
  <2>5. RecoveryTypes'
    BY <1>0, <1>1, <2>1, <2>2, <2>3, <2>4 DEF RecoveryTypes
  <2>6. RootIsKnown' /\ OwedIsKept'
    BY <1>0, <1>1, <1>5, <2>1, <2>2, <2>3 DEF RootIsKnown, OwedIsKept
  <2>7. Steady(ladder, treeRetryGuarded)'
    BY <1>0, <1>3, <2>3 DEF Steady
  <2>8. Budget'
    BY <1>0, <1>1, <2>3 DEF Budget, Spent
  <2> QED
    BY <1>2, <2>5, <2>6, <2>7, <2>8 DEF RecoveryInv
<1>6. boot.waiting \in BOOLEAN
  BY <1>0 DEF RecoveryTypes
<1> QED
  BY <1>4, <1>5

\* The watch's own steps leave the guard alone.
LEMMA WatchKept == ASSUME RecoveryInv, Probe \/ ProbeEnds \/ tryRecover \/ RecoveryFails PROVE RecoveryInv'
<1>0. RecoveryTypes /\ RootIsKnown /\ OutageIsWatched
  BY DEF RecoveryInv
<1>1. UNCHANGED <<link, boot, reconnect, transportUnavailable, ladder>> /\ TreeStays
  BY DEF Probe, ProbeEnds, tryRecover, RecoveryFails, WatchOnly
<1>2. treeRetryGuarded' = treeRetryGuarded
  BY <1>1 DEF treeRetryGuarded
<1>3. /\ watch' \in [probe : Links \cup {NoLink}, subject : Links \cup {NoLink}, recovery : {"idle", "under way"}]
      /\ watch'.subject = watch.subject \/ abandoned'
      /\ abandoned => abandoned'
      /\ abandoned' \in BOOLEAN
  <2>1. watch \in [probe : Links \cup {NoLink}, subject : Links \cup {NoLink}, recovery : {"idle", "under way"}]
        /\ abandoned \in BOOLEAN /\ link \in Links
    BY <1>0 DEF RecoveryTypes
  <2>2. CASE Probe
    BY <2>1, <2>2 DEF Probe
  <2>3. CASE ProbeEnds
    BY <2>1, <2>3 DEF ProbeEnds
  <2>4. CASE RecoveryFails
    BY <2>1, <2>4 DEF RecoveryFails
  <2>5. CASE tryRecover
    <3>1. watch' = (IF watching /\ link = watch.subject THEN [watch EXCEPT !.recovery = "under way"]
                    ELSE [watch EXCEPT !.subject = NoLink])
          /\ abandoned' = (abandoned \/ watch'.subject = NoLink)
      BY <2>5 DEF tryRecover
    <3>2. /\ watch' \in [probe : Links \cup {NoLink}, subject : Links \cup {NoLink}, recovery : {"idle", "under way"}]
          /\ watch'.subject = watch.subject \/ watch'.subject = NoLink
      BY <2>1, <3>1
    <3> QED
      BY <3>1, <3>2
  <2> QED
    BY <2>2, <2>3, <2>4, <2>5
<1>4. OutageIsWatched'
  BY <1>0, <1>1, <1>3 DEF OutageIsWatched
<1> QED
  BY <1>0, <1>1, <1>2, <1>3, <1>4, TreeKept DEF RecoveryTypes, RootIsKnown

\* An outage: the guard can only be set, so no failure is climbed for.
LEMMA OutageKept == ASSUME RecoveryInv, ProbeFails \/ onOffline PROVE RecoveryInv'
<1>0. RecoveryTypes /\ Steady(ladder, treeRetryGuarded) /\ RootIsKnown /\ OwedIsKept /\ Budget /\ OutageIsWatched
  BY DEF RecoveryInv
<1>1. UNCHANGED <<link, boot, reconnect, abandoned>> /\ TreeStays /\ LadderIs(ladder)
  BY DEF ProbeFails, onOffline, WatchOnly
<1>2. UNCHANGED <<rootLoads, rootLoad, treeError, givenUp, fired>>
  BY <1>1 DEF TreeStays
<1>3. link \in Links /\ link # NoLink /\ transportUnavailable \in BOOLEAN
      /\ watch \in [probe : Links \cup {NoLink}, subject : Links \cup {NoLink}, recovery : {"idle", "under way"}]
  BY <1>0 DEF RecoveryTypes
<1>4. /\ watch' \in [probe : Links \cup {NoLink}, subject : Links \cup {NoLink}, recovery : {"idle", "under way"}]
      /\ \/ watch'.subject = link /\ transportUnavailable' = TRUE
         \/ watch'.subject = watch.subject /\ UNCHANGED transportUnavailable
  <2>1. CASE ProbeFails
    <3>1. PICK s \in Links \cup {NoLink} : watch' = [probe |-> NoLink, subject |-> s, recovery |-> watch.recovery]
      BY <2>1 DEF ProbeFails, WatchIs
    <3> QED
      BY <1>3, <2>1, <3>1 DEF ProbeFails, reportUnavailable
  <2>2. CASE onOffline
    <3>1. PICK s \in Links \cup {NoLink} : watch' = [probe |-> watch.probe, subject |-> s, recovery |-> watch.recovery]
      BY <2>2 DEF onOffline, WatchIs
    <3> QED
      BY <1>3, <2>2, <3>1 DEF onOffline, reportUnavailable
  <2> QED
    BY <2>1, <2>2
<1>5. OutageIsWatched' /\ transportUnavailable' \in BOOLEAN /\ (treeRetryGuarded => treeRetryGuarded')
  <2>1. transportUnavailable => transportUnavailable'
    BY <1>4
  <2>2. treeRetryGuarded => treeRetryGuarded'
    BY <1>1, <2>1 DEF treeRetryGuarded
  <2>3. OutageIsWatched'
    BY <1>0, <1>1, <1>3, <1>4 DEF OutageIsWatched
  <2>4. transportUnavailable' \in BOOLEAN
    BY <1>3, <1>4, Zenon
  <2> QED
    BY <2>2, <2>3, <2>4
<1>6. /\ ladder \in Ladders /\ ladder' \in Ladders /\ Steady(ladder, treeRetryGuarded)'
      /\ ladder'.retry = ladder.retry /\ ladder'.raw = ladder.raw /\ ladder'.attempt = ladder.attempt
  <2>1. ladder \in Ladders
    BY <1>0 DEF RecoveryTypes
  <2> QED
    BY <1>0, <1>1, <1>5, <2>1, LadderKept DEF Resumed
<1>7. RecoveryTypes'
  BY <1>0, <1>1, <1>2, <1>4, <1>5, <1>6 DEF RecoveryTypes
<1>8. RootIsKnown' /\ OwedIsKept'
  BY <1>0, <1>1, <1>2, <1>6 DEF RootIsKnown, OwedIsKept
<1>9. Budget'
  BY <1>0, <1>1, <1>2, <1>6 DEF Budget, Spent
<1> QED
  BY <1>5, <1>6, <1>7, <1>8, <1>9 DEF RecoveryInv

LEMMA RecoveryStep == RecoveryInv /\ [RecoveryNext]_recoveryVars => RecoveryInv'
<1> SUFFICES ASSUME RecoveryInv, [RecoveryNext]_recoveryVars PROVE RecoveryInv'
  OBVIOUS
<1>1. CASE BootReady \/ BootNotConnected \/ BootReopened \/ BootRetries
  BY <1>1, BootKept
<1>2. CASE \E g \in rootLoads : RootLoaded(g) \/ \E raw \in {"transient", "final"} : RootFails(g, raw)
  BY <1>2, LoadedKept, FailsKept
<1>3. CASE AutoRetry \/ onManualRetry
  BY <1>3, RetryKept
<1>4. CASE Reopened
  BY <1>4, ReopenedKept
<1>5. CASE RefreshTree \/ UserActs \/ Recovered \/ \E k \in Links : SwitchLink(k)
  BY <1>5, UserKept
<1>6. CASE Probe \/ ProbeEnds \/ tryRecover \/ RecoveryFails
  BY <1>6, WatchKept
<1>7. CASE ProbeFails \/ onOffline
  BY <1>7, OutageKept
<1>8. CASE UNCHANGED recoveryVars
  <2>1. UNCHANGED <<link, boot, watch, transportUnavailable, reconnect, rootLoads, rootLoad, treeError, ladder,
                    abandoned, givenUp, fired>>
    BY <1>8 DEF recoveryVars
  <2>2. treeRetryGuarded' = treeRetryGuarded
    BY <2>1 DEF treeRetryGuarded
  <2>3. RecoveryTypes /\ RootIsKnown /\ OutageIsWatched
    BY DEF RecoveryInv
  <2>4. OutageIsWatched'
    BY <2>1, <2>3 DEF OutageIsWatched
  <2> QED
    BY <2>1, <2>2, <2>3, <2>4, TreeKept DEF TreeStays, RecoveryTypes, RootIsKnown
<1> QED
  BY <1>1, <1>2, <1>3, <1>4, <1>5, <1>6, <1>7, <1>8 DEF RecoveryNext

(* No retry of the tree is lost and none is too many, at every moment of the *)
(* boot, the reconnects, the outages and the switches, for any number of     *)
(* events and any length of the ladder.                                      *)
THEOREM RetriesAreKept == RecoverySpec => []RetriesSurvive
<1>1. RecoveryInv => RetriesSurvive
  BY DEF RecoveryInv, RecoveryTypes, Steady, RootIsKnown, OwedIsKept, Budget, OutageIsWatched, RetriesSurvive
<1> QED
  BY <1>1, RecoveryInitInv, RecoveryStep, PTL DEF RecoverySpec

(* ------------------ what stays on its connection ----------------------- *)
\* The tabs are told apart by the steps that opened them, and by their entries.
TabsAreApart ==
  /\ IsFiniteSet(openTabs) /\ Cardinality(openTabs) <= OpenTabsMax
  /\ \A tab \in openTabs : tab = [dn |-> tab.dn, of |-> connectionId, at |-> tab.at] /\ tab.at \in Nat /\ tab.at <= shellSteps
  /\ \A tab, other \in openTabs : tab.at = other.at \/ tab.dn = other.dn => tab = other

BatchIsHome == batch = [kind |-> batch.kind, todo |-> batch.todo, conn |-> batch.conn, on |-> batch.conn]

\* What a replay searches for was written, or came from an event that went astray.
ReplayIsHome ==
  /\ replay = [conn |-> replay.conn, keys |-> replay.keys, timer |-> replay.timer]
  /\ \A key \in replay.keys :
       key[2] = replay.conn /\ replay.timer = TRUE /\ (key \in executed \/ <<"event", key>> \in strayed)

OnlyKnownStray == \A s \in strayed : s[1] \in {"event", "base"}
DialogIsHome == dialog # Closed => dialog.on = connectionId
BaseIsHome == connectionId \in ConfiguredBase => baseDn = connectionId

ShellInv ==
  /\ connectionId \in Connections /\ shellSteps \in Nat
  /\ TabsAreApart /\ BatchIsHome /\ ReplayIsHome /\ OnlyKnownStray /\ DialogIsHome /\ BaseIsHome

\* Fewer tabs are as far apart.
LEMMA FewerTabs ==
  ASSUME TabsAreApart, openTabs' \subseteq openTabs, connectionId' = connectionId, shellSteps \in Nat,
         shellSteps' \in {shellSteps, shellSteps + 1}
  PROVE  TabsAreApart'
<1>1. IsFiniteSet(openTabs') /\ Cardinality(openTabs') <= Cardinality(openTabs)
      /\ Cardinality(openTabs) \in Nat /\ Cardinality(openTabs') \in Nat
  BY FS_Subset, FS_CardinalityType DEF TabsAreApart
<1>2. Cardinality(openTabs') <= OpenTabsMax
  BY <1>1, ShellAssumption DEF TabsAreApart
<1> QED
  BY <1>1, <1>2 DEF TabsAreApart

\* Opening a tab keeps the tabs apart, and evicts the oldest one at the limit.
LEMMA OpenKeepsApart ==
  ASSUME TabsAreApart, NEW dn, connectionId' = connectionId, shellSteps \in Nat, shellSteps' = shellSteps + 1,
         openTabs' = appendOpenTab(openTabs, [dn |-> dn, of |-> connectionId, at |-> shellSteps + 1])
  PROVE  TabsAreApart'
<1> DEFINE tab == [dn |-> dn, of |-> connectionId, at |-> shellSteps + 1]
           next == openTabs \cup {tab}
<1> USE ShellAssumption
<1>1. CASE dn \in DnsOf(openTabs)
  <2>1. openTabs' = openTabs
    BY <1>1 DEF appendOpenTab
  <2> QED
    BY <2>1, FewerTabs
<1>2. CASE dn \notin DnsOf(openTabs)
  <2>1. openTabs' = IF Cardinality(next) > OpenTabsMax THEN next \ Oldest(next) ELSE next
    BY <1>2 DEF appendOpenTab
  <2>2. /\ \A t \in next : t = [dn |-> t.dn, of |-> connectionId, at |-> t.at] /\ t.at \in Nat /\ t.at <= shellSteps + 1
        /\ \A t, other \in next : t.at = other.at \/ t.dn = other.dn => t = other
    BY <1>2 DEF TabsAreApart, DnsOf
  <2>3. IsFiniteSet(next) /\ Cardinality(openTabs) \in Nat /\ Cardinality(openTabs) <= OpenTabsMax
        /\ Cardinality(next) <= Cardinality(openTabs) + 1 /\ Cardinality(next) \in Nat
    <3>1. IsFiniteSet(openTabs) /\ Cardinality(openTabs) \in Nat /\ Cardinality(openTabs) <= OpenTabsMax
      BY FS_CardinalityType DEF TabsAreApart
    <3>2. IsFiniteSet(next) /\ (Cardinality(next) = Cardinality(openTabs) \/ Cardinality(next) = Cardinality(openTabs) + 1)
      BY <3>1, FS_AddElement
    <3> QED
      BY <3>1, <3>2
  <2>4. openTabs' \subseteq next
    BY <2>1
  <2>5. IsFiniteSet(openTabs')
    BY <2>3, <2>4, FS_Subset
  <2>6. Cardinality(openTabs') <= OpenTabsMax
    <3>1. CASE Cardinality(next) > OpenTabsMax
      <4> DEFINE ats == {t.at : t \in next}
      <4>1. ats \in SUBSET Nat /\ ats # {}
        BY <2>2
      <4>2. PICK m \in ats : \A n \in ats : m <= n
        BY <4>1, LeastNumber
      <4>3. PICK t \in next : t.at = m
        BY <4>2
      <4>4. t \in Oldest(next)
        BY <4>2, <4>3 DEF Oldest
      <4>5. openTabs' \subseteq next \ {t}
        BY <2>1, <3>1, <4>4
      <4>6. IsFiniteSet(next \ {t}) /\ Cardinality(next \ {t}) = Cardinality(next) - 1
        BY <2>3, <4>3, FS_RemoveElement
      <4>7. Cardinality(openTabs') <= Cardinality(next \ {t}) /\ Cardinality(openTabs') \in Nat
        BY <2>5, <4>5, <4>6, FS_Subset, FS_CardinalityType
      <4> QED
        BY ONLY <2>3, <4>6, <4>7, ShellAssumption
    <3>2. CASE ~(Cardinality(next) > OpenTabsMax)
      BY <2>1, <2>3, <3>2
    <3> QED
      BY <3>1, <3>2
  <2> HIDE DEF next
  <2> QED
    BY <2>2, <2>4, <2>5, <2>6 DEF TabsAreApart
<1> QED
  BY <1>1, <1>2

\* Moved tabs that become one tab leave the oldest of them.
LEMMA RenamedTabs ==
  ASSUME TabsAreApart, NEW e, openTabs' = Renamed(openTabs, e), connectionId' = connectionId, shellSteps' = shellSteps
  PROVE  TabsAreApart'
<1> DEFINE kept == {t \in openTabs : ~Seen(openTabs, e, t)}
           f == [t \in kept |-> [dn |-> NewDn(e, t), of |-> t.of, at |-> t.at]]
<1>1. openTabs' = {f[t] : t \in kept}
  BY DEF Renamed
<1>2. IsFiniteSet(kept) /\ Cardinality(kept) <= Cardinality(openTabs)
      /\ Cardinality(kept) \in Nat /\ Cardinality(openTabs) \in Nat
  BY FS_Subset, FS_CardinalityType DEF TabsAreApart
<1>3. f \in Surjection(kept, openTabs')
  BY <1>1 DEF Surjection
<1>4. IsFiniteSet(openTabs') /\ Cardinality(openTabs') <= Cardinality(kept) /\ Cardinality(openTabs') \in Nat
  BY <1>2, <1>3, FS_Surjection, FS_CardinalityType
<1>5. Cardinality(openTabs') <= OpenTabsMax
  BY <1>2, <1>4, ShellAssumption DEF TabsAreApart
<1>6. \A t \in kept : f[t].dn = NewDn(e, t) /\ f[t].at = t.at
                      /\ f[t] = [dn |-> f[t].dn, of |-> connectionId, at |-> f[t].at] /\ t.at \in Nat /\ t.at <= shellSteps
  BY DEF TabsAreApart
<1>7. \A s, t \in kept : s.at = t.at \/ NewDn(e, s) = NewDn(e, t) => s = t
  <2> SUFFICES ASSUME NEW s \in kept, NEW t \in kept, s.at = t.at \/ NewDn(e, s) = NewDn(e, t) PROVE s = t
    OBVIOUS
  <2>1. s \in openTabs /\ t \in openTabs /\ ~Seen(openTabs, e, s) /\ ~Seen(openTabs, e, t) /\ s.at \in Nat /\ t.at \in Nat
    BY DEF TabsAreApart
  <2>2. NewDn(e, s) = NewDn(e, t) => ~(s.at < t.at) /\ ~(t.at < s.at)
    BY <2>1 DEF Seen
  <2>3. s.at = t.at
    BY <2>1, <2>2
  <2> QED
    BY <2>1, <2>3 DEF TabsAreApart
<1> HIDE DEF f, kept
<1>8. ASSUME NEW tab \in openTabs'
      PROVE  tab = [dn |-> tab.dn, of |-> connectionId, at |-> tab.at] /\ tab.at \in Nat /\ tab.at <= shellSteps
  <2>1. PICK t \in kept : tab = f[t]
    BY <1>1
  <2> QED
    BY <1>6, <2>1
<1>9. ASSUME NEW tab \in openTabs', NEW other \in openTabs', tab.at = other.at \/ tab.dn = other.dn
      PROVE  tab = other
  <2>1. PICK t \in kept, o \in kept : tab = f[t] /\ other = f[o]
    BY <1>1
  <2>2. tab.at = t.at /\ tab.dn = NewDn(e, t) /\ other.at = o.at /\ other.dn = NewDn(e, o)
    BY <1>6, <2>1
  <2>3. t.at = o.at \/ NewDn(e, t) = NewDn(e, o)
    BY <1>9, <2>2, Zenon
  <2>4. t = o
    BY <1>7, <2>1, <2>3, Zenon
  <2> QED
    BY <2>1, <2>4, Zenon
<1> QED
  BY <1>4, <1>5, <1>8, <1>9 DEF TabsAreApart

\* An event of an entry: of the connection that is shown, or ignored.
LEMMA EventKept ==
  ASSUME TabsAreApart, ReplayIsHome, NEW e, onEntryEvent(e), shellSteps \in Nat,
         connectionId' = connectionId, shellSteps' = shellSteps,
         executed \subseteq executed', strayed \subseteq strayed',
         e.conn = connectionId => <<e.base, e.conn>> \in executed' \/ <<"event", <<e.base, e.conn>>>> \in strayed'
  PROVE  TabsAreApart' /\ ReplayIsHome'
<1>1. CASE e.conn # connectionId
  BY <1>1 DEF onEntryEvent, TabsAreApart, ReplayIsHome
<1>2. CASE e.conn = connectionId
  <2>1. /\ openTabs' = IF e.kind = "move" THEN Renamed(openTabs, e) ELSE {tab \in openTabs : ~Affected(e, tab.dn)}
        /\ replay' = IF e.kind = "modify" THEN replay
                     ELSE [conn |-> e.conn, timer |-> TRUE,
                           keys |-> (IF replay.conn = e.conn THEN replay.keys ELSE {}) \cup {<<e.base, e.conn>>}]
    BY <1>2 DEF onEntryEvent
  <2>2. TabsAreApart'
    <3>1. CASE e.kind = "move"
      BY <2>1, <3>1, RenamedTabs
    <3>2. CASE e.kind # "move"
      <4>1. openTabs' \subseteq openTabs
        BY <2>1, <3>2
      <4> QED
        BY <4>1, FewerTabs
    <3> QED
      BY <3>1, <3>2
  <2>3. ReplayIsHome'
    <3>1. CASE e.kind = "modify"
      BY <2>1, <3>1 DEF ReplayIsHome
    <3>2. CASE e.kind # "modify"
      <4> DEFINE old == IF replay.conn = e.conn THEN replay.keys ELSE {}
      <4>1. replay' = [conn |-> e.conn, timer |-> TRUE, keys |-> old \cup {<<e.base, e.conn>>}]
        BY <2>1, <3>2
      <4>2. \A key \in old : key[2] = e.conn /\ (key \in executed' \/ <<"event", key>> \in strayed')
        BY DEF ReplayIsHome
      <4> HIDE DEF old
      <4>3. \A key \in replay'.keys : key[2] = e.conn /\ (key \in executed' \/ <<"event", key>> \in strayed')
        <5> SUFFICES ASSUME NEW key \in old \cup {<<e.base, e.conn>>}
                     PROVE  key[2] = e.conn /\ (key \in executed' \/ <<"event", key>> \in strayed')
          BY <4>1
        <5>1. CASE key \in old
          BY <4>2, <5>1
        <5>2. CASE key = <<e.base, e.conn>>
          BY <1>2, <5>2
        <5> QED
          BY <5>1, <5>2
      <4>4. replay' = [conn |-> replay'.conn, keys |-> replay'.keys, timer |-> replay'.timer]
            /\ replay'.conn = e.conn /\ replay'.timer = TRUE
        BY <4>1
      <4> QED
        BY <4>3, <4>4 DEF ReplayIsHome
    <3> QED
      BY <3>1, <3>2
  <2> QED
    BY <2>2, <2>3
<1> QED
  BY <1>1, <1>2

\* A batch goes on only on the connection that it was confirmed on.
LEMMA NextEntryIsHome ==
  ASSUME BatchIsHome, NEW todo, NextEntry([batch EXCEPT !.todo = todo]) PROVE BatchIsHome'
<1> DEFINE b == [batch EXCEPT !.todo = todo]
<1>1. b = [kind |-> batch.kind, todo |-> todo, conn |-> batch.conn, on |-> batch.conn]
  BY DEF BatchIsHome
<1>2. CASE goesOn(b)
  <2>1. connectionId = b.conn /\ batch' = [b EXCEPT !.on = connectionId]
    BY <1>2 DEF NextEntry, goesOn
  <2>2. batch' = [kind |-> batch.kind, todo |-> todo, conn |-> batch.conn, on |-> batch.conn]
    BY <1>1, <2>1
  <2> QED
    BY <2>2 DEF BatchIsHome
<1>3. CASE ~goesOn(b)
  BY <1>3 DEF NextEntry, NoBatch, BatchIsHome
<1> QED
  BY <1>2, <1>3

LEMMA ShellInitInv == ShellInit => ShellInv
<1> SUFFICES ASSUME ShellInit PROVE ShellInv
  OBVIOUS
<1>1. connectionId \in Connections /\ shellSteps = 0 /\ openTabs = {} /\ batch = NoBatch /\ replay = NoReplay /\ strayed = {}
      /\ dialog = Closed /\ baseDn = Explicit(connectionId)
  BY DEF ShellInit
<1>2. TabsAreApart
  BY <1>1, ShellAssumption, FS_EmptySet DEF TabsAreApart
<1> QED
  BY <1>1, <1>2 DEF ShellInv, BatchIsHome, ReplayIsHome, OnlyKnownStray, DialogIsHome, BaseIsHome, NoBatch, NoReplay, Explicit

LEMMA ShellStepKept == ShellInv /\ [ShellNext]_shellVars => ShellInv'
<1> SUFFICES ASSUME ShellInv, [ShellNext]_shellVars PROVE ShellInv'
  OBVIOUS
<1>0. /\ connectionId \in Connections /\ shellSteps \in Nat
      /\ TabsAreApart /\ BatchIsHome /\ ReplayIsHome /\ OnlyKnownStray /\ DialogIsHome /\ BaseIsHome
  BY DEF ShellInv
<1>1. ASSUME UNCHANGED <<openTabs, connectionId>>, shellSteps' \in {shellSteps, shellSteps + 1} PROVE TabsAreApart'
  BY <1>0, <1>1, FewerTabs
<1>2. ASSUME UNCHANGED <<replay, executed>>, strayed \subseteq strayed' PROVE ReplayIsHome'
  BY <1>0, <1>2 DEF ReplayIsHome
<1>3. ASSUME NEW dn \in Entries, openEntry(dn) PROVE ShellInv'
  <2>1. TabsAreApart'
    BY <1>0, <1>3, OpenKeepsApart DEF openEntry, ShellStep
  <2> QED
    BY <1>0, <1>2, <1>3, <2>1 DEF openEntry, ShellStep, ShellInv, BatchIsHome, OnlyKnownStray, DialogIsHome, BaseIsHome
<1>4. ASSUME NEW dn \in DnsOf(openTabs), onCloseTab(dn) PROVE ShellInv'
  <2>1. openTabs' \subseteq openTabs
    BY <1>4 DEF onCloseTab
  <2>2. TabsAreApart'
    BY <1>0, <1>4, <2>1, FewerTabs DEF onCloseTab
  <2> QED
    BY <1>0, <1>2, <1>4, <2>2 DEF onCloseTab, ShellInv, BatchIsHome, OnlyKnownStray, DialogIsHome, BaseIsHome
<1>5. CASE flushEntryReplay
  <2>1. /\ replay' = NoReplay
        /\ strayed' = strayed \cup {<<"replay", key>> : key \in {k \in replay.keys : replay.conn = connectionId /\ k[2] # connectionId}}
        /\ UNCHANGED <<connectionId, dialog, batch, openTabs, baseDn, shellSteps, executed>>
    BY <1>5 DEF flushEntryReplay
  <2>2. strayed' = strayed
    BY <1>0, <2>1 DEF ReplayIsHome
  <2>3. ReplayIsHome'
    BY <2>1 DEF ReplayIsHome, NoReplay
  <2> QED
    BY <1>0, <1>1, <2>1, <2>2, <2>3 DEF ShellInv, BatchIsHome, OnlyKnownStray, DialogIsHome, BaseIsHome
<1>6. ASSUME NEW kind \in Dialogs, confirmed(kind) PROVE ShellInv'
  <2> DEFINE write == submitting[kind]
             e == Event(kind, connectionId, source[kind], write.to, write.descendants)
  <2>1. /\ dialog' = (IF dialog.kind = kind THEN Closed ELSE dialog)
        /\ executed' = executed \cup {<<write.dn, write.on>>}
        /\ onEntryEvent(e)
        /\ strayed' = (IF connectionId = write.on /\ source[kind] = write.dn THEN strayed
                       ELSE strayed \cup {<<"event", <<source[kind], connectionId>>>>})
        /\ UNCHANGED <<connectionId, batch, baseDn, shellSteps>>
    BY <1>6 DEF confirmed
  <2>2. e.base = source[kind] /\ e.conn = connectionId
    BY DEF Event
  <2>3. <<e.base, e.conn>> \in executed' \/ <<"event", <<e.base, e.conn>>>> \in strayed'
    BY <2>1, <2>2
  <2>4. executed \subseteq executed' /\ strayed \subseteq strayed' /\ OnlyKnownStray'
    BY <1>0, <2>1 DEF OnlyKnownStray
  <2> HIDE DEF e
  <2>5. TabsAreApart' /\ ReplayIsHome'
    BY <1>0, <2>1, <2>3, <2>4, EventKept
  <2>6. DialogIsHome'
    BY <1>0, <2>1 DEF DialogIsHome
  <2> QED
    BY <1>0, <2>1, <2>4, <2>5, <2>6 DEF ShellInv, BatchIsHome, BaseIsHome
<1>7. ASSUME NEW to \in Entries, BatchAnswered(to) PROVE ShellInv'
  <2> DEFINE e == Event(batch.kind, batch.conn, Head(batch.todo), to, TRUE)
  <2>1. /\ executed' = executed \cup {<<Head(batch.todo), batch.on>>}
        /\ strayed' = (IF batch.on = batch.conn THEN strayed ELSE strayed \cup {<<"write", <<Head(batch.todo), batch.on>>>>})
        /\ onEntryEvent(e)
        /\ NextEntry([batch EXCEPT !.todo = Tail(@)])
        /\ UNCHANGED <<connectionId, dialog, baseDn, shellSteps>>
    BY <1>7 DEF BatchAnswered
  <2>2. batch.on = batch.conn
    BY <1>0 DEF BatchIsHome
  <2>3. e.base = Head(batch.todo) /\ e.conn = batch.conn
    BY DEF Event
  <2> HIDE DEF e
  <2>4. TabsAreApart' /\ ReplayIsHome'
    BY <1>0, <2>1, <2>2, <2>3, EventKept
  <2>5. NextEntry([batch EXCEPT !.todo = Tail(batch.todo)])
    BY <2>1
  <2>6. BatchIsHome'
    BY <1>0, <2>5, NextEntryIsHome
  <2> QED
    BY <1>0, <2>1, <2>2, <2>4, <2>6 DEF ShellInv, OnlyKnownStray, DialogIsHome, BaseIsHome
<1>8. CASE BatchEntryFails
  <2>1. NextEntry([batch EXCEPT !.todo = Tail(batch.todo)])
    BY <1>8 DEF BatchEntryFails
  <2>2. BatchIsHome'
    BY <1>0, <2>1, NextEntryIsHome
  <2> QED
    BY <1>0, <1>1, <1>2, <1>8, <2>2 DEF BatchEntryFails, ShellStep, ShellInv, OnlyKnownStray, DialogIsHome, BaseIsHome
<1>9. ASSUME NEW kind \in Writes, NEW dns \in Lists, onBatchConfirm(kind, dns) PROVE ShellInv'
  <2>1. BatchIsHome'
    BY <1>9 DEF onBatchConfirm, BatchIsHome
  <2> QED
    BY <1>0, <1>1, <1>2, <1>9, <2>1 DEF onBatchConfirm, ShellStep, ShellInv, OnlyKnownStray, DialogIsHome, BaseIsHome
<1>10. ASSUME NEW kind \in Dialogs, NEW dn \in Entries, ask(kind, dn) PROVE ShellInv'
  BY <1>0, <1>1, <1>2, <1>10 DEF ask, ShellStep, ShellInv, BatchIsHome, OnlyKnownStray, DialogIsHome, BaseIsHome
<1>11. ASSUME NEW kind \in Dialogs, confirmFailed(kind) PROVE ShellInv'
  BY <1>0, <1>1, <1>2, <1>11 DEF confirmFailed, ShellStep, ShellInv, BatchIsHome, OnlyKnownStray, DialogIsHome, BaseIsHome
<1>12. ASSUME NEW to \in Entries, NEW recursive \in BOOLEAN, confirm(to, recursive) PROVE ShellInv'
  BY <1>0, <1>1, <1>2, <1>12 DEF confirm, ShellInv, BatchIsHome, OnlyKnownStray, DialogIsHome, BaseIsHome
<1>13. CASE cancel
  BY <1>0, <1>1, <1>2, <1>13 DEF cancel, ShellInv, BatchIsHome, OnlyKnownStray, DialogIsHome, BaseIsHome
<1>14. CASE batchAbort
  BY <1>0, <1>1, <1>2, <1>14 DEF batchAbort, ShellStep, ShellInv, BatchIsHome, OnlyKnownStray, DialogIsHome, BaseIsHome
<1>15. ASSUME NEW k \in Connections, syncConnectionContext(k) PROVE ShellInv'
  <2>1. /\ connectionId' = k /\ dialog' = Closed /\ openTabs' = {} /\ baseDn' = Explicit(k) /\ shellSteps' = shellSteps + 1
        /\ UNCHANGED <<batch, replay, executed, strayed>>
    BY <1>15 DEF syncConnectionContext, ShellStep
  <2>2. TabsAreApart'
    BY <2>1, ShellAssumption, FS_EmptySet DEF TabsAreApart
  <2> QED
    BY <1>0, <1>2, <2>1, <2>2 DEF ShellInv, BatchIsHome, OnlyKnownStray, DialogIsHome, BaseIsHome, Explicit
<1>16. CASE RootDseServed
  BY <1>0, <1>1, <1>2, <1>16 DEF RootDseServed, ShellInv, BatchIsHome, OnlyKnownStray, DialogIsHome, BaseIsHome
<1>17. ASSUME NEW k \in Connections, BaseResolved(k) PROVE ShellInv'
  <2>1. /\ baseDn' = (IF baseDn # NoConnection \/ Explicit(connectionId) # NoConnection THEN baseDn ELSE k)
        /\ strayed' = (IF baseDn' = k /\ k # connectionId THEN strayed \cup {<<"base", <<NoDn, connectionId>>>>} ELSE strayed)
        /\ UNCHANGED <<connectionId, dialog, batch, openTabs, replay, shellSteps, executed>>
    BY <1>17 DEF BaseResolved
  <2>2. BaseIsHome'
    BY <1>0, <2>1, ShellAssumption DEF BaseIsHome, Explicit
  <2>3. OnlyKnownStray' /\ strayed \subseteq strayed'
    BY <1>0, <2>1 DEF OnlyKnownStray
  <2> QED
    BY <1>0, <1>1, <1>2, <2>1, <2>2, <2>3 DEF ShellInv, BatchIsHome, DialogIsHome
<1>18. CASE UNCHANGED shellVars
  BY <1>0, <1>1, <1>2, <1>18 DEF shellVars, ShellInv, BatchIsHome, OnlyKnownStray, DialogIsHome, BaseIsHome
<1> QED
  BY <1>3, <1>4, <1>5, <1>6, <1>7, <1>8, <1>9, <1>10, <1>11, <1>12, <1>13, <1>14, <1>15, <1>16, <1>17, <1>18 DEF ShellNext

(* What was begun on one connection does not reach the next one, for any     *)
(* number of connections, tabs and steps: writes, dialogs, tabs and replays. *)
THEOREM WorkStaysHome == ShellSpec => []StaysOnItsConnection
<1>1. ShellInv => StaysOnItsConnection
  <2> SUFFICES ASSUME ShellInv PROVE StaysOnItsConnection
    OBVIOUS
  <2>1. /\ \A tab \in openTabs : tab.of = connectionId
        /\ \A tab, other \in openTabs : tab.dn = other.dn => tab = other
        /\ Cardinality(openTabs) <= OpenTabsMax
    BY DEF ShellInv, TabsAreApart
  <2>2. \A key \in replay.keys : key[2] = replay.conn /\ replay.timer /\ (key \in executed \/ <<"event", key>> \in strayed)
    BY DEF ShellInv, ReplayIsHome
  <2> QED
    BY <2>1, <2>2, Zenon DEF ShellInv, OnlyKnownStray, DialogIsHome, BaseIsHome, StaysOnItsConnection
<1> QED
  BY <1>1, ShellInitInv, ShellStepKept, PTL DEF ShellSpec

(* ---------------------- tabs of referenced entries ----------------------- *)
\* What a tab shows, or waits for.
TabIsHome(tab, gets, next, seen) ==
  /\ tab = [id |-> tab.id, dn |-> tab.dn, entry |-> tab.entry, loading |-> tab.loading, failed |-> tab.failed,
            requestSeq |-> tab.requestSeq]
  /\ tab.id \in 1..next /\ tab.requestSeq \in Nat
  /\ tab.entry # <<>> => tab.entry = <<tab.dn, seen>> /\ tab.loading = FALSE
  /\ tab.loading = FALSE \/ tab.loading = TRUE
  /\ tab.loading = TRUE <=> \E r \in gets : r.id = tab.id /\ r.seq = tab.requestSeq
  /\ tab.entry = <<>> /\ tab.loading = FALSE => tab.failed = TRUE
  /\ \A r \in gets : r.id = tab.id => r.seq <= tab.requestSeq /\ r.dn = tab.dn /\ r.on = seen
TabsAreHome == \A tab \in referenceTabs : TabIsHome(tab, entryGets, nextReferenceTabId, connectionsSeen)

GetsAreApart ==
  /\ \A r \in entryGets : r.id \in 1..nextReferenceTabId /\ r.seq \in Nat
  /\ \A r, q \in entryGets : r.id = q.id /\ r.seq = q.seq => r = q

ReferencesAreApart ==
  /\ IsFiniteSet(referenceTabs) /\ Cardinality(referenceTabs) <= ReferenceTabLimit
  /\ \A tab, other \in referenceTabs : tab.id = other.id \/ tab.dn = other.dn => tab = other
ActiveIsShown ==
  /\ referenceTabs = {} => activeReferenceTabId = NoReference
  /\ referenceTabs # {} => \E tab \in referenceTabs : activeReferenceTabId = tab.id

ReferenceInv ==
  /\ nextReferenceTabId \in Nat /\ connectionsSeen \in Nat
  /\ ReferencesAreApart /\ GetsAreApart /\ ActiveIsShown /\ TabsAreHome

LEMMA ReferenceInitInv == ReferenceInit => ReferenceInv
  BY ReferenceAssumption, FS_EmptySet
  DEF ReferenceInit, ReferenceInv, ReferencesAreApart, GetsAreApart, ActiveIsShown, TabsAreHome

\* Fewer tabs are as far apart.
LEMMA FewerReferences ==
  ASSUME ReferencesAreApart, referenceTabs' \subseteq referenceTabs PROVE ReferencesAreApart'
<1>1. IsFiniteSet(referenceTabs') /\ Cardinality(referenceTabs') <= Cardinality(referenceTabs)
      /\ Cardinality(referenceTabs) \in Nat /\ Cardinality(referenceTabs') \in Nat
  BY FS_Subset, FS_CardinalityType DEF ReferencesAreApart
<1>2. Cardinality(referenceTabs') <= ReferenceTabLimit
  BY <1>1, ReferenceAssumption DEF ReferencesAreApart
<1> QED
  BY <1>1, <1>2 DEF ReferencesAreApart

\* A set of tabs that is not empty has a first and a last one.
LEMMA FirstAndLast ==
  ASSUME NEW b \in Nat, NEW tabs, tabs # {}, \A tab \in tabs : tab.id \in 1..b
  PROVE  FirstOf(tabs) # {} /\ LastOf(tabs) # {} /\ FirstOf(tabs) \subseteq tabs /\ LastOf(tabs) \subseteq tabs
<1> DEFINE ids == {tab.id : tab \in tabs}
<1>1. ids \in SUBSET Nat /\ ids \in SUBSET (0..b) /\ ids # {}
  OBVIOUS
<1>2. PICK m \in ids : \A n \in ids : m <= n
  BY <1>1, LeastNumber
<1>3. PICK k \in ids : \A n \in ids : n <= k
  BY <1>1, GreatestNumber
<1>4. PICK first \in tabs : first.id = m
  BY <1>2
<1>5. PICK last \in tabs : last.id = k
  BY <1>3
<1>6. first \in FirstOf(tabs)
  BY <1>2, <1>4 DEF FirstOf
<1>7. last \in LastOf(tabs)
  BY <1>3, <1>5 DEF LastOf
<1> QED
  BY <1>6, <1>7 DEF FirstOf, LastOf

\* A new tab: the limit holds, for an older tab goes that is not the active one.
LEMMA EvictionIsFair ==
  ASSUME ReferenceInv, NEW dn, \A tab \in referenceTabs : tab.dn # dn,
         NEW tab, tab.id = nextReferenceTabId + 1, tab.dn = dn,
         referenceTabs' = Evicted(referenceTabs \cup {tab}, activeReferenceTabId)
  PROVE  ReferencesAreApart' /\ tab \in referenceTabs' /\ referenceTabs' \subseteq referenceTabs \cup {tab}
<1> DEFINE all == referenceTabs \cup {tab}
           others == Without(all, activeReferenceTabId)
<1>1. \A t \in referenceTabs : t.id \in 1..nextReferenceTabId
  BY DEF ReferenceInv, TabsAreHome, TabIsHome
<1>2. nextReferenceTabId \in Nat /\ ReferencesAreApart /\ ActiveIsShown
  BY DEF ReferenceInv
<1>3. tab \notin referenceTabs /\ \A t, o \in all : t.id = o.id \/ t.dn = o.dn => t = o
  BY <1>1, <1>2 DEF ReferencesAreApart
<1>4. IsFiniteSet(referenceTabs) /\ Cardinality(referenceTabs) \in Nat /\ Cardinality(referenceTabs) <= ReferenceTabLimit
  BY <1>2, FS_CardinalityType DEF ReferencesAreApart
<1>5. IsFiniteSet(all) /\ Cardinality(all) = Cardinality(referenceTabs) + 1
  BY <1>3, <1>4, FS_AddElement
<1>6. CASE Cardinality(all) <= ReferenceTabLimit
  <2>1. referenceTabs' = all
    BY <1>6 DEF Evicted
  <2> HIDE DEF all
  <2>2. ReferencesAreApart'
    BY <1>3, <1>5, <1>6, <2>1 DEF ReferencesAreApart
  <2> QED
    BY <2>1, <2>2 DEF all
<1>7. CASE ~(Cardinality(all) <= ReferenceTabLimit)
  <2>1. referenceTabs' = all \ FirstOf(others)
    BY <1>7 DEF Evicted
  <2>2. Cardinality(referenceTabs) >= 2
    BY ONLY <1>4, <1>5, <1>7, ReferenceAssumption
  <2>3. PICK old \in referenceTabs : old.id # activeReferenceTabId
    <3>1. PICK t \in referenceTabs : TRUE
      <4>1. referenceTabs # {}
        BY <2>2, FS_EmptySet
      <4> QED
        BY <4>1
    <3>2. SUFFICES ASSUME \A o \in referenceTabs : o.id = activeReferenceTabId PROVE FALSE
      OBVIOUS
    <3>3. referenceTabs = {t}
      BY <1>2, <3>1, <3>2 DEF ReferencesAreApart
    <3>4. Cardinality(referenceTabs) = 1
      BY <3>3, FS_Singleton
    <3> QED
      BY <2>2, <3>4
  <2>4. old \in others /\ old.id < tab.id
    BY <1>1, <1>2, <2>3 DEF Without
  <2>5. tab \notin FirstOf(others)
    BY <1>1, <1>2, <2>3, <2>4 DEF FirstOf
  <2>6. others # {} /\ \A t \in others : t.id \in 1..(nextReferenceTabId + 1)
    BY <1>1, <1>2, <2>4 DEF Without
  <2>7. nextReferenceTabId + 1 \in Nat
    BY <1>2
  <2>8. PICK first \in FirstOf(others) : first \in all
    <3> HIDE DEF others
    <3>1. FirstOf(others) # {} /\ FirstOf(others) \subseteq others
      BY <2>6, <2>7, FirstAndLast
    <3>2. others \subseteq all
      BY DEF others, Without
    <3> QED
      BY <3>1, <3>2
  <2>9. IsFiniteSet(all \ {first}) /\ Cardinality(all \ {first}) = Cardinality(all) - 1
    BY <1>5, <2>8, FS_RemoveElement
  <2>10. referenceTabs' \subseteq all \ {first}
    BY <2>1, <2>8
  <2>11. IsFiniteSet(referenceTabs') /\ Cardinality(referenceTabs') <= Cardinality(all \ {first}) /\ Cardinality(referenceTabs') \in Nat
    BY <2>9, <2>10, FS_Subset, FS_CardinalityType
  <2>12. Cardinality(referenceTabs') <= ReferenceTabLimit
    BY ONLY <1>4, <1>5, <2>9, <2>11, ReferenceAssumption
  <2>13. tab \in referenceTabs' /\ referenceTabs' \subseteq all
    BY <2>1, <2>5
  <2> HIDE DEF all, others
  <2>14. ReferencesAreApart'
    BY <1>3, <2>11, <2>12, <2>13 DEF ReferencesAreApart
  <2> QED
    BY <2>13, <2>14 DEF all
<1> QED
  BY <1>6, <1>7

\* Opening: the tab that shows the entry, or a new one with its request.
LEMMA OpenKept == ASSUME ReferenceInv, NEW dn \in Referenced, openReferencedEntry(dn) PROVE ReferenceInv'
<1> DEFINE same == {t \in referenceTabs : t.dn = dn}
           tab == [id |-> newId, dn |-> dn, entry |-> <<>>, loading |-> TRUE, failed |-> FALSE, requestSeq |-> 1]
           get == [id |-> newId, seq |-> 1, dn |-> dn, on |-> connectionsSeen]
<1>0. /\ nextReferenceTabId \in Nat /\ connectionsSeen \in Nat /\ newId = nextReferenceTabId + 1 /\ connectionsSeen' = connectionsSeen
      /\ ReferencesAreApart /\ GetsAreApart /\ ActiveIsShown /\ TabsAreHome
  BY DEF ReferenceInv, newId, openReferencedEntry
<1>1. CASE same # {}
  <2>1. UNCHANGED <<referenceTabs, nextReferenceTabId, entryGets>> /\ \E t \in FirstOf(same) : activeReferenceTabId' = t.id
    BY <1>1 DEF openReferencedEntry
  <2>2. ActiveIsShown'
    BY <2>1 DEF ActiveIsShown, FirstOf
  <2> QED
    BY <1>0, <2>1, <2>2 DEF ReferenceInv, ReferencesAreApart, GetsAreApart, TabsAreHome
<1>2. CASE same = {}
  <2>1. /\ referenceTabs' = Evicted(referenceTabs \cup {tab}, activeReferenceTabId)
        /\ nextReferenceTabId' = newId /\ activeReferenceTabId' = newId
        /\ entryGets' = entryGets \cup {get}
    BY <1>2 DEF openReferencedEntry
  <2>2. tab.id = nextReferenceTabId + 1 /\ tab.dn = dn /\ get.id = nextReferenceTabId + 1 /\ get.seq = 1
    BY <1>0
  <2>3. \A t \in referenceTabs : t.dn # dn
    BY <1>2
  <2>4. ReferencesAreApart' /\ tab \in referenceTabs' /\ referenceTabs' \subseteq referenceTabs \cup {tab}
    <3> HIDE DEF tab, same, get
    <3> QED
      BY <2>1, <2>2, <2>3, EvictionIsFair
  <2>5. ActiveIsShown'
    BY <1>0, <2>1, <2>2, <2>4 DEF ActiveIsShown
  <2>6. GetsAreApart'
    <3> HIDE DEF get
    <3> QED
      BY <1>0, <2>1, <2>2 DEF GetsAreApart
  <2>7. TabsAreHome'
    <3> SUFFICES ASSUME NEW t \in referenceTabs' PROVE TabIsHome(t, entryGets', nextReferenceTabId', connectionsSeen)
      BY <1>0 DEF TabsAreHome
    <3>1. CASE t = tab
      <4>1. \A r \in entryGets : r.id # tab.id
        BY <1>0, <2>2 DEF GetsAreApart
      <4>2. \A r \in entryGets' : r.id = tab.id => r = get
        BY <2>1, <4>1
      <4>3. get \in entryGets'
        BY <2>1
      <4>4. newId \in 1..newId
        BY <1>0
      <4> QED
        <5>1. /\ tab.id = newId /\ tab.requestSeq = 1 /\ tab.entry = <<>> /\ tab.loading = TRUE /\ tab.dn = dn
              /\ get.id = newId /\ get.seq = 1 /\ get.dn = dn /\ get.on = connectionsSeen
              /\ tab = [id |-> tab.id, dn |-> tab.dn, entry |-> tab.entry, loading |-> tab.loading, failed |-> tab.failed,
                        requestSeq |-> tab.requestSeq]
          OBVIOUS
        <5> HIDE DEF tab, get
        <5> QED
          BY <2>1, <3>1, <4>2, <4>3, <4>4, <5>1 DEF TabIsHome
    <3>2. CASE t # tab
      <4>1. t \in referenceTabs
        BY <2>4, <3>2
      <4>2. TabIsHome(t, entryGets, nextReferenceTabId, connectionsSeen)
        BY <1>0, <4>1 DEF TabsAreHome
      <4>3. t.id \in 1..nextReferenceTabId
        BY <4>2 DEF TabIsHome
      <4>4. t.id \in 1..nextReferenceTabId' /\ get.id # t.id
        BY <1>0, <2>1, <2>2, <4>3
      <4> HIDE DEF get, tab
      <4> QED
        BY <2>1, <4>2, <4>4 DEF TabIsHome
    <3> QED
      BY <3>1, <3>2
  <2> QED
    BY <1>0, <2>1, <2>4, <2>5, <2>6, <2>7 DEF ReferenceInv
<1> QED
  BY <1>1, <1>2

\* Closing: the active tab is another one, unless none is left.
LEMMA CloseKept == ASSUME ReferenceInv, NEW id \in Ids(referenceTabs), closeReferenceTab(id) PROVE ReferenceInv'
<1>0. /\ nextReferenceTabId \in Nat /\ connectionsSeen \in Nat
      /\ ReferencesAreApart /\ GetsAreApart /\ ActiveIsShown /\ TabsAreHome
      /\ referenceTabs' = Without(referenceTabs, id) /\ ActiveIsWithout(referenceTabs, id, activeReferenceTabId)
      /\ UNCHANGED <<nextReferenceTabId, entryGets, connectionsSeen>>
  BY DEF ReferenceInv, closeReferenceTab
<1>1. referenceTabs' \subseteq referenceTabs /\ \A tab \in referenceTabs : tab.id # id => tab \in referenceTabs'
  BY <1>0 DEF Without
<1>2. ReferencesAreApart'
  BY <1>0, <1>1, FewerReferences
<1>3. \A tab \in referenceTabs : tab.id \in 1..nextReferenceTabId
  BY <1>0 DEF TabsAreHome, TabIsHome
<1>4. ActiveIsShown'
  <2>1. PICK active \in referenceTabs : activeReferenceTabId = active.id
    BY <1>0 DEF ActiveIsShown, Ids
  <2>2. CASE activeReferenceTabId # id
    BY <1>0, <1>1, <2>1, <2>2 DEF ActiveIsWithout, ActiveIsShown
  <2>3. CASE activeReferenceTabId = id /\ referenceTabs' = {}
    BY <1>0, <2>3 DEF ActiveIsWithout, ActiveIsShown
  <2>4. CASE activeReferenceTabId = id /\ referenceTabs' # {}
    <3>1. PICK tab \in Neighbours(referenceTabs, id) : activeReferenceTabId' = tab.id
      BY <1>0, <2>4 DEF ActiveIsWithout
    <3>2. tab \in referenceTabs'
      <4> DEFINE before == {t \in referenceTabs : t.id < id}
      <4>1. id \in 1..nextReferenceTabId
        BY <1>3, <2>1, <2>4
      <4>2. before \subseteq referenceTabs'
        BY <1>0, <1>1, <1>3, <4>1
      <4>3. tab \in LastOf(before) \/ tab \in FirstOf(Without(referenceTabs, id))
        BY <3>1 DEF Neighbours
      <4> HIDE DEF before
      <4> QED
        BY <1>0, <4>2, <4>3 DEF LastOf, FirstOf
    <3> QED
      BY <2>4, <3>1, <3>2 DEF ActiveIsShown
  <2> QED
    BY <2>2, <2>3, <2>4
<1>5. TabsAreHome' /\ GetsAreApart'
  BY <1>0, <1>1 DEF TabsAreHome, GetsAreApart
<1> QED
  BY <1>0, <1>2, <1>4, <1>5 DEF ReferenceInv

\* A retry: an older request of the tab is not the one it waits for.
LEMMA RetryReferenceKept == ASSUME ReferenceInv, retryReference PROVE ReferenceInv'
<1>0. /\ nextReferenceTabId \in Nat /\ connectionsSeen \in Nat
      /\ ReferencesAreApart /\ GetsAreApart /\ ActiveIsShown /\ TabsAreHome
      /\ UNCHANGED <<activeReferenceTabId, nextReferenceTabId, connectionsSeen>>
  BY DEF ReferenceInv, retryReference
<1>1. PICK tab \in referenceTabs :
        /\ referenceTabs' = Without(referenceTabs, tab.id) \cup
             {[tab EXCEPT !.entry = <<>>, !.failed = FALSE, !.loading = TRUE, !.requestSeq = @ + 1]}
        /\ entryGets' = entryGets \cup {[id |-> tab.id, seq |-> tab.requestSeq + 1, dn |-> tab.dn, on |-> connectionsSeen]}
  BY DEF retryReference
<1> DEFINE new == [tab EXCEPT !.entry = <<>>, !.failed = FALSE, !.loading = TRUE, !.requestSeq = tab.requestSeq + 1]
           get == [id |-> tab.id, seq |-> tab.requestSeq + 1, dn |-> tab.dn, on |-> connectionsSeen]
<1>2. TabIsHome(tab, entryGets, nextReferenceTabId, connectionsSeen)
  BY <1>0 DEF TabsAreHome
<1>3. /\ new = [id |-> tab.id, dn |-> tab.dn, entry |-> <<>>, loading |-> TRUE, failed |-> FALSE, requestSeq |-> tab.requestSeq + 1]
      /\ tab.id \in 1..nextReferenceTabId /\ tab.requestSeq \in Nat /\ tab.requestSeq + 1 \in Nat
      /\ get.id = tab.id /\ get.seq = tab.requestSeq + 1 /\ get.dn = tab.dn /\ get.on = connectionsSeen
  <2>1. /\ tab = [id |-> tab.id, dn |-> tab.dn, entry |-> tab.entry, loading |-> tab.loading, failed |-> tab.failed,
                  requestSeq |-> tab.requestSeq]
        /\ tab.id \in 1..nextReferenceTabId /\ tab.requestSeq \in Nat
    BY <1>2 DEF TabIsHome
  <2>2. new = [id |-> tab.id, dn |-> tab.dn, entry |-> <<>>, loading |-> TRUE, failed |-> FALSE, requestSeq |-> tab.requestSeq + 1]
    <3>1. tab \in [id : {tab.id}, dn : {tab.dn}, entry : {tab.entry}, loading : {tab.loading}, failed : {tab.failed},
                   requestSeq : {tab.requestSeq}]
      BY <2>1
    <3>2. new \in [id : {tab.id}, dn : {tab.dn}, entry : {<<>>}, loading : {TRUE}, failed : {FALSE},
                   requestSeq : {tab.requestSeq + 1}]
      BY ONLY <3>1
    <3> HIDE DEF new
    <3> QED
      BY <3>2
  <2>3. get.id = tab.id /\ get.seq = tab.requestSeq + 1 /\ get.dn = tab.dn /\ get.on = connectionsSeen
    OBVIOUS
  <2>4. tab.requestSeq + 1 \in Nat
    BY <2>1
  <2> QED
    BY <2>1, <2>2, <2>3, <2>4
<1>4. referenceTabs' = Without(referenceTabs, tab.id) \cup {new} /\ entryGets' = entryGets \cup {get}
  BY <1>1
<1>5. new.id = tab.id /\ new.dn = tab.dn /\ new.requestSeq = tab.requestSeq + 1
  BY <1>3
<1>6. \A r \in entryGets : r.id = tab.id => r.seq <= tab.requestSeq /\ r.dn = tab.dn /\ r.on = connectionsSeen
  BY <1>2 DEF TabIsHome
<1>7. \A r \in entryGets : r.id \in 1..nextReferenceTabId /\ r.seq \in Nat
  BY <1>0 DEF GetsAreApart
<1>8. \A r \in entryGets : ~(r.id = get.id /\ r.seq = get.seq)
  BY <1>3, <1>6, <1>7
<1>9. GetsAreApart'
  <2> HIDE DEF get, new
  <2> QED
    BY <1>0, <1>3, <1>4, <1>7, <1>8 DEF GetsAreApart
<1>10. ActiveIsShown'
  <2> HIDE DEF get, new
  <2>1. PICK active \in referenceTabs : activeReferenceTabId = active.id
    BY <1>0 DEF ActiveIsShown
  <2>2. active.id = tab.id \/ active \in referenceTabs'
    BY <1>4 DEF Without
  <2>3. new \in referenceTabs'
    BY <1>4
  <2> QED
    BY <1>0, <1>5, <2>1, <2>2, <2>3 DEF ActiveIsShown
<1>11. ReferencesAreApart'
  <2> HIDE DEF get, new
  <2>1. IsFiniteSet(referenceTabs) /\ Cardinality(referenceTabs) \in Nat /\ Cardinality(referenceTabs) <= ReferenceTabLimit
        /\ \A t, o \in referenceTabs : t.id = o.id \/ t.dn = o.dn => t = o
    BY <1>0, FS_CardinalityType DEF ReferencesAreApart
  <2>2. Without(referenceTabs, tab.id) = referenceTabs \ {tab}
    BY <2>1 DEF Without
  <2>3. IsFiniteSet(referenceTabs \ {tab}) /\ Cardinality(referenceTabs \ {tab}) = Cardinality(referenceTabs) - 1
        /\ Cardinality(referenceTabs \ {tab}) \in Nat
    BY <2>1, FS_RemoveElement, FS_CardinalityType
  <2>4. IsFiniteSet(referenceTabs') /\ Cardinality(referenceTabs') \in Nat
        /\ Cardinality(referenceTabs') <= Cardinality(referenceTabs \ {tab}) + 1
    <3>1. IsFiniteSet(referenceTabs')
          /\ (Cardinality(referenceTabs') = Cardinality(referenceTabs \ {tab})
              \/ Cardinality(referenceTabs') = Cardinality(referenceTabs \ {tab}) + 1)
      BY <1>4, <2>2, <2>3, FS_AddElement
    <3> QED
      BY <2>3, <3>1
  <2>5. Cardinality(referenceTabs') <= ReferenceTabLimit
    BY ONLY <2>1, <2>3, <2>4, ReferenceAssumption
  <2>6. \A t, o \in referenceTabs' : t.id = o.id \/ t.dn = o.dn => t = o
    BY <1>4, <1>5, <2>1, <2>2
  <2> QED
    BY <2>4, <2>5, <2>6 DEF ReferencesAreApart
<1>12. TabsAreHome'
  <2> SUFFICES ASSUME NEW t \in referenceTabs' PROVE TabIsHome(t, entryGets', nextReferenceTabId, connectionsSeen)
    BY <1>0 DEF TabsAreHome
  <2>1. CASE t = new
    <3>1. \A r \in entryGets' : r.id = tab.id => r.seq <= tab.requestSeq + 1 /\ r.dn = tab.dn /\ r.on = connectionsSeen
      <4> SUFFICES ASSUME NEW r \in entryGets', r.id = tab.id
                   PROVE  r.seq <= tab.requestSeq + 1 /\ r.dn = tab.dn /\ r.on = connectionsSeen
        OBVIOUS
      <4>1. CASE r \in entryGets
        BY <1>3, <1>6, <1>7, <4>1
      <4>2. CASE r = get
        BY <1>3, <4>2
      <4> QED
        BY <1>4, <4>1, <4>2
    <3>2. get \in entryGets'
      BY <1>4
    <3> HIDE DEF get
    <3> QED
      BY <1>3, <2>1, <3>1, <3>2 DEF TabIsHome
  <2>2. CASE t # new
    <3>1. t \in referenceTabs /\ t.id # tab.id
      BY <1>4, <2>2 DEF Without
    <3>2. TabIsHome(t, entryGets, nextReferenceTabId, connectionsSeen)
      BY <1>0, <3>1 DEF TabsAreHome
    <3>3. get.id # t.id
      BY <1>3, <3>1
    <3> HIDE DEF get, new
    <3> QED
      BY <1>4, <3>2, <3>3 DEF TabIsHome
  <2> QED
    BY <2>1, <2>2
<1> QED
  BY <1>0, <1>9, <1>10, <1>11, <1>12 DEF ReferenceInv

\* An answer: only the tab that waits for it takes it.
LEMMA EntryAnswerKept ==
  ASSUME ReferenceInv, NEW r \in entryGets, NEW entry, NEW failed, Arrives(r, entry, failed),
         \/ entry = <<r.dn, r.on>> /\ failed = FALSE
         \/ entry = <<>> /\ failed = TRUE
  PROVE  ReferenceInv'
<1>0. /\ nextReferenceTabId \in Nat /\ connectionsSeen \in Nat
      /\ ReferencesAreApart /\ GetsAreApart /\ ActiveIsShown /\ TabsAreHome
      /\ UNCHANGED <<activeReferenceTabId, nextReferenceTabId, connectionsSeen>>
      /\ entryGets' = entryGets \ {r} /\ referenceTabs' = {AnsweredTab(tab, r, entry, failed) : tab \in referenceTabs}
  BY DEF ReferenceInv, Arrives
<1> DEFINE f == [tab \in referenceTabs |-> AnsweredTab(tab, r, entry, failed)]
<1>1. \A tab \in referenceTabs : TabIsHome(tab, entryGets, nextReferenceTabId, connectionsSeen)
  BY <1>0 DEF TabsAreHome
<1>2. \A tab \in referenceTabs : f[tab].id = tab.id /\ f[tab].dn = tab.dn /\ f[tab].requestSeq = tab.requestSeq
  BY <1>1 DEF TabIsHome, AnsweredTab
<1>3. referenceTabs' = {f[tab] : tab \in referenceTabs}
  BY <1>0
<1>4. ReferencesAreApart'
  <2>1. IsFiniteSet(referenceTabs) /\ Cardinality(referenceTabs) \in Nat /\ Cardinality(referenceTabs) <= ReferenceTabLimit
        /\ \A t, o \in referenceTabs : t.id = o.id \/ t.dn = o.dn => t = o
    BY <1>0, FS_CardinalityType DEF ReferencesAreApart
  <2>2. f \in Surjection(referenceTabs, referenceTabs')
    BY <1>3 DEF Surjection
  <2>3. IsFiniteSet(referenceTabs') /\ Cardinality(referenceTabs') <= Cardinality(referenceTabs) /\ Cardinality(referenceTabs') \in Nat
    BY <2>1, <2>2, FS_Surjection, FS_CardinalityType
  <2>4. Cardinality(referenceTabs') <= ReferenceTabLimit
    BY ONLY <2>1, <2>3, ReferenceAssumption
  <2> HIDE DEF f
  <2>5. ASSUME NEW t \in referenceTabs', NEW o \in referenceTabs', t.id = o.id \/ t.dn = o.dn PROVE t = o
    <3>1. PICK s \in referenceTabs, p \in referenceTabs : t = f[s] /\ o = f[p]
      BY <1>3
    <3>2. s.id = p.id \/ s.dn = p.dn
      BY <1>2, <2>5, <3>1
    <3>3. s = p
      BY <2>1, <3>2
    <3> QED
      BY <3>1, <3>3
  <2> QED
    BY <2>3, <2>4, <2>5 DEF ReferencesAreApart
<1>5. GetsAreApart'
  BY <1>0 DEF GetsAreApart
<1>6. ActiveIsShown'
  <2> HIDE DEF f
  <2> QED
    BY <1>0, <1>2, <1>3 DEF ActiveIsShown
<1>7. ASSUME NEW t \in referenceTabs' PROVE TabIsHome(t, entryGets', nextReferenceTabId, connectionsSeen)
  <2>1. PICK tab \in referenceTabs : t = AnsweredTab(tab, r, entry, failed)
    BY <1>0
  <2>2. TabIsHome(tab, entryGets, nextReferenceTabId, connectionsSeen)
    BY <1>1
  <2>3. CASE tab.id = r.id /\ tab.requestSeq = r.seq
    <3>1. t = [id |-> tab.id, dn |-> tab.dn, entry |-> entry, loading |-> FALSE, failed |-> failed, requestSeq |-> tab.requestSeq]
      BY <2>1, <2>2, <2>3 DEF AnsweredTab, TabIsHome
    <3>2. r.dn = tab.dn /\ r.on = connectionsSeen
      BY <2>2, <2>3 DEF TabIsHome
    <3>3. \A q \in entryGets' : ~(q.id = tab.id /\ q.seq = tab.requestSeq)
      BY <1>0, <2>3 DEF GetsAreApart
    <3>4. /\ tab.id \in 1..nextReferenceTabId /\ tab.requestSeq \in Nat
          /\ \A q \in entryGets : q.id = tab.id => q.seq <= tab.requestSeq /\ q.dn = tab.dn /\ q.on = connectionsSeen
      BY <2>2 DEF TabIsHome
    <3>5. entry # <<>> => entry = <<tab.dn, connectionsSeen>>
      BY <3>2
    <3>6. entry = <<>> => failed = TRUE
      OBVIOUS
    <3> QED
      BY <1>0, <3>1, <3>3, <3>4, <3>5, <3>6 DEF TabIsHome
  <2>4. CASE ~(tab.id = r.id /\ tab.requestSeq = r.seq)
    <3>1. t = tab
      BY <2>1, <2>4 DEF AnsweredTab
    <3> QED
      BY <1>0, <2>2, <2>4, <3>1 DEF TabIsHome
  <2> QED
    BY <2>3, <2>4
<1> QED
  BY <1>0, <1>4, <1>5, <1>6, <1>7 DEF ReferenceInv, TabsAreHome

LEMMA ReferenceStepKept == ReferenceInv /\ [ReferenceNext]_referenceVars => ReferenceInv'
<1> SUFFICES ASSUME ReferenceInv, [ReferenceNext]_referenceVars PROVE ReferenceInv'
  OBVIOUS
<1>1. ASSUME NEW dn \in Referenced, openReferencedEntry(dn) PROVE ReferenceInv'
  BY <1>1, OpenKept
<1>2. ASSUME NEW id \in Ids(referenceTabs), closeReferenceTab(id) PROVE ReferenceInv'
  BY <1>2, CloseKept
<1>3. ASSUME NEW id \in Ids(referenceTabs), selectReferenceTab(id) PROVE ReferenceInv'
  BY <1>3 DEF selectReferenceTab, ReferenceInv, ReferencesAreApart, GetsAreApart, ActiveIsShown, TabsAreHome, Ids
<1>4. CASE retryReference
  BY <1>4, RetryReferenceKept
<1>5. ASSUME NEW r \in entryGets, EntryArrives(r) \/ EntryFails(r) PROVE ReferenceInv'
  BY <1>5, EntryAnswerKept DEF EntryArrives, EntryFails
<1>6. ASSUME NEW switched \in BOOLEAN, closeReference(switched) PROVE ReferenceInv'
  <2>1. /\ referenceTabs' = {} /\ activeReferenceTabId' = NoReference /\ connectionsSeen' \in {connectionsSeen, connectionsSeen + 1}
        /\ UNCHANGED <<nextReferenceTabId, entryGets>>
    BY <1>6 DEF closeReference
  <2>2. ReferencesAreApart'
    BY <2>1, FewerReferences DEF ReferenceInv
  <2> QED
    BY <2>1, <2>2 DEF ReferenceInv, GetsAreApart, ActiveIsShown, TabsAreHome
<1>7. CASE UNCHANGED referenceVars
  BY <1>7 DEF referenceVars, ReferenceInv, ReferencesAreApart, GetsAreApart, ActiveIsShown, TabsAreHome
<1> QED
  BY <1>1, <1>2, <1>3, <1>4, <1>5, <1>6, <1>7 DEF ReferenceNext

(* Every tab of a referenced entry shows that entry as the current connection*)
(* has it, or waits for exactly that, for any number of tabs and requests.   *)
THEOREM ReferencesAreShown == ReferenceSpec => []TabsShowTheirEntry
<1>1. ReferenceInv => TabsShowTheirEntry
  <2> SUFFICES ASSUME ReferenceInv PROVE TabsShowTheirEntry
    OBVIOUS
  <2>1. ASSUME NEW tab \in referenceTabs
        PROVE  /\ tab.entry # <<>> => tab.entry = <<tab.dn, connectionsSeen>> /\ ~tab.loading
               /\ tab.loading <=> \E r \in entryGets : r.id = tab.id /\ r.seq = tab.requestSeq
               /\ tab.entry = <<>> /\ ~tab.loading => tab.failed
    <3>1. TabIsHome(tab, entryGets, nextReferenceTabId, connectionsSeen)
      BY DEF ReferenceInv, TabsAreHome
    <3> QED
      BY <3>1, Zenon DEF TabIsHome
  <2> QED
    BY <2>1, Zenon DEF ReferenceInv, ReferencesAreApart, ActiveIsShown, TabsShowTheirEntry, Ids
<1> QED
  BY <1>1, ReferenceInitInv, ReferenceStepKept, PTL DEF ReferenceSpec

(* --------------------------- the entry editor ---------------------------- *)
Reading == [kind : Kinds, seq : Nat, dn : Dns, todo : SUBSET Attrs, asks : SUBSET Attrs, asked : Content]

EditorTyped ==
  /\ dir \in [Dns -> Content] /\ had \in [Dns -> SUBSET Values]
  /\ entryRequestSeq \in Nat
  /\ reads \subseteq Reading /\ modifies \subseteq Modify
  /\ editorEntry \in Detail \cup {Absent}
  /\ entryDetailCache \in [Dns -> Content \cup {Absent}]
  /\ editorDeferredAttributes \subseteq Attrs
  /\ editorOpen => editorRequestedDn \in Dns

DraftTyped ==
  /\ initializedIdentity \in Dns \cup {Absent} /\ dnDraft \in Dns \cup {Absent}
  /\ attrRows \in [Attrs -> Row \cup {Absent}] /\ ldifText \in Content
  /\ pendingChanges \in Changes \cup {Absent}
  /\ DOMAIN typed \subseteq Attrs
  /\ editorTab = "ldif" => asText

\* What there is of an entry in the directory, in a detail and in an answer that
\* is on its way is something the entry had; the read of the newest request is
\* for the entry that was asked for, and so is the entry that is open.
Within(content, dn) == \A a \in Attrs : content[a] \in had[dn] \cup {Absent}
ReadIsActive ==
  /\ \A dn \in Dns : Within(dir[dn], dn)
  /\ \A r \in reads : /\ r.seq <= entryRequestSeq /\ Within(r.asked, r.dn)
                      /\ Active(r) => r.dn = editorRequestedDn
  /\ editorOpen /\ editorEntry # Absent => editorEntry.dn = editorRequestedDn

\* Without a spinner or an error the draft is of the entry that is open.
Loaded == editorOpen /\ ~editorLoading /\ ~editorLoadError
DraftIsOfOpen ==
  Loaded => /\ editorEntry # Absent
            /\ initializedIdentity = editorEntry.dn /\ dnDraft = editorEntry.dn

\* What was typed on the form is an edit, and there is no other.
TypedIsEdit ==
  initializedIdentity # Absent /\ ~asText =>
    /\ \A a \in DOMAIN typed : typed[a] # Absent => Edited(attrRows[a]) /\ attrRows[a].text = typed[a]
    /\ \A a \in Attrs \ touched : ~Edited(attrRows[a])
RowsFollow ==
  Loaded /\ ~asText => \A a \in Attrs \ touched : attrRows[a] = RowsOf(editorEntry.attributes)[a]

ChangesAreOfDraft == pendingChanges # Absent => pendingChanges.of = dnDraft

DraftInv == DraftTyped /\ DraftIsOfOpen /\ TypedIsEdit /\ RowsFollow /\ ChangesAreOfDraft /\ PreviewIsEdits
EditorInv == EditorTyped /\ ReadIsActive /\ EntryIsItsOwn /\ SavedToItsEntry /\ DraftInv

LEMMA OverlayTyped == ASSUME NEW c \in Content, NEW d \in Content PROVE Overlay(c, d) \in Content
BY DEF Overlay, Content

LEMMA RowsTyped == ASSUME NEW c \in Content PROVE RowsOf(c) \in [Attrs -> Row \cup {Absent}]
<1>1. ASSUME NEW a \in Attrs PROVE (IF c[a] = Absent THEN Absent ELSE [text |-> c[a], source |-> c[a]]) \in Row \cup {Absent}
  <2>1. c[a] \in Values \cup {Absent}
    BY DEF Content
  <2>2. [text |-> c[a], source |-> c[a]] \in Row
    BY <2>1 DEF Row
  <2> QED
    BY <2>2
<1> QED
  BY <1>1 DEF RowsOf

LEMMA DraftIsContent == ASSUME NEW rows_ \in [Attrs -> Row \cup {Absent}] PROVE Draft(rows_) \in Content
<1>1. ASSUME NEW a \in Attrs PROVE (IF rows_[a] = Absent THEN Absent ELSE rows_[a].text) \in Values \cup {Absent}
  BY DEF Row
<1> QED
  BY <1>1 DEF Draft, Content

LEMMA MergeTyped ==
  ASSUME NEW rows_ \in [Attrs -> Row \cup {Absent}], NEW c \in Content
  PROVE Merge(rows_, c) \in [Attrs -> Row \cup {Absent}]
<1>1. ASSUME NEW a \in Attrs
      PROVE (IF ~Edited(rows_[a]) THEN RowsOf(c)[a]
             ELSE IF c[a] = Absent THEN rows_[a] ELSE [rows_[a] EXCEPT !.source = c[a]]) \in Row \cup {Absent}
  <2>1. RowsOf(c)[a] \in Row \cup {Absent} /\ rows_[a] \in Row \cup {Absent} /\ c[a] \in Values \cup {Absent}
    BY RowsTyped DEF Content
  <2>2. Edited(rows_[a]) => rows_[a] \in Row
    BY <2>1 DEF Edited
  <2>3. rows_[a] \in Row => [rows_[a] EXCEPT !.source = c[a]] \in Row
    BY <2>1 DEF Row
  <2> QED
    BY <2>1, <2>2, <2>3
<1> QED
  BY <1>1 DEF Merge

\* Of an entry that is read no row is edited.
LEMMA RowsAreUnedited == ASSUME NEW c \in Content, NEW a \in Attrs PROVE ~Edited(RowsOf(c)[a])
BY DEF RowsOf, Edited

\* The merge keeps the text of the edited rows; they stay edited unless the entry has their text.
LEMMA MergeKeepsEdits ==
  ASSUME NEW rows_ \in [Attrs -> Row \cup {Absent}], NEW c \in Content, NEW a \in Attrs
  PROVE  /\ ~Edited(rows_[a]) => Merge(rows_, c)[a] = RowsOf(c)[a]
         /\ Edited(rows_[a]) /\ c[a] # rows_[a].text => Edited(Merge(rows_, c)[a])
         /\ Edited(rows_[a]) => Merge(rows_, c)[a] # Absent /\ Merge(rows_, c)[a].text = rows_[a].text
<1>1. Merge(rows_, c)[a] = IF ~Edited(rows_[a]) THEN RowsOf(c)[a]
                           ELSE IF c[a] = Absent THEN rows_[a] ELSE [rows_[a] EXCEPT !.source = c[a]]
  BY DEF Merge
<1>2. Edited(rows_[a]) => rows_[a] \in Row
  BY DEF Edited
<1>3. rows_[a] \in Row /\ c[a] # Absent =>
        /\ [rows_[a] EXCEPT !.source = c[a]] \in Row
        /\ [rows_[a] EXCEPT !.source = c[a]].text = rows_[a].text
        /\ [rows_[a] EXCEPT !.source = c[a]].source = c[a]
  BY DEF Row, Content
<1> QED
  BY <1>1, <1>2, <1>3, EditorAssumption DEF Edited

\* A draft that is made, or that follows its entry, is sound.
LEMMA InitForKeeps ==
  ASSUME DraftInv, ~editorLoading', ~editorLoadError', editorEntry' \in Detail, InitFor(editorEntry')
  PROVE  DraftInv'
<1> DEFINE entry == editorEntry'
           c == entry.attributes
<1>1. entry.dn \in Dns /\ c \in Content /\ entry # Absent /\ entry.dn # Absent
  BY EditorAssumption DEF Detail
<1>2. /\ initializedIdentity' = entry.dn /\ dnDraft' = entry.dn /\ pendingChanges' = Absent
      /\ RowsOf(c) \in [Attrs -> Row \cup {Absent}]
  BY <1>1, RowsTyped DEF InitFor, NoPreview
<1>3. CASE initializedIdentity = entry.dn
  <2>1. /\ attrRows' = Merge(attrRows, c)
        /\ typed' = [a \in {b \in DOMAIN typed : c[b] = Absent \/ typed[b] # c[b]} |-> typed[a]]
        /\ ldifText' = IF editorTab' # "ldif" THEN Nothing
                       ELSE IF ldifText = Draft(attrRows) THEN Draft(attrRows') ELSE ldifText
        /\ UNCHANGED <<editorTab, touched, asText>>
    BY <1>3 DEF InitFor, Follow
  <2>2. attrRows' \in [Attrs -> Row \cup {Absent}]
    BY <1>1, <2>1, MergeTyped DEF DraftInv, DraftTyped
  <2>3. ldifText' \in Content
    BY <2>1, <2>2, DraftIsContent DEF DraftInv, DraftTyped, Nothing, Content
  <2>4. DOMAIN typed' \subseteq DOMAIN typed /\ \A a \in DOMAIN typed' : typed'[a] = typed[a] /\ (c[a] = Absent \/ typed[a] # c[a])
    BY <2>1
  <2>5. DraftTyped'
    BY <1>1, <1>2, <2>1, <2>2, <2>3, <2>4 DEF DraftInv, DraftTyped
  <2>6. ASSUME ~asText, NEW a \in Attrs
        PROVE  /\ a \notin touched => attrRows'[a] = RowsOf(c)[a] /\ ~Edited(attrRows'[a])
               /\ a \in DOMAIN typed' /\ typed'[a] # Absent => Edited(attrRows'[a]) /\ attrRows'[a].text = typed'[a]
    <3>1. /\ a \notin touched => ~Edited(attrRows[a])
          /\ a \in DOMAIN typed /\ typed[a] # Absent => Edited(attrRows[a]) /\ attrRows[a].text = typed[a]
      BY <1>1, <1>3, <2>6 DEF DraftInv, TypedIsEdit
    <3>2. /\ ~Edited(attrRows[a]) => attrRows'[a] = RowsOf(c)[a]
          /\ Edited(attrRows[a]) /\ c[a] # attrRows[a].text => Edited(attrRows'[a])
          /\ Edited(attrRows[a]) => attrRows'[a] # Absent /\ attrRows'[a].text = attrRows[a].text
      BY <1>1, <2>1, MergeKeepsEdits DEF DraftInv, DraftTyped
    <3>3. ~Edited(RowsOf(c)[a])
      BY <1>1, RowsAreUnedited
    <3> QED
      BY <2>4, <3>1, <3>2, <3>3
  <2>7. TypedIsEdit'
    BY <2>1, <2>4, <2>6 DEF TypedIsEdit, Edited, DraftInv, DraftTyped
  <2>8. RowsFollow'
    BY <2>1, <2>6 DEF RowsFollow, RowsOf
  <2> QED
    BY <1>1, <1>2, <2>5, <2>7, <2>8 DEF DraftInv, DraftIsOfOpen, ChangesAreOfDraft, PreviewIsEdits, Previewing
<1>4. CASE initializedIdentity # entry.dn
  <2>1. /\ attrRows' = RowsOf(c) /\ ldifText' = Nothing /\ editorTab' \in {"form", "assoc"}
        /\ touched' = {} /\ typed' = <<>> /\ asText' = FALSE
    BY <1>4 DEF InitFor
  <2>2. DOMAIN typed' = {}
    BY <2>1
  <2>3. \A a \in Attrs : ~Edited(attrRows'[a])
    BY <1>1, <2>1, RowsAreUnedited
  <2>4. DraftTyped'
    BY <1>1, <1>2, <2>1, <2>2 DEF DraftTyped, Nothing, Content
  <2>5. TypedIsEdit' /\ RowsFollow'
    BY <2>1, <2>2, <2>3 DEF TypedIsEdit, RowsFollow, RowsOf, Edited
  <2> QED
    BY <1>1, <1>2, <2>4, <2>5 DEF DraftInv, DraftIsOfOpen, ChangesAreOfDraft, PreviewIsEdits, Previewing
<1> QED
  BY <1>3, <1>4

\* So is one that the watch leaves alone.
Watched ==
  \/ /\ UNCHANGED draft
     /\ Loaded' => Loaded /\ UNCHANGED editorEntry
  \/ ~editorLoading' /\ ~editorLoadError' /\ editorEntry' \in Detail /\ InitFor(editorEntry')
LEMMA WatchKeeps == ASSUME DraftInv, Watched PROVE DraftInv'
<1>1. CASE UNCHANGED draft
  <2>1. DraftTyped' /\ TypedIsEdit' /\ ChangesAreOfDraft' /\ PreviewIsEdits'
    BY <1>1 DEF draft, text, preview, DraftInv, DraftTyped, TypedIsEdit, ChangesAreOfDraft, PreviewIsEdits, Previewing
  <2>3. CASE Loaded' => Loaded /\ UNCHANGED editorEntry
    BY <1>1, <2>1, <2>3 DEF draft, text, preview, DraftInv, DraftIsOfOpen, RowsFollow
  <2>4. CASE ~editorLoading' /\ ~editorLoadError' /\ editorEntry' \in Detail /\ InitFor(editorEntry')
    BY <2>4, InitForKeeps
  <2> QED
    BY <2>3, <2>4 DEF Watched
<1>2. CASE ~editorLoading' /\ ~editorLoadError' /\ editorEntry' \in Detail /\ InitFor(editorEntry')
  BY <1>2, InitForKeeps
<1> QED
  BY <1>1, <1>2 DEF Watched

\* A closed editor has no draft.
LEMMA ShutKeeps ==
  ASSUME DraftInv, Shut, dnDraft' = dnDraft, pendingChanges' \in {pendingChanges, Absent} PROVE DraftInv'
<1>1. DOMAIN typed' = {} /\ ~editorOpen' /\ initializedIdentity' = Absent
  BY DEF Shut
<1>2. DraftTyped'
  BY <1>1 DEF Shut, DraftInv, DraftTyped, Nothing, Content
<1>3. TypedIsEdit' /\ RowsFollow' /\ DraftIsOfOpen' /\ PreviewIsEdits'
  BY <1>1 DEF TypedIsEdit, RowsFollow, DraftIsOfOpen, PreviewIsEdits, Previewing, Loaded
<1> QED
  BY <1>2, <1>3 DEF DraftInv, ChangesAreOfDraft

(* The reads *)
LEMMA AskIsGood ==
  ASSUME dir \in [Dns -> Content], NEW kind \in Kinds, NEW n \in Nat, NEW dn \in Dns,
         NEW todo \in SUBSET Attrs, NEW asks \in SUBSET Attrs
  PROVE  LET x == Ask(kind, n, dn, todo, asks) IN x \in Reading /\ x.seq = n /\ x.dn = dn /\ x.asked = dir[dn]
BY DEF Ask, Reading

LEMMA BatchIsGood ==
  ASSUME dir \in [Dns -> Content], NEW kind \in Kinds, NEW r, r.seq \in Nat, r.dn \in Dns,
         NEW left \in SUBSET Attrs, left # {}
  PROVE  LET x == NextBatch(kind, r, left) IN x \in Reading /\ x.seq = r.seq /\ x.dn = r.dn /\ x.asked = dir[r.dn]
<1> DEFINE b == CHOOSE a \in left : TRUE
<1>1. b \in left
  OBVIOUS
<1>2. NextBatch(kind, r, left) = Ask(kind, r.seq, r.dn, left \ {b}, {b})
  BY DEF NextBatch
<1> HIDE DEF b
<1> QED
  BY <1>1, <1>2, AskIsGood

\* The reads that a step leaves are of before, or of the newest request.
Follows ==
  \A x \in reads' : x \in reads \/ /\ x \in Reading /\ x.seq = entryRequestSeq
                                   /\ x.dn = editorRequestedDn /\ x.asked = dir[x.dn]

LEMMA LoadDeferredFollows ==
  ASSUME EditorTyped, editorOpen, NEW others \in SUBSET reads, NEW names \in SUBSET Attrs, LoadDeferred(others, names)
  PROVE  Follows
<1> DEFINE x == NextBatch("deferred", [seq |-> entryRequestSeq, dn |-> editorRequestedDn], names)
<1>1. names # {} => /\ x \in Reading /\ x.seq = entryRequestSeq
                    /\ x.dn = editorRequestedDn /\ x.asked = dir[editorRequestedDn]
  BY BatchIsGood DEF EditorTyped, Kinds
<1>2. reads' = others \/ (names # {} /\ reads' = others \cup {x})
  BY DEF LoadDeferred
<1> HIDE DEF x
<1> QED
  BY <1>1, <1>2 DEF Follows

LEMMA ReadsKeep ==
  ASSUME EditorTyped, ReadIsActive, Follows, UNCHANGED <<dir, had, entryRequestSeq, editorOpen, editorRequestedDn>>
  PROVE  /\ reads' \subseteq Reading
         /\ \A dn \in Dns : Within(dir[dn], dn)'
         /\ \A r \in reads' : /\ r.seq <= entryRequestSeq' /\ Within(r.asked, r.dn)'
                              /\ Active(r)' => r.dn = editorRequestedDn'
<1>1. \A content, dn : Within(content, dn)' = Within(content, dn)
  BY DEF Within
<1>2. ASSUME NEW r \in reads'
      PROVE  /\ r \in Reading
             /\ r.seq <= entryRequestSeq /\ Within(r.asked, r.dn)
             /\ r.seq = entryRequestSeq /\ editorOpen => r.dn = editorRequestedDn
  BY DEF Follows, EditorTyped, ReadIsActive, Active, Reading
<1> QED
  BY <1>1, <1>2 DEF ReadIsActive, EditorTyped, Active, Within

LEMMA OpenEntryKeeps == ASSUME EditorInv, NEW dn \in Dns, OpenEntry(dn) PROVE EditorInv'
<1> DEFINE cached == entryDetailCache[dn]
           x == Ask("core", entryRequestSeq + 1, dn, {}, Core)
<1>1. /\ entryRequestSeq' = entryRequestSeq + 1 /\ editorOpen' = TRUE /\ editorRequestedDn' = dn
      /\ editorEntry' = IF cached = Absent THEN Absent ELSE [dn |-> dn, attributes |-> cached]
      /\ editorLoading' = (cached = Absent) /\ editorLoadError' = FALSE
      /\ editorDeferredAttributes' = {} /\ reads' = reads \cup {x}
      /\ UNCHANGED <<dir, had, entryDetailCache, modifies>>
  BY DEF OpenEntry, directory
<1>2. x \in Reading /\ x.seq = entryRequestSeq + 1 /\ x.dn = dn /\ x.asked = dir[dn]
  BY AskIsGood DEF EditorInv, EditorTyped, Kinds, Attrs
<1> HIDE DEF x
<1>3. cached # Absent => cached \in Content /\ editorEntry' \in Detail /\ editorEntry'.dn = dn /\ editorEntry'.attributes = cached
  BY <1>1 DEF EditorInv, EditorTyped, Detail
<1>4. EditorTyped'
  BY <1>1, <1>2, <1>3 DEF EditorInv, EditorTyped
<1>5. ReadIsActive'
  <2>1. \A content, d : Within(content, d)' = Within(content, d)
    BY <1>1 DEF Within
  <2>2. ASSUME NEW r \in reads' PROVE /\ r.seq <= entryRequestSeq' /\ Within(r.asked, r.dn)
                                      /\ r.seq = entryRequestSeq' => r.dn = dn
    BY <1>1, <1>2 DEF EditorInv, EditorTyped, ReadIsActive, Reading
  <2> QED
    BY <1>1, <1>3, <2>1, <2>2 DEF EditorInv, ReadIsActive, Active, Within
<1>6. EntryIsItsOwn'
  BY <1>1, <1>3 DEF EditorInv, EntryIsItsOwn
<1>7. SavedToItsEntry'
  BY <1>1 DEF EditorInv, SavedToItsEntry
<1>8. Watched
  <2>1. CASE cached = Absent
    <3>1. UNCHANGED draft
      BY <1>1, <2>1 DEF OpenEntry, Watch
    <3> QED
      BY <1>1, <2>1, <3>1 DEF Watched, Loaded
  <2>2. CASE cached # Absent
    <3>1. CASE ~editorOpen \/ editorEntry' # editorEntry \/ flags' # flags
      BY <1>1, <1>3, <2>2, <3>1 DEF OpenEntry, Watch, Watched
    <3>2. CASE ~(~editorOpen \/ editorEntry' # editorEntry \/ flags' # flags)
      <4>1. UNCHANGED draft
        BY <3>2 DEF OpenEntry, Watch
      <4>2. UNCHANGED <<editorEntry, editorLoading, editorLoadError>> /\ editorOpen
        BY <3>2 DEF flags
      <4> QED
        BY <1>1, <4>1, <4>2 DEF Watched, Loaded
    <3> QED
      BY <3>1, <3>2
  <2> QED
    BY <2>1, <2>2
<1>9. DraftInv'
  BY <1>8, WatchKeeps DEF EditorInv
<1> QED
  BY <1>4, <1>5, <1>6, <1>7, <1>9 DEF EditorInv

\* A closed editor, with the cache as it was but for an entry that is dropped.
LEMMA ShutKeepsAll ==
  ASSUME EditorInv, Shut, dnDraft' = dnDraft, pendingChanges' \in {pendingChanges, Absent},
         UNCHANGED <<directory, reads>>, modifies' \subseteq modifies,
         entryDetailCache' \in [Dns -> Content \cup {Absent}],
         \A dn \in Dns : entryDetailCache'[dn] \in {entryDetailCache[dn], Absent}
  PROVE  EditorInv'
<1>1. /\ entryRequestSeq' = entryRequestSeq + 1 /\ editorOpen' = FALSE /\ editorDeferredAttributes' = {}
      /\ UNCHANGED <<editorEntry, dir, had>>
  BY DEF Shut, directory
<1>2. EditorTyped'
  BY <1>1 DEF EditorInv, EditorTyped
<1>3. ReadIsActive'
  <2>1. \A content, d : Within(content, d)' = Within(content, d)
    BY <1>1 DEF Within
  <2>2. ASSUME NEW r \in reads' PROVE r.seq <= entryRequestSeq' /\ Within(r.asked, r.dn)
    BY <1>1 DEF EditorInv, EditorTyped, ReadIsActive, Reading
  <2> QED
    BY <1>1, <2>1, <2>2 DEF EditorInv, ReadIsActive, Active, Within
<1>4. EntryIsItsOwn'
  BY <1>1 DEF EditorInv, EntryIsItsOwn
<1>5. SavedToItsEntry'
  BY DEF EditorInv, SavedToItsEntry
<1>6. DraftInv'
  BY ShutKeeps DEF EditorInv
<1> QED
  BY <1>2, <1>3, <1>4, <1>5, <1>6 DEF EditorInv

LEMMA CloseEditorKeeps == ASSUME EditorInv, CloseEditor PROVE EditorInv'
<1>1. /\ Shut /\ UNCHANGED <<directory, reads, modifies, dnDraft, pendingChanges, entryDetailCache>>
  BY DEF CloseEditor, preview
<1>2. entryDetailCache' \in [Dns -> Content \cup {Absent}]
  BY <1>1 DEF EditorInv, EditorTyped
<1> QED
  BY <1>1, <1>2, ShutKeepsAll

\* What a step that reads nothing anew and writes nothing leaves sound.
LEMMA DraftStepKeeps ==
  ASSUME EditorInv, DraftInv', Follows, UNCHANGED <<dir, had, entryRequestSeq, editorOpen, editorRequestedDn, modifies>>,
         editorEntry' \in Detail \cup {Absent}, editorDeferredAttributes' \subseteq Attrs,
         entryDetailCache' \in [Dns -> Content \cup {Absent}],
         editorOpen /\ editorEntry' # Absent => editorEntry'.dn = editorRequestedDn,
         EntryIsItsOwn'
  PROVE  EditorInv'
<1>1. /\ reads' \subseteq Reading
      /\ \A dn \in Dns : Within(dir[dn], dn)'
      /\ \A r \in reads' : /\ r.seq <= entryRequestSeq' /\ Within(r.asked, r.dn)'
                           /\ Active(r)' => r.dn = editorRequestedDn'
  BY ReadsKeep DEF EditorInv
<1>2. EditorTyped'
  BY <1>1 DEF EditorInv, EditorTyped
<1>3. ReadIsActive'
  BY <1>1 DEF ReadIsActive
<1>4. SavedToItsEntry'
  BY DEF EditorInv, SavedToItsEntry
<1> QED
  BY <1>2, <1>3, <1>4 DEF EditorInv

\* What an answer of the newest request says of an entry is put into its detail.
Put(r, attributes) ==
  /\ editorEntry' = [dn |-> r.dn, attributes |-> attributes]
  /\ entryDetailCache' = [entryDetailCache EXCEPT ![r.dn] = attributes]
LEMMA PutIsSound ==
  ASSUME EditorInv, NEW r \in reads, Active(r), NEW attributes \in Content, Within(attributes, r.dn),
         Put(r, attributes), UNCHANGED had
  PROVE  /\ editorEntry' \in Detail /\ editorEntry'.dn = editorRequestedDn
         /\ entryDetailCache' \in [Dns -> Content \cup {Absent}] /\ EntryIsItsOwn'
<1>1. r.dn \in Dns /\ r.dn = editorRequestedDn
  BY DEF EditorInv, EditorTyped, ReadIsActive, Reading
<1>2. editorEntry' \in Detail /\ editorEntry'.dn = r.dn /\ editorEntry'.attributes = attributes
  BY <1>1 DEF Put, Detail
<1>3. /\ entryDetailCache' \in [Dns -> Content \cup {Absent}]
      /\ \A dn \in Dns : entryDetailCache'[dn] = IF dn = r.dn THEN attributes ELSE entryDetailCache[dn]
  BY <1>1 DEF Put, EditorInv, EditorTyped
<1>4. EntryIsItsOwn'
  BY <1>1, <1>2, <1>3 DEF EditorInv, EntryIsItsOwn, Within
<1> QED
  BY <1>1, <1>2, <1>3, <1>4

LEMMA ExtendPuts ==
  ASSUME EditorInv, NEW r \in reads, Active(r), NEW got \in Content, Within(got, r.dn), Extend(r, got)
  PROVE  \E attributes \in Content : Within(attributes, r.dn) /\ Put(r, attributes)
<1> DEFINE old == IF editorEntry = Absent THEN Nothing ELSE editorEntry.attributes
<1>1. old \in Content
  BY DEF EditorInv, EditorTyped, Nothing, Content, Detail
<1>2. Within(old, r.dn)
  <2>1. CASE editorEntry = Absent
    BY <2>1 DEF Within, Nothing
  <2>2. CASE editorEntry # Absent
    <3>1. editorEntry.dn = r.dn
      BY <2>2 DEF EditorInv, ReadIsActive, Active
    <3> QED
      BY <2>2, <3>1 DEF EditorInv, EntryIsItsOwn, Within
  <2> QED
    BY <2>1, <2>2
<1> HIDE DEF old
<1>3. Within(Overlay(old, got), r.dn)
  BY <1>2 DEF Within, Overlay
<1>4. Overlay(old, got) \in Content
  BY <1>1, OverlayTyped
<1>5. Put(r, Overlay(old, got))
  BY DEF Extend, Put, old
<1> QED
  BY <1>3, <1>4, <1>5

LEMMA StaleKeeps ==
  ASSUME EditorInv, NEW r \in reads, Stale(r),
         UNCHANGED <<directory, entryRequestSeq, editorOpen, editorRequestedDn, modifies>>
  PROVE  EditorInv'
<1>1. /\ UNCHANGED <<draft, dir, had, editorEntry, entryDetailCache, editorLoading, editorLoadError, editorDeferredAttributes>>
      /\ Follows
  BY DEF Stale, staged, flags, directory, Follows
<1>2. DraftInv'
  BY <1>1, WatchKeeps DEF Watched, Loaded, EditorInv
<1>3. /\ editorEntry' \in Detail \cup {Absent} /\ editorDeferredAttributes' \subseteq Attrs
      /\ entryDetailCache' \in [Dns -> Content \cup {Absent}] /\ EntryIsItsOwn'
      /\ editorOpen /\ editorEntry' # Absent => editorEntry'.dn = editorRequestedDn
  BY <1>1 DEF EditorInv, EditorTyped, EntryIsItsOwn, ReadIsActive
<1> QED
  BY <1>1, <1>2, <1>3, DraftStepKeeps

\* The call that follows an answer of the newest request is of that request, too.
LEMMA NextCallFollows ==
  ASSUME EditorInv, NEW r \in reads, Active(r)
  PROVE  /\ \A kind \in Kinds, asks \in SUBSET Attrs :
              reads' = (reads \ {r}) \cup {Ask(kind, r.seq, r.dn, {}, asks)} => Follows
         /\ \A kind \in Kinds, left \in SUBSET Attrs :
              left # {} /\ reads' = (reads \ {r}) \cup {NextBatch(kind, r, left)} => Follows
         /\ \A names \in SUBSET Attrs : RegularDone(reads \ {r}, names) => Follows
<1>1. /\ dir \in [Dns -> Content] /\ r.seq \in Nat /\ r.seq = entryRequestSeq
      /\ r.dn \in Dns /\ r.dn = editorRequestedDn /\ editorOpen /\ EditorTyped
  BY DEF EditorInv, EditorTyped, ReadIsActive, Active, Reading
<1>2. ASSUME NEW kind \in Kinds, NEW asks \in SUBSET Attrs,
             reads' = (reads \ {r}) \cup {Ask(kind, r.seq, r.dn, {}, asks)}
      PROVE  Follows
  <2> DEFINE x == Ask(kind, r.seq, r.dn, {}, asks)
  <2>1. x \in Reading /\ x.seq = r.seq /\ x.dn = r.dn /\ x.asked = dir[r.dn]
    BY <1>1, AskIsGood
  <2>2. reads' = (reads \ {r}) \cup {x}
    BY <1>2
  <2> HIDE DEF x
  <2> QED
    BY <1>1, <2>1, <2>2 DEF Follows
<1>3. ASSUME NEW kind \in Kinds, NEW left \in SUBSET Attrs, left # {},
             reads' = (reads \ {r}) \cup {NextBatch(kind, r, left)}
      PROVE  Follows
  <2> DEFINE x == NextBatch(kind, r, left)
  <2>1. x \in Reading /\ x.seq = r.seq /\ x.dn = r.dn /\ x.asked = dir[r.dn]
    BY <1>1, <1>3, BatchIsGood
  <2>2. reads' = (reads \ {r}) \cup {x}
    BY <1>3
  <2> HIDE DEF x
  <2> QED
    BY <1>1, <2>1, <2>2 DEF Follows
<1>4. ASSUME NEW names \in SUBSET Attrs, RegularDone(reads \ {r}, names) PROVE Follows
  <2>1. PICK some \in SUBSET Attrs : LoadDeferred(reads \ {r}, some)
    BY <1>4 DEF RegularDone
  <2>2. reads \ {r} \in SUBSET reads
    OBVIOUS
  <2> QED
    BY <1>1, <2>1, <2>2, LoadDeferredFollows
<1> QED
  BY <1>2, <1>3, <1>4

LEMMA ReadArrivesKeeps == ASSUME EditorInv, NEW r \in reads, ReadArrives(r) PROVE EditorInv'
<1>1. UNCHANGED <<dir, had, directory, entryRequestSeq, editorOpen, editorRequestedDn, modifies>>
  BY DEF ReadArrives, directory
<1>2. CASE ~Active(r)
  BY <1>1, <1>2, StaleKeeps DEF ReadArrives
<1>3. CASE Active(r)
  <2>1. PICK content \in {r.asked, dir[r.dn]} :
          LET got == [a \in Attrs |-> IF a \in r.asks THEN content[a] ELSE Absent] IN
            \/ /\ CoreArrives(r, got) \/ RegularArrives(r, got) \/ FullArrives(r, got) \/ DeferredArrives(r, got)
               /\ Watch(TRUE, editorDeferredRequested)
            \/ /\ NamesArrive(r, got)
               /\ Watch(flags' # flags, editorDeferredRequested)
    BY <1>3 DEF ReadArrives
  <2> DEFINE got == [a \in Attrs |-> IF a \in r.asks THEN content[a] ELSE Absent]
             regular == [a \in Attrs |-> IF a \in Regular THEN got[a] ELSE Absent]
  <2>2. content \in Content /\ Within(content, r.dn) /\ r.dn \in Dns /\ r.todo \in SUBSET Attrs /\ editorOpen
    BY <1>3 DEF EditorInv, EditorTyped, ReadIsActive, Reading, Active
  <2>3. got \in Content /\ Within(got, r.dn) /\ regular \in Content /\ Within(regular, r.dn)
    BY <2>2 DEF Content, Within
  <2>4. editorDeferredAttributes \in SUBSET Attrs
    BY DEF EditorInv, EditorTyped
  <2>5. ASSUME CoreArrives(r, got) \/ RegularArrives(r, got) \/ FullArrives(r, got) \/ DeferredArrives(r, got),
               Watch(TRUE, editorDeferredRequested)
        PROVE  EditorInv'
    <3>1. (\E attributes \in Content : Within(attributes, r.dn) /\ Put(r, attributes)) /\ Follows
          /\ editorDeferredAttributes' \subseteq Attrs
      <4>1. CASE CoreArrives(r, got)
        <5>1. Put(r, got) /\ editorDeferredAttributes' = editorDeferredAttributes
          BY <4>1 DEF CoreArrives, Put
        <5>2. Follows
          BY <1>3, <4>1, NextCallFollows DEF CoreArrives, Kinds
        <5> QED
          BY <2>3, <2>4, <5>1, <5>2
      <4>2. CASE RegularArrives(r, got)
        <5>1. Extend(r, got) /\ editorDeferredAttributes' = editorDeferredAttributes
          BY <4>2 DEF RegularArrives
        <5>2. Follows
          BY <1>3, <2>2, <2>4, <4>2, NextCallFollows DEF RegularArrives, Kinds
        <5> QED
          BY <1>3, <2>3, <2>4, <5>1, <5>2, ExtendPuts
      <4>3. CASE FullArrives(r, got)
        <5> DEFINE names == {a \in Deferred : got[a] # Absent}
        <5>1. Extend(r, regular) /\ editorDeferredAttributes' = names /\ names \in SUBSET Attrs
          BY <4>3 DEF FullArrives, Attrs
        <5>2. RegularDone(reads \ {r}, names)
          BY <4>3 DEF FullArrives
        <5> HIDE DEF names
        <5>3. Follows
          BY <1>3, <5>1, <5>2, NextCallFollows
        <5> QED
          BY <1>3, <2>3, <5>1, <5>3, ExtendPuts
      <4>4. CASE DeferredArrives(r, got)
        <5>1. Extend(r, got) /\ editorDeferredAttributes' \subseteq Attrs
          BY <2>4, <4>4 DEF DeferredArrives
        <5>2. CASE r.todo = {}
          BY <1>3, <2>3, <4>4, <5>1, <5>2, ExtendPuts DEF DeferredArrives, Follows
        <5>3. CASE r.todo # {}
          <6>1. Follows
            BY <1>3, <2>2, <4>4, <5>3, NextCallFollows DEF DeferredArrives, Kinds
          <6> QED
            BY <1>3, <2>3, <5>1, <6>1, ExtendPuts
        <5> QED
          BY <5>2, <5>3
      <4> QED
        BY <2>5, <4>1, <4>2, <4>3, <4>4
    <3>2. /\ editorEntry' \in Detail /\ editorEntry'.dn = editorRequestedDn
          /\ entryDetailCache' \in [Dns -> Content \cup {Absent}] /\ EntryIsItsOwn'
      BY <1>1, <1>3, <3>1, PutIsSound
    <3>3. Watched
      BY <2>5, <3>2 DEF Watch, Watched, Loaded
    <3>4. DraftInv'
      BY <3>3, WatchKeeps DEF EditorInv
    <3> QED
      BY <1>1, <3>1, <3>2, <3>4, DraftStepKeeps
  <2>6. ASSUME NamesArrive(r, got), Watch(flags' # flags, editorDeferredRequested) PROVE EditorInv'
    <3> DEFINE names == {a \in Attrs : got[a] # Absent}
    <3>1. /\ editorDeferredAttributes' = DeferredOf(names)
          /\ UNCHANGED <<editorEntry, entryDetailCache, editorLoading, editorLoadError>>
          /\ \/ RegularDone(reads \ {r}, DeferredOf(names))
             \/ /\ names \cap Regular # {}
                /\ reads' = (reads \ {r}) \cup {NextBatch("regular", r, names \cap Regular)}
      BY <2>6 DEF NamesArrive
    <3>2. names \cap Regular \in SUBSET Attrs /\ DeferredOf(names) \in SUBSET Attrs
      BY DEF DeferredOf
    <3> HIDE DEF names
    <3>3. Follows
      BY <1>3, <3>1, <3>2, NextCallFollows DEF Kinds
    <3>4. Watched
      <4>1. Loaded => editorEntry' \in Detail
        BY <3>1 DEF EditorInv, EditorTyped, DraftInv, DraftIsOfOpen
      <4> QED
        BY <1>1, <2>2, <2>6, <3>1, <4>1 DEF Watch, Watched, Loaded
    <3>5. DraftInv'
      BY <3>4, WatchKeeps DEF EditorInv
    <3>6. /\ editorEntry' \in Detail \cup {Absent} /\ editorDeferredAttributes' \subseteq Attrs
          /\ entryDetailCache' \in [Dns -> Content \cup {Absent}] /\ EntryIsItsOwn'
          /\ editorOpen /\ editorEntry' # Absent => editorEntry'.dn = editorRequestedDn
      BY <1>1, <3>1, <3>2 DEF EditorInv, EditorTyped, EntryIsItsOwn, ReadIsActive
    <3> QED
      BY <1>1, <3>3, <3>5, <3>6, DraftStepKeeps
  <2> QED
    BY <2>1, <2>5, <2>6
<1> QED
  BY <1>2, <1>3

LEMMA ReadFailsKeeps == ASSUME EditorInv, NEW r \in reads, ReadFails(r) PROVE EditorInv'
<1>1. UNCHANGED <<dir, had, directory, entryRequestSeq, editorOpen, editorRequestedDn, modifies>>
  BY DEF ReadFails, directory
<1>2. CASE ~Active(r)
  BY <1>1, <1>2, StaleKeeps DEF ReadFails
<1>3. CASE Active(r)
  <2>1. /\ Fails(r) /\ UNCHANGED <<editorEntry, entryDetailCache, editorDeferredAttributes>>
        /\ Watch(flags' # flags, editorDeferredRequested) /\ editorOpen
    BY <1>3 DEF ReadFails, Active
  <2>2. Follows
    <3>1. \/ reads' = reads \ {r}
          \/ reads' = (reads \ {r}) \cup {Ask("full", r.seq, r.dn, {}, Attrs)}
          \/ RegularDone(reads \ {r}, editorDeferredAttributes)
      BY <2>1 DEF Fails
    <3>2. editorDeferredAttributes \in SUBSET Attrs
      BY DEF EditorInv, EditorTyped
    <3>3. reads' = reads \ {r} => Follows
      BY DEF Follows
    <3> QED
      BY <1>3, <3>1, <3>2, <3>3, NextCallFollows DEF Kinds
  <2>3. Watched
    <3>1. Loaded' => Loaded
      BY <1>1, <2>1 DEF Fails, Loaded
    <3>2. Loaded => editorEntry' \in Detail
      BY <2>1 DEF EditorInv, EditorTyped, DraftInv, DraftIsOfOpen
    <3> QED
      BY <1>1, <2>1, <3>1, <3>2 DEF Watch, Watched, Loaded
  <2>4. DraftInv'
    BY <2>3, WatchKeeps DEF EditorInv
  <2>5. /\ editorEntry' \in Detail \cup {Absent} /\ editorDeferredAttributes' \subseteq Attrs
        /\ entryDetailCache' \in [Dns -> Content \cup {Absent}] /\ EntryIsItsOwn'
        /\ editorOpen /\ editorEntry' # Absent => editorEntry'.dn = editorRequestedDn
    BY <1>1, <2>1 DEF EditorInv, EditorTyped, EntryIsItsOwn, ReadIsActive
  <2> QED
    BY <1>1, <2>2, <2>4, <2>5, DraftStepKeeps
<1> QED
  BY <1>2, <1>3

\* A step that leaves the session alone, but for reads it may start.
LEMMA DialogStepKeeps ==
  ASSUME EditorInv, DraftInv', Follows, UNCHANGED <<directory, entryRequestSeq, editorOpen, editorRequestedDn, modifies,
         editorEntry, editorDeferredAttributes, entryDetailCache>>
  PROVE  EditorInv'
<1>1. UNCHANGED <<dir, had>>
  BY DEF directory
<1>2. /\ editorEntry' \in Detail \cup {Absent} /\ editorDeferredAttributes' \subseteq Attrs
      /\ entryDetailCache' \in [Dns -> Content \cup {Absent}] /\ EntryIsItsOwn'
      /\ editorOpen /\ editorEntry' # Absent => editorEntry'.dn = editorRequestedDn
  BY <1>1 DEF EditorInv, EditorTyped, EntryIsItsOwn, ReadIsActive
<1> QED
  BY <1>1, <1>2, DraftStepKeeps

LEMMA SwitchTabKeeps == ASSUME EditorInv, NEW tab \in {"form", "ldif", "assoc"}, SwitchTab(tab) PROVE EditorInv'
<1> DEFINE left   == IF editorTab = "ldif" /\ tab # "ldif" THEN syncRowsFromLdif ELSE attrRows
           synced == IF tab # "ldif" THEN Nothing ELSE IF editorTab = "ldif" THEN ldifText ELSE syncLdifFromRows
           c      == editorEntry.attributes
<1>1. /\ UNCHANGED <<directory, entryRequestSeq, editorOpen, editorRequestedDn, modifies, editorEntry,
                     editorDeferredAttributes, entryDetailCache, editorLoading, editorLoadError,
                     initializedIdentity, dnDraft, touched>>
      /\ editorTab' = tab /\ asText' = (asText \/ tab = "ldif") /\ editorOpen /\ Loaded
      /\ LoadDeferred(reads, IF tab = "form" THEN {} ELSE editorDeferredAttributes)
  BY DEF SwitchTab, Shown, Loaded
<1>2. \/ /\ attrRows' = Merge(left, c)
         /\ typed' = [a \in {b \in DOMAIN typed : c[b] = Absent \/ typed[b] # c[b]} |-> typed[a]]
         /\ ldifText' = IF editorTab' # "ldif" THEN Nothing
                        ELSE IF synced = Draft(left) THEN Draft(attrRows') ELSE synced
         /\ pendingChanges' = Absent
      \/ attrRows' = left /\ ldifText' = synced /\ UNCHANGED <<typed, changesOpen, pendingChanges, saving>>
  BY DEF SwitchTab, Follow, NoPreview, preview
<1>3. Follows
  <2>1. (IF tab = "form" THEN {} ELSE editorDeferredAttributes) \in SUBSET Attrs /\ EditorTyped
    BY DEF EditorInv, EditorTyped
  <2>2. reads \in SUBSET reads
    OBVIOUS
  <2> QED
    BY <1>1, <2>1, <2>2, LoadDeferredFollows
<1>4. c \in Content /\ initializedIdentity # Absent
  BY <1>1, EditorAssumption DEF EditorInv, EditorTyped, DraftInv, DraftIsOfOpen, Detail
<1>5. left \in [Attrs -> Row \cup {Absent}] /\ synced \in Content
  <2>1. attrRows \in [Attrs -> Row \cup {Absent}] /\ ldifText \in Content /\ Nothing \in Content
    BY DEF EditorInv, DraftInv, DraftTyped, Nothing, Content
  <2>2. syncRowsFromLdif \in [Attrs -> Row \cup {Absent}] /\ syncLdifFromRows \in Content
    BY <2>1, RowsTyped, DraftIsContent DEF syncRowsFromLdif, syncLdifFromRows
  <2> QED
    BY <2>1, <2>2
<1>6. ~asText' => left = attrRows /\ tab # "ldif" /\ ~asText
  BY <1>1 DEF EditorInv, DraftInv, DraftTyped
<1> HIDE DEF left, synced, c
<1>7. attrRows' \in [Attrs -> Row \cup {Absent}] /\ ldifText' \in Content
  <2>1. Merge(left, c) \in [Attrs -> Row \cup {Absent}] /\ Nothing \in Content
    BY <1>4, <1>5, MergeTyped DEF Nothing, Content
  <2>2. attrRows' \in [Attrs -> Row \cup {Absent}]
    BY <1>2, <1>5, <2>1
  <2>3. Draft(attrRows') \in Content
    BY <2>2, DraftIsContent
  <2> QED
    BY <1>2, <1>5, <2>1, <2>2, <2>3
<1>8. DOMAIN typed' \subseteq DOMAIN typed /\ \A a \in DOMAIN typed' : typed'[a] = typed[a]
  BY <1>2
<1>9. DraftTyped'
  BY <1>1, <1>2, <1>7, <1>8 DEF EditorInv, DraftInv, DraftTyped
<1>10. ASSUME ~asText', NEW a \in Attrs
       PROVE  /\ a \notin touched => attrRows'[a] = RowsOf(c)[a] /\ ~Edited(attrRows'[a])
              /\ a \in DOMAIN typed' /\ typed'[a] # Absent => Edited(attrRows'[a]) /\ attrRows'[a].text = typed'[a]
  <2>1. /\ a \notin touched => ~Edited(attrRows[a]) /\ attrRows[a] = RowsOf(c)[a]
        /\ a \in DOMAIN typed /\ typed[a] # Absent => Edited(attrRows[a]) /\ attrRows[a].text = typed[a]
    BY <1>1, <1>4, <1>6, <1>10 DEF EditorInv, DraftInv, TypedIsEdit, RowsFollow, c
  <2>2. CASE attrRows' = attrRows /\ typed' = typed
    BY <2>1, <2>2
  <2>3. CASE /\ attrRows' = Merge(attrRows, c)
             /\ typed' = [b \in {d \in DOMAIN typed : c[d] = Absent \/ typed[d] # c[d]} |-> typed[b]]
    <3>1. /\ ~Edited(attrRows[a]) => attrRows'[a] = RowsOf(c)[a]
          /\ Edited(attrRows[a]) /\ c[a] # attrRows[a].text => Edited(attrRows'[a])
          /\ Edited(attrRows[a]) => attrRows'[a] # Absent /\ attrRows'[a].text = attrRows[a].text
      BY <1>4, <2>3, MergeKeepsEdits DEF EditorInv, DraftInv, DraftTyped
    <3>2. ~Edited(RowsOf(c)[a])
      BY <1>4, RowsAreUnedited
    <3>3. a \in DOMAIN typed' => a \in DOMAIN typed /\ typed'[a] = typed[a] /\ (c[a] = Absent \/ typed[a] # c[a])
      BY <2>3
    <3> QED
      BY <2>1, <3>1, <3>2, <3>3
  <2> QED
    BY <1>2, <1>6, <1>10, <2>2, <2>3
<1>11. TypedIsEdit'
  BY <1>1, <1>8, <1>10 DEF TypedIsEdit, Edited, EditorInv, DraftInv, DraftTyped
<1>12. RowsFollow'
  BY <1>1, <1>10 DEF RowsFollow, RowsOf, c
<1>13. DraftIsOfOpen' /\ ChangesAreOfDraft'
  BY <1>1, <1>2 DEF EditorInv, DraftInv, DraftIsOfOpen, ChangesAreOfDraft, Loaded
<1>14. PreviewIsEdits'
  BY <1>1, <1>2, <1>6 DEF EditorInv, DraftInv, PreviewIsEdits, Previewing
<1>15. DraftInv'
  BY <1>9, <1>11, <1>12, <1>13, <1>14 DEF DraftInv
<1> QED
  BY <1>1, <1>3, <1>15, DialogStepKeeps

LEMMA EditKeeps == ASSUME EditorInv, NEW a \in Editing, NEW value \in Values \cup {Absent}, Edit(a, value) PROVE EditorInv'
<1> DEFINE row == IF attrRows[a] = Absent THEN [text |-> Absent, source |-> Absent] ELSE attrRows[a]
<1>1. /\ UNCHANGED <<directory, entryRequestSeq, editorOpen, editorRequestedDn, editorEntry, editorLoading, editorLoadError,
                     editorDeferredAttributes, entryDetailCache, reads, initializedIdentity, dnDraft, editorTab,
                     asText, changesOpen, pendingChanges, modifies>>
      /\ editorOpen /\ ~changesOpen /\ a \in Attrs /\ touched' = touched \cup {a} /\ Loaded
  BY EditorAssumption DEF Edit, Editable, Shown, Loaded, Type, staged, flags, preview
<1>2. Follows
  BY <1>1 DEF Follows
<1>3. /\ attrRows \in [Attrs -> Row \cup {Absent}] /\ ldifText \in Content
      /\ DOMAIN typed \subseteq Attrs /\ (editorTab = "ldif" => asText)
      /\ initializedIdentity # Absent
  BY <1>1, EditorAssumption DEF EditorInv, EditorTyped, DraftInv, DraftTyped, DraftIsOfOpen, Detail
<1>4. row \in Row /\ [row EXCEPT !.text = value] \in Row
      /\ [row EXCEPT !.text = value].text = value /\ [row EXCEPT !.text = value].source = row.source
  BY <1>1, <1>3 DEF Row
<1>5. DOMAIN typed' \subseteq DOMAIN typed \cup {a}
  <2>1. Type(a, value, row.source) \/ Type(a, value, editorEntry.attributes[a])
    BY DEF Edit
  <2>2. ASSUME NEW was, Type(a, value, was) PROVE DOMAIN typed' \subseteq DOMAIN typed \cup {a}
    BY <2>2 DEF Type
  <2> QED
    BY <2>1, <2>2
<1>6. DOMAIN typed' \subseteq Attrs
  BY <1>1, <1>3, <1>5
<1>7. attrRows' \in [Attrs -> Row \cup {Absent}] /\ ldifText' \in Content
  <2>1. [ldifText EXCEPT ![a] = value] \in Content
    BY <1>1, <1>3 DEF Content
  <2>2. \/ attrRows' = attrRows \/ attrRows' = [attrRows EXCEPT ![a] = Absent]
        \/ attrRows' = [attrRows EXCEPT ![a] = [row EXCEPT !.text = value]]
    BY DEF Edit
  <2>3. ldifText' = ldifText \/ ldifText' = [ldifText EXCEPT ![a] = value]
    BY DEF Edit
  <2> HIDE DEF row
  <2> QED
    BY <1>1, <1>3, <1>4, <2>1, <2>2, <2>3
<1>8. DraftTyped'
  BY <1>1, <1>3, <1>6, <1>7 DEF EditorInv, DraftInv, DraftTyped
<1>9. ASSUME ~asText, NEW b \in Attrs
      PROVE  /\ b \notin touched' => attrRows'[b] = RowsOf(editorEntry.attributes)[b] /\ ~Edited(attrRows'[b])
             /\ b \in DOMAIN typed' /\ typed'[b] # Absent => Edited(attrRows'[b]) /\ attrRows'[b].text = typed'[b]
  <2>1. /\ \/ attrRows' = [attrRows EXCEPT ![a] = [row EXCEPT !.text = value]]
           \/ value = Absent /\ attrRows' = [attrRows EXCEPT ![a] = Absent]
        /\ typed' = [d \in IF value = row.source THEN DOMAIN typed \ {a} ELSE (DOMAIN typed \ {a}) \cup {a}
                              |-> IF d = a THEN value ELSE typed[d]]
    BY <1>3, <1>9 DEF Edit, Type
  <2> HIDE DEF row
  <2>2. CASE b = a
    <3>1. b \in DOMAIN typed' => typed'[b] = value /\ value # row.source
      BY <2>1, <2>2
    <3>2. value # Absent => attrRows'[b] = [row EXCEPT !.text = value]
      BY <1>1, <1>3, <2>1, <2>2
    <3>3. [row EXCEPT !.text = value] # Absent
      BY <1>4, EditorAssumption
    <3> QED
      BY <1>1, <1>4, <2>2, <3>1, <3>2, <3>3 DEF Edited
  <2>3. CASE b # a
    <3>1. attrRows'[b] = attrRows[b] /\ (b \in DOMAIN typed' => b \in DOMAIN typed /\ typed'[b] = typed[b])
      BY <1>1, <1>3, <2>1, <2>3
    <3>2. /\ b \notin touched => ~Edited(attrRows[b]) /\ attrRows[b] = RowsOf(editorEntry.attributes)[b]
          /\ b \in DOMAIN typed /\ typed[b] # Absent => Edited(attrRows[b]) /\ attrRows[b].text = typed[b]
      BY <1>1, <1>3, <1>9 DEF EditorInv, DraftInv, TypedIsEdit, RowsFollow
    <3> QED
      BY <1>1, <3>1, <3>2
  <2> QED
    BY <2>2, <2>3
<1>10. TypedIsEdit'
  BY <1>1, <1>6, <1>9 DEF TypedIsEdit, Edited
<1>11. RowsFollow'
  BY <1>1, <1>9 DEF RowsFollow, RowsOf
<1>12. DraftIsOfOpen' /\ ChangesAreOfDraft' /\ PreviewIsEdits'
  BY <1>1 DEF EditorInv, DraftInv, DraftIsOfOpen, ChangesAreOfDraft, Loaded, PreviewIsEdits, Previewing
<1>13. DraftInv'
  BY <1>8, <1>10, <1>11, <1>12 DEF DraftInv
<1> QED
  BY <1>1, <1>2, <1>13, DialogStepKeeps

LEMMA DiffTyped ==
  ASSUME NEW before \in Content, NEW after \in Content
  PROVE  Diff(before, after) \in Edits /\ DOMAIN Diff(before, after) = {b \in Attrs : before[b] # after[b]}
<1> DEFINE S == {b \in Attrs : before[b] # after[b]}
<1>1. Diff(before, after) = [b \in S |-> after[b]]
  BY DEF Diff
<1>2. [b \in S |-> after[b]] \in [S -> Values \cup {Absent}] /\ S \in SUBSET Attrs
  BY DEF Content
<1> QED
  BY <1>1, <1>2 DEF Edits

LEMMA SaveKeeps == ASSUME EditorInv, Save PROVE EditorInv'
<1> DEFINE rows_ == IF editorTab = "ldif" THEN syncRowsFromLdif ELSE attrRows
           edits == Diff(editorEntry.attributes, Draft(rows_))
<1>1. CASE edits = <<>>
  <2>1. Shut /\ UNCHANGED <<directory, entryDetailCache, reads, dnDraft, modifies, pendingChanges>>
    BY <1>1 DEF Save, preview
  <2>2. entryDetailCache' \in [Dns -> Content \cup {Absent}]
    BY <2>1 DEF EditorInv, EditorTyped
  <2> QED
    BY <2>1, <2>2, ShutKeepsAll
<1>2. CASE edits # <<>>
  <2>1. /\ UNCHANGED <<directory, entryRequestSeq, editorOpen, editorRequestedDn, editorEntry, editorLoading,
                       editorLoadError, editorDeferredAttributes, entryDetailCache, reads, initializedIdentity,
                       dnDraft, editorTab, ldifText, touched, typed, asText, modifies>>
        /\ attrRows' = rows_ /\ pendingChanges' = [of |-> editorEntry.dn, edits |-> edits] /\ Loaded
    BY <1>2 DEF Save, Editable, Shown, Loaded, staged, flags
  <2>2. /\ editorEntry \in Detail /\ editorEntry.attributes \in Content /\ editorEntry.dn \in Dns
        /\ dnDraft = editorEntry.dn /\ initializedIdentity # Absent
    BY <2>1, EditorAssumption DEF EditorInv, EditorTyped, DraftInv, DraftIsOfOpen, Detail
  <2>3. rows_ \in [Attrs -> Row \cup {Absent}] /\ (~asText => rows_ = attrRows)
    BY RowsTyped DEF EditorInv, DraftInv, DraftTyped, syncRowsFromLdif
  <2>4. Draft(rows_) \in Content
    BY <2>3, DraftIsContent
  <2>5. edits \in Edits /\ DOMAIN edits = {b \in Attrs : editorEntry.attributes[b] # Draft(rows_)[b]}
    BY <2>2, <2>4, DiffTyped
  <2>6. ~asText => DOMAIN edits \subseteq touched
    <3>1. SUFFICES ASSUME ~asText, NEW b \in Attrs \ touched PROVE editorEntry.attributes[b] = Draft(rows_)[b]
      BY <2>5
    <3>2. attrRows[b] = RowsOf(editorEntry.attributes)[b] /\ rows_ = attrRows
      BY <2>1, <2>3, <3>1 DEF EditorInv, DraftInv, RowsFollow
    <3>3. editorEntry.attributes[b] # Absent =>
            [text |-> editorEntry.attributes[b], source |-> editorEntry.attributes[b]] \in Row
      BY <2>2 DEF Content, Row
    <3>4. Draft(rows_)[b] = IF attrRows[b] = Absent THEN Absent ELSE attrRows[b].text
      BY <3>2 DEF Draft
    <3>5. RowsOf(editorEntry.attributes)[b] =
            IF editorEntry.attributes[b] = Absent THEN Absent
            ELSE [text |-> editorEntry.attributes[b], source |-> editorEntry.attributes[b]]
      BY DEF RowsOf
    <3> QED
      BY <3>2, <3>3, <3>4, <3>5, EditorAssumption
  <2> HIDE DEF edits, rows_
  <2>7. pendingChanges' \in Changes /\ pendingChanges'.of = dnDraft /\ pendingChanges'.edits = edits
    BY <2>1, <2>2, <2>5 DEF Changes
  <2>8. DraftTyped'
    BY <2>1, <2>3, <2>7 DEF EditorInv, DraftInv, DraftTyped
  <2>9. TypedIsEdit' /\ RowsFollow' /\ DraftIsOfOpen'
    BY <2>1, <2>3 DEF EditorInv, DraftInv, TypedIsEdit, RowsFollow, DraftIsOfOpen, Loaded
  <2>10. ChangesAreOfDraft' /\ PreviewIsEdits'
    BY <2>1, <2>6, <2>7 DEF ChangesAreOfDraft, PreviewIsEdits
  <2>11. DraftInv'
    BY <2>8, <2>9, <2>10 DEF DraftInv
  <2>12. Follows
    BY <2>1 DEF Follows
  <2> QED
    BY <2>1, <2>11, <2>12, DialogStepKeeps
<1> QED
  BY <1>1, <1>2

LEMMA CancelKeeps == ASSUME EditorInv, CancelChanges PROVE EditorInv'
<1>1. /\ UNCHANGED <<directory, entryRequestSeq, editorOpen, editorRequestedDn, editorEntry, editorLoading,
                     editorLoadError, editorDeferredAttributes, entryDetailCache, reads, initializedIdentity,
                     dnDraft, editorTab, attrRows, ldifText, touched, typed, asText, modifies>>
      /\ pendingChanges' = Absent
  BY DEF CancelChanges, staged, flags, text
<1>2. DraftInv'
  BY <1>1 DEF EditorInv, DraftInv, DraftTyped, TypedIsEdit, RowsFollow, DraftIsOfOpen, Loaded, ChangesAreOfDraft,
              PreviewIsEdits, Previewing
<1>3. Follows
  BY <1>1 DEF Follows
<1> QED
  BY <1>1, <1>2, <1>3, DialogStepKeeps

\* A step about a modify leaves the session and the reads alone.
LEMMA ModifyStepKeeps ==
  ASSUME EditorInv, DraftInv', modifies' \subseteq Modify, SavedToItsEntry', dir' \in [Dns -> Content],
         had' \in [Dns -> SUBSET Values], \A dn \in Dns : Within(dir[dn], dn)', \A dn \in Dns : had[dn] \subseteq had'[dn],
         UNCHANGED <<entryRequestSeq, editorOpen, editorRequestedDn, editorEntry, editorDeferredAttributes,
                     entryDetailCache, reads>>
  PROVE  EditorInv'
<1>1. EditorTyped'
  BY DEF EditorInv, EditorTyped
<1>2. ReadIsActive'
  <2>1. ASSUME NEW r \in reads PROVE Within(r.asked, r.dn)'
    BY DEF EditorInv, EditorTyped, ReadIsActive, Reading, Within
  <2> QED
    BY <2>1 DEF EditorInv, ReadIsActive, Active, Within
<1>3. EntryIsItsOwn'
  <2>1. ASSUME NEW dn \in Dns, NEW v, v \in had[dn] \cup {Absent} PROVE v \in had'[dn] \cup {Absent}
    BY <2>1
  <2>2. editorEntry # Absent => editorEntry.dn \in Dns
    BY DEF EditorInv, EditorTyped, Detail
  <2> QED
    BY <2>1, <2>2 DEF EditorInv, EntryIsItsOwn
<1> QED
  BY <1>1, <1>2, <1>3 DEF EditorInv

LEMMA ConfirmKeeps == ASSUME EditorInv, ConfirmChanges PROVE EditorInv'
<1>1. /\ UNCHANGED <<dir, had, entryRequestSeq, editorOpen, editorRequestedDn, editorEntry, editorLoading,
                     editorLoadError, editorDeferredAttributes, entryDetailCache, reads, initializedIdentity,
                     dnDraft, editorTab, attrRows, ldifText, touched, typed, asText, pendingChanges>>
      /\ pendingChanges # Absent /\ changesOpen' = FALSE
      /\ modifies' = modifies \cup {ModifyDraft(pendingChanges)}
  BY DEF ConfirmChanges, staged, flags, text, directory
<1>2. DraftInv'
  BY <1>1 DEF EditorInv, DraftInv, DraftTyped, TypedIsEdit, RowsFollow, DraftIsOfOpen, Loaded, ChangesAreOfDraft,
              PreviewIsEdits, Previewing
<1>3. pendingChanges \in Changes /\ pendingChanges.of \in Dns /\ pendingChanges.of = dnDraft
  BY <1>1 DEF EditorInv, DraftInv, DraftTyped, ChangesAreOfDraft, Changes
<1>4. ModifyDraft(pendingChanges) \in Modify /\ ModifyDraft(pendingChanges).dn = ModifyDraft(pendingChanges).changes.of
  BY <1>3 DEF ModifyDraft, Modify
<1>5. modifies' \subseteq Modify /\ SavedToItsEntry'
  BY <1>1, <1>4 DEF EditorInv, EditorTyped, SavedToItsEntry
<1>6. /\ dir' \in [Dns -> Content] /\ had' \in [Dns -> SUBSET Values]
      /\ (\A dn \in Dns : Within(dir[dn], dn)') /\ \A dn \in Dns : had[dn] \subseteq had'[dn]
  BY <1>1 DEF EditorInv, EditorTyped, ReadIsActive, Within
<1> QED
  BY <1>1, <1>2, <1>5, <1>6, ModifyStepKeeps

LEMMA ServeKeeps == ASSUME EditorInv, NEW m \in modifies, ServeModify(m) PROVE EditorInv'
<1> DEFINE after == [a \in Attrs |-> IF a \in DOMAIN m.changes.edits THEN m.changes.edits[a] ELSE dir[m.dn][a]]
           gained == {dir'[m.dn][a] : a \in Attrs} \ {Absent}
<1>1. /\ dir' = [dir EXCEPT ![m.dn] = after] \/ dir' = dir
      /\ had' = [had EXCEPT ![m.dn] = @ \cup gained]
      /\ UNCHANGED <<entryRequestSeq, editorOpen, editorRequestedDn, editorEntry, editorDeferredAttributes,
                     entryDetailCache, reads, draft, editorLoading, editorLoadError>>
  BY DEF ServeModify, staged, flags
<1>2. PICK state \in {"ok", "error"} :
        modifies' = (modifies \ {m}) \cup {[m EXCEPT !.state = state, !.changes.edits = <<>>]}
  BY DEF ServeModify
<1>3. /\ m.dn \in Dns /\ m.changes \in Changes /\ m.changes.of \in Dns /\ m.changes.edits \in Edits
      /\ m.dn = m.changes.of /\ m \in Modify
  BY DEF EditorInv, EditorTyped, SavedToItsEntry, Modify, Changes
<1>4. after \in Content
  <2>1. dir[m.dn] \in Content
    BY <1>3 DEF EditorInv, EditorTyped
  <2>2. \A a \in DOMAIN m.changes.edits : m.changes.edits[a] \in Values \cup {Absent}
    BY <1>3 DEF Edits
  <2> QED
    BY <2>1, <2>2 DEF Content
<1> HIDE DEF after
<1>5. dir' \in [Dns -> Content] /\ \A dn \in Dns : dn # m.dn => dir'[dn] = dir[dn]
  BY <1>1, <1>3, <1>4 DEF EditorInv, EditorTyped
<1>6. gained \subseteq Values /\ \A a \in Attrs : dir'[m.dn][a] \in gained \cup {Absent}
  BY <1>3, <1>5 DEF Content
<1> HIDE DEF gained
<1>7. /\ had' \in [Dns -> SUBSET Values]
      /\ \A dn \in Dns : had'[dn] = IF dn = m.dn THEN had[dn] \cup gained ELSE had[dn]
  BY <1>1, <1>3, <1>6 DEF EditorInv, EditorTyped
<1>8. \A dn \in Dns : Within(dir[dn], dn)'
  BY <1>5, <1>6, <1>7 DEF EditorInv, ReadIsActive, Within
<1>9. modifies' \subseteq Modify /\ SavedToItsEntry'
  <2> DEFINE c == [m.changes EXCEPT !.edits = <<>>]
             n == [m EXCEPT !.state = state, !.changes.edits = <<>>]
  <2>1. <<>> \in Edits
    <3>1. <<>> \in [{} -> Values \cup {Absent}]
      OBVIOUS
    <3> QED
      BY <3>1 DEF Edits
  <2>2. c \in Changes /\ c.of = m.changes.of
    BY <1>3, <2>1 DEF Changes
  <2>3. n = [m EXCEPT !.state = state, !.changes = c]
    BY <1>3 DEF Modify
  <2> HIDE DEF c
  <2>4. n \in Modify /\ n.dn = m.dn /\ n.changes = c
    BY <1>2, <1>3, <2>2, <2>3 DEF Modify
  <2> HIDE DEF n
  <2>5. modifies' = (modifies \ {m}) \cup {n}
    BY <1>2 DEF n
  <2> QED
    BY <1>3, <2>2, <2>4, <2>5 DEF EditorInv, EditorTyped, SavedToItsEntry
<1>10. DraftInv'
  BY <1>1, WatchKeeps DEF Watched, Loaded, EditorInv
<1> QED
  BY <1>1, <1>5, <1>7, <1>8, <1>9, <1>10, ModifyStepKeeps

LEMMA AnsweredKeeps == ASSUME EditorInv, NEW m \in modifies, ModifyAnswered(m) PROVE EditorInv'
<1>1. /\ modifies' = modifies \ {m} /\ pendingChanges' = Absent
      /\ UNCHANGED <<directory, dir, had, reads, dnDraft, changesOpen>>
  BY DEF ModifyAnswered, directory
<1>2. CASE m.state = "ok"
  <2>1. Shut /\ entryDetailCache' = [entryDetailCache EXCEPT ![dnDraft] = Absent]
    BY <1>2 DEF ModifyAnswered, onEditorSaved
  <2>2. /\ entryDetailCache' \in [Dns -> Content \cup {Absent}]
        /\ \A dn \in Dns : entryDetailCache'[dn] \in {entryDetailCache[dn], Absent}
    BY <2>1 DEF EditorInv, EditorTyped
  <2> QED
    BY <1>1, <2>1, <2>2, ShutKeepsAll
<1>3. CASE m.state # "ok"
  <2>1. UNCHANGED <<entryRequestSeq, editorOpen, editorRequestedDn, editorEntry, editorLoading, editorLoadError,
                    editorDeferredAttributes, entryDetailCache, initializedIdentity, editorTab, attrRows, ldifText,
                    touched, typed, asText>>
    BY <1>3 DEF ModifyAnswered, staged, flags, text
  <2>2. DraftInv'
    BY <1>1, <2>1 DEF EditorInv, DraftInv, DraftTyped, TypedIsEdit, RowsFollow, DraftIsOfOpen, Loaded, ChangesAreOfDraft,
                      PreviewIsEdits, Previewing
  <2>3. /\ modifies' \subseteq Modify /\ SavedToItsEntry'
        /\ dir' \in [Dns -> Content] /\ had' \in [Dns -> SUBSET Values]
        /\ (\A dn \in Dns : Within(dir[dn], dn)') /\ \A dn \in Dns : had[dn] \subseteq had'[dn]
    BY <1>1 DEF EditorInv, EditorTyped, SavedToItsEntry, ReadIsActive, Within
  <2> QED
    BY <1>1, <2>1, <2>2, <2>3, ModifyStepKeeps
<1> QED
  BY <1>2, <1>3

LEMMA EditorStarts == EditorInit => EditorInv
<1> SUFFICES ASSUME EditorInit PROVE EditorInv
  OBVIOUS
<1>1. PICK value \in [Dns -> Values] : dir = [dn \in Dns |-> [a \in Attrs |-> value[dn]]]
  BY DEF EditorInit
<1>2. dir \in [Dns -> Content] /\ \A dn \in Dns, a \in Attrs : dir[dn][a] = value[dn]
  BY <1>1 DEF Content
<1>3. had = [dn \in Dns |-> {dir[dn][a] : a \in Attrs}]
  BY DEF EditorInit
<1>4. had \in [Dns -> SUBSET Values] /\ \A dn \in Dns : Within(dir[dn], dn)
  BY <1>2, <1>3 DEF Within
<1>5. EditorTyped
  BY <1>2, <1>4 DEF EditorInit, EditorTyped
<1>6. ReadIsActive /\ EntryIsItsOwn /\ SavedToItsEntry
  BY <1>4 DEF EditorInit, ReadIsActive, EntryIsItsOwn, SavedToItsEntry
<1>7. DOMAIN typed = {}
  BY DEF EditorInit
<1>8. DraftInv
  BY <1>7 DEF EditorInit, DraftInv, DraftTyped, DraftIsOfOpen, Loaded, TypedIsEdit, RowsFollow, ChangesAreOfDraft,
              PreviewIsEdits, Previewing, Nothing, Content
<1> QED
  BY <1>5, <1>6, <1>8 DEF EditorInv

LEMMA EditorStep == EditorInv /\ [EditorNext]_editorVars => EditorInv'
<1> SUFFICES ASSUME EditorInv, [EditorNext]_editorVars PROVE EditorInv'
  OBVIOUS
<1>1. ASSUME NEW dn \in Dns, OpenEntry(dn) PROVE EditorInv'
  BY <1>1, OpenEntryKeeps
<1>2. CASE CloseEditor
  BY <1>2, CloseEditorKeeps
<1>3. ASSUME NEW kind \in Kinds, ReadEnds(kind) PROVE EditorInv'
  BY <1>3, ReadArrivesKeeps, ReadFailsKeeps DEF ReadEnds
<1>4. ASSUME NEW tab \in {"form", "ldif", "assoc"}, SwitchTab(tab) PROVE EditorInv'
  BY <1>4, SwitchTabKeeps
<1>5. ASSUME NEW a \in Editing, NEW value \in Values \cup {Absent}, Edit(a, value) PROVE EditorInv'
  BY <1>5, EditKeeps
<1>6. CASE Save
  BY <1>6, SaveKeeps
<1>7. CASE CancelChanges
  BY <1>7, CancelKeeps
<1>8. CASE ConfirmChanges
  BY <1>8, ConfirmKeeps
<1>9. CASE ModifyEnds
  BY <1>9, ServeKeeps, AnsweredKeeps DEF ModifyEnds
<1>10. CASE UNCHANGED editorVars
  <2>1. UNCHANGED <<directory, dir, had, entryRequestSeq, editorOpen, editorRequestedDn, editorEntry, editorLoading,
                    editorLoadError, editorDeferredAttributes, entryDetailCache, reads, draft, modifies>>
    BY <1>10 DEF editorVars, directory, staged, flags
  <2>2. DraftInv'
    BY <2>1, WatchKeeps DEF Watched, Loaded, EditorInv
  <2>3. Follows
    BY <2>1 DEF Follows
  <2> QED
    BY <2>1, <2>2, <2>3, DialogStepKeeps
<1> QED
  BY <1>1, <1>2, <1>3, <1>4, <1>5, <1>6, <1>7, <1>8, <1>9, <1>10 DEF EditorNext

\* useEntryDetail.ts:140, EntryEditorDialog.vue:327: however many entries are opened, read, typed into,
\* saved and closed, in whatever order the answers come, what is shown, kept, edited and written
\* of one entry is of that one; and a draft that was never edited as LDIF text holds what the user
\* typed (what was removed aside) and proposes to change nothing the user did not touch.
THEOREM EntriesAreKeptApart == EditorSpec => []EditorIsSound
<1>1. EditorInv => EditorIsSound
  <2> SUFFICES ASSUME EditorInv PROVE EditorIsSound
    OBVIOUS
  <2>1. DraftIsOfEntry
    <3> SUFFICES ASSUME Editable
                 PROVE  /\ editorEntry # Absent
                        /\ {initializedIdentity, dnDraft, editorEntry.dn} = {editorRequestedDn}
      BY DEF DraftIsOfEntry
    <3>1. Loaded
      BY DEF Editable, Shown, Loaded
    <3> QED
      BY <3>1 DEF Loaded, EditorInv, DraftInv, DraftIsOfOpen, ReadIsActive
  <2>2. TypedTextSurvives
    BY DEF TypedTextSurvives, EditorInv, DraftInv, TypedIsEdit, Edited
  <2> QED
    BY <2>1, <2>2 DEF EditorIsSound, EntriesStayApart, EditsAreKept, EditorInv, DraftInv
<1> QED
  BY <1>1, EditorStarts, EditorStep, PTL DEF EditorSpec

(* ------------------------------ the wizard ----------------------------- *)
\* The wizard: while it is open it is the current connection's.
WizardForm ==
  [open : BOOLEAN, of : WizardHosts, step : Nat, classes : SUBSET ObjectClasses, rdnAttr : WizardAttrs \cup {""},
   rdnValue : TypedValues \cup {""}, values : [WizardAttrs -> TypedValues \cup {""}]]
IsWhole(add) ==
  /\ add.on = add.of
  /\ add.must \cup {add.rdnAttr} \subseteq DOMAIN add.attributes
  /\ \A a \in DOMAIN add.attributes : add.attributes[a] # ""
  /\ add.rdnAttr \in add.must => add.attributes[add.rdnAttr] = add.rdnValue
WizardInv ==
  /\ wizardHost \in WizardHosts /\ wizard \in WizardForm
  /\ wizard.open => wizard.of = wizardHost
  /\ \A add \in createdEntries : IsWhole(add)
  /\ wizardAdds = {} \/ \E add : wizardAdds = {add}
  /\ wizardSubmitting <=> wizardAdds # {}

LEMMA MirroredKeeps ==
  ASSUME NEW w \in WizardForm, NEW live
  PROVE  Mirrored(w, live) \in WizardForm /\ Mirrored(w, live).open = w.open /\ Mirrored(w, live).of = w.of
<1> DEFINE key == rdnMustKey(w, live)
<1>1. key \in WizardAttrs \cup {""}
  BY DEF rdnMustKey, WizardForm
<1>2. ASSUME NEW k \in WizardAttrs
      PROVE  LET v == [w EXCEPT !.values[k] = w.rdnValue] IN v \in WizardForm /\ v.open = w.open /\ v.of = w.of
  BY DEF WizardForm
<1>3. \/ Mirrored(w, live) = w
      \/ key # "" /\ Mirrored(w, live) = [w EXCEPT !.values[key] = w.rdnValue]
  BY DEF Mirrored
<1> HIDE DEF key
<1>4. CASE Mirrored(w, live) = w
  BY <1>4
<1>5. CASE key # "" /\ Mirrored(w, live) = [w EXCEPT !.values[key] = w.rdnValue]
  <2> DEFINE v == [w EXCEPT !.values[key] = w.rdnValue]
  <2>1. v \in WizardForm /\ v.open = w.open /\ v.of = w.of
    BY <1>1, <1>2, <1>5
  <2> HIDE DEF v
  <2> QED
    BY <1>5, <2>1 DEF v
<1> QED
  BY <1>3, <1>4, <1>5

\* What may be submitted is whole.
LEMMA SubmittedIsWhole ==
  ASSUME NEW w, NEW live, NEW host, canSubmit(w, live), w.of = host
  PROVE  IsWhole([on |-> host, of |-> w.of, rdnAttr |-> w.rdnAttr, rdnValue |-> w.rdnValue,
                  must |-> mustAttributesFor(w.classes, live), attributes |-> Payload(w, live)])
<1> DEFINE must == mustAttributesFor(w.classes, live)
           shown == must \cup mayAttributesFor(w.classes, live)
           filled == {a \in shown : AttributeValue(w, live, a) # ""}
<1>1. Payload(w, live) = [a \in filled \cup {w.rdnAttr} |-> IF a \in filled THEN AttributeValue(w, live, a) ELSE w.rdnValue]
  BY DEF Payload
<1>2. must \subseteq filled /\ w.rdnValue # ""
  BY DEF canSubmit, missingMust
<1>3. w.rdnAttr \in must => AttributeValue(w, live, w.rdnAttr) = w.rdnValue
  BY DEF AttributeValue, rdnMustKey
<1>4. \A a \in filled : AttributeValue(w, live, a) # ""
  OBVIOUS
<1> HIDE DEF must, filled
<1> QED
  BY <1>1, <1>2, <1>3, <1>4 DEF IsWhole, must

LEMMA WizardBecomesKeeps ==
  ASSUME WizardInv, NEW w \in WizardForm, w.open => w.of = wizardHost, WizardBecomes(w) PROVE WizardInv'
<1>1. wizard' = Mirrored(w, wizardSchema) /\ UNCHANGED <<wizardHost, wizardSubmitting, wizardAdds, createdEntries>>
  BY DEF WizardBecomes
<1>2. wizard' \in WizardForm /\ wizard'.open = w.open /\ wizard'.of = w.of
  BY <1>1, MirroredKeeps
<1> QED
  BY <1>1, <1>2 DEF WizardInv

LEMMA WizardStepKeeps == WizardInv /\ [WizardNext]_wizardVars => WizardInv'
<1> SUFFICES ASSUME WizardInv, [WizardNext]_wizardVars PROVE WizardInv'
  OBVIOUS
<1>0. wizard \in WizardForm /\ wizard.of \in WizardHosts /\ wizard.step \in Nat /\ wizardHost \in WizardHosts
  BY DEF WizardInv, WizardForm
<1>1. ASSUME NEW h \in WizardHosts
      PROVE  BlankWizard(h) \in WizardForm /\ [BlankWizard(h) EXCEPT !.open = TRUE] \in WizardForm
             /\ [BlankWizard(h) EXCEPT !.open = TRUE].of = h
  BY DEF BlankWizard, WizardForm
<1>2. CASE openAddChild
  BY <1>0, <1>1, <1>2, WizardBecomesKeeps DEF openAddChild
<1>3. CASE cancelWizard
  <2>1. [wizard EXCEPT !.open = FALSE] \in WizardForm /\ ~[wizard EXCEPT !.open = FALSE].open
    BY <1>0 DEF WizardForm
  <2> QED
    BY <1>3, <2>1, WizardBecomesKeeps DEF cancelWizard
<1>4. ASSUME NEW t \in WizardTemplates, chooseTemplate(t) PROVE WizardInv'
  <2> DEFINE w == [BlankWizard(wizard.of) EXCEPT !.open = TRUE, !.step = 2, !.classes = t.classes, !.rdnAttr = t.rdnAttr]
  <2>1. t.classes \in SUBSET ObjectClasses /\ t.rdnAttr \in WizardAttrs \cup {""}
    <3>1. t = [classes |-> {"top", "person"}, rdnAttr |-> "cn"] \/ t = [classes |-> {}, rdnAttr |-> ""]
      BY DEF WizardTemplates
    <3>2. CASE t = [classes |-> {"top", "person"}, rdnAttr |-> "cn"]
      <4>1. t.classes = {"top", "person"} /\ t.rdnAttr = "cn"
        BY <3>2
      <4> QED
        BY <4>1 DEF ObjectClasses, WizardAttrs
    <3>3. CASE t = [classes |-> {}, rdnAttr |-> ""]
      BY <3>3
    <3> QED
      BY <3>1, <3>2, <3>3
  <2>2. w \in WizardForm /\ w.of = wizard.of
    BY <1>0, <2>1 DEF BlankWizard, WizardForm
  <2>3. wizard.of = wizardHost /\ WizardBecomes(w)
    BY <1>4 DEF chooseTemplate, AtStep, WizardInv
  <2> HIDE DEF w
  <2> QED
    BY <2>2, <2>3, WizardBecomesKeeps
<1>5. ASSUME NEW c \in ObjectClasses, addClass(c) \/ removeClass(c) PROVE WizardInv'
  <2>1. /\ [wizard EXCEPT !.classes = @ \cup {c}] \in WizardForm /\ [wizard EXCEPT !.classes = @ \cup {c}].of = wizard.of
        /\ [wizard EXCEPT !.classes = @ \ {c}] \in WizardForm /\ [wizard EXCEPT !.classes = @ \ {c}].of = wizard.of
    BY <1>0 DEF WizardForm
  <2>2. wizard.of = wizardHost
    BY <1>5 DEF addClass, removeClass, AtStep, WizardInv
  <2> QED
    BY <1>5, <2>1, <2>2, WizardBecomesKeeps DEF addClass, removeClass
<1>6. ASSUME goForward \/ goBack PROVE WizardInv'
  <2>1. [wizard EXCEPT !.step = @ + 1] \in WizardForm /\ [wizard EXCEPT !.step = @ + 1].of = wizard.of
    <3>1. wizard.step + 1 \in Nat
      BY <1>0
    <3> QED
      BY <1>0, <3>1 DEF WizardForm
  <2>3. ASSUME wizard.step \in 2..4
        PROVE  [wizard EXCEPT !.step = @ - 1] \in WizardForm /\ [wizard EXCEPT !.step = @ - 1].of = wizard.of
    <3>1. wizard.step - 1 \in Nat
      BY <2>3
    <3> QED
      BY <1>0, <3>1 DEF WizardForm
  <2>2. wizard.of = wizardHost
    BY <1>6 DEF goForward, goBack, AtStep, WizardInv
  <2> QED
    BY <1>6, <2>1, <2>2, <2>3, WizardBecomesKeeps DEF goForward, goBack, AtStep
<1>7. ASSUME NEW a \in WizardAttrs, typeRdnAttr(a) PROVE WizardInv'
  <2>1. [wizard EXCEPT !.rdnAttr = a] \in WizardForm /\ [wizard EXCEPT !.rdnAttr = a].of = wizard.of
    BY <1>0 DEF WizardForm
  <2>2. wizard.of = wizardHost
    BY <1>7 DEF typeRdnAttr, AtStep, WizardInv
  <2> QED
    BY <1>7, <2>1, <2>2, WizardBecomesKeeps DEF typeRdnAttr
<1>8. ASSUME NEW v \in TypedValues, typeRdnValue(v) PROVE WizardInv'
  <2>1. [wizard EXCEPT !.rdnValue = v] \in WizardForm /\ [wizard EXCEPT !.rdnValue = v].of = wizard.of
    BY <1>0 DEF WizardForm
  <2>2. wizard.of = wizardHost
    BY <1>8 DEF typeRdnValue, AtStep, WizardInv
  <2> QED
    BY <1>8, <2>1, <2>2, WizardBecomesKeeps DEF typeRdnValue
<1>9. ASSUME NEW a \in WizardAttrs, NEW v \in TypedValues, typeValue(a, v) PROVE WizardInv'
  <2>1. [wizard EXCEPT !.values[a] = v] \in WizardForm /\ [wizard EXCEPT !.values[a] = v].of = wizard.of
    BY <1>0 DEF WizardForm
  <2>2. wizard.of = wizardHost
    BY <1>9 DEF typeValue, AtStep, WizardInv
  <2> QED
    BY <1>9, <2>1, <2>2, WizardBecomesKeeps DEF typeValue
<1>10. CASE schemaArrives
  BY <1>0, <1>10, MirroredKeeps DEF schemaArrives, WizardInv
<1>11. CASE submitWizard
  <2>1. wizard.of = wizardHost /\ canSubmit(wizard, wizardSchema) /\ wizardAdds = {}
    BY <1>11 DEF submitWizard, AtStep, WizardInv
  <2> DEFINE add == [on |-> wizardHost, of |-> wizard.of, rdnAttr |-> wizard.rdnAttr, rdnValue |-> wizard.rdnValue,
                     must |-> mustAttributesFor(wizard.classes, wizardSchema),
                     attributes |-> Payload(wizard, wizardSchema)]
  <2>2. IsWhole(add)
    BY <2>1, SubmittedIsWhole
  <2>3. /\ wizardAdds' = wizardAdds \cup {add} /\ createdEntries' = createdEntries \cup {add}
        /\ wizardSubmitting' = TRUE /\ UNCHANGED <<wizardHost, wizard>>
    BY <1>11 DEF submitWizard
  <2> HIDE DEF add
  <2>4. wizardAdds' = {add} /\ wizardAdds' # {}
    BY <2>1, <2>3
  <2> QED
    BY <2>2, <2>3, <2>4 DEF WizardInv
<1>12. ASSUME NEW add \in wizardAdds, WizardAdded(add) PROVE WizardInv'
  <2>1. wizardAdds' = {} /\ wizardSubmitting' = FALSE /\ UNCHANGED <<wizardHost, createdEntries>>
    BY <1>12 DEF WizardAdded, WizardInv
  <2>2. wizard' = wizard \/ wizard' = [wizard EXCEPT !.open = FALSE]
    BY <1>12 DEF WizardAdded
  <2>3. wizard' \in WizardForm /\ (wizard'.open => wizard'.of = wizardHost)
    BY <2>2 DEF WizardInv, WizardForm
  <2> QED
    BY <2>1, <2>3 DEF WizardInv
<1>13. ASSUME NEW to \in WizardHosts, switchWizardHost(to) PROVE WizardInv'
  <2>1. [wizard EXCEPT !.open = FALSE] \in WizardForm /\ ~[wizard EXCEPT !.open = FALSE].open
    BY <1>0 DEF WizardForm
  <2>2. wizard' \in WizardForm /\ wizard'.open = [wizard EXCEPT !.open = FALSE].open
    BY <1>13, <2>1, MirroredKeeps DEF switchWizardHost
  <2> QED
    BY <1>13, <2>1, <2>2 DEF switchWizardHost, WizardInv
<1>14. CASE UNCHANGED wizardVars
  BY <1>14 DEF wizardVars, WizardInv
<1> QED
  BY <1>2, <1>3, <1>4, <1>5, <1>6, <1>7, <1>8, <1>9, <1>10, <1>11, <1>12, <1>13, <1>14 DEF WizardNext

LEMMA WizardIsSound == WizardSpec => []CreatedEntryIsWhole
<1>1. WizardInit => WizardInv
  <2> SUFFICES ASSUME WizardInit PROVE WizardInv
    OBVIOUS
  <2>1. wizardHost \in WizardHosts /\ wizard = BlankWizard(wizardHost)
    BY DEF WizardInit
  <2>2. wizard \in WizardForm /\ wizard.of = wizardHost
    BY <2>1 DEF BlankWizard, WizardForm
  <2> QED
    BY <2>1, <2>2 DEF WizardInit, WizardInv
<1>2. WizardInv => CreatedEntryIsWhole
  <2> SUFFICES ASSUME WizardInv PROVE CreatedEntryIsWhole
    OBVIOUS
  <2>1. Cardinality(wizardAdds) <= 1
    <3>1. CASE wizardAdds = {}
      BY <3>1, FS_EmptySet
    <3>2. ASSUME NEW add, wizardAdds = {add} PROVE Cardinality(wizardAdds) <= 1
      <4>1. Cardinality({add}) = 1
        BY FS_Singleton
      <4> QED
        BY <3>2, <4>1
    <3> QED
      BY <3>1, <3>2 DEF WizardInv
  <2> QED
    BY <2>1 DEF WizardInv, CreatedEntryIsWhole, IsWhole
<1> QED
  BY <1>1, <1>2, WizardStepKeeps, PTL DEF WizardSpec

(* ------------------------------- the copy ------------------------------ *)
\* The copy: the draft is the current connection's and carries nothing that may not be copied; its
\* naming row never has the source's value, and is the RDN as long as nothing was done by hand and
\* the RDN has not ceased to parse.
RowTexts == {NoRow, "", OfSource} \cup NewNames
Rdns == {""} \cup NewNames
CopyForm ==
  [of : CopyHosts, naming : Namings, rdn : Rdns, rows : [CopyAttrs -> RowTexts], given : [CopyAttrs -> RowTexts],
   tab : {"form", "ldif"}, ldif : [rdn : Rdns, rows : [CopyAttrs -> RowTexts]], byHand : BOOLEAN,
   lapsed : BOOLEAN]
Clean(rows) == \A a \in NotCopied : rows[a] \in {NoRow} \cup NewNames
CleanDraft(d) ==
  /\ d \in CopyForm
  /\ Clean(d.given) /\ Clean(d.ldif.rows) /\ \A a \in NotCopied : d.rows[a] # OfSource
  /\ d.rows[d.naming] # OfSource /\ d.ldif.rows[d.naming] # OfSource
  /\ d.tab = "ldif" => d.byHand
  /\ ~d.byHand /\ ~d.lapsed => d.rows[d.naming] = IF d.naming \in NotCopied THEN NoRow ELSE d.rdn
CopyRead == [seq : Nat, naming : Namings, on : CopyHosts]
CleanAdd(add) ==
  /\ add.on = add.of
  /\ \A a \in NotCopied : add.attributes[a] \in {NoRow} \cup NewNames
  /\ add.attributes[add.naming] # OfSource
  /\ ~add.byHand /\ ~add.lapsed => Agrees(add)
CopyInv ==
  /\ copyHost \in CopyHosts /\ copySeq \in Nat /\ copyReads \subseteq CopyRead
  /\ \A r \in copyReads : r.seq <= copySeq /\ (r.seq = copySeq => r.on = copyHost)
  /\ addDraft # NoDraft => CleanDraft(addDraft) /\ addDraft.of = copyHost
  /\ \A add \in copied : CleanAdd(add)

LEMMA NamingsAreCopied == /\ Namings \subseteq CopyAttrs /\ NotCopied \subseteq CopyAttrs
                          /\ NoRow # "" /\ NoRow # OfSource /\ "" # OfSource /\ NoRow \notin NewNames
                          /\ "" \notin NewNames /\ OfSource \notin NewNames
<1>1. Namings \subseteq CopyAttrs /\ NotCopied \subseteq CopyAttrs
  BY DEF Namings, NotCopied, CopyAttrs, SourceAttrs
<1>2. /\ NoRow # "" /\ NoRow # OfSource /\ "" # OfSource /\ NoRow \notin NewNames
      /\ "" \notin NewNames /\ OfSource \notin NewNames
  BY DEF NoRow, OfSource, NewNames
<1> QED
  BY <1>1, <1>2

\* What is copied has no name yet.
LEMMA PreparedIsClean ==
  ASSUME NEW naming \in Namings, NEW loaded \in BOOLEAN
  PROVE  LET rows == prepareCopyEntry(naming, loaded)
         IN /\ rows \in [CopyAttrs -> RowTexts] /\ \A a \in NotCopied : rows[a] = NoRow
            /\ rows[naming] \in {NoRow, ""} /\ (naming \in NotCopied <=> rows[naming] = NoRow)
<1> DEFINE rows == prepareCopyEntry(naming, loaded)
<1>1. NotCopied \subseteq Skipped(loaded) /\ naming \in CopyAttrs /\ (naming \in Skipped(loaded) <=> naming \in NotCopied)
  BY DEF Skipped, Namings, NotCopied, ByTheSchema, CopyAttrs, SourceAttrs
<1>2. rows = [a \in CopyAttrs |->
                IF a \in Skipped(loaded) THEN NoRow ELSE IF a = naming THEN ""
                ELSE IF a \in SourceAttrs THEN OfSource ELSE NoRow]
  BY DEF prepareCopyEntry
<1> HIDE DEF rows
<1> QED
  BY <1>1, <1>2, NamingsAreCopied DEF RowTexts, rows

LEMMA NewDraftIsClean ==
  ASSUME NEW r \in CopyRead, NEW loaded \in BOOLEAN, r.on \in CopyHosts
  PROVE  LET d == NewDraft(r, prepareCopyEntry(r.naming, loaded)) IN CleanDraft(d) /\ d.of = r.on
<1> DEFINE rows == prepareCopyEntry(r.naming, loaded)
           d == NewDraft(r, rows)
<1>1. /\ rows \in [CopyAttrs -> RowTexts] /\ \A a \in NotCopied : rows[a] = NoRow
      /\ rows[r.naming] \in {NoRow, ""} /\ (r.naming \in NotCopied <=> rows[r.naming] = NoRow)
  BY PreparedIsClean DEF CopyRead
<1> HIDE DEF rows
<1>2. /\ d.of = r.on /\ d.naming = r.naming /\ d.rdn = "" /\ d.rows = rows /\ d.given = rows /\ d.tab = "form"
      /\ d.ldif.rows = rows /\ d.byHand = FALSE /\ d.ldif = [rdn |-> "", rows |-> rows]
  BY DEF NewDraft, Unparsed
<1>3. d \in CopyForm
  BY <1>1 DEF NewDraft, CopyForm, CopyRead, Rdns, Unparsed
<1> HIDE DEF d
<1>4. CleanDraft(d)
  BY <1>1, <1>2, <1>3, NamingsAreCopied DEF CleanDraft, Clean
<1> QED
  BY <1>2, <1>4 DEF d, rows

LEMMA AttributesAreClean ==
  ASSUME NEW d, CleanDraft(d)
  PROVE  /\ Attributes(d) \in [CopyAttrs -> RowTexts] /\ Clean(Attributes(d)) /\ Attributes(d)[d.naming] # OfSource
         /\ ~d.byHand /\ ~d.lapsed /\ d.rdn # "" => Attributes(d)[d.naming] = IF d.naming \in NotCopied THEN NoRow ELSE d.rdn
<1>1. Attributes(d) = [a \in CopyAttrs |-> IF d.rows[a] = "" /\ d.given[a] # "" THEN NoRow ELSE d.rows[a]]
  BY DEF Attributes
<1>2. d.rows \in [CopyAttrs -> RowTexts] /\ d.naming \in CopyAttrs
  BY NamingsAreCopied DEF CleanDraft, CopyForm
<1>3. Attributes(d) \in [CopyAttrs -> RowTexts]
  BY <1>1, <1>2 DEF RowTexts
<1>4. Clean(Attributes(d))
  <2> SUFFICES ASSUME NEW a \in NotCopied PROVE Attributes(d)[a] \in {NoRow} \cup NewNames
    BY DEF Clean
  <2>1. a \in CopyAttrs /\ d.rows[a] \in RowTexts /\ d.rows[a] # OfSource /\ d.given[a] # ""
    BY <1>2, NamingsAreCopied DEF CleanDraft, Clean
  <2> QED
    BY <1>1, <2>1 DEF RowTexts
<1>5. Attributes(d)[d.naming] # OfSource
  BY <1>1, <1>2, NamingsAreCopied DEF CleanDraft
<1>6. ~d.byHand /\ ~d.lapsed /\ d.rdn # "" => Attributes(d)[d.naming] = IF d.naming \in NotCopied THEN NoRow ELSE d.rdn
  BY <1>1, <1>2, NamingsAreCopied DEF CleanDraft
<1> QED
  BY <1>3, <1>4, <1>5, <1>6

\* A row that may follow the RDN keeps its value or takes that of the RDN, which is not empty.
FollowedRow(f, g, n, previous, next) ==
  /\ g \in [CopyAttrs -> RowTexts]
  /\ \A a \in CopyAttrs \ {n} : g[a] = f[a]
  /\ g[n] = f[n] \/ (g[n] = next /\ next # "" /\ f[n] # NoRow)
  /\ f[n] = previous /\ next # "" => g[n] = next
LEMMA RowFollowsKeeps ==
  ASSUME NEW f, f \in [CopyAttrs -> RowTexts], NEW n \in Namings, NEW previous \in Rdns, NEW next \in Rdns
  PROVE  FollowedRow(f, RowFollows(f, n, previous, next), n, previous, next)
<1>1. n \in CopyAttrs /\ next \in RowTexts
  BY NamingsAreCopied DEF Rdns, RowTexts
<1>2. NoRow \notin {"", previous}
  BY NamingsAreCopied DEF Rdns
<1>3. CASE next # "" /\ f[n] \in {"", previous}
  <2> DEFINE g == [f EXCEPT ![n] = next]
  <2>1. g = RowFollows(f, n, previous, next)
    BY <1>3 DEF RowFollows, Unparsed
  <2>2. /\ g \in [CopyAttrs -> RowTexts] /\ \A a \in CopyAttrs \ {n} : g[a] = f[a]
        /\ g[n] = next /\ next # "" /\ f[n] # NoRow
    BY <1>1, <1>2, <1>3
  <2> HIDE DEF g
  <2> QED
    BY <2>1, <2>2 DEF FollowedRow
<1>4. CASE ~(next # "" /\ f[n] \in {"", previous})
  BY <1>4 DEF RowFollows, FollowedRow, Unparsed
<1> QED
  BY <1>3, <1>4


\* A clean draft stays clean under every edit.
LEMMA TypeRdnKeeps ==
  ASSUME NEW d, CleanDraft(d), d.tab = "form", NEW value \in Rdns
  PROVE  LET e == [d EXCEPT !.rdn = value, !.lapsed = @ \/ (value = Unparsed /\ d.rdn # Unparsed),
                            !.rows = RowFollows(@, d.naming, d.rdn, value)]
         IN CleanDraft(e) /\ e.of = d.of
<1> DEFINE rows == RowFollows(d.rows, d.naming, d.rdn, value)
           e == [d EXCEPT !.rdn = value, !.lapsed = @ \/ (value = Unparsed /\ d.rdn # Unparsed),
                          !.rows = RowFollows(@, d.naming, d.rdn, value)]
<1>1. d \in CopyForm /\ d.naming \in Namings /\ d.rdn \in Rdns /\ d.rows \in [CopyAttrs -> RowTexts] /\ d.lapsed \in BOOLEAN
  BY DEF CleanDraft, CopyForm
<1>2. /\ rows \in [CopyAttrs -> RowTexts]
      /\ \A a \in CopyAttrs \ {d.naming} : rows[a] = d.rows[a]
      /\ rows[d.naming] = d.rows[d.naming] \/ (rows[d.naming] = value /\ value # "" /\ d.rows[d.naming] # NoRow)
      /\ d.rows[d.naming] = d.rdn /\ value # "" => rows[d.naming] = value
  <2>1. FollowedRow(d.rows, rows, d.naming, d.rdn, value)
    BY <1>1, RowFollowsKeeps
  <2> QED
    BY <2>1 DEF FollowedRow
<1> HIDE DEF rows
<1>3. e = [d EXCEPT !.rdn = value, !.lapsed = d.lapsed \/ (value = "" /\ d.rdn # ""), !.rows = rows]
  BY DEF rows, Unparsed
<1> HIDE DEF e
<1>4. /\ e.of = d.of /\ e.naming = d.naming /\ e.rdn = value /\ e.rows = rows /\ e.given = d.given /\ e.tab = d.tab
      /\ e.ldif = d.ldif /\ e.byHand = d.byHand /\ e.lapsed = (d.lapsed \/ (value = "" /\ d.rdn # ""))
  BY <1>1, <1>3 DEF CopyForm
<1>5. e \in CopyForm
  BY <1>1, <1>2, <1>3 DEF CopyForm
<1>6. \A a \in NotCopied : e.rows[a] # OfSource
  BY <1>2, <1>4, NamingsAreCopied DEF CleanDraft, Rdns
<1>7. e.rows[e.naming] # OfSource
  BY <1>1, <1>2, <1>4, NamingsAreCopied DEF CleanDraft, Rdns
<1>8. ~e.byHand /\ ~e.lapsed => e.rows[e.naming] = IF e.naming \in NotCopied THEN NoRow ELSE e.rdn
  <2> SUFFICES ASSUME ~e.byHand, ~e.lapsed PROVE e.rows[e.naming] = IF e.naming \in NotCopied THEN NoRow ELSE e.rdn
    OBVIOUS
  <2>1. ~d.byHand /\ ~d.lapsed /\ ~(value = "" /\ d.rdn # "")
    BY <1>4
  <2>2. d.rows[d.naming] = IF d.naming \in NotCopied THEN NoRow ELSE d.rdn
    BY <2>1 DEF CleanDraft
  <2>3. rows[d.naming] = d.rows[d.naming] \/ (rows[d.naming] = value /\ value # "")
    BY <1>1, <1>2, NamingsAreCopied
  <2> QED
    BY <1>2, <1>4, <2>1, <2>2, <2>3
<1> QED
  BY <1>4, <1>5, <1>6, <1>7, <1>8 DEF CleanDraft, e

LEMMA TypeNamingRowKeeps ==
  ASSUME NEW d, CleanDraft(d), NEW value \in Rdns
  PROVE  LET e == [d EXCEPT !.rows[d.naming] = value, !.byHand = TRUE] IN CleanDraft(e) /\ e.of = d.of
<1> DEFINE e == [d EXCEPT !.rows[d.naming] = value, !.byHand = TRUE]
           rows == [d.rows EXCEPT ![d.naming] = value]
<1>1. d \in CopyForm /\ d.naming \in CopyAttrs /\ d.rows \in [CopyAttrs -> RowTexts] /\ value \in RowTexts /\ value # OfSource
  BY NamingsAreCopied DEF CleanDraft, CopyForm, Rdns, RowTexts
<1>2. rows \in [CopyAttrs -> RowTexts] /\ \A a \in CopyAttrs : rows[a] = IF a = d.naming THEN value ELSE d.rows[a]
  BY <1>1
<1>3. e = [d EXCEPT !.rows = rows, !.byHand = TRUE]
  BY <1>1 DEF CopyForm
<1> HIDE DEF rows, e
<1>4. /\ e.of = d.of /\ e.naming = d.naming /\ e.rows = rows /\ e.given = d.given /\ e.ldif = d.ldif /\ e.byHand = TRUE
      /\ e \in CopyForm
  BY <1>1, <1>2, <1>3 DEF CopyForm
<1>5. (\A a \in NotCopied : e.rows[a] # OfSource) /\ e.rows[e.naming] # OfSource
  BY <1>1, <1>2, <1>4, NamingsAreCopied DEF CleanDraft
<1> QED
  BY <1>4, <1>5 DEF CleanDraft, e

LEMMA ToLdifKeeps ==
  ASSUME NEW d, CleanDraft(d), NEW rdn \in Rdns
  PROVE  LET e == [d EXCEPT !.tab = "ldif", !.byHand = TRUE, !.ldif = [rdn |-> rdn, rows |-> Attributes(d)]]
         IN CleanDraft(e) /\ e.of = d.of
<1> DEFINE e == [d EXCEPT !.tab = "ldif", !.byHand = TRUE, !.ldif = [rdn |-> rdn, rows |-> Attributes(d)]]
<1>1. d \in CopyForm
  BY DEF CleanDraft, CopyForm
<1>2. Attributes(d) \in [CopyAttrs -> RowTexts] /\ Clean(Attributes(d)) /\ Attributes(d)[d.naming] # OfSource
  BY AttributesAreClean
<1>3. /\ e.of = d.of /\ e.naming = d.naming /\ e.rows = d.rows /\ e.given = d.given /\ e.ldif.rows = Attributes(d)
      /\ e.byHand = TRUE /\ e \in CopyForm
  BY <1>1, <1>2 DEF CopyForm
<1> QED
  BY <1>2, <1>3 DEF CleanDraft

LEMMA TypeLdifKeeps ==
  ASSUME NEW d, CleanDraft(d), NEW rdn \in NewNames, NEW value \in NewNames \cup {NoRow}
  PROVE  LET e == [d EXCEPT !.ldif = [rdn |-> rdn, rows |-> [@.rows EXCEPT ![d.naming] = value]]] IN CleanDraft(e) /\ e.of = d.of
<1> DEFINE e == [d EXCEPT !.ldif = [rdn |-> rdn, rows |-> [@.rows EXCEPT ![d.naming] = value]]]
           rows == [d.ldif.rows EXCEPT ![d.naming] = value]
<1>1. /\ d \in CopyForm /\ d.naming \in CopyAttrs /\ d.ldif.rows \in [CopyAttrs -> RowTexts] /\ value \in RowTexts
      /\ value # OfSource /\ rdn \in Rdns /\ d.ldif \in [rdn : Rdns, rows : [CopyAttrs -> RowTexts]]
  BY NamingsAreCopied DEF CleanDraft, CopyForm, Rdns, RowTexts
<1>2. rows \in [CopyAttrs -> RowTexts] /\ \A a \in CopyAttrs : rows[a] = IF a = d.naming THEN value ELSE d.ldif.rows[a]
  BY <1>1
<1>3. e = [d EXCEPT !.ldif = [rdn |-> rdn, rows |-> rows]]
  OBVIOUS
<1> HIDE DEF rows, e
<1>4. /\ e.of = d.of /\ e.naming = d.naming /\ e.rows = d.rows /\ e.given = d.given /\ e.ldif.rows = rows
      /\ e.byHand = d.byHand /\ e.tab = d.tab /\ e.rdn = d.rdn /\ e \in CopyForm
  BY <1>1, <1>2, <1>3 DEF CopyForm
<1>5. Clean(e.ldif.rows) /\ e.ldif.rows[e.naming] # OfSource
  BY <1>1, <1>2, <1>4, NamingsAreCopied DEF CleanDraft, Clean
<1> QED
  BY <1>4, <1>5 DEF CleanDraft, e

LEMMA FromTextKeeps ==
  ASSUME NEW d, CleanDraft(d), d.tab = "ldif"
  PROVE  CleanDraft(FromText(d)) /\ FromText(d).of = d.of /\ FromText(d).byHand = TRUE /\ FromText(d).tab = "ldif"
<1>1. d \in CopyForm /\ d.byHand = TRUE /\ d.ldif.rdn \in Rdns /\ d.ldif.rows \in [CopyAttrs -> RowTexts]
  BY DEF CleanDraft, CopyForm
<1>2. /\ FromText(d).of = d.of /\ FromText(d).naming = d.naming /\ FromText(d).rows = d.ldif.rows
      /\ FromText(d).given = d.ldif.rows /\ FromText(d).ldif = d.ldif /\ FromText(d).byHand = TRUE
      /\ FromText(d).tab = "ldif" /\ FromText(d) \in CopyForm
  BY <1>1 DEF FromText, CopyForm
<1>3. \A a \in NotCopied : d.ldif.rows[a] # OfSource
  BY NamingsAreCopied DEF CleanDraft, Clean
<1> QED
  BY <1>2, <1>3 DEF CleanDraft

LEMMA ToFormKeeps ==
  ASSUME NEW d, CleanDraft(d), d.byHand, NEW previous \in Rdns
  PROVE  LET e == [d EXCEPT !.tab = "form", !.rows = IF d.rdn = previous THEN @ ELSE RowFollows(@, d.naming, previous, d.rdn)]
         IN CleanDraft(e) /\ e.of = d.of
<1> DEFINE rows == IF d.rdn = previous THEN d.rows ELSE RowFollows(d.rows, d.naming, previous, d.rdn)
           e == [d EXCEPT !.tab = "form", !.rows = IF d.rdn = previous THEN @ ELSE RowFollows(@, d.naming, previous, d.rdn)]
<1>1. d \in CopyForm /\ d.naming \in Namings /\ d.rdn \in Rdns /\ d.rows \in [CopyAttrs -> RowTexts]
  BY DEF CleanDraft, CopyForm
<1>2. /\ rows \in [CopyAttrs -> RowTexts]
      /\ \A a \in CopyAttrs : rows[a] = d.rows[a] \/ (rows[a] = d.rdn /\ d.rdn # "")
  <2>1. FollowedRow(d.rows, RowFollows(d.rows, d.naming, previous, d.rdn), d.naming, previous, d.rdn)
    BY <1>1, RowFollowsKeeps
  <2> QED
    BY <1>1, <2>1 DEF FollowedRow
<1>3. e = [d EXCEPT !.tab = "form", !.rows = rows]
  OBVIOUS
<1> HIDE DEF rows, e
<1>4. /\ e.of = d.of /\ e.naming = d.naming /\ e.rows = rows /\ e.given = d.given /\ e.ldif = d.ldif
      /\ e.byHand = d.byHand /\ e.tab = "form" /\ e \in CopyForm
  BY <1>1, <1>2, <1>3 DEF CopyForm
<1>5. (\A a \in NotCopied : e.rows[a] # OfSource) /\ e.rows[e.naming] # OfSource
  BY <1>1, <1>2, <1>4, NamingsAreCopied DEF CleanDraft, Rdns
<1> QED
  BY <1>4, <1>5 DEF CleanDraft, e

LEMMA DraftBecomesKeeps ==
  ASSUME CopyInv, NEW d, CleanDraft(d), d.of = copyHost, DraftBecomes(d) PROVE CopyInv'
  BY DEF DraftBecomes, CopyInv

LEMMA CopyStepKeeps == CopyInv /\ [CopyNext]_copyVars => CopyInv'
<1> SUFFICES ASSUME CopyInv, [CopyNext]_copyVars PROVE CopyInv'
  OBVIOUS
<1>0. ASSUME NEW tab, OnTab(tab)
      PROVE  /\ CleanDraft(addDraft) /\ addDraft.of = copyHost /\ addDraft.tab = tab
             /\ addDraft.rdn \in Rdns
  BY <1>0 DEF OnTab, CopyInv, CleanDraft, CopyForm
<1>1. ASSUME NEW naming \in Namings, openCopyEntry(naming) PROVE CopyInv'
  <2>1. /\ copySeq' = copySeq + 1 /\ addDraft' = addDraft /\ addDraft = NoDraft /\ UNCHANGED <<copyHost, copied>>
        /\ copyReads' = copyReads \cup {[seq |-> copySeq + 1, naming |-> naming, on |-> copyHost]}
    BY <1>1 DEF openCopyEntry
  <2>2. copySeq \in Nat /\ copySeq + 1 \in Nat /\ copyHost \in CopyHosts
    BY DEF CopyInv
  <2>3. copyReads' \subseteq CopyRead
    BY <2>1, <2>2 DEF CopyInv, CopyRead
  <2>4. ASSUME NEW r \in copyReads' PROVE r.seq <= copySeq' /\ (r.seq = copySeq' => r.on = copyHost')
    <3>1. CASE r \in copyReads
      BY <2>1, <2>2, <3>1 DEF CopyInv, CopyRead
    <3>2. CASE r = [seq |-> copySeq + 1, naming |-> naming, on |-> copyHost]
      BY <2>1, <2>2, <3>2
    <3> QED
      BY <2>1, <2>4, <3>1, <3>2
  <2> QED
    BY <2>1, <2>2, <2>3, <2>4 DEF CopyInv
<1>2. ASSUME NEW r \in copyReads, CopyArrives(r) PROVE CopyInv'
  <2>1. PICK loaded \in BOOLEAN :
          IF isLatest(r)
          THEN addDraft' = NewDraft(r, prepareCopyEntry(r.naming, loaded)) /\ addSaving' = FALSE
          ELSE UNCHANGED <<addDraft, addSaving>>
    BY <1>2 DEF CopyArrives
  <2>2. r \in CopyRead /\ r.on \in CopyHosts /\ (isLatest(r) => r.on = copyHost)
    BY DEF CopyInv, CopyRead, isLatest
  <2>3. LET d == NewDraft(r, prepareCopyEntry(r.naming, loaded)) IN CleanDraft(d) /\ d.of = r.on
    BY <2>2, NewDraftIsClean
  <2>4. addDraft' # NoDraft => CleanDraft(addDraft') /\ addDraft'.of = copyHost
    BY <2>1, <2>2, <2>3 DEF CopyInv
  <2>5. copyReads' \subseteq copyReads /\ UNCHANGED <<copyHost, copySeq, copied>>
    BY <1>2 DEF CopyArrives
  <2> QED
    BY <2>4, <2>5 DEF CopyInv
<1>3. ASSUME NEW r \in copyReads, CopyFails(r) PROVE CopyInv'
  BY <1>3 DEF CopyFails, CopyInv
<1>4. ASSUME LeaveDraft, copyHost' \in CopyHosts, UNCHANGED <<copyReads, copied>> PROVE CopyInv'
  <2>1. copySeq' = copySeq + 1 /\ copySeq \in Nat /\ addDraft' = NoDraft
    BY <1>4 DEF LeaveDraft, CopyInv
  <2>2. ASSUME NEW r \in copyReads PROVE r.seq <= copySeq' /\ r.seq # copySeq'
    BY <2>1 DEF CopyInv, CopyRead
  <2> QED
    BY <1>4, <2>1, <2>2 DEF CopyInv
<1>5. CASE closeCopy
  <2>1. LeaveDraft /\ copyHost' \in CopyHosts /\ UNCHANGED <<copyReads, copied>>
    BY <1>5 DEF closeCopy, CopyInv
  <2> QED
    BY <1>4, <2>1
<1>6. ASSUME NEW to \in CopyHosts, switchCopyHost(to) PROVE CopyInv'
  <2>1. LeaveDraft /\ copyHost' \in CopyHosts /\ UNCHANGED <<copyReads, copied>>
    BY <1>6 DEF switchCopyHost
  <2> QED
    BY <1>4, <2>1
<1>7. ASSUME NEW value \in NewNames \cup {Unparsed}, typeRdn(value) PROVE CopyInv'
  <2>1. CleanDraft(addDraft) /\ addDraft.of = copyHost /\ addDraft.tab = "form" /\ value \in Rdns
    BY <1>0, <1>7 DEF typeRdn, Rdns, Unparsed
  <2> QED
    BY <1>7, <2>1, TypeRdnKeeps, DraftBecomesKeeps DEF typeRdn
<1>8. ASSUME NEW value \in NewNames \cup {""}, typeNamingRow(value) PROVE CopyInv'
  <2>1. CleanDraft(addDraft) /\ addDraft.of = copyHost /\ value \in Rdns
    BY <1>0, <1>8 DEF typeNamingRow, Rdns
  <2> QED
    BY <1>8, <2>1, TypeNamingRowKeeps, DraftBecomesKeeps DEF typeNamingRow
<1>9. ASSUME NEW rdn \in NewNames, NEW value \in NewNames \cup {NoRow}, typeLdif(rdn, value) PROVE CopyInv'
  <2>1. CleanDraft(addDraft) /\ addDraft.of = copyHost
    BY <1>0, <1>9 DEF typeLdif
  <2> QED
    BY <1>9, <2>1, TypeLdifKeeps, DraftBecomesKeeps DEF typeLdif
<1>10. CASE toLdif
  <2>1. CleanDraft(addDraft) /\ addDraft.of = copyHost /\ addDraft.rdn \in Rdns
    BY <1>0, <1>10 DEF toLdif
  <2>2. PICK rdn \in IF addDraft.rdn = Unparsed THEN {Unparsed} \cup NewNames ELSE {addDraft.rdn} :
          DraftBecomes([addDraft EXCEPT !.tab = "ldif", !.byHand = TRUE,
                                        !.ldif = [rdn |-> rdn, rows |-> Attributes(addDraft)]])
    BY <1>10 DEF toLdif
  <2>3. rdn \in Rdns
    BY <2>1, <2>2 DEF Rdns, Unparsed
  <2> QED
    BY <2>1, <2>2, <2>3, ToLdifKeeps, DraftBecomesKeeps
<1>11. CASE toForm
  <2>1. CleanDraft(addDraft) /\ addDraft.of = copyHost /\ addDraft.tab = "ldif" /\ addDraft.rdn \in Rdns
    BY <1>0, <1>11 DEF toForm
  <2> DEFINE d == FromText(addDraft)
             e == [d EXCEPT !.tab = "form",
                     !.rows = IF d.rdn = addDraft.rdn THEN @ ELSE RowFollows(@, d.naming, addDraft.rdn, d.rdn)]
  <2>2. CleanDraft(d) /\ d.of = addDraft.of /\ d.byHand
    BY <2>1, FromTextKeeps
  <2>3. DraftBecomes(e)
    BY <1>11 DEF toForm
  <2>4. CleanDraft(e) /\ e.of = d.of
    <3> HIDE DEF d
    <3> QED
      BY <2>1, <2>2, ToFormKeeps
  <2> HIDE DEF e
  <2> QED
    BY <2>1, <2>2, <2>3, <2>4, DraftBecomesKeeps
<1>12. CASE saveCopy
  <2> DEFINE d == IF addDraft.tab = "ldif" THEN FromText(addDraft) ELSE addDraft
             add == [on |-> copyHost, of |-> d.of, naming |-> d.naming, rdn |-> d.rdn,
                     attributes |-> Attributes(d), byHand |-> d.byHand, lapsed |-> d.lapsed]
  <2>1. CleanDraft(d) /\ d.of = copyHost
    BY <1>12, FromTextKeeps DEF saveCopy, CopyInv
  <2>2. /\ addDraft' = d /\ UNCHANGED <<copyHost, copySeq, copyReads>>
        /\ copied' = copied \/ (d.rdn # "" /\ copied' = copied \cup {add})
    BY <1>12 DEF saveCopy, Unparsed
  <2> HIDE DEF d
  <2>3. d.rdn # "" => CleanAdd(add)
    BY <2>1, AttributesAreClean DEF CleanAdd, Clean, Agrees
  <2> HIDE DEF add
  <2> QED
    BY <2>1, <2>2, <2>3 DEF CopyInv
<1>13. ASSUME NEW add \in copyAdds, CopyAdded(add) PROVE CopyInv'
  <2>1. CASE LeaveDraft
    <3>1. copyHost' \in CopyHosts /\ UNCHANGED <<copyReads, copied>>
      BY <1>13 DEF CopyAdded, CopyInv
    <3> QED
      BY <1>4, <2>1, <3>1
  <2>2. CASE UNCHANGED <<copySeq, addDraft>>
    BY <1>13, <2>2 DEF CopyAdded, CopyInv
  <2> QED
    BY <1>13, <2>1, <2>2 DEF CopyAdded
<1>14. CASE UNCHANGED copyVars
  BY <1>14 DEF copyVars, CopyInv
<1> QED
  BY <1>1, <1>2, <1>3, <1>5, <1>6, <1>7, <1>8, <1>9, <1>10, <1>11, <1>12, <1>13, <1>14 DEF CopyNext

LEMMA CopyIsSound == CopySpec => []CopiesAreClean
<1>1. CopyInit => CopyInv
  BY DEF CopyInit, CopyInv
<1>2. CopyInv => CopiesAreClean
  BY DEF CopyInv, CopiesAreClean, CleanAdd
<1> QED
  BY <1>1, <1>2, CopyStepKeeps, PTL DEF CopySpec

(* ------------------------------ the import ----------------------------- *)
\* The import: an entry that was reported added is not among those that are left, what is left was
\* parsed for the run's connection unless the rows are no longer those the run began with, and every
\* row that is not answered is still to come.
ImportRow == [kind : {AddRecord, "change", "unnamed"}, status : {"pending", "ok", "failed"}]
RowNumbers == Nat \ {0}
ImportRowsTyped(rows) == DOMAIN rows \subseteq RowNumbers /\ rows \in [DOMAIN rows -> ImportRow]
Unanswered(rows) == {i \in DOMAIN rows : rows[i].status = "pending"}
ImportRun == [conn : ImportHosts, begun : Nat, left : SUBSET RowNumbers, at : RowNumbers, of : Nat]
IsImportOnce(add) ==
  /\ add.on = add.runOn /\ ~add.again
  /\ add.on = add.parsedOn \/ add.rowsKept \/ add.begun # add.of
RunIsSound(run) ==
  /\ run \in ImportRun /\ run.begun <= textsParsed
  /\ \A i \in run.left : run.at < i
  /\ \A i \in run.left \cap DOMAIN importRows : importRows[i].status # "ok"
  /\ run.begun = textsParsed => run.conn = parsedOn \/ rowsKept
  /\ ~runInterrupted => run.of = textsParsed /\ Unanswered(importRows) \subseteq {run.at} \cup run.left
ImportInv ==
  /\ importHost \in ImportHosts /\ textsParsed \in Nat /\ ImportRowsTyped(importRows)
  /\ importRun # NoImport => RunIsSound(importRun)
  /\ importRun = NoImport /\ ~resultSummary => Unanswered(importRows) = DOMAIN importRows
  /\ importRun = NoImport /\ resultSummary /\ ~runInterrupted => Unanswered(importRows) = {}
  /\ importOpen => importHost = parsedOn \/ rowsKept \/ DOMAIN importRows = {}
  /\ \A add \in imported : IsImportOnce(add)

LEMMA NoRowsAreTyped == ImportRowsTyped(<<>>) /\ DOMAIN <<>> = {} /\ Unanswered(<<>>) = {}
  BY DEF ImportRowsTyped, Unanswered

LEMMA MarkingKeeps ==
  ASSUME NEW rows, ImportRowsTyped(rows), NEW those, NEW status \in {"ok", "failed"}
  PROVE  /\ ImportRowsTyped(MarkRows(rows, those, status)) /\ DOMAIN MarkRows(rows, those, status) = DOMAIN rows
         /\ Unanswered(MarkRows(rows, those, status)) = Unanswered(rows) \ those
         /\ \A i \in DOMAIN rows \ those : MarkRows(rows, those, status)[i] = rows[i]
<1> DEFINE marked == MarkRows(rows, those, status)
<1>1. /\ DOMAIN marked = DOMAIN rows
      /\ \A i \in DOMAIN rows : marked[i] = IF i \in those THEN [rows[i] EXCEPT !.status = status] ELSE rows[i]
  BY DEF MarkRows
<1>2. marked = [i \in DOMAIN marked |-> marked[i]]
  BY DEF MarkRows
<1> HIDE DEF marked
<1>3. ASSUME NEW i \in DOMAIN rows
      PROVE  /\ marked[i] \in ImportRow /\ (marked[i].status = "pending" <=> i \notin those /\ rows[i].status = "pending")
  <2>1. rows[i] \in ImportRow
    BY DEF ImportRowsTyped
  <2> QED
    BY <1>1, <2>1 DEF ImportRow
<1>4. ImportRowsTyped(marked)
  BY <1>1, <1>2, <1>3 DEF ImportRowsTyped
<1>5. Unanswered(marked) = Unanswered(rows) \ those
  BY <1>1, <1>3 DEF Unanswered
<1> QED
  BY <1>1, <1>4, <1>5 DEF marked

\* A run that goes on with rows that are not yet added.
LEMMA RunOnKeeps ==
  ASSUME ImportInv, NEW conn \in ImportHosts, NEW begun \in Nat, NEW rows, NEW todo \in SUBSET RowNumbers,
         RunOn(conn, begun, rows, todo), UNCHANGED <<importHost, importOpen, parsedOn, textsParsed, rowsKept>>,
         ImportRowsTyped(rows), DOMAIN rows = DOMAIN importRows, begun <= textsParsed,
         todo # {} => conn = importHost,
         begun = textsParsed => conn = parsedOn \/ rowsKept,
         \A i \in todo \cap DOMAIN rows : rows[i].status # "ok",
         ~runInterrupted' => Unanswered(rows) \subseteq todo
  PROVE  ImportInv'
<1> DEFINE sendable == {i \in todo : IsSendable(rows, i)}
           first == CHOOSE i \in sendable : \A j \in sendable : i <= j
           skipped == {i \in todo : \A j \in sendable : i < j}
           marked == MarkRows(rows, skipped, "failed")
           after == {i \in todo : i > first}
           add == [row |-> first, of |-> textsParsed, begun |-> begun, on |-> importHost,
                   runOn |-> conn, parsedOn |-> parsedOn,
                   rowsKept |-> rowsKept, again |-> rows[first].status = "ok"]
           run == [conn |-> conn, begun |-> begun, left |-> after, at |-> first, of |-> textsParsed]
<1>1. \/ sendable = {} /\ importRows' = marked /\ importRun' = NoImport /\ resultSummary' = TRUE /\ imported' = imported
      \/ sendable # {} /\ importRows' = marked /\ importRun' = run /\ imported' = imported \cup {add}
         /\ resultSummary' = resultSummary
  BY DEF RunOn, FinishRun
<1>2. sendable \subseteq todo /\ sendable \subseteq DOMAIN rows
  BY DEF IsSendable
<1>3. todo \subseteq Nat /\ RowNumbers \subseteq Nat
  BY DEF RowNumbers
<1>4. /\ ImportRowsTyped(marked) /\ DOMAIN marked = DOMAIN importRows /\ Unanswered(marked) = Unanswered(rows) \ skipped
      /\ \A i \in DOMAIN rows \ skipped : marked[i] = rows[i]
  BY MarkingKeeps
<1>5. /\ importHost' \in ImportHosts /\ textsParsed' \in Nat /\ ImportRowsTyped(importRows')
      /\ importOpen' => importHost' = parsedOn' \/ rowsKept' \/ DOMAIN importRows' = {}
  BY <1>1, <1>4 DEF ImportInv
<1>6. CASE sendable = {}
  <2>1. skipped = todo
    BY <1>6
  <2>2. ~runInterrupted' => Unanswered(marked) = {}
    BY <1>4, <2>1
  <2> HIDE DEF marked, run, add, skipped
  <2>3. Unanswered(importRows') = Unanswered(marked)
    BY <1>1, <1>6
  <2> HIDE DEF sendable
  <2> QED
    BY <1>1, <1>5, <1>6, <2>2, <2>3 DEF ImportInv
<1>7. CASE sendable # {}
  <2>1. first \in sendable /\ \A j \in sendable : first <= j
    <3>1. sendable \in SUBSET Nat
      BY <1>2, <1>3
    <3>2. \E m \in sendable : \A n \in sendable : m <= n
      <4> HIDE DEF sendable
      <4> QED
        BY <1>7, <3>1, LeastNumber
    <3> HIDE DEF sendable
    <3> QED
      BY <3>2
  <2> HIDE DEF first
  <2>2. first \in todo /\ first \in DOMAIN rows /\ first \in RowNumbers
    BY <1>2, <2>1
  <2>3. \A i \in todo : i \in skipped <=> i < first
    <3>1. \A j \in sendable : j \in Nat
      BY <1>2, <1>3
    <3>2. skipped = {i \in todo : \A j \in sendable : i < j}
      OBVIOUS
    <3> HIDE DEF sendable, skipped
    <3> QED
      BY <1>3, <2>1, <3>1, <3>2
  <2> HIDE DEF sendable, marked, skipped
  <2>4. importRows' = marked /\ importRun' = run /\ imported' = imported \cup {add}
    BY <1>1, <1>7
  <2>5. IsImportOnce(add)
    <3>1. ~(rows[first].status = "ok") /\ conn = importHost
      BY <2>2
    <3> QED
      BY <3>1 DEF IsImportOnce
  <2>6. run \in ImportRun /\ run # NoImport
    BY <2>2 DEF ImportRun, NoImport, RowNumbers, ImportInv
  <2>7. \A i \in after \cap DOMAIN marked : marked[i].status # "ok"
    <3> SUFFICES ASSUME NEW i \in after, i \in DOMAIN marked PROVE marked[i].status # "ok"
      OBVIOUS
    <3>1. i \in todo /\ i > first /\ i \in Nat /\ first \in Nat
      BY <1>3, <2>2
    <3>2. i \notin skipped
      BY <2>3, <3>1
    <3> QED
      BY <1>4, <3>1, <3>2
  <2>8. ~runInterrupted' => Unanswered(marked) \subseteq {first} \cup after
    <3> SUFFICES ASSUME ~runInterrupted', NEW i \in Unanswered(marked) PROVE i = first \/ i \in after
      OBVIOUS
    <3>1. i \in todo /\ i \notin skipped
      BY <1>4
    <3>2. ~(i < first) /\ i \in Nat /\ first \in Nat
      BY <1>3, <2>2, <2>3, <3>1
    <3> QED
      BY <3>1, <3>2
  <2>9. \A i \in after : first < i
    BY <1>3, <2>2
  <2>10. /\ run.conn = conn /\ run.begun = begun /\ run.left = after /\ run.at = first /\ run.of = textsParsed
    OBVIOUS
  <2> HIDE DEF run, add, after
  <2>11. RunIsSound(importRun)'
    BY <1>4, <2>4, <2>6, <2>7, <2>8, <2>9, <2>10 DEF RunIsSound
  <2>12. \A a \in imported' : IsImportOnce(a)
    BY <2>4, <2>5 DEF ImportInv
  <2> QED
    BY <1>5, <2>4, <2>6, <2>11, <2>12 DEF ImportInv
<1> QED
  BY <1>6, <1>7

LEMMA ImportStepKeeps == ImportInv /\ [ImportNext]_importVars => ImportInv'
<1> SUFFICES ASSUME ImportInv, [ImportNext]_importVars PROVE ImportInv'
  OBVIOUS
<1>0. importRun # NoImport => importRun \in ImportRun
  BY DEF ImportInv, RunIsSound
<1>1. CASE openImport
  <2>1. CASE importRun # NoImport
    BY <1>1, <2>1 DEF openImport, importing, ImportInv, RunIsSound
  <2>2. CASE importRun = NoImport
    BY <1>1, <2>2, NoRowsAreTyped DEF openImport, importing, ImportInv
  <2> QED
    BY <2>1, <2>2
<1>2. CASE closeImport
  BY <1>2 DEF closeImport, ImportInv, RunIsSound
<1>3. ASSUME NEW to \in ImportHosts, switchImportHost(to) PROVE ImportInv'
  BY <1>3 DEF switchImportHost, ImportInv, RunIsSound
<1>4. ASSUME NEW kinds \in ImportTexts, runParse(kinds) PROVE ImportInv'
  <2> DEFINE rows == [i \in DOMAIN kinds |-> [kind |-> kinds[i], status |-> "pending"]]
  <2>1. DOMAIN kinds \subseteq RowNumbers /\ \A i \in DOMAIN kinds : kinds[i] \in {AddRecord, "change", "unnamed"}
    <3>1. \/ kinds = <<>> \/ kinds = <<AddRecord, AddRecord>> \/ kinds = <<"change", AddRecord>>
          \/ kinds = <<AddRecord, "unnamed">>
      BY DEF ImportTexts
    <3> QED
      BY <3>1 DEF RowNumbers
  <2>2. ImportRowsTyped(rows) /\ Unanswered(rows) = DOMAIN rows
    BY <2>1 DEF ImportRowsTyped, ImportRow, Unanswered
  <2>3. \A i \in DOMAIN rows : rows[i].status = "pending"
    OBVIOUS
  <2>4. /\ importRows' = rows /\ parsedOn' = importHost /\ textsParsed' = textsParsed + 1 /\ resultSummary' = FALSE
        /\ rowsKept' = FALSE /\ (runInterrupted' <=> importRun # NoImport)
        /\ importHost' = importHost /\ importRun' = importRun /\ imported' = imported
    BY <1>4 DEF runParse, importing
  <2> HIDE DEF rows
  <2>5. importRun # NoImport => RunIsSound(importRun)'
    BY <2>3, <2>4, <1>0 DEF ImportInv, RunIsSound, ImportRun
  <2> QED
    BY <2>2, <2>4, <2>5 DEF ImportInv
<1>5. CASE doImport
  <2>1. /\ importOpen /\ importRun = NoImport /\ ~resultSummary /\ UNCHANGED <<runInterrupted>>
        /\ RunOn(importHost, textsParsed, importRows, DOMAIN importRows)
        /\ UNCHANGED <<importHost, importOpen, parsedOn, textsParsed, rowsKept>>
    BY <1>5 DEF doImport, importing
  <2>2. /\ importHost \in ImportHosts /\ textsParsed \in Nat /\ ImportRowsTyped(importRows)
        /\ Unanswered(importRows) = DOMAIN importRows
        /\ importHost = parsedOn \/ rowsKept \/ DOMAIN importRows = {}
    BY <2>1 DEF ImportInv
  <2>3. DOMAIN importRows # {}
    <3>1. importRows = [i \in DOMAIN importRows |-> importRows[i]]
      BY <2>2 DEF ImportRowsTyped
    <3>2. importRows # <<>>
      BY <1>5 DEF doImport
    <3>3. [i \in {} |-> importRows[i]] = <<>>
      OBVIOUS
    <3> QED
      BY <3>1, <3>2, <3>3
  <2>4. \A i \in DOMAIN importRows : importRows[i].status # "ok"
    BY <2>2 DEF Unanswered
  <2>5. DOMAIN importRows \in SUBSET RowNumbers /\ textsParsed <= textsParsed
    BY <2>2 DEF ImportRowsTyped
  <2> QED
    BY <2>1, <2>2, <2>3, <2>4, <2>5, RunOnKeeps
<1>6. CASE retryFailed
  <2>1. /\ importOpen /\ importRun = NoImport /\ failedRows # {} /\ UNCHANGED <<runInterrupted>>
        /\ RunOn(importHost, textsParsed, importRows, failedRows)
        /\ UNCHANGED <<importHost, importOpen, parsedOn, textsParsed, rowsKept>>
    BY <1>6 DEF retryFailed, importing
  <2>2. /\ importHost \in ImportHosts /\ textsParsed \in Nat /\ ImportRowsTyped(importRows)
        /\ importHost = parsedOn \/ rowsKept \/ DOMAIN importRows = {}
    BY <2>1 DEF ImportInv
  <2>3. failedRows \subseteq DOMAIN importRows /\ \A i \in failedRows : importRows[i].status = "failed"
    BY DEF failedRows
  <2>4. resultSummary
    BY <2>1, <2>3 DEF ImportInv, Unanswered
  <2>5. ~runInterrupted => Unanswered(importRows) = {}
    BY <2>1, <2>4 DEF ImportInv
  <2>6. failedRows \in SUBSET RowNumbers /\ textsParsed <= textsParsed
    BY <2>2, <2>3 DEF ImportRowsTyped
  <2> HIDE DEF failedRows
  <2>7. importHost = parsedOn \/ rowsKept
    BY <2>1, <2>2, <2>3
  <2>8. \A i \in failedRows \cap DOMAIN importRows : importRows[i].status # "ok"
    BY <2>3
  <2>9. ~runInterrupted' => Unanswered(importRows) \subseteq failedRows
    BY <2>1, <2>5
  <2> QED
    BY <2>1, <2>2, <2>6, <2>7, <2>8, <2>9, RunOnKeeps
<1>7. ASSUME NEW status \in {"ok", "failed"}, RowAnswered(status) PROVE ImportInv'
  <2> DEFINE rows == IF importRun.of = textsParsed THEN MarkRows(importRows, {importRun.at}, status) ELSE importRows
  <2>1. /\ importRun # NoImport /\ UNCHANGED <<importHost, importOpen, parsedOn, textsParsed, rowsKept>>
        /\ IF importRun.left # {} /\ importHost # importRun.conn
           THEN FinishRun(rows) /\ runInterrupted' = TRUE /\ UNCHANGED imported
           ELSE RunOn(importRun.conn, importRun.begun, rows, importRun.left) /\ UNCHANGED runInterrupted
    BY <1>7 DEF RowAnswered, importing
  <2>2. /\ RunIsSound(importRun) /\ importRun \in ImportRun /\ ImportRowsTyped(importRows)
        /\ importRun.conn \in ImportHosts /\ importRun.begun \in Nat /\ importRun.left \in SUBSET RowNumbers
        /\ importRun.at \in RowNumbers
    BY <1>0, <2>1 DEF ImportInv, ImportRun
  <2>3. /\ ImportRowsTyped(MarkRows(importRows, {importRun.at}, status))
        /\ DOMAIN MarkRows(importRows, {importRun.at}, status) = DOMAIN importRows
        /\ Unanswered(MarkRows(importRows, {importRun.at}, status)) = Unanswered(importRows) \ {importRun.at}
        /\ \A i \in DOMAIN importRows \ {importRun.at} : MarkRows(importRows, {importRun.at}, status)[i] = importRows[i]
    BY <2>2, MarkingKeeps
  <2>4. /\ ImportRowsTyped(rows) /\ DOMAIN rows = DOMAIN importRows
        /\ \A i \in DOMAIN importRows \ {importRun.at} : rows[i] = importRows[i]
        /\ ~runInterrupted => Unanswered(rows) \subseteq importRun.left
    BY <2>2, <2>3 DEF RunIsSound
  <2>5. importRun.at \notin importRun.left
    BY <2>2 DEF RunIsSound, RowNumbers
  <2> HIDE DEF rows
  <2>6. \A i \in importRun.left \cap DOMAIN rows : rows[i].status # "ok"
    BY <2>2, <2>4, <2>5 DEF RunIsSound
  <2>7. /\ importRun.begun <= textsParsed
        /\ importRun.begun = textsParsed => importRun.conn = parsedOn \/ rowsKept
    BY <2>2 DEF RunIsSound
  <2>8. CASE importRun.left # {} /\ importHost # importRun.conn
    <3>1. /\ importRows' = rows /\ importRun' = NoImport /\ resultSummary' = TRUE /\ runInterrupted' = TRUE
          /\ imported' = imported
      BY <2>1, <2>8 DEF FinishRun
    <3> QED
      BY <2>1, <2>4, <3>1 DEF ImportInv
  <2>9. CASE ~(importRun.left # {} /\ importHost # importRun.conn)
    <3>1. RunOn(importRun.conn, importRun.begun, rows, importRun.left) /\ UNCHANGED runInterrupted
          /\ (importRun.left # {} => importRun.conn = importHost)
      BY <2>1, <2>9
    <3> QED
      BY <2>1, <2>2, <2>4, <2>6, <2>7, <3>1, RunOnKeeps
  <2> QED
    BY <2>8, <2>9
<1>8. CASE UNCHANGED importVars
  BY <1>8 DEF importVars, ImportInv, RunIsSound
<1> QED
  BY <1>1, <1>2, <1>3, <1>4, <1>5, <1>6, <1>7, <1>8 DEF ImportNext

LEMMA ImportIsSound == ImportSpec => []ImportsRunOnce
<1>1. ImportInit => ImportInv
  BY NoRowsAreTyped DEF ImportInit, ImportInv, NoImport
<1>2. ImportInv => ImportsRunOnce
  BY DEF ImportInv, ImportsRunOnce, IsImportOnce, importing, Unanswered
<1> QED
  BY <1>1, <1>2, ImportStepKeeps, PTL DEF ImportSpec

(* ---------------------------- the three of them -------------------------- *)
\* For any number of connections, steps and rows, whatever answers late and wherever the user goes
\* meanwhile: copies and entries of the wizard go to the connection they were meant for, without what
\* may not be copied and with all that is mandatory; the naming row of a copy agrees with its RDN unless
\* the row or the text was edited by hand or the RDN did not parse for a while; an import goes to the
\* connection its rows were parsed for unless the dialog was opened again, or other text parsed, under
\* the run; and no row that was reported added is sent again.
THEOREM EntriesAreCreatedAsMeant == NewEntriesSpec => []CreatedAsMeant
  BY CopyIsSound, WizardIsSound, ImportIsSound, PTL DEF NewEntriesSpec, CreatedAsMeant
=============================================================================
