---------------------------- MODULE ToolsProofs -----------------------------
(***************************************************************************)
(* Proofs about the tools of the MCP server and the data directory: the     *)
(* two-phase writes, the digest sessions, the intents of the user interface *)
(* and the files of presets and settings, each for every value of its       *)
(* constants and any length of a run.                                       *)
(***************************************************************************)
EXTENDS TwoPhaseWrites, DigestSessions, UiIntents, LocalStore, FiniteSetTheorems, SequenceTheorems, TLAPS

(* -------------------- the files of presets and settings ------------------- *)
Presets == [PresetIds -> Nat \cup {Nothing}]
Settings == [Fields -> Nat]
CallSteps == {"lock", "change", "temp", "rename"}
Documents == {"presets", "settings"}
Held(c) == call[c].step \in {"change", "temp", "rename"}
Saving(c) == call[c].step \in {"temp", "rename"}

StoreTypes ==
  /\ file["presets"] \in Presets \cup {Nothing} /\ file["settings"] \in Settings \cup {Nothing}
  /\ DOMAIN file = Documents
  /\ memory \in Settings /\ \A f \in Fields : ~Refuses(f, memory[f])
  /\ held \in [Documents -> Savers \cup {Nothing}]
  /\ serial \in Nat /\ kills \in Nat /\ temps \subseteq Nat
  /\ DOMAIN acked = PresetIds \cup Fields
  /\ DOMAIN call = Savers

CallTyped(c) ==
  /\ call[c] \in [step : CallSteps, doc : Documents, key : PresetIds \cup Fields, value : Nat \cup {Nothing},
                  number : Nat, new : {call[c].new}]
  /\ call[c].number < serial
  /\ call[c].key \in Keys(call[c].doc)
  /\ call[c].doc = "settings" => call[c].value \in Nat
  /\ Saving(c) => call[c].new \in IF call[c].doc = "presets" THEN Presets ELSE Settings
CallTypes == \A c \in Savers : call[c] # NoCall => CallTyped(c)

\* A call that holds the lock of its document is the only one that does, and a
\* temporary file is of the call that wrote it.
CallsExclude ==
  /\ \A c \in Savers : call[c] # NoCall /\ Held(c) => held[call[c].doc] = c
  /\ \A c, d \in Savers : c # d /\ call[c] # NoCall /\ call[d] # NoCall => call[c].number # call[d].number
  /\ kills = 0 => \A n : n \in temps <=> \E c \in Savers : call[c].step = "rename" /\ n = call[c].number

\* What was acknowledged is in the file, in memory and in what is being saved.
AckedIsKept ==
  /\ \A c \in Savers : call[c] # NoCall => acked[call[c].key] = Nothing
  /\ \A doc \in Documents : \A key \in Keys(doc) : acked[key] # Nothing =>
       /\ file[doc] # Nothing /\ file[doc][key] = acked[key].to
       /\ doc = "settings" => memory[key] = acked[key].to
       /\ \A c \in Savers : call[c] # NoCall /\ Saving(c) /\ call[c].doc = doc => call[c].new[key] = acked[key].to
  /\ \A c \in Savers : call[c] # NoCall /\ Saving(c) =>
       /\ call[c].new[call[c].key] = call[c].value
       /\ call[c].doc = "settings" => call[c].new = memory
       /\ call[c].doc = "settings" => ~Refuses(call[c].key, call[c].value)

StoreInv == StoreTypes /\ CallTypes /\ CallsExclude /\ AckedIsKept

LEMMA InBounds ==
  ASSUME NEW s \in Settings
  PROVE  /\ Sanitized(s) \in Settings /\ LoadSettings(s) \in Settings
         /\ \A f \in Fields : ~Refuses(f, Sanitized(s)[f]) /\ ~Refuses(f, LoadSettings(s)[f])
         /\ \A f \in Fields : ~Refuses(f, s[f]) => Sanitized(s)[f] = s[f] /\ LoadSettings(s)[f] = s[f]
<1> USE StoreAssumption
<1>1. \A f \in Fields : Bounds[f] \in [floor : Nat \ {0}, ceiling : Nat, default : Nat]
                         /\ Bounds[f].floor <= Bounds[f].ceiling
  BY DEF Fields
<1>2. ASSUME NEW f \in Fields, NEW v \in Nat
      PROVE  clamp(f, v) \in Nat /\ ~Refuses(f, clamp(f, v)) /\ (~Refuses(f, v) => clamp(f, v) = v /\ v > 0)
  BY <1>1 DEF clamp, Refuses
<1>3. /\ Sanitized(s) \in Settings /\ \A f \in Fields : Sanitized(s)[f] = clamp(f, s[f]) /\ s[f] \in Nat
  BY <1>2 DEF Sanitized, Settings
<1> DEFINE t == [f \in Fields |-> IF s # Nothing /\ s[f] > 0 THEN s[f] ELSE DefaultSettings[f]]
<1>4. s # Nothing
  BY DEF Settings, Fields
<1>5. t \in Settings /\ \A f \in Fields : t[f] = IF s[f] > 0 THEN s[f] ELSE Bounds[f].default
  BY <1>1, <1>3, <1>4 DEF Settings, DefaultSettings
<1>6. LoadSettings(s) = Sanitized(t)
  BY DEF LoadSettings
<1> HIDE DEF t
<1>7. Sanitized(t) \in Settings /\ \A f \in Fields : Sanitized(t)[f] = clamp(f, t[f]) /\ t[f] \in Nat
  BY <1>2, <1>5 DEF Sanitized, Settings
<1> QED
  BY <1>2, <1>3, <1>5, <1>6, <1>7

LEMMA NoSettings == LoadSettings(Nothing) \in Settings /\ \A f \in Fields : ~Refuses(f, LoadSettings(Nothing)[f])
<1> USE StoreAssumption
<1>1. \A f \in Fields : Bounds[f] \in [floor : Nat \ {0}, ceiling : Nat, default : Nat]
                         /\ Bounds[f].floor <= Bounds[f].ceiling
  BY DEF Fields
<1>2. DefaultSettings \in Settings
  BY <1>1 DEF DefaultSettings, Settings
<1>3. LoadSettings(Nothing) = Sanitized(DefaultSettings)
  <2>1. [f \in Fields |-> IF Nothing # Nothing /\ Nothing[f] > 0 THEN Nothing[f] ELSE DefaultSettings[f]] = DefaultSettings
    BY DEF DefaultSettings
  <2> QED
    BY <2>1 DEF LoadSettings
<1> QED
  BY <1>2, <1>3, InBounds

LEMMA StoreInitInv == StoreInit => StoreInv
<1> USE StoreAssumption
<1> SUFFICES ASSUME StoreInit PROVE StoreInv
  OBVIOUS
<1>1. PICK s \in {Nothing} \cup [Fields -> Values] :
        /\ file = [d \in {"presets", "settings"} |-> IF d = "settings" THEN s ELSE Nothing]
        /\ memory = LoadSettings(s)
  BY DEF StoreInit
<1>2. s \in {Nothing} \cup Settings
  BY DEF Settings
<1>3. memory \in Settings /\ \A f \in Fields : ~Refuses(f, memory[f])
  BY <1>1, <1>2, InBounds, NoSettings
<1>4. /\ held = [d \in Documents |-> Nothing] /\ call = [c \in Savers |-> NoCall]
      /\ acked = [key \in PresetIds \cup Fields |-> Nothing]
      /\ temps = {} /\ serial = 0 /\ kills = 0
  BY DEF StoreInit, Documents
<1>5. StoreTypes
  BY <1>1, <1>2, <1>3, <1>4 DEF StoreTypes, Documents
<1>6. \A doc \in Documents : \A key \in Keys(doc) : acked[key] = Nothing
  BY <1>4 DEF Keys
<1>7. \A c \in Savers : call[c] = NoCall /\ call[c].step # "rename"
  BY <1>4 DEF NoCall
<1> QED
  BY <1>4, <1>5, <1>6, <1>7 DEF StoreInv, CallTypes, CallsExclude, AckedIsKept

\* The end of a call, whatever became of it.
LEMMA CallEnds ==
  ASSUME StoreInv, NEW c \in Savers, NEW ok \in BOOLEAN, call[c] # NoCall, Held(c), Ends(c, ok)
  PROVE  /\ DOMAIN call' = Savers /\ call'[c] = NoCall /\ \A d \in Savers \ {c} : call'[d] = call[d]
         /\ held' \in [Documents -> Savers \cup {Nothing}]
         /\ \A d \in Savers \ {c} : call[d] # NoCall /\ Held(d) => held'[call[d].doc] = d
         /\ DOMAIN acked' = PresetIds \cup Fields
         /\ \A key \in PresetIds \cup Fields :
              \/ acked'[key] = acked[key] /\ (key # call[c].key \/ acked'[key] = Nothing)
              \/ /\ ok /\ key = call[c].key /\ acked'[key] = [to |-> call[c].value]
                 /\ \A d \in Savers \ {c} : call[d] = NoCall \/ call[d].key # key
<1> USE StoreAssumption
<1>0. StoreTypes /\ CallTypes /\ CallsExclude /\ AckedIsKept
  BY DEF StoreInv
<1>1. /\ call[c].doc \in Documents /\ call[c].key \in PresetIds \cup Fields /\ held[call[c].doc] = c
  BY <1>0 DEF CallTypes, CallTyped, CallsExclude
<1>2. /\ DOMAIN call' = Savers /\ call'[c] = NoCall /\ \A d \in Savers \ {c} : call'[d] = call[d]
  BY <1>0 DEF StoreTypes, Ends
<1>3. /\ held' = [held EXCEPT ![call[c].doc] = Nothing]
  BY DEF Ends
<1>4. held' \in [Documents -> Savers \cup {Nothing}]
  BY <1>0, <1>1, <1>3 DEF StoreTypes
<1>5. ASSUME NEW d \in Savers \ {c}, call[d] # NoCall, Held(d) PROVE held'[call[d].doc] = d
  <2>1. call[d].doc \in Documents /\ held[call[d].doc] = d
    BY <1>0, <1>5 DEF CallTypes, CallTyped, CallsExclude
  <2> QED
    BY <1>0, <1>1, <1>3, <2>1 DEF StoreTypes
<1>6. acked[call[c].key] = Nothing
  BY <1>0 DEF AckedIsKept
<1> QED
  BY <1>0, <1>1, <1>2, <1>4, <1>5, <1>6 DEF StoreTypes, Ends

\* The other calls after the end of one.
LEMMA OthersKept ==
  ASSUME StoreInv, NEW c \in Savers, NEW ok \in BOOLEAN, call[c] # NoCall, Held(c), Ends(c, ok),
         temps' = temps \ (IF call[c].step = "rename" THEN {call[c].number} ELSE {}), UNCHANGED <<serial, kills>>
  PROVE  CallTypes' /\ CallsExclude'
<1> USE StoreAssumption
<1>0. StoreTypes /\ CallTypes /\ CallsExclude /\ AckedIsKept
  BY DEF StoreInv
<1>1. /\ DOMAIN call' = Savers /\ call'[c] = NoCall /\ \A d \in Savers \ {c} : call'[d] = call[d]
      /\ \A d \in Savers \ {c} : call[d] # NoCall /\ Held(d) => held'[call[d].doc] = d
  BY CallEnds
<1>2. CallTypes'
  <2> SUFFICES ASSUME NEW d \in Savers, call'[d] # NoCall PROVE CallTyped(d)'
    BY DEF CallTypes
  <2>1. d # c /\ call'[d] = call[d] /\ CallTyped(d)
    BY <1>0, <1>1 DEF CallTypes
  <2> QED
    BY <2>1 DEF CallTyped, Saving
<1>3. CallsExclude'
  <2>1. kills = 0 => \A n : n \in temps <=> \E d \in Savers : call[d].step = "rename" /\ n = call[d].number
    BY <1>0 DEF CallsExclude
  <2>2. NoCall.step # "rename"
    BY DEF NoCall
  <2>4. \A e \in Savers \ {c} : call[e].step = "rename" => call[e].number # call[c].number
    BY <1>0, <2>2 DEF CallsExclude
  <2>5. kills' = 0 => \A n : n \in temps' <=> \E d \in Savers : call'[d].step = "rename" /\ n = call'[d].number
    BY <1>1, <2>1, <2>2, <2>4
  <2>6. \A d \in Savers : call'[d] # NoCall /\ Held(d)' => held'[call'[d].doc] = d
    BY <1>1 DEF Held
  <2>7. \A d, e \in Savers : d # e /\ call'[d] # NoCall /\ call'[e] # NoCall => call'[d].number # call'[e].number
    BY <1>0, <1>1 DEF CallsExclude
  <2> QED
    BY <2>5, <2>6, <2>7 DEF CallsExclude
<1> QED
  BY <1>2, <1>3

\* A call that ends and saved nothing.
LEMMA CallFails ==
  ASSUME StoreInv, NEW c \in Savers, call[c] # NoCall, Held(c), Ends(c, FALSE),
         temps' = temps \ (IF call[c].step = "rename" THEN {call[c].number} ELSE {}),
         UNCHANGED <<file, memory, serial, kills>>
  PROVE  StoreInv'
<1> USE StoreAssumption
<1>0. StoreTypes /\ CallTypes /\ CallsExclude /\ AckedIsKept
  BY DEF StoreInv
<1>1. /\ DOMAIN call' = Savers /\ call'[c] = NoCall /\ \A d \in Savers \ {c} : call'[d] = call[d]
      /\ held' \in [Documents -> Savers \cup {Nothing}]
      /\ DOMAIN acked' = PresetIds \cup Fields
      /\ \A key \in PresetIds \cup Fields : acked'[key] = acked[key]
  BY CallEnds
<1>2. CallTypes' /\ CallsExclude'
  BY OthersKept
<1>3. StoreTypes'
  BY <1>0, <1>1 DEF StoreTypes, Refuses
<1>4. AckedIsKept'
  <2>1. \A doc \in Documents : \A key \in Keys(doc) : key \in PresetIds \cup Fields
    BY DEF Keys
  <2>2. \A d \in Savers : call'[d] # NoCall => call'[d] = call[d] /\ acked'[call'[d].key] = Nothing /\ d # c
    BY <1>0, <1>1 DEF AckedIsKept, CallTypes, CallTyped
  <2> QED
    BY <1>0, <1>1, <2>1, <2>2 DEF AckedIsKept, Saving, Refuses
<1> QED
  BY <1>2, <1>3, <1>4 DEF StoreInv

LEMMA CallStarts ==
  ASSUME StoreInv, NEW c \in Savers, NEW doc \in Documents, NEW key \in Keys(doc), NEW value \in Nat \cup {Nothing},
         doc = "settings" => value \in Nat, Start(c, doc, key, value)
  PROVE  StoreInv'
<1> USE StoreAssumption
<1>0. StoreTypes /\ CallTypes /\ CallsExclude /\ AckedIsKept
  BY DEF StoreInv
<1> DEFINE r == [step |-> "lock", doc |-> doc, key |-> key, value |-> value, number |-> serial, new |-> Nothing]
<1>1. /\ call' = [call EXCEPT ![c] = r] /\ acked' = [acked EXCEPT ![key] = Nothing] /\ serial' = serial + 1
      /\ call[c] = NoCall /\ UNCHANGED <<file, temps, memory, held, kills>>
  BY DEF Start
<1>2. /\ r.step = "lock" /\ r.doc = doc /\ r.key = key /\ r.value = value /\ r.number = serial /\ r.new = Nothing
      /\ r \in [step : CallSteps, doc : Documents, key : PresetIds \cup Fields, value : Nat \cup {Nothing},
                number : Nat, new : {r.new}]
      /\ key \in PresetIds \cup Fields
  BY <1>0 DEF StoreTypes, CallSteps, Keys
<1> HIDE DEF r
<1>3. /\ DOMAIN call' = Savers /\ call'[c] = r /\ \A d \in Savers \ {c} : call'[d] = call[d]
      /\ DOMAIN acked' = PresetIds \cup Fields
      /\ \A k \in PresetIds \cup Fields : acked'[k] = IF k = key THEN Nothing ELSE acked[k]
  BY <1>0, <1>1, <1>2 DEF StoreTypes
<1>4. StoreTypes'
  BY <1>0, <1>1, <1>3 DEF StoreTypes, Refuses
<1>5. CallTypes'
  <2> SUFFICES ASSUME NEW d \in Savers, call'[d] # NoCall PROVE CallTyped(d)'
    BY DEF CallTypes
  <2>1. CASE d = c
    BY <1>0, <1>1, <1>2, <1>3, <2>1 DEF CallTyped, Saving, StoreTypes
  <2>2. CASE d # c
    <3>1. call'[d] = call[d] /\ CallTyped(d) /\ serial \in Nat
      BY <1>0, <1>3, <2>2 DEF CallTypes, StoreTypes
    <3>2. call[d].number \in Nat
      BY <3>1 DEF CallTyped
    <3> QED
      BY <1>1, <3>1, <3>2 DEF CallTyped, Saving
  <2> QED
    BY <2>1, <2>2
<1>6. CallsExclude'
  <2>1. \A e \in Savers : call[e].step = "rename" \/ call'[e].step = "rename" => call'[e] = call[e]
    BY <1>1, <1>2, <1>3 DEF NoCall
  <2>2. kills = 0 => \A n : n \in temps <=> \E d \in Savers : call[d].step = "rename" /\ n = call[d].number
    BY <1>0 DEF CallsExclude
  <2>3. kills' = 0 => \A n : n \in temps' <=> \E d \in Savers : call'[d].step = "rename" /\ n = call'[d].number
    BY <1>1, <2>1, <2>2
  <2>4. \A d \in Savers : call'[d] # NoCall /\ Held(d)' => held'[call'[d].doc] = d
    BY <1>0, <1>1, <1>2, <1>3 DEF Held, CallsExclude
  <2>5. \A d \in Savers : call[d] # NoCall => call[d].number \in Nat /\ call[d].number < serial /\ serial \in Nat
    BY <1>0 DEF CallTypes, CallTyped, StoreTypes
  <2>6. \A d \in Savers : call[d] # NoCall => call[d].number # serial
    BY <2>5
  <2>7. \A d, e \in Savers : d # e /\ call'[d] # NoCall /\ call'[e] # NoCall => call'[d].number # call'[e].number
    BY <1>0, <1>2, <1>3, <2>6 DEF CallsExclude
  <2> QED
    BY <2>3, <2>4, <2>7 DEF CallsExclude
<1>7. AckedIsKept'
  <2>1. \A d \in Documents : \A k \in Keys(d) : k \in PresetIds \cup Fields
    BY DEF Keys
  <2>2. \A d \in Savers : call'[d] # NoCall => d = c \/ (call'[d] = call[d] /\ call[d].key \in PresetIds \cup Fields)
    BY <1>0, <1>3 DEF CallTypes, CallTyped
  <2>3. ~Saving(c)'
    BY <1>2, <1>3 DEF Saving
  <2> QED
    BY <1>0, <1>1, <1>2, <1>3, <2>1, <2>2, <2>3 DEF AckedIsKept, Saving, Refuses
<1> QED
  BY <1>4, <1>5, <1>6, <1>7 DEF StoreInv

\* A step of one call that ends nothing and acknowledges nothing: the call has
\* the lock from now on, and saves what fits to what was acknowledged.
LEMMA CallMoves ==
  ASSUME StoreInv, NEW c \in Savers, call[c] # NoCall, NEW s \in {"change", "temp", "rename"}, NEW new,
         call' = [call EXCEPT ![c].step = s, ![c].new = new],
         held' = [held EXCEPT ![call[c].doc] = c],
         Held(c) \/ held[call[c].doc] = Nothing,
         \A d \in Savers : d # c /\ call[d] # NoCall /\ Saving(d) /\ call[d].doc = "settings" => memory' = memory,
         memory' \in Settings, \A f \in Fields : ~Refuses(f, memory'[f]),
         \A key \in Fields : acked[key] # Nothing => memory'[key] = memory[key],
         UNCHANGED <<file, serial, kills, acked>>,
         temps' = temps \cup (IF s = "rename" THEN {call[c].number} ELSE {}),
         call[c].step # "rename",
         s # "change" =>
           /\ new \in IF call[c].doc = "presets" THEN Presets ELSE Settings
           /\ new[call[c].key] = call[c].value
           /\ \A key \in Keys(call[c].doc) : acked[key] # Nothing => new[key] = acked[key].to
           /\ call[c].doc = "settings" => new = memory' /\ ~Refuses(call[c].key, call[c].value)
  PROVE  StoreInv'
<1> USE StoreAssumption
<1>0. StoreTypes /\ CallTypes /\ CallsExclude /\ AckedIsKept
  BY DEF StoreInv
<1> DEFINE r == [call[c] EXCEPT !.step = s, !.new = new]
<1>1. CallTyped(c) /\ call[c].doc \in Documents
  BY <1>0 DEF CallTypes, CallTyped
<1>2. /\ r.step = s /\ r.doc = call[c].doc /\ r.key = call[c].key /\ r.value = call[c].value
      /\ r.number = call[c].number /\ r.new = new
      /\ r \in [step : CallSteps, doc : Documents, key : PresetIds \cup Fields, value : Nat \cup {Nothing},
                number : Nat, new : {r.new}]
  BY <1>1 DEF CallTyped, CallSteps
<1>3. DOMAIN call' = Savers /\ call'[c] = r /\ \A d \in Savers \ {c} : call'[d] = call[d]
  BY <1>0 DEF StoreTypes
<1> HIDE DEF r
<1>4. StoreTypes'
  <2>1. held' \in [Documents -> Savers \cup {Nothing}]
    BY <1>0, <1>1 DEF StoreTypes
  <2>2. temps' \subseteq Nat
    BY <1>0, <1>1 DEF StoreTypes, CallTyped
  <2>3. \A f \in Fields : ~Refuses(f, memory[f])'
    BY DEF Refuses
  <2> QED
    BY <1>0, <1>3, <2>1, <2>2, <2>3 DEF StoreTypes
<1>5. CallTypes'
  <2> SUFFICES ASSUME NEW d \in Savers, call'[d] # NoCall PROVE CallTyped(d)'
    BY DEF CallTypes
  <2>1. CASE d = c
    BY <1>1, <1>2, <1>3, <2>1 DEF CallTyped, Saving
  <2>2. CASE d # c
    <3>1. call'[d] = call[d] /\ CallTyped(d)
      BY <1>0, <1>3, <2>2 DEF CallTypes
    <3> QED
      BY <3>1 DEF CallTyped, Saving
  <2> QED
    BY <2>1, <2>2
<1>6. CallsExclude'
  <2>1. \A e \in Savers \ {c} : call'[e] = call[e]
    BY <1>3
  <2>2. \A e \in Savers : call'[e].number = call[e].number
    BY <1>2, <1>3
  <2>3. kills' = 0 => \A n : n \in temps' <=> \E d \in Savers : call'[d].step = "rename" /\ n = call'[d].number
    <3>1. kills = 0 => \A n : n \in temps <=> \E d \in Savers : call[d].step = "rename" /\ n = call[d].number
      BY <1>0 DEF CallsExclude
    <3>2. call'[c].step = s /\ kills' = kills /\ call[c].step # "rename"
      BY <1>2, <1>3
    <3> SUFFICES ASSUME kills = 0, NEW n
                 PROVE  n \in temps' <=> \E d \in Savers : call'[d].step = "rename" /\ n = call'[d].number
      BY <3>2
    <3>5. n \in temps <=> \E d \in Savers \ {c} : call'[d].step = "rename" /\ n = call'[d].number
      <4>1. n \in temps <=> \E d \in Savers : call[d].step = "rename" /\ n = call[d].number
        BY <3>1
      <4>2. call[c].step # "rename" /\ \A e \in Savers \ {c} : call'[e] = call[e]
        BY <2>1, <3>2
      <4> QED
        BY ONLY <4>1, <4>2
    <3>3. CASE s = "rename"
      <4>1. n \in temps' <=> n \in temps \/ n = call[c].number
        BY <3>3
      <4> QED
        BY <2>2, <3>2, <3>3, <3>5, <4>1
    <3>4. CASE s # "rename"
      <4>1. n \in temps' <=> n \in temps
        BY <3>4
      <4> QED
        BY <3>2, <3>4, <3>5, <4>1
    <3> QED
      BY <3>3, <3>4
  <2>4. \A d \in Savers \ {c} : call[d] # NoCall /\ Held(d) => call[d].doc # call[c].doc
    BY <1>0 DEF CallsExclude
  <2>5. ASSUME NEW d \in Savers, call'[d] # NoCall, Held(d)' PROVE held'[call'[d].doc] = d
    <3>1. CASE d = c
      BY <1>0, <1>1, <1>2, <1>3, <3>1 DEF StoreTypes
    <3>2. CASE d # c
      <4>1. call'[d] = call[d] /\ Held(d) /\ held[call[d].doc] = d /\ call[d].doc \in Documents
        BY <1>0, <1>3, <2>5, <3>2 DEF Held, CallsExclude, CallTypes, CallTyped
      <4> QED
        BY <1>0, <2>4, <2>5, <3>2, <4>1 DEF StoreTypes
    <3> QED
      BY <3>1, <3>2
  <2>6. \A d, e \in Savers : d # e /\ call'[d] # NoCall /\ call'[e] # NoCall => call'[d].number # call'[e].number
    BY <1>0, <1>3, <2>2 DEF CallsExclude
  <2> QED
    BY <2>3, <2>5, <2>6 DEF CallsExclude
<1>7. AckedIsKept'
  <2>1. ASSUME NEW d \in Savers, call'[d] # NoCall, d # c
        PROVE  /\ call'[d] = call[d] /\ (Saving(d)' => Saving(d)) /\ acked[call[d].key] = Nothing
               /\ Saving(d) => /\ call[d].new[call[d].key] = call[d].value
                               /\ call[d].doc = "settings" => call[d].new = memory /\ ~Refuses(call[d].key, call[d].value)
    BY <1>0, <1>3, <2>1 DEF AckedIsKept, Saving
  <2>2. acked[call[c].key] = Nothing
    BY <1>0 DEF AckedIsKept
  <2>3. \A d \in Savers : call'[d] # NoCall => acked'[call'[d].key] = Nothing
    BY <1>2, <1>3, <2>1, <2>2
  <2>4. Saving(c)' => s # "change"
    BY <1>2, <1>3 DEF Saving
  <2>5. ASSUME NEW d \in Savers, call'[d] # NoCall, Saving(d)'
        PROVE  /\ call'[d].new[call'[d].key] = call'[d].value
               /\ call'[d].doc = "settings" => call'[d].new = memory' /\ ~Refuses(call'[d].key, call'[d].value)
    <3>1. CASE d = c
      BY <1>2, <1>3, <2>4, <2>5, <3>1
    <3>2. CASE d # c
      BY <2>1, <2>5, <3>2 DEF Documents
    <3> QED
      BY <3>1, <3>2
  <2>6. ASSUME NEW doc \in Documents, NEW key \in Keys(doc), acked[key] # Nothing
        PROVE  /\ file[doc] # Nothing /\ file[doc][key] = acked[key].to
               /\ doc = "settings" => memory'[key] = acked[key].to
               /\ \A d \in Savers : call'[d] # NoCall /\ Saving(d)' /\ call'[d].doc = doc => call'[d].new[key] = acked[key].to
    <3>1. /\ file[doc] # Nothing /\ file[doc][key] = acked[key].to
          /\ doc = "settings" => memory[key] = acked[key].to
          /\ \A d \in Savers : call[d] # NoCall /\ Saving(d) /\ call[d].doc = doc => call[d].new[key] = acked[key].to
      BY <1>0, <2>6 DEF AckedIsKept
    <3>2. doc = "settings" => key \in Fields
      BY DEF Keys
    <3>3. ASSUME NEW d \in Savers, call'[d] # NoCall, Saving(d)', call'[d].doc = doc PROVE call'[d].new[key] = acked[key].to
      <4>1. CASE d = c
        BY <1>2, <1>3, <2>4, <2>6, <3>3, <4>1
      <4>2. CASE d # c
        BY <2>1, <3>1, <3>3, <4>2
      <4> QED
        BY <4>1, <4>2
    <3> QED
      BY <2>6, <3>1, <3>2, <3>3
  <2> QED
    <3>2. \A doc \in Documents : \A key \in Keys(doc) : acked'[key] # Nothing =>
            /\ file'[doc] # Nothing /\ file'[doc][key] = acked'[key].to
            /\ doc = "settings" => memory'[key] = acked'[key].to
            /\ \A d \in Savers : call'[d] # NoCall /\ Saving(d)' /\ call'[d].doc = doc => call'[d].new[key] = acked'[key].to
      <4> SUFFICES ASSUME NEW doc \in Documents, NEW key \in Keys(doc), acked'[key] # Nothing
                   PROVE  /\ file'[doc] # Nothing /\ file'[doc][key] = acked'[key].to
                          /\ doc = "settings" => memory'[key] = acked'[key].to
                          /\ \A d \in Savers : call'[d] # NoCall /\ Saving(d)' /\ call'[d].doc = doc =>
                                call'[d].new[key] = acked'[key].to
        OBVIOUS
      <4>1. file' = file /\ acked' = acked
        OBVIOUS
      <4>2. acked[key] # Nothing
        BY <4>1
      <4>3. /\ file[doc] # Nothing /\ file[doc][key] = acked[key].to
            /\ doc = "settings" => memory'[key] = acked[key].to
            /\ \A d \in Savers : call'[d] # NoCall /\ Saving(d)' /\ call'[d].doc = doc =>
                  call'[d].new[key] = acked[key].to
        BY <2>6, <4>2
      <4> QED
        BY <4>1, <4>3
    <3>3. \A d \in Savers : call'[d] # NoCall /\ Saving(d)' =>
            /\ call'[d].new[call'[d].key] = call'[d].value
            /\ call'[d].doc = "settings" => call'[d].new = memory'
            /\ call'[d].doc = "settings" => ~Refuses(call'[d].key, call'[d].value)
      BY <2>5
    <3> QED
      BY <2>3, <3>2, <3>3 DEF AckedIsKept, Refuses
<1> QED
  BY <1>4, <1>5, <1>6, <1>7 DEF StoreInv

LEMMA LockKept ==
  ASSUME StoreInv, NEW c \in Savers, Lock(c)
  PROVE  StoreInv'
<1> USE StoreAssumption
<1>0. StoreTypes /\ CallTypes /\ CallsExclude /\ AckedIsKept
  BY DEF StoreInv
<1>1. /\ call[c].step = "lock" /\ held[call[c].doc] = Nothing /\ call[c] # NoCall
      /\ held' = [held EXCEPT ![call[c].doc] = c]
      /\ call' = [call EXCEPT ![c].step = "change"]
      /\ UNCHANGED <<file, temps, memory, serial, kills, acked>>
  BY DEF Lock, NoCall
<1>2. call' = [call EXCEPT ![c].step = "change", ![c].new = call[c].new]
  <2>1. call[c] = [call[c] EXCEPT !.new = @] /\ [call[c] EXCEPT !.step = "change"] = [call[c] EXCEPT !.step = "change", !.new = call[c].new]
    BY <1>0, <1>1 DEF CallTypes, CallTyped
  <2> QED
    BY <1>0, <1>1, <2>1 DEF StoreTypes
<1>3. temps' = temps \cup (IF "change" = "rename" THEN {call[c].number} ELSE {})
  BY <1>1
<1> QED
  BY <1>0, <1>1, <1>2, <1>3, CallMoves DEF StoreTypes

LEMMA ChangeKept ==
  ASSUME StoreInv, NEW c \in Savers, Change(c)
  PROVE  StoreInv'
<1> USE StoreAssumption
<1>0. StoreTypes /\ CallTypes /\ CallsExclude /\ AckedIsKept
  BY DEF StoreInv
<1>1. /\ call[c].step = "change" /\ call[c] # NoCall /\ Held(c) /\ held[call[c].doc] = c
      /\ UNCHANGED <<file, temps, serial, kills>> /\ CallTyped(c) /\ acked[call[c].key] = Nothing
  BY <1>0 DEF Change, NoCall, Held, CallsExclude, CallTypes, AckedIsKept
<1>2. CASE Ends(c, FALSE) /\ UNCHANGED memory
  <2>1. temps' = temps \ (IF call[c].step = "rename" THEN {call[c].number} ELSE {})
    BY <1>1
  <2> QED
    BY <1>1, <1>2, <2>1, CallFails
<1>3. held' = held => held' = [held EXCEPT ![call[c].doc] = c]
  BY <1>0, <1>1 DEF StoreTypes
<1>4. temps' = temps \cup (IF "temp" = "rename" THEN {call[c].number} ELSE {})
  BY <1>1
<1>5. ASSUME call[c].doc = "presets", ~Ends(c, FALSE) PROVE StoreInv'
  <2> DEFINE new == [LoadPresets EXCEPT ![call[c].key] = call[c].value]
  <2>1. /\ call' = [call EXCEPT ![c].step = "temp", ![c].new = new]
        /\ UNCHANGED <<held, acked, memory>>
    BY <1>1, <1>5 DEF Change
  <2>2. LoadPresets \in Presets
    BY <1>0 DEF LoadPresets, StoreTypes, Presets
  <2>3. call[c].key \in PresetIds /\ call[c].value \in Nat \cup {Nothing}
    BY <1>1, <1>5 DEF CallTyped, Keys
  <2>4. new \in Presets /\ new[call[c].key] = call[c].value /\ \A key \in PresetIds \ {call[c].key} : new[key] = LoadPresets[key]
    BY <2>2, <2>3 DEF Presets
  <2> HIDE DEF new
  <2>5. ASSUME NEW key \in Keys(call[c].doc), acked[key] # Nothing PROVE new[key] = acked[key].to
    <3>1. key \in PresetIds /\ key # call[c].key
      BY <1>1, <1>5, <2>5 DEF Keys
    <3>2. file["presets"] # Nothing /\ file["presets"][key] = acked[key].to
      BY <1>0, <1>5, <2>5 DEF AckedIsKept, Documents
    <3> QED
      BY <2>4, <3>1, <3>2 DEF LoadPresets
  <2>6. call[c].doc # "settings"
    BY <1>5
  <2> QED
    BY <1>0, <1>1, <1>3, <1>4, <1>5, <2>1, <2>4, <2>5, <2>6, CallMoves DEF StoreTypes
<1>6. ASSUME call[c].doc = "settings", ~Ends(c, FALSE) PROVE StoreInv'
  <2>1. /\ ~Refuses(call[c].key, call[c].value)
        /\ memory' = Sanitized([memory EXCEPT ![call[c].key] = call[c].value])
        /\ call' = [call EXCEPT ![c].step = "temp", ![c].new = memory']
        /\ UNCHANGED <<held, acked>>
    BY <1>1, <1>6 DEF Change
  <2> DEFINE asked == [memory EXCEPT ![call[c].key] = call[c].value]
  <2>2. call[c].key \in Fields /\ call[c].value \in Nat
    BY <1>1, <1>6 DEF CallTyped, Keys
  <2>3. /\ asked \in Settings /\ asked[call[c].key] = call[c].value
        /\ \A f \in Fields \ {call[c].key} : asked[f] = memory[f]
        /\ \A f \in Fields : ~Refuses(f, asked[f])
    BY <1>0, <2>1, <2>2 DEF StoreTypes, Settings
  <2> HIDE DEF asked
  <2>4. memory' = Sanitized(asked)
    BY <2>1 DEF asked
  <2>5. /\ memory' \in Settings /\ memory'[call[c].key] = call[c].value
        /\ \A f \in Fields : ~Refuses(f, memory'[f])
        /\ \A f \in Fields \ {call[c].key} : memory'[f] = memory[f]
    BY <2>2, <2>3, <2>4, InBounds
  <2>6. ASSUME NEW d \in Savers, d # c, call[d] # NoCall, Saving(d), call[d].doc = "settings" PROVE memory' = memory
    <3>1. held["settings"] = c /\ held["settings"] = d
      BY <1>0, <1>1, <1>6, <2>6 DEF CallsExclude, Held, Saving
    <3> QED
      BY <2>6, <3>1
  <2>7. \A key \in Fields : acked[key] # Nothing => memory'[key] = memory[key]
    BY <1>1, <2>5
  <2>8. ASSUME NEW key \in Keys(call[c].doc), acked[key] # Nothing PROVE memory'[key] = acked[key].to
    BY <1>0, <1>6, <2>7, <2>8 DEF AckedIsKept, Keys, Documents
  <2>9. call[c].doc # "presets"
    BY <1>6
  <2>10. memory' = memory'
    OBVIOUS
  <2> QED
    BY <1>0, <1>1, <1>3, <1>4, <1>6, <2>1, <2>5, <2>6, <2>7, <2>8, <2>9, CallMoves
<1>7. ASSUME Ends(c, FALSE) PROVE UNCHANGED memory
  <2>1. call'[c] = NoCall
    BY <1>0, <1>7 DEF Ends, StoreTypes
  <2>2. \A new : call' # [call EXCEPT ![c].step = "temp", ![c].new = new]
    BY <1>0, <1>1, <2>1 DEF StoreTypes, NoCall, CallTyped
  <2> QED
    BY <2>2 DEF Change
<1> QED
  BY <1>0, <1>1, <1>2, <1>5, <1>6, <1>7 DEF CallTyped, Documents

LEMMA SaveTempKept ==
  ASSUME StoreInv, NEW c \in Savers, SaveTemp(c)
  PROVE  StoreInv'
<1> USE StoreAssumption
<1>0. StoreTypes /\ CallTypes /\ CallsExclude /\ AckedIsKept
  BY DEF StoreInv
<1>1. /\ call[c].step = "temp" /\ call[c] # NoCall /\ Held(c) /\ held[call[c].doc] = c /\ Saving(c)
      /\ UNCHANGED <<file, memory, serial, kills>> /\ CallTyped(c)
  BY <1>0 DEF SaveTemp, NoCall, Held, Saving, CallsExclude, CallTypes
<1>2. CASE Ends(c, FALSE) /\ UNCHANGED temps
  <2>1. temps' = temps \ (IF call[c].step = "rename" THEN {call[c].number} ELSE {})
    BY <1>1, <1>2
  <2> QED
    BY <1>1, <1>2, <2>1, CallFails
<1>3. CASE /\ temps' = temps \cup {call[c].number}
           /\ call' = [call EXCEPT ![c].step = "rename"] /\ UNCHANGED <<held, acked>>
  <2>1. call' = [call EXCEPT ![c].step = "rename", ![c].new = call[c].new]
    <3>1. [call[c] EXCEPT !.step = "rename"] = [call[c] EXCEPT !.step = "rename", !.new = call[c].new]
      BY <1>1 DEF CallTyped
    <3> QED
      BY <1>0, <1>3, <3>1 DEF StoreTypes
  <2>2. held' = [held EXCEPT ![call[c].doc] = c]
    BY <1>0, <1>1, <1>3 DEF StoreTypes
  <2>3. temps' = temps \cup (IF "rename" = "rename" THEN {call[c].number} ELSE {})
    BY <1>3
  <2>4. /\ call[c].new \in IF call[c].doc = "presets" THEN Presets ELSE Settings
        /\ call[c].new[call[c].key] = call[c].value
        /\ call[c].doc = "settings" => call[c].new = memory /\ ~Refuses(call[c].key, call[c].value)
    BY <1>0, <1>1 DEF CallTyped, AckedIsKept
  <2>5. \A key \in Keys(call[c].doc) : acked[key] # Nothing => call[c].new[key] = acked[key].to
    BY <1>0, <1>1 DEF CallTyped, AckedIsKept
  <2> QED
    BY <1>0, <1>1, <1>3, <2>1, <2>2, <2>3, <2>4, <2>5, CallMoves DEF StoreTypes
<1> QED
  BY <1>2, <1>3 DEF SaveTemp

LEMMA SaveJSONKept ==
  ASSUME StoreInv, NEW c \in Savers, SaveJSON(c)
  PROVE  StoreInv'
<1> USE StoreAssumption
<1>0. StoreTypes /\ CallTypes /\ CallsExclude /\ AckedIsKept
  BY DEF StoreInv
<1>1. /\ call[c].step = "rename" /\ call[c] # NoCall /\ Held(c) /\ held[call[c].doc] = c /\ Saving(c)
      /\ UNCHANGED <<memory, serial, kills>> /\ CallTyped(c)
      /\ temps' = temps \ {call[c].number}
  BY <1>0 DEF SaveJSON, NoCall, Held, Saving, CallsExclude, CallTypes
<1>2. temps' = temps \ (IF call[c].step = "rename" THEN {call[c].number} ELSE {})
  BY <1>1
<1>3. CASE Ends(c, FALSE) /\ UNCHANGED file
  BY <1>1, <1>2, <1>3, CallFails
<1>4. CASE file' = [file EXCEPT ![call[c].doc] = call[c].new] /\ Ends(c, TRUE)
  <2>1. /\ DOMAIN call' = Savers /\ call'[c] = NoCall /\ \A d \in Savers \ {c} : call'[d] = call[d]
        /\ held' \in [Documents -> Savers \cup {Nothing}]
        /\ DOMAIN acked' = PresetIds \cup Fields
        /\ \A key \in PresetIds \cup Fields :
             \/ acked'[key] = acked[key] /\ (key # call[c].key \/ acked'[key] = Nothing)
             \/ /\ key = call[c].key /\ acked'[key] = [to |-> call[c].value]
                /\ \A d \in Savers \ {c} : call[d] = NoCall \/ call[d].key # key
    BY <1>1, <1>4, CallEnds
  <2>2. CallTypes' /\ CallsExclude'
    BY <1>1, <1>2, <1>4, OthersKept
  <2> DEFINE mine == call[c].doc  new == call[c].new
  <2>3. /\ mine \in Documents /\ call[c].key \in Keys(mine) /\ new # Nothing
        /\ new \in IF mine = "presets" THEN Presets ELSE Settings
    BY <1>1 DEF CallTyped, Presets, Settings, Fields
  <2>4. DOMAIN file' = Documents /\ \A doc \in Documents : file'[doc] = IF doc = mine THEN new ELSE file[doc]
    BY <1>0, <1>4 DEF StoreTypes
  <2>5. StoreTypes'
    <3>1. file'["presets"] \in Presets \cup {Nothing} /\ file'["settings"] \in Settings \cup {Nothing}
      BY <1>0, <2>3, <2>4 DEF StoreTypes, Documents
    <3>2. \A f \in Fields : ~Refuses(f, memory[f])'
      BY <1>0, <1>1 DEF StoreTypes, Refuses
    <3> QED
      BY <1>0, <1>1, <2>1, <2>4, <3>1, <3>2 DEF StoreTypes
  <2>6. /\ new[call[c].key] = call[c].value
        /\ mine = "settings" => new = memory
        /\ \A key \in Keys(mine) : acked[key] # Nothing => new[key] = acked[key].to
        /\ acked[call[c].key] = Nothing
    BY <1>0, <1>1, <2>3 DEF AckedIsKept
  <2>7. \A d \in Savers \ {c} : call[d] # NoCall /\ Saving(d) => call[d].doc # mine
    BY <1>0, <1>1 DEF CallsExclude, Held, Saving
  <2> HIDE DEF mine, new
  <2>8. \A d \in Savers : call'[d] # NoCall => call'[d] = call[d] /\ d # c
    BY <2>1
  <2>9. \A d \in Savers : call'[d] # NoCall => acked'[call'[d].key] = Nothing
    BY <1>0, <2>1, <2>8 DEF AckedIsKept, CallTypes, CallTyped
  <2>10. ASSUME NEW doc \in Documents, NEW key \in Keys(doc), acked'[key] # Nothing
         PROVE  /\ file'[doc] # Nothing /\ file'[doc][key] = acked'[key].to
                /\ doc = "settings" => memory'[key] = acked'[key].to
                /\ \A d \in Savers : call'[d] # NoCall /\ Saving(d)' /\ call'[d].doc = doc => call'[d].new[key] = acked'[key].to
    <3>1. key \in PresetIds \cup Fields
      BY <2>10 DEF Keys
    <3>2. CASE acked'[key] = acked[key]
      <4>1. /\ file[doc] # Nothing /\ file[doc][key] = acked[key].to
            /\ doc = "settings" => memory[key] = acked[key].to
            /\ \A d \in Savers : call[d] # NoCall /\ Saving(d) /\ call[d].doc = doc => call[d].new[key] = acked[key].to
        BY <1>0, <2>10, <3>2 DEF AckedIsKept
      <4>2. \A d \in Savers : call'[d] # NoCall /\ Saving(d)' /\ call'[d].doc = doc => call'[d].new[key] = acked'[key].to
        BY <2>8, <3>2, <4>1 DEF Saving
      <4>3. file'[doc] # Nothing /\ file'[doc][key] = acked'[key].to
        <5>1. CASE doc = mine
          BY <2>3, <2>4, <2>6, <2>10, <3>2, <5>1
        <5>2. CASE doc # mine
          BY <2>4, <3>2, <4>1, <5>2
        <5> QED
          BY <5>1, <5>2
      <4> QED
        BY <1>1, <3>2, <4>1, <4>2, <4>3
    <3>3. CASE key = call[c].key /\ acked'[key] = [to |-> call[c].value]
      <4>1. doc = mine
        BY <2>3, <2>10, <3>3 DEF Keys, Documents, Fields
      <4>2. acked'[key].to = call[c].value
        BY <3>3
      <4>3. \A d \in Savers : call'[d] # NoCall /\ Saving(d)' => call'[d].doc # doc
        BY <2>7, <2>8, <4>1 DEF Saving
      <4> QED
        BY <1>1, <2>3, <2>4, <2>6, <3>3, <4>1, <4>2, <4>3
    <3> QED
      BY <2>1, <3>1, <3>2, <3>3
  <2>11. \A d \in Savers : call'[d] # NoCall /\ Saving(d)' =>
           /\ call'[d].new[call'[d].key] = call'[d].value
           /\ call'[d].doc = "settings" => call'[d].new = memory'
           /\ call'[d].doc = "settings" => ~Refuses(call'[d].key, call'[d].value)
    BY <1>0, <1>1, <2>8 DEF AckedIsKept, Saving
  <2>12. AckedIsKept'
    BY <2>9, <2>10, <2>11 DEF AckedIsKept, Refuses
  <2> QED
    BY <2>2, <2>5, <2>12 DEF StoreInv
<1> QED
  BY <1>3, <1>4 DEF SaveJSON

LEMMA KilledKept ==
  ASSUME StoreInv, Killed
  PROVE  StoreInv'
<1> USE StoreAssumption
<1>0. StoreTypes /\ CallTypes /\ CallsExclude /\ AckedIsKept
  BY DEF StoreInv
<1>1. /\ call' = [c \in Savers |-> NoCall] /\ held' = [d \in Documents |-> Nothing]
      /\ memory' = LoadSettings(file["settings"]) /\ kills' = kills + 1
      /\ UNCHANGED <<file, temps, serial, acked>>
  BY <1>0 DEF Killed, StoreTypes
<1>2. memory' \in Settings /\ \A f \in Fields : ~Refuses(f, memory'[f])
  BY <1>0, <1>1, InBounds, NoSettings DEF StoreTypes
<1>3. \A c \in Savers : call'[c] = NoCall
  BY <1>1
<1>4. ASSUME NEW key \in Fields, acked[key] # Nothing PROVE memory'[key] = acked[key].to
  <2>1. /\ file["settings"] # Nothing /\ file["settings"][key] = acked[key].to /\ memory[key] = acked[key].to
    BY <1>0, <1>4 DEF AckedIsKept, Keys, Documents
  <2>2. file["settings"] \in Settings /\ ~Refuses(key, file["settings"][key])
    BY <1>0, <2>1 DEF StoreTypes
  <2> QED
    BY <1>1, <2>1, <2>2, InBounds
<1>5. StoreTypes'
  <2>1. \A f \in Fields : ~Refuses(f, memory[f])'
    BY <1>2 DEF Refuses
  <2> QED
    BY <1>0, <1>1, <1>2, <2>1 DEF StoreTypes
<1>6. CallTypes' /\ CallsExclude'
  <2>1. kills' # 0
    BY <1>0, <1>1 DEF StoreTypes
  <2> QED
    BY <1>3, <2>1 DEF CallTypes, CallsExclude, NoCall
<1>7. AckedIsKept'
  <2>1. \A doc \in Documents : \A key \in Keys(doc) : acked'[key] # Nothing =>
          /\ file'[doc] # Nothing /\ file'[doc][key] = acked'[key].to
          /\ doc = "settings" => memory'[key] = acked'[key].to
    BY <1>0, <1>1, <1>4 DEF AckedIsKept, Keys
  <2> QED
    BY <1>3, <2>1 DEF AckedIsKept
<1> QED
  BY <1>5, <1>6, <1>7 DEF StoreInv

LEMMA StoreStep == StoreInv /\ [StoreNext]_localVars => StoreInv'
<1> USE StoreAssumption
<1> SUFFICES ASSUME StoreInv, [StoreNext]_localVars PROVE StoreInv'
  OBVIOUS
<1>1. ASSUME NEW c \in Savers, NEW id \in PresetIds, SavePreset(c, id) \/ RemovePreset(c, id) PROVE StoreInv'
  <2>1. PICK v \in Nat \cup {Nothing} : Start(c, "presets", id, v)
    <3>1. serial + 1 \in Nat
      BY DEF StoreInv, StoreTypes
    <3> QED
      BY <1>1, <3>1 DEF SavePreset, RemovePreset
  <2>2. "presets" \in Documents /\ id \in Keys("presets")
    BY DEF Documents, Keys
  <2> QED
    BY <2>1, <2>2, CallStarts
<1>2. ASSUME NEW c \in Savers, NEW f \in Fields, NEW v \in Values, ApplySetting(c, f, v) PROVE StoreInv'
  <2>1. "settings" \in Documents /\ f \in Keys("settings") /\ v \in Nat
    BY DEF Documents, Keys
  <2> QED
    BY <1>2, <2>1, CallStarts DEF ApplySetting
<1>3. CASE UNCHANGED localVars
  BY <1>3 DEF localVars, StoreInv, StoreTypes, CallTypes, CallTyped, CallsExclude, AckedIsKept, Held, Saving, Refuses
<1> QED
  BY <1>1, <1>2, <1>3, LockKept, ChangeKept, SaveTempKept, SaveJSONKept, KilledKept DEF StoreNext

\* Any presets, fields and bounds, any number of requests, failed writes and
\* kills: what was acknowledged is in the file and in memory until the next
\* call on it, and no setting leaves its bounds (store.go, settings.go:105-133,
\* SettingsSet of server.go, presets of operations.go).
THEOREM SavedStaysSaved == StoreSpec => []SavedIsKept
<1> USE StoreAssumption
<1>1. StoreInv => SavedIsKept
  <2> SUFFICES ASSUME StoreInv PROVE SavedIsKept
    OBVIOUS
  <2>0. StoreTypes /\ CallTypes /\ CallsExclude /\ AckedIsKept
    BY DEF StoreInv
  <2>1. kills = 0 => temps = {call[c].number : c \in {d \in Savers : call[d].step = "rename"}}
    BY <2>0 DEF CallsExclude
  <2>2. \A doc \in DOMAIN file : \A key \in Keys(doc) :
          acked[key] # Nothing =>
            /\ file[doc] # Nothing /\ file[doc][key] = acked[key].to
            /\ doc = "settings" => memory[key] = acked[key].to
    BY <2>0 DEF AckedIsKept, StoreTypes
  <2> QED
    BY <2>0, <2>1, <2>2 DEF SavedIsKept, StoreTypes
<1> QED
  BY <1>1, StoreInitInv, StoreStep, PTL DEF StoreSpec

(* -------------------------- the two-phase writes ------------------------- *)
\* A token in the store is what was granted, by this process, and was never
\* presented.
Stored ==
  \A t \in Tokens : items[t] # None =>
    /\ granted[t] # None
    /\ granted[t].write = items[t].write /\ granted[t].expires = items[t].expires
    /\ granted[t].life = restarts
    /\ t \notin tried

\* A token that somebody has presented, or is about to, was granted.
Presented ==
  /\ \A t \in tried : granted[t] # None
  /\ \A p \in Procs : pc[p] \in {"confirm", "consume"} => granted[job[p].token] # None

IInv == TypeOK /\ Stored /\ Presented /\ WriteIsPreviewed /\ FileFollowsMemory

USE TTLAssumption, BoundAssumption, NoneAssumption

LEMMA InitIInv == Init => IInv
<1> SUFFICES ASSUME Init PROVE IInv
  OBVIOUS
<1>1. NoJob \in Jobs
  BY DEF NoJob, Job, Jobs
<1>2. TypeOK
  <2>1. unsaved \in BOOLEAN
    BY Zenon DEF Init
  <2>2. clock \in 0..MaxTime /\ restarts \in 0..MaxRestarts /\ sets \in Nat
    BY DEF Init
  <2>3. /\ job \in [Procs -> Jobs] /\ pc \in [Procs -> Steps]
        /\ \A p \in Procs : pc[p] = "idle"
    BY <1>1 DEF Init, Steps
  <2>4. /\ items \in [Tokens -> Permits \cup {None}]
        /\ granted \in [Tokens -> Grants \cup {None}] /\ tried \subseteq Tokens
    BY DEF Init
  <2>5. ttl \in TTLs /\ settings \in TTLs /\ disk \in TTLs
    BY DEF Init
  <2> QED BY <2>1, <2>2, <2>3, <2>4, <2>5 DEF TypeOK
<1>3. Stored /\ Presented /\ WriteIsPreviewed /\ FileFollowsMemory
  BY DEF Init, Stored, Presented, WriteIsPreviewed, FileFollowsMemory
<1> QED BY <1>2, <1>3 DEF IInv

\* The ways a step changes the request of a process.
JobStep(p) ==
  \/ job' = job
  \/ job' = [job EXCEPT ![p] = NoJob]
  \/ \E w \in Writes, t \in Tokens \cup {None} :
       job' = [job EXCEPT ![p] = Job(w, t)]
  \/ \E v \in TTLs : job' = [job EXCEPT ![p] = [NoJob EXCEPT !.ttl = v]]
  \/ job' = [job EXCEPT ![p].now = clock]

LEMMA JobUpdate ==
  ASSUME TypeOK, NEW p \in Procs, JobStep(p)
  PROVE  job' \in [Procs -> Jobs]
<1>1. job \in [Procs -> Jobs] /\ clock \in 0..MaxTime
  BY DEF TypeOK
<1>2. NoJob \in Jobs
  BY DEF NoJob, Job, Jobs
<1>3. \A w \in Writes, t \in Tokens \cup {None} : Job(w, t) \in Jobs
  BY DEF Job, Jobs
<1>4. \A v \in TTLs : [NoJob EXCEPT !.ttl = v] \in Jobs
  BY DEF NoJob, Job, Jobs
<1>5. [job[p] EXCEPT !.now = clock] \in Jobs
  BY <1>1 DEF Jobs
<1> QED
  BY <1>1, <1>2, <1>3, <1>4, <1>5 DEF JobStep

\* What every step of one process leaves to the others.
LEMMA Elsewhere ==
  ASSUME TypeOK, NEW p \in Procs, JobStep(p), NEW s \in Steps, Goto(p, s)
  PROVE  /\ pc' \in [Procs -> Steps] /\ job' \in [Procs -> Jobs]
         /\ pc'[p] = s
         /\ \A q \in Procs \ {p} : pc'[q] = pc[q] /\ job'[q] = job[q]
<1>1. job \in [Procs -> Jobs] /\ pc \in [Procs -> Steps]
  BY DEF TypeOK
<1>2. job' \in [Procs -> Jobs]
  BY JobUpdate
<1> QED BY <1>1, <1>2 DEF Goto, JobStep

\* What a process returns with.
LEMMA Returned ==
  ASSUME TypeOK, NEW p \in Procs, Return(p)
  PROVE  /\ pc' \in [Procs -> Steps] /\ job' \in [Procs -> Jobs]
         /\ pc'[p] = "idle"
         /\ \A q \in Procs \ {p} : pc'[q] = pc[q] /\ job'[q] = job[q]
<1>1. JobStep(p) /\ "idle" \in Steps /\ Goto(p, "idle")
  BY DEF Return, JobStep, Steps
<1> QED BY <1>1, Elsewhere

LEMMA StepEntryWrite ==
  ASSUME IInv, NEW p \in Procs, NEW w \in Writes, NEW t \in Tokens \cup {None}, EntryWrite(p, w, t)
  PROVE  IInv'
<1> DEFINE s == IF t = None THEN "preview" ELSE "confirm"
<1>1. TypeOK /\ JobStep(p) /\ s \in Steps /\ Goto(p, s)
  BY DEF IInv, EntryWrite, JobStep, Steps
<1> HIDE DEF s
<1>2. /\ pc' \in [Procs -> Steps] /\ job' \in [Procs -> Jobs] /\ pc'[p] = s
      /\ \A q \in Procs \ {p} : pc'[q] = pc[q] /\ job'[q] = job[q]
  BY <1>1, Elsewhere
<1>3. job'[p].write = w /\ job'[p].token = t
  BY <1>1 DEF TypeOK, EntryWrite, Job
<1>4. s \in {"preview", "confirm"} /\ (s = "confirm" => t # None /\ granted[t] # None)
  BY DEF s, EntryWrite
<1>5. UNCHANGED <<storeVars, fileVars, clock, restarts, history>>
  BY DEF EntryWrite
<1>6. TypeOK'
  BY <1>1, <1>2, <1>3, <1>4, <1>5 DEF TypeOK, storeVars, fileVars, history
<1>7. Stored' /\ FileFollowsMemory'
  BY <1>5 DEF IInv, Stored, FileFollowsMemory, storeVars, fileVars, history
<1>8. Presented' /\ WriteIsPreviewed'
  BY <1>2, <1>3, <1>4, <1>5 DEF IInv, Presented, WriteIsPreviewed, history
<1> QED BY <1>6, <1>7, <1>8 DEF IInv

LEMMA StepNow ==
  ASSUME IInv, NEW p \in Procs, Now(p)
  PROVE  IInv'
<1> DEFINE s == IF pc[p] = "preview" THEN "issue" ELSE "consume"
<1>1. TypeOK /\ UNCHANGED <<storeVars, fileVars, clock, restarts, history>>
  BY DEF IInv, Now
<1>2. Stored' /\ FileFollowsMemory'
  BY <1>1 DEF IInv, Stored, FileFollowsMemory, storeVars, fileVars, history
<1>3. CASE Return(p)
  <2>1. /\ pc' \in [Procs -> Steps] /\ job' \in [Procs -> Jobs] /\ pc'[p] = "idle"
        /\ \A q \in Procs \ {p} : pc'[q] = pc[q] /\ job'[q] = job[q]
    BY <1>1, <1>3, Returned
  <2>2. TypeOK'
    BY <1>1, <2>1 DEF TypeOK, storeVars, fileVars, history
  <2>3. Presented' /\ WriteIsPreviewed'
    BY <1>1, <2>1 DEF IInv, Presented, WriteIsPreviewed, history
  <2> QED BY <1>2, <2>2, <2>3 DEF IInv
<1>4. CASE job' = [job EXCEPT ![p].now = clock] /\ Goto(p, s)
  <2>1. JobStep(p) /\ s \in Steps
    BY <1>4 DEF JobStep, Steps
  <2>2. job'[p].token = job[p].token /\ job'[p].write = job[p].write
    BY <1>4, <1>1 DEF TypeOK, Jobs
  <2>3. /\ s \in {"issue", "consume"}
        /\ s = "issue" => job[p].write # None
        /\ s = "consume" => job[p].token # None /\ granted[job[p].token] # None
    BY <1>1 DEF Now, TypeOK, Presented, IInv
  <2> HIDE DEF s
  <2>4. /\ pc' \in [Procs -> Steps] /\ job' \in [Procs -> Jobs] /\ pc'[p] = s
        /\ \A q \in Procs \ {p} : pc'[q] = pc[q] /\ job'[q] = job[q]
    BY <1>1, <1>4, <2>1, Elsewhere
  <2>5. TypeOK'
    BY <1>1, <2>2, <2>3, <2>4 DEF TypeOK, storeVars, fileVars, history
  <2>6. Presented' /\ WriteIsPreviewed'
    BY <1>1, <2>2, <2>3, <2>4 DEF IInv, Presented, WriteIsPreviewed, history
  <2> QED BY <1>2, <2>5, <2>6 DEF IInv
<1> QED BY <1>3, <1>4 DEF Now

LEMMA StepExecute ==
  ASSUME IInv, NEW p \in Procs, Execute(p)
  PROVE  IInv'
<1>1. TypeOK /\ Return(p) /\ UNCHANGED <<storeVars, fileVars, clock, restarts, history>>
  BY DEF IInv, Execute
<1>2. /\ pc' \in [Procs -> Steps] /\ job' \in [Procs -> Jobs] /\ pc'[p] = "idle"
      /\ \A q \in Procs \ {p} : pc'[q] = pc[q] /\ job'[q] = job[q]
  BY <1>1, Returned
<1>3. TypeOK'
  BY <1>1, <1>2 DEF TypeOK, storeVars, fileVars, history
<1>4. Stored' /\ FileFollowsMemory'
  BY <1>1 DEF IInv, Stored, FileFollowsMemory, storeVars, fileVars, history
<1>5. Presented' /\ WriteIsPreviewed'
  BY <1>1, <1>2 DEF IInv, Presented, WriteIsPreviewed, history
<1> QED BY <1>3, <1>4, <1>5 DEF IInv

LEMMA StepIssue ==
  ASSUME IInv, NEW p \in Procs, Issue(p)
  PROVE  IInv'
<1>1. TypeOK /\ Return(p) /\ UNCHANGED <<ttl, fileVars, clock, restarts, tried>>
  BY DEF IInv, Issue
<1> DEFINE permit == [write |-> job[p].write, expires |-> job[p].now + ttl]
           grant  == [write |-> permit.write, expires |-> permit.expires, life |-> restarts]
<1>2. PICK t \in Tokens :
        /\ granted[t] = None
        /\ items' = [Pruned(job[p].now) EXCEPT ![t] = permit]
        /\ granted' = [granted EXCEPT ![t] = grant]
  BY DEF Issue
<1>3. job[p].write \in Writes /\ job[p].now \in 0..MaxTime /\ ttl \in TTLs /\ restarts \in 0..MaxRestarts
  BY <1>1 DEF Issue, TypeOK, Jobs
<1>4. job[p].now + ttl \in Times
  BY <1>3 DEF Times
<1>5. permit \in Permits /\ grant \in Grants
  BY <1>3, <1>4 DEF Permits, Grants
<1>6. grant # None /\ grant.write = permit.write /\ grant.expires = permit.expires /\ grant.life = restarts
  BY <1>5
<1> HIDE DEF permit, grant
<1>7. /\ pc' \in [Procs -> Steps] /\ job' \in [Procs -> Jobs] /\ pc'[p] = "idle"
      /\ \A q \in Procs \ {p} : pc'[q] = pc[q] /\ job'[q] = job[q]
  BY <1>1, Returned
<1>8. /\ items' \in [Tokens -> Permits \cup {None}] /\ items'[t] = permit
      /\ \A u \in Tokens \ {t} : items'[u] = None \/ items'[u] = items[u]
  BY <1>1, <1>2, <1>5 DEF Pruned, TypeOK
<1>9. /\ granted' \in [Tokens -> Grants \cup {None}] /\ granted'[t] = grant
      /\ \A u \in Tokens \ {t} : granted'[u] = granted[u]
  BY <1>1, <1>2, <1>5 DEF TypeOK
<1>10. TypeOK'
  BY <1>1, <1>7, <1>8, <1>9 DEF TypeOK, fileVars
<1>11. Stored'
  <2>1. t \notin tried
    BY <1>2 DEF IInv, Presented
  <2> QED BY <1>1, <1>6, <1>8, <1>9, <2>1 DEF IInv, Stored
<1>12. Presented' /\ WriteIsPreviewed'
  BY <1>1, <1>2, <1>6, <1>7, <1>9 DEF IInv, Presented, WriteIsPreviewed, TypeOK
<1>13. FileFollowsMemory'
  BY <1>1 DEF IInv, FileFollowsMemory, fileVars
<1> QED BY <1>10, <1>11, <1>12, <1>13 DEF IInv

LEMMA StepConsume ==
  ASSUME IInv, NEW p \in Procs, Consume(p)
  PROVE  IInv'
<1> DEFINE t  == job[p].token
           ok == items[t] # None /\ job[p].now < items[t].expires /\ Hash(items[t].write) = Hash(job[p].write)
<1>1. TypeOK /\ UNCHANGED <<ttl, fileVars, clock, restarts, granted>>
  BY DEF IInv, Consume
<1>2. t \in Tokens /\ granted[t] # None
  BY <1>1 DEF Consume, TypeOK, Jobs, IInv, Presented
<1>3. /\ items' = [items EXCEPT ![t] = None] /\ tried' = tried \cup {t}
      /\ IF ok THEN Goto(p, "execute") /\ UNCHANGED job ELSE Return(p)
  BY DEF Consume, Burn
<1>4. ok => granted[t].write = job[p].write /\ job[p].now < granted[t].expires /\ granted[t].life = restarts
  BY <1>2 DEF IInv, Stored, Hash
<1> HIDE DEF t, ok
<1>5. items' \in [Tokens -> Permits \cup {None}] /\ tried' \subseteq Tokens
  BY <1>1, <1>2, <1>3 DEF TypeOK
<1>6. Stored'
  BY <1>1, <1>2, <1>3 DEF IInv, Stored, TypeOK
<1>7. FileFollowsMemory'
  BY <1>1 DEF IInv, FileFollowsMemory, fileVars
<1>8. CASE ok
  <2>1. JobStep(p) /\ "execute" \in Steps /\ Goto(p, "execute") /\ job' = job
    BY <1>3, <1>8 DEF JobStep, Steps
  <2>2. /\ pc' \in [Procs -> Steps] /\ job' \in [Procs -> Jobs] /\ pc'[p] = "execute"
        /\ \A q \in Procs \ {p} : pc'[q] = pc[q] /\ job'[q] = job[q]
    BY <1>1, <2>1, Elsewhere
  <2>3. TypeOK'
    BY <1>1, <1>5, <2>1, <2>2 DEF TypeOK, fileVars, Consume
  <2>4. Presented'
    BY <1>1, <1>2, <1>3, <2>2 DEF IInv, Presented
  <2>5. WriteIsPreviewed'
    BY <1>1, <1>2, <1>4, <1>8, <2>1, <2>2 DEF IInv, WriteIsPreviewed, t
  <2> QED BY <1>6, <1>7, <2>3, <2>4, <2>5 DEF IInv
<1>9. CASE ~ok
  <2>1. /\ pc' \in [Procs -> Steps] /\ job' \in [Procs -> Jobs] /\ pc'[p] = "idle"
        /\ \A q \in Procs \ {p} : pc'[q] = pc[q] /\ job'[q] = job[q]
    BY <1>1, <1>3, <1>9, Returned
  <2>2. TypeOK'
    BY <1>1, <1>5, <2>1 DEF TypeOK, fileVars
  <2>3. Presented' /\ WriteIsPreviewed'
    BY <1>1, <1>2, <1>3, <2>1 DEF IInv, Presented, WriteIsPreviewed
  <2> QED BY <1>6, <1>7, <2>2, <2>3 DEF IInv
<1> QED BY <1>8, <1>9

LEMMA StepSettingsSet ==
  ASSUME IInv, NEW p \in Procs, NEW v \in TTLs, SettingsSet(p, v)
  PROVE  IInv'
<1>1. /\ TypeOK /\ JobStep(p) /\ "save" \in Steps /\ Goto(p, "save")
      /\ UNCHANGED <<storeVars, fileVars, clock, restarts, history>>
  BY DEF IInv, SettingsSet, JobStep, Steps
<1>2. /\ pc' \in [Procs -> Steps] /\ job' \in [Procs -> Jobs] /\ pc'[p] = "save"
      /\ \A q \in Procs \ {p} : pc'[q] = pc[q] /\ job'[q] = job[q]
  BY <1>1, Elsewhere
<1>3. TypeOK'
  BY <1>1, <1>2 DEF TypeOK, storeVars, fileVars, history
<1>4. Stored' /\ FileFollowsMemory'
  BY <1>1 DEF IInv, Stored, FileFollowsMemory, storeVars, fileVars, history
<1>5. Presented' /\ WriteIsPreviewed'
  BY <1>1, <1>2 DEF IInv, Presented, WriteIsPreviewed, history
<1> QED BY <1>3, <1>4, <1>5 DEF IInv

LEMMA StepSave ==
  ASSUME IInv, NEW p \in Procs, Save(p)
  PROVE  IInv'
<1>1. /\ TypeOK /\ UNCHANGED <<storeVars, clock, restarts, history>>
      /\ job[p].ttl \in TTLs /\ sets' = sets + 1 /\ settings' = job[p].ttl
  BY DEF IInv, Save, TypeOK, Jobs
<1>2. CASE disk' = job[p].ttl /\ unsaved' = FALSE /\ Goto(p, "apply") /\ job' = job
  <2>1. JobStep(p) /\ "apply" \in Steps
    BY <1>2 DEF JobStep, Steps
  <2>2. /\ pc' \in [Procs -> Steps] /\ job' \in [Procs -> Jobs] /\ pc'[p] = "apply"
        /\ \A q \in Procs \ {p} : pc'[q] = pc[q] /\ job'[q] = job[q]
    BY <1>1, <1>2, <2>1, Elsewhere
  <2>3. unsaved' \in BOOLEAN
    BY <1>2, Zenon
  <2>4. TypeOK'
    BY <1>1, <1>2, <2>2, <2>3 DEF TypeOK, storeVars, history
  <2>5. Stored' /\ FileFollowsMemory'
    BY <1>1, <1>2 DEF IInv, Stored, FileFollowsMemory, storeVars, history
  <2>6. Presented' /\ WriteIsPreviewed'
    BY <1>1, <2>2 DEF IInv, Presented, WriteIsPreviewed, history
  <2> QED BY <2>4, <2>5, <2>6 DEF IInv
<1>3. CASE unsaved' = TRUE /\ Return(p) /\ disk' = disk
  <2>1. /\ pc' \in [Procs -> Steps] /\ job' \in [Procs -> Jobs] /\ pc'[p] = "idle"
        /\ \A q \in Procs \ {p} : pc'[q] = pc[q] /\ job'[q] = job[q]
    BY <1>1, <1>3, Returned
  <2>2. unsaved' \in BOOLEAN
    BY <1>3, Zenon
  <2>3. TypeOK'
    BY <1>1, <1>3, <2>1, <2>2 DEF TypeOK, storeVars, history
  <2>4. Stored' /\ FileFollowsMemory'
    BY <1>1, <1>3 DEF IInv, Stored, FileFollowsMemory, storeVars, history
  <2>5. Presented' /\ WriteIsPreviewed'
    BY <1>1, <2>1 DEF IInv, Presented, WriteIsPreviewed, history
  <2> QED BY <2>3, <2>4, <2>5 DEF IInv
<1> QED BY <1>2, <1>3 DEF Save

LEMMA StepApply ==
  ASSUME IInv, NEW p \in Procs, Apply(p)
  PROVE  IInv'
<1>1. /\ TypeOK /\ Return(p) /\ job[p].ttl \in TTLs /\ ttl' = job[p].ttl
      /\ UNCHANGED <<items, fileVars, clock, restarts, history>>
  BY DEF IInv, Apply, TypeOK, Jobs
<1>2. /\ pc' \in [Procs -> Steps] /\ job' \in [Procs -> Jobs] /\ pc'[p] = "idle"
      /\ \A q \in Procs \ {p} : pc'[q] = pc[q] /\ job'[q] = job[q]
  BY <1>1, Returned
<1>3. TypeOK'
  BY <1>1, <1>2 DEF TypeOK, fileVars, history
<1>4. Stored' /\ FileFollowsMemory'
  BY <1>1 DEF IInv, Stored, FileFollowsMemory, fileVars, history
<1>5. Presented' /\ WriteIsPreviewed'
  BY <1>1, <1>2 DEF IInv, Presented, WriteIsPreviewed, history
<1> QED BY <1>3, <1>4, <1>5 DEF IInv

LEMMA StepTick ==
  ASSUME IInv, Tick
  PROVE  IInv'
<1>1. clock' \in 0..MaxTime /\ UNCHANGED <<storeVars, fileVars, pc, job, restarts, history>>
  BY DEF IInv, TypeOK, Tick
<1>2. TypeOK'
  BY <1>1 DEF IInv, TypeOK, storeVars, fileVars, history
<1>3. Stored' /\ FileFollowsMemory' /\ Presented' /\ WriteIsPreviewed'
  BY <1>1 DEF IInv, Stored, FileFollowsMemory, Presented, WriteIsPreviewed, storeVars, fileVars, history
<1> QED BY <1>2, <1>3 DEF IInv

LEMMA StepRestart ==
  ASSUME IInv, Restart
  PROVE  IInv'
<1>1. NoJob \in Jobs
  BY DEF NoJob, Job, Jobs
<1>2. unsaved' \in BOOLEAN
  BY Zenon DEF Restart
<1>3. /\ items' \in [Tokens -> Permits \cup {None}] /\ \A t \in Tokens : items'[t] = None
      /\ pc' \in [Procs -> Steps] /\ \A p \in Procs : pc'[p] = "idle"
  BY DEF Restart, Steps
<1>4. ttl' = DefaultTTL /\ settings' = disk /\ sets' = 0 /\ restarts' \in 0..MaxRestarts
  BY DEF Restart, IInv, TypeOK
<1>5. job' \in [Procs -> Jobs]
  BY <1>1 DEF Restart
<1>6. UNCHANGED <<disk, clock, granted, tried>>
  BY DEF Restart, history
<1>7. TypeOK'
  BY <1>2, <1>3, <1>4, <1>5, <1>6 DEF IInv, TypeOK
<1>8. Stored' /\ FileFollowsMemory' /\ Presented' /\ WriteIsPreviewed'
  BY <1>3, <1>4, <1>6 DEF IInv, Stored, FileFollowsMemory, Presented, WriteIsPreviewed
<1> QED BY <1>7, <1>8 DEF IInv

\* The invariant of the two-phase writes holds of every reachable state.
THEOREM Inductive == Spec => []IInv
<1>1. ASSUME IInv, [Next]_vars PROVE IInv'
  <2>1. CASE Next
    BY <1>1, <2>1, StepEntryWrite, StepSettingsSet, StepNow, StepIssue, StepConsume, StepExecute,
       StepSave, StepApply, StepTick, StepRestart DEF Next
  <2>2. CASE UNCHANGED vars
    BY <1>1, <2>2 DEF IInv, TypeOK, Stored, Presented, WriteIsPreviewed, FileFollowsMemory,
       vars, storeVars, fileVars, history
  <2> QED BY <1>1, <2>1, <2>2
<1> QED BY InitIInv, <1>1, PTL DEF Spec

\* Every variable has its type, at any length of a run.
THEOREM TypeCorrect == Spec => []TypeOK
<1>1. IInv => TypeOK
  BY DEF IInv
<1> QED BY Inductive, <1>1, PTL

\* A destructive write is executed only as it was previewed (server.go:637-687).
THEOREM OnlyPreviewedWrites == Spec => []WriteIsPreviewed
<1>1. IInv => WriteIsPreviewed
  BY DEF IInv
<1> QED BY Inductive, <1>1, PTL

\* The file keeps the setting that memory keeps (server.go:71-89).
THEOREM FileIsMemory == Spec => []FileFollowsMemory
<1>1. IInv => FileFollowsMemory
  BY DEF IInv
<1> QED BY Inductive, <1>1, PTL

\* A token that was presented permits nothing any more (confirm.go:123-138): a
\* step that executes a write takes its token out of the store, where no token
\* is that was ever tried.
THEOREM TriedOnce == Spec => TokenIsTriedOnce
<1> DEFINE Once == \A p \in Procs : pc[p] = "consume" /\ pc'[p] = "execute" => job[p].token \notin tried
<1>1. ASSUME IInv, [Next]_vars PROVE [Once]_vars
  <2> SUFFICES ASSUME Next, NEW p \in Procs, pc[p] = "consume", pc'[p] = "execute"
               PROVE  job[p].token \notin tried
    BY <1>1
  <2>1. pc \in [Procs -> Steps] /\ job[p].token \in Tokens
    BY <1>1 DEF IInv, TypeOK, Jobs
  <2>2. Consume(p)
    BY <2>1 DEF Next, EntryWrite, SettingsSet, Now, Issue, Consume, Execute, Save, Apply, Tick, Restart, Return, Goto
  <2>3. items[job[p].token] # None
    BY <2>1, <2>2 DEF Consume, Return, Goto
  <2> QED BY <1>1, <2>1, <2>3 DEF IInv, Stored
<1> QED BY Inductive, <1>1, PTL DEF Spec, TokenIsTriedOnce

(* --------------------------- the digest sessions ------------------------- *)
Row == Seq(STRING)
DigestTypes ==
  /\ shape \in Shapes /\ used \subseteq CursorIds /\ hour \in Nat
  /\ DOMAIN sessions \subseteq used /\ loose \subseteq used
  /\ \A id \in DOMAIN sessions :
       /\ sessions[id] \in [rows : Seq(Row), offset : Nat, truncated : BOOLEAN, expires : Nat]
       /\ sessions[id].offset <= Len(sessions[id].rows)
  /\ order \in [CursorIds -> SUBSET CursorIds] /\ later \in [CursorIds -> SUBSET CursorIds]
  /\ born \in [CursorIds -> Nat] /\ DOMAIN handed = CursorIds

\* What was handed out ends at the offset, and the last answer says whether
\* there is more.
HandedToOffset ==
  \A id \in DOMAIN sessions \ loose :
    /\ handed[id] = SubSeq(sessions[id].rows, 1, sessions[id].offset)
    /\ reply.kind = "rows" /\ reply.id = id => reply.done = (sessions[id].offset >= Len(sessions[id].rows))

\* A session behind another was used later; who is gone was old or little used.
GoneForReason(id) == \E s \in Shapes : Cardinality(later[id]) >= s.capacity \/ hour >= born[id] + s.ttl
Gone ==
  /\ \A id \in DOMAIN sessions :
       /\ order[id] \subseteq later[id]
       /\ \E s \in Shapes : sessions[id].expires >= born[id] + s.ttl
  /\ \A id \in used \ DOMAIN sessions : GoneForReason(id)
  /\ reply.kind = "unknown" => reply.id \in used \ DOMAIN sessions

DigestInv == DigestTypes /\ HandedToOffset /\ Gone

USE DigestAssumption

LEMMA IdsAreFinite ==
  ASSUME NEW S \in SUBSET CursorIds, NEW T \in SUBSET S
  PROVE  Cardinality(T) <= Cardinality(S) /\ Cardinality(S) \in Nat /\ Cardinality(T) \in Nat
<1>1. IsFiniteSet(CursorIds)
  BY FS_Interval DEF CursorIds
<1> QED
  BY <1>1, FS_Subset, FS_CardinalityType

\* A batch follows what was handed out before.
LEMMA Prefixes ==
  ASSUME NEW rows \in Seq(Row), NEW m \in 0..Len(rows), NEW n \in m..Len(rows)
  PROVE  /\ SubSeq(rows, 1, m) \o SubSeq(rows, m + 1, n) = SubSeq(rows, 1, n)
         /\ SubSeq(rows, 1, 0) = <<>>
         /\ SubSeq(rows, 1, n) \in Seq(Row)
         /\ SubSeq(rows, 1, n) = rows <=> n >= Len(rows)
  OBVIOUS

\* Who is gone stays gone for a reason.
LEMMA StaysGone ==
  ASSUME DigestInv, NEW id \in CursorIds, later[id] \subseteq later'[id], later'[id] \in SUBSET CursorIds,
         born'[id] = born[id], hour' >= hour, hour' \in Nat, GoneForReason(id)
  PROVE  GoneForReason(id)'
<1>1. Cardinality(later[id]) <= Cardinality(later'[id]) /\ Cardinality(later[id]) \in Nat /\ Cardinality(later'[id]) \in Nat
  BY IdsAreFinite
<1>2. PICK s \in Shapes : Cardinality(later[id]) >= s.capacity \/ hour >= born[id] + s.ttl
  BY DEF GoneForReason
<1>3. s.capacity \in Nat /\ s.ttl \in Nat /\ born[id] \in Nat /\ hour \in Nat
  BY DEF DigestInv, DigestTypes
<1>4. Cardinality(later'[id]) >= s.capacity \/ hour' >= born'[id] + s.ttl
  BY <1>1, <1>2, <1>3
<1> QED
  BY <1>4 DEF GoneForReason

LEMMA DigestInitInv == DigestInit => DigestInv
<1> SUFFICES ASSUME DigestInit PROVE DigestInv
  OBVIOUS
<1>1. DOMAIN sessions = {}
  <2>1. sessions = <<>>
    BY DEF DigestInit
  <2> QED
    BY <2>1
<1>2. used = {} /\ loose = {} /\ hour = 0 /\ shape \in Shapes /\ reply.kind = "none"
      /\ order \in [CursorIds -> SUBSET CursorIds] /\ later \in [CursorIds -> SUBSET CursorIds]
      /\ born \in [CursorIds -> Nat] /\ DOMAIN handed = CursorIds
  BY DEF DigestInit
<1> QED
  BY <1>1, <1>2 DEF DigestInv, DigestTypes, HandedToOffset, Gone

LEMMA SearchKept ==
  ASSUME DigestInv, NEW id \in CursorIds, NEW rows \in RowSets, searchDigest(id, rows)
  PROVE  DigestInv'
<1>0. DigestTypes /\ HandedToOffset /\ Gone
  BY DEF DigestInv
<1> DEFINE all == {x \in DOMAIN sessions : NotExpired(x)} \cup {id}
           behind(x) == IF x = id THEN {} ELSE (order[x] \cap all) \cup {id}
           last == {x \in all : Cardinality(behind(x)) < shape.capacity}
           new == [rows |-> SubSeq(rows, 1, Smaller(Len(rows), shape.maxRows)), offset |-> 0,
                   truncated |-> Len(rows) > shape.maxRows, expires |-> hour + shape.ttl]
<1>1. /\ used = 1..(id - 1) /\ used' = used \cup {id}
      /\ order' = [x \in CursorIds |-> IF x \in last THEN behind(x) \cap last ELSE {}]
      /\ sessions' = [x \in last |-> IF x = id THEN new ELSE sessions[x]]
      /\ later' = [x \in CursorIds |-> IF x = id THEN {} ELSE later[x] \cup {id}]
      /\ born' = [born EXCEPT ![id] = hour] /\ handed' = [handed EXCEPT ![id] = <<>>]
      /\ reply'.kind = "digest" /\ UNCHANGED <<shape, hour, loose>>
  <2>1. reply'.kind = "digest"
    BY DEF searchDigest
  <2> QED
    BY <2>1 DEF searchDigest, Put, Uses
<1>2. id \notin used /\ id \notin DOMAIN sessions /\ id \notin loose /\ DOMAIN sessions \subseteq CursorIds
  BY <1>0, <1>1 DEF DigestTypes, CursorIds
<1>3. /\ shape.ttl \in Nat /\ shape.capacity \in Nat /\ shape.capacity > 0 /\ shape.maxRows \in Nat
      /\ hour \in Nat /\ rows \in Seq(Row)
  BY <1>0 DEF DigestTypes, Row
<1>4. id \in last /\ last \subseteq all /\ all \subseteq CursorIds /\ all \subseteq DOMAIN sessions \cup {id}
  <2>1. behind(id) = {} /\ Cardinality({}) = 0
    BY FS_EmptySet
  <2> QED
    BY <1>2, <1>3, <2>1
<1>5. /\ new.offset = 0 /\ new.expires = hour + shape.ttl /\ new.rows \in Seq(Row)
      /\ new \in [rows : Seq(Row), offset : Nat, truncated : BOOLEAN, expires : Nat]
      /\ SubSeq(new.rows, 1, 0) = <<>>
  <2>1. Smaller(Len(rows), shape.maxRows) \in 0..Len(rows)
    BY <1>3, LenProperties DEF Smaller
  <2>2. SubSeq(rows, 1, Smaller(Len(rows), shape.maxRows)) \in Seq(Row)
    BY <1>3, <2>1, Prefixes
  <2>3. (Len(rows) > shape.maxRows) \in BOOLEAN
    OBVIOUS
  <2>4. SubSeq(new.rows, 1, 0) = <<>>
    OBVIOUS
  <2> QED
    BY <1>3, <2>2, <2>3, <2>4
<1>6. DOMAIN sessions' = last /\ sessions'[id] = new /\ \A x \in last \ {id} : sessions'[x] = sessions[x]
  BY <1>1, <1>4
<1>7. \A x \in CursorIds : order'[x] = IF x \in last THEN behind(x) \cap last ELSE {}
  BY <1>1
<1>8. \A x \in all \ last : Cardinality(behind(x)) \in Nat => Cardinality(behind(x)) >= shape.capacity
  BY <1>3
<1>9. /\ \A x \in DOMAIN sessions \ all : hour >= sessions[x].expires
      /\ \A x \in all \ {id} : x \in DOMAIN sessions
  <2>1. \A x \in DOMAIN sessions : sessions[x].expires \in Nat
    BY <1>0 DEF DigestTypes
  <2> QED
    BY <1>3, <2>1 DEF NotExpired
<1> HIDE DEF new, last, all
<1>10. \A x \in CursorIds : /\ x # id => later'[x] = later[x] \cup {id} /\ born'[x] = born[x]
                            /\ later'[x] \in SUBSET CursorIds
       /\ later'[id] = {} /\ born'[id] = hour
  BY <1>0, <1>1 DEF DigestTypes
<1>11. DigestTypes'
  <2>1. order' \in [CursorIds -> SUBSET CursorIds]
    <3>1. \A x \in CursorIds : order'[x] \in SUBSET CursorIds
      BY <1>4, <1>7
    <3> QED
      BY <1>1, <3>1
  <2>2. later' \in [CursorIds -> SUBSET CursorIds] /\ born' \in [CursorIds -> Nat] /\ DOMAIN handed' = CursorIds
    BY <1>0, <1>1, <1>10 DEF DigestTypes
  <2>3. \A x \in DOMAIN sessions' :
          /\ sessions'[x] \in [rows : Seq(Row), offset : Nat, truncated : BOOLEAN, expires : Nat]
          /\ sessions'[x].offset <= Len(sessions'[x].rows)
    <3> SUFFICES ASSUME NEW x \in last
                 PROVE  /\ sessions'[x] \in [rows : Seq(Row), offset : Nat, truncated : BOOLEAN, expires : Nat]
                        /\ sessions'[x].offset <= Len(sessions'[x].rows)
      BY <1>6
    <3>1. CASE x = id
      <4>1. Len(new.rows) \in Nat
        BY <1>5, LenProperties
      <4> QED
        BY <1>5, <1>6, <3>1, <4>1
    <3>2. CASE x # id
      BY <1>0, <1>4, <1>6, <1>9, <3>2 DEF DigestTypes
    <3> QED
      BY <3>1, <3>2
  <2> QED
    BY <1>0, <1>1, <1>4, <1>6, <2>1, <2>2, <2>3 DEF DigestTypes
<1>12. HandedToOffset'
  <2> SUFFICES ASSUME NEW x \in last, x \notin loose
               PROVE  handed'[x] = SubSeq(sessions'[x].rows, 1, sessions'[x].offset)
    BY <1>1, <1>6 DEF HandedToOffset
  <2>1. CASE x = id
    BY <1>0, <1>1, <1>5, <1>6, <2>1 DEF DigestTypes
  <2>2. CASE x # id
    BY <1>0, <1>1, <1>4, <1>6, <1>9, <2>2 DEF HandedToOffset, DigestTypes
  <2> QED
    BY <2>1, <2>2
<1>13. ASSUME NEW x \in last
       PROVE  order'[x] \subseteq later'[x] /\ \E s \in Shapes : sessions'[x].expires >= born'[x] + s.ttl
  <2>1. CASE x = id
    <3>1. order'[id] = {}
      <4>1. behind(id) = {}
        OBVIOUS
      <4> QED
        BY <1>4, <1>7, <4>1
    <3>2. sessions'[id].expires = hour + shape.ttl /\ born'[id] = hour
      BY <1>5, <1>6, <1>10
    <3>3. sessions'[id].expires >= born'[id] + shape.ttl
      BY <1>3, <3>2
    <3> QED
      BY <1>0, <2>1, <3>1, <3>3 DEF DigestTypes
  <2>2. CASE x # id
    <3>1. x \in DOMAIN sessions /\ order[x] \subseteq later[x] /\ x \in CursorIds
      BY <1>0, <1>2, <1>4, <1>9, <2>2 DEF Gone
    <3>2. order'[x] \subseteq later'[x]
      BY <1>7, <1>10, <2>2, <3>1
    <3>3. \E s \in Shapes : sessions[x].expires >= born[x] + s.ttl
      BY <1>0, <3>1 DEF Gone
    <3> QED
      BY <1>6, <1>10, <2>2, <3>1, <3>2, <3>3
  <2> QED
    BY <2>1, <2>2
<1>14. ASSUME NEW x \in CursorIds, x # id, GoneForReason(x) PROVE GoneForReason(x)'
  <2>1. later[x] \subseteq later'[x] /\ later'[x] \in SUBSET CursorIds /\ born'[x] = born[x] /\ hour' = hour /\ hour' >= hour /\ hour' \in Nat
    BY <1>1, <1>3, <1>10, <1>14
  <2> QED
    BY <1>14, <2>1, StaysGone
<1>15. ASSUME NEW x \in used' \ DOMAIN sessions' PROVE GoneForReason(x)'
  <2>1. x # id /\ x \in used /\ x \in CursorIds /\ x \notin last
    BY <1>0, <1>1, <1>4, <1>6, <1>15 DEF DigestTypes
  <2>2. CASE x \notin DOMAIN sessions
    BY <1>0, <1>14, <2>1, <2>2 DEF Gone
  <2>3. CASE x \in DOMAIN sessions /\ x \notin all
    <3>1. PICK s \in Shapes : sessions[x].expires >= born[x] + s.ttl
      BY <1>0, <2>3 DEF Gone
    <3>2. hour >= sessions[x].expires /\ sessions[x].expires \in Nat /\ born[x] \in Nat /\ s.ttl \in Nat
      BY <1>0, <1>9, <2>1, <2>3 DEF DigestTypes
    <3>3. hour >= born[x] + s.ttl
      BY <1>3, <3>1, <3>2
    <3> QED
      BY <1>14, <2>1, <3>3 DEF GoneForReason
  <2>4. CASE x \in all
    <3>1. behind(x) \subseteq later'[x]
      <4>1. order[x] \subseteq later[x]
        BY <1>0, <1>9, <2>1, <2>4 DEF Gone
      <4> QED
        BY <1>10, <2>1, <4>1
    <3>2. Cardinality(behind(x)) <= Cardinality(later'[x]) /\ Cardinality(behind(x)) \in Nat /\ Cardinality(later'[x]) \in Nat
      BY <1>10, <2>1, <3>1, IdsAreFinite
    <3>4. Cardinality(behind(x)) >= shape.capacity
      BY <1>8, <2>1, <2>4, <3>2
    <3> HIDE DEF behind
    <3>3. Cardinality(later'[x]) >= shape.capacity
      BY <1>3, <3>2, <3>4
    <3> QED
      BY <1>0, <3>3 DEF GoneForReason, DigestTypes
  <2> QED
    BY <2>2, <2>3, <2>4
<1>16. Gone'
  BY <1>1, <1>6, <1>13, <1>15 DEF Gone
<1> QED
  BY <1>11, <1>12, <1>16 DEF DigestInv

LEMMA UnknownKept ==
  ASSUME DigestInv, NEW id \in CursorIds, NextUnknown(id) PROVE DigestInv'
<1>1. /\ id \in used \ DOMAIN sessions /\ reply'.kind = "unknown" /\ reply'.id = id
      /\ UNCHANGED <<shape, sessions, order, used, hour, handed, loose, later, born>>
  BY DEF NextUnknown
<1>2. DigestTypes' /\ HandedToOffset'
  BY <1>1 DEF DigestInv, DigestTypes, HandedToOffset
<1>3. Gone'
  BY <1>1 DEF DigestInv, Gone, GoneForReason
<1> QED
  BY <1>2, <1>3 DEF DigestInv

LEMMA ExpiredKept ==
  ASSUME DigestInv, NEW id \in CursorIds, NextExpired(id) PROVE DigestInv'
<1>0. DigestTypes /\ HandedToOffset /\ Gone
  BY DEF DigestInv
<1>1. /\ id \in DOMAIN sessions /\ hour >= sessions[id].expires /\ reply'.kind = "expired"
      /\ DOMAIN sessions' = DOMAIN sessions \ {id}
      /\ \A x \in DOMAIN sessions \ {id} : sessions'[x] = sessions[x]
      /\ order' = [x \in CursorIds |-> IF x = id THEN {} ELSE order[x] \ {id}]
      /\ UNCHANGED <<shape, used, hour, handed, loose, later, born>>
  <2>1. reply'.kind = "expired"
    BY DEF NextExpired
  <2>2. hour >= sessions[id].expires
    BY <1>0 DEF NextExpired, NotExpired, DigestTypes
  <2> QED
    BY <2>1, <2>2 DEF NextExpired, orderWithout
<1>2. order' \in [CursorIds -> SUBSET CursorIds] /\ \A x \in CursorIds : order'[x] \subseteq order[x]
  <2>1. \A x \in CursorIds : order'[x] \subseteq order[x] /\ order'[x] \in SUBSET CursorIds
    BY <1>0, <1>1 DEF DigestTypes
  <2> QED
    BY <1>1, <2>1
<1>3. DigestTypes' /\ HandedToOffset'
  BY <1>0, <1>1, <1>2 DEF DigestTypes, HandedToOffset
<1>4. GoneForReason(id)
  <2>1. PICK s \in Shapes : sessions[id].expires >= born[id] + s.ttl
    BY <1>0, <1>1 DEF Gone
  <2>2. sessions[id].expires \in Nat /\ born[id] \in Nat /\ s.ttl \in Nat /\ hour \in Nat
    BY <1>0, <1>1 DEF DigestTypes
  <2>3. hour >= born[id] + s.ttl
    BY <1>1, <2>1, <2>2
  <2> QED
    BY <2>3 DEF GoneForReason
<1>5. \A x \in used' \ DOMAIN sessions' : GoneForReason(x)'
  BY <1>0, <1>1, <1>4 DEF Gone, GoneForReason
<1>6. Gone'
  BY <1>0, <1>1, <1>2, <1>5 DEF Gone, DigestTypes
<1> QED
  BY <1>3, <1>6 DEF DigestInv

LEMMA CursorKept ==
  ASSUME DigestInv, NEW id \in DOMAIN sessions, NEW n \in Nat, NEW offset \in Nat, NEW isSeek \in BOOLEAN,
         isSeek \/ offset = 0, cursorNext(id, n, offset, isSeek)
  PROVE  DigestInv'
<1>0. DigestTypes /\ HandedToOffset /\ Gone
  BY DEF DigestInv
<1> DEFINE from0 == IF isSeek THEN offset ELSE sessions[id].offset
           w == Window(id, n, from0)
           rows == sessions[id].rows
<1>1. PICK fits \in BOOLEAN :
        /\ sessions' = [sessions EXCEPT ![id].offset = w.end]
        /\ reply' = [kind |-> "rows", id |-> id, done |-> w.end >= w.last, truncated |-> ~fits]
        /\ loose' = IF isSeek \/ ~fits THEN loose \cup {id} ELSE loose
        /\ handed' = [handed EXCEPT ![id] = IF id \in loose' THEN <<>>
                         ELSE @ \o SubSeq(sessions[id].rows, w.from + 1, w.end)]
  BY DEF cursorNext
<1>2. /\ order' = [x \in CursorIds |-> IF x \in DOMAIN sessions \ {id} THEN order[x] \cup {id} ELSE {}]
      /\ later' = [x \in CursorIds |-> IF x = id THEN {} ELSE later[x] \cup {id}]
      /\ UNCHANGED <<shape, used, hour, born>>
  BY DEF cursorNext, Touched, Uses
<1>3. /\ rows \in Seq(Row) /\ Len(rows) \in Nat /\ sessions[id].offset \in 0..Len(rows)
      /\ DOMAIN sessions \subseteq CursorIds /\ id \in CursorIds /\ id \in used
      /\ sessions[id] \in [rows : Seq(Row), offset : Nat, truncated : BOOLEAN, expires : Nat]
  BY <1>0, LenProperties DEF DigestTypes
<1>4. /\ w.from \in 0..Len(rows) /\ w.end \in w.from..Len(rows) /\ w.last = Len(rows)
      /\ ~isSeek => w.from = sessions[id].offset
  <2>1. from0 \in Nat /\ (~isSeek => from0 = sessions[id].offset)
    BY <1>3
  <2>2. BatchMax \in Nat
    OBVIOUS
  <2>3. /\ w.from = Smaller(from0, Len(rows)) /\ w.last = Len(rows)
        /\ w.end = Smaller(Smaller(from0, Len(rows)) + (IF n = 0 THEN BatchMax ELSE Smaller(n, BatchMax)), Len(rows))
    BY DEF Window
  <2>4. \A a, l, k \in Nat : Smaller(a, l) \in 0..l /\ Smaller(Smaller(a, l) + k, l) \in Smaller(a, l)..l
                              /\ (a <= l => Smaller(a, l) = a)
    BY DEF Smaller
  <2>5. (IF n = 0 THEN BatchMax ELSE Smaller(n, BatchMax)) \in Nat
    BY <2>2 DEF Smaller
  <2>6. Len(rows) \in Nat /\ (~isSeek => from0 <= Len(rows))
    BY <1>3, <2>1
  <2> DEFINE k == IF n = 0 THEN BatchMax ELSE Smaller(n, BatchMax)
             l == Len(rows)
  <2>7. w.from = Smaller(from0, l) /\ w.last = l /\ w.end = Smaller(Smaller(from0, l) + k, l)
    BY <2>3
  <2>8. k \in Nat /\ l \in Nat /\ from0 \in Nat
    BY <2>1, <2>5, <2>6
  <2> HIDE DEF w, from0, k, l
  <2>9. Smaller(from0, l) \in 0..l /\ Smaller(Smaller(from0, l) + k, l) \in Smaller(from0, l)..l
        /\ (from0 <= l => Smaller(from0, l) = from0)
    BY <2>4, <2>8
  <2>10. w.from \in 0..l /\ w.end \in w.from..l /\ w.last = l /\ (~isSeek => w.from = sessions[id].offset)
    BY <2>1, <2>6, <2>7, <2>9 DEF l
  <2> QED
    BY <2>10 DEF l
<1> HIDE DEF w, from0
<1>5. /\ DOMAIN sessions' = DOMAIN sessions
      /\ sessions'[id].rows = rows /\ sessions'[id].offset = w.end /\ sessions'[id].expires = sessions[id].expires
      /\ sessions'[id] \in [rows : Seq(Row), offset : Nat, truncated : BOOLEAN, expires : Nat]
      /\ \A x \in DOMAIN sessions \ {id} : sessions'[x] = sessions[x]
  <2>1. w.end \in Nat
    BY <1>3, <1>4
  <2> QED
    BY <1>1, <1>3, <2>1
<1>6. DigestTypes'
  <2>1. order' \in [CursorIds -> SUBSET CursorIds]
    <3>1. \A x \in CursorIds : (IF x \in DOMAIN sessions \ {id} THEN order[x] \cup {id} ELSE {}) \in SUBSET CursorIds
      BY <1>0, <1>3 DEF DigestTypes
    <3> QED
      BY <1>2, <3>1
  <2>2. later' \in [CursorIds -> SUBSET CursorIds]
    <3>1. \A x \in CursorIds : (IF x = id THEN {} ELSE later[x] \cup {id}) \in SUBSET CursorIds
      BY <1>0, <1>3 DEF DigestTypes
    <3> QED
      BY <1>2, <3>1
  <2>3. loose' \subseteq used' /\ DOMAIN handed' = CursorIds
    BY <1>0, <1>1, <1>2, <1>3 DEF DigestTypes
  <2>4. \A x \in DOMAIN sessions' :
          /\ sessions'[x] \in [rows : Seq(Row), offset : Nat, truncated : BOOLEAN, expires : Nat]
          /\ sessions'[x].offset <= Len(sessions'[x].rows)
    <3>1. w.end <= Len(rows)
      BY <1>3, <1>4
    <3>2. sessions'[id].offset <= Len(sessions'[id].rows)
      BY <1>5, <3>1
    <3> QED
      BY <1>0, <1>5, <3>2 DEF DigestTypes
  <2> QED
    BY <1>0, <1>2, <1>5, <2>1, <2>2, <2>3, <2>4 DEF DigestTypes
<1>7. HandedToOffset'
  <2> SUFFICES ASSUME NEW x \in DOMAIN sessions, x \notin loose'
               PROVE  /\ handed'[x] = SubSeq(sessions'[x].rows, 1, sessions'[x].offset)
                      /\ x = id => reply'.done = (sessions'[x].offset >= Len(sessions'[x].rows))
    BY <1>1, <1>5 DEF HandedToOffset
  <2>1. CASE x = id
    <3>1. ~isSeek /\ id \notin loose
      BY <1>1, <2>1
    <3>2. handed[id] = SubSeq(rows, 1, sessions[id].offset)
      BY <1>0, <3>1 DEF HandedToOffset
    <3>3. handed'[id] = SubSeq(rows, 1, w.from) \o SubSeq(rows, w.from + 1, w.end)
      BY <1>0, <1>1, <1>3, <1>4, <2>1, <3>1, <3>2 DEF DigestTypes
    <3> HIDE DEF rows
    <3>6. w.from \in 0..Len(rows) /\ w.end \in w.from..Len(rows) /\ rows \in Seq(Row)
      BY <1>3, <1>4
    <3>7. SubSeq(rows, 1, w.from) \o SubSeq(rows, w.from + 1, w.end) = SubSeq(rows, 1, w.end)
      BY <3>6, Prefixes, Zenon
    <3>4. handed'[id] = SubSeq(rows, 1, w.end)
      BY <3>3, <3>7
    <3>5. reply'.done = (w.end >= Len(rows))
      BY <1>1, <1>4
    <3> QED
      BY <1>5, <2>1, <3>4, <3>5
  <2>2. CASE x # id
    BY <1>0, <1>1, <1>5, <2>2 DEF HandedToOffset, DigestTypes
  <2> QED
    BY <2>1, <2>2
<1>8. ASSUME NEW x \in DOMAIN sessions
      PROVE  order'[x] \subseteq later'[x] /\ \E s \in Shapes : sessions'[x].expires >= born'[x] + s.ttl
  <2>1. order[x] \subseteq later[x] /\ x \in CursorIds
    BY <1>0, <1>3 DEF Gone
  <2>2. order'[x] \subseteq later'[x]
    BY <1>2, <2>1
  <2>3. sessions'[x].expires = sessions[x].expires /\ born'[x] = born[x]
    BY <1>2, <1>5
  <2> QED
    BY <1>0, <2>2, <2>3 DEF Gone
<1>9. ASSUME NEW x \in used \ DOMAIN sessions PROVE GoneForReason(x)'
  <2>1. x \in CursorIds /\ x # id /\ GoneForReason(x)
    BY <1>0 DEF DigestTypes, Gone
  <2>2. later[x] \subseteq later'[x] /\ later'[x] \in SUBSET CursorIds
    BY <1>0, <1>2, <1>3, <2>1 DEF DigestTypes
  <2>3. born'[x] = born[x] /\ hour' \in Nat /\ hour' >= hour
    BY <1>0, <1>2 DEF DigestTypes
  <2> QED
    BY <2>1, <2>2, <2>3, StaysGone
<1>10. Gone'
  <2>1. reply'.kind # "unknown"
    BY <1>1
  <2> QED
    BY <1>2, <1>5, <1>8, <1>9, <2>1 DEF Gone
<1> QED
  BY <1>6, <1>7, <1>10 DEF DigestInv

LEMMA DigestTickKept == ASSUME DigestInv, DigestTick PROVE DigestInv'
<1>0. DigestTypes /\ HandedToOffset /\ Gone
  BY DEF DigestInv
<1>1. hour' = hour + 1 /\ hour \in Nat
      /\ UNCHANGED <<shape, sessions, order, used, handed, loose, later, born, reply>>
  BY <1>0 DEF DigestTick, DigestTypes
<1>2. hour' \in Nat /\ hour' >= hour
  BY <1>1
<1>3. DigestTypes' /\ HandedToOffset'
  BY <1>0, <1>1, <1>2 DEF DigestTypes, HandedToOffset
<1>4. ASSUME NEW x \in used \ DOMAIN sessions PROVE GoneForReason(x)'
  <2>1. x \in CursorIds /\ GoneForReason(x) /\ later' = later /\ later[x] \in SUBSET CursorIds /\ born' = born
    BY <1>0, <1>1 DEF DigestTypes, Gone
  <2> QED
    BY <1>2, <2>1, StaysGone
<1> QED
  BY <1>0, <1>1, <1>3, <1>4 DEF DigestInv, Gone

LEMMA DigestStep == DigestInv /\ [DigestNext]_digestVars => DigestInv'
<1> SUFFICES ASSUME DigestInv, [DigestNext]_digestVars PROVE DigestInv'
  OBVIOUS
<1>1. ASSUME NEW id \in CursorIds, NEW rows \in RowSets, searchDigest(id, rows) PROVE DigestInv'
  BY <1>1, SearchKept
<1>2. ASSUME NEW id \in CursorIds, NextUnknown(id) PROVE DigestInv'
  BY <1>2, UnknownKept
<1>3. ASSUME NEW id \in CursorIds, NextExpired(id) PROVE DigestInv'
  BY <1>3, ExpiredKept
<1>4. ASSUME NEW id \in DOMAIN sessions, NEW n \in 0..BatchMax - 1, cursorNext(id, n, 0, FALSE) PROVE DigestInv'
  <2>1. n \in Nat
    OBVIOUS
  <2> QED
    BY <1>4, <2>1, CursorKept
<1>5. ASSUME NEW id \in DOMAIN sessions, NEW n \in 0..BatchMax - 1, NEW o \in 0..1, cursorNext(id, n, o, TRUE) PROVE DigestInv'
  <2>1. n \in Nat /\ o \in Nat
    OBVIOUS
  <2> QED
    BY <1>5, <2>1, CursorKept
<1>6. ASSUME NEW s \in Shapes, Configure(s) PROVE DigestInv'
  BY <1>6 DEF Configure, DigestInv, DigestTypes, HandedToOffset, Gone, GoneForReason
<1>7. CASE UNCHANGED digestVars
  BY <1>7 DEF digestVars, DigestInv, DigestTypes, HandedToOffset, Gone, GoneForReason
<1> QED
  BY <1>1, <1>2, <1>3, <1>4, <1>5, <1>6, <1>7, DigestTickKept DEF DigestNext

LEMMA DigestInvServes == DigestInv => DigestIsServed
<1> SUFFICES ASSUME DigestInv PROVE DigestIsServed
  OBVIOUS
<1>0. DigestTypes /\ HandedToOffset /\ Gone
  BY DEF DigestInv
<1>1. BatchesAreGapless
  <2> SUFFICES ASSUME NEW id \in DOMAIN sessions \ loose
               PROVE  /\ handed[id] = SubSeq(sessions[id].rows, 1, sessions[id].offset)
                      /\ reply.kind = "rows" /\ reply.id = id => reply.done = (handed[id] = sessions[id].rows)
    BY DEF BatchesAreGapless
  <2>1. handed[id] = SubSeq(sessions[id].rows, 1, sessions[id].offset)
    BY <1>0 DEF HandedToOffset
  <2>2. sessions[id].rows \in Seq(Row) /\ sessions[id].offset \in 0..Len(sessions[id].rows)
        /\ Len(sessions[id].rows) \in Nat
    BY <1>0, LenProperties DEF DigestTypes
  <2>3. (handed[id] = sessions[id].rows) <=> (sessions[id].offset >= Len(sessions[id].rows))
    <3>1. 0 \in 0..Len(sessions[id].rows) /\ sessions[id].offset \in 0..Len(sessions[id].rows)
      BY <2>2
    <3> QED
      BY <2>1, <2>2, <3>1, Prefixes
  <2>4. reply.kind = "rows" /\ reply.id = id => reply.done = (sessions[id].offset >= Len(sessions[id].rows))
    BY <1>0 DEF HandedToOffset
  <2>5. (handed[id] = sessions[id].rows) = (sessions[id].offset >= Len(sessions[id].rows))
    BY <2>3
  <2> QED
    BY <2>1, <2>4, <2>5, Zenon
<1>2. RecentlyUsedSurvive
  BY <1>0 DEF Gone, GoneForReason, RecentlyUsedSurvive
<1> QED
  BY <1>1, <1>2 DEF DigestIsServed

\* Whatever the searches return and whatever the settings are, a client that goes on
\* asking, without an offset and as long as no answer was cut by the response limit
\* (which drops a batch for good), is handed every row of a digest in order, none
\* twice, and is told of the last; and a digest is unknown only when it has expired or when as many others as
\* a capacity allows were used after it (cursor.go).
THEOREM DigestsAreServed == DigestSpec => []DigestIsServed
<1>1. DigestSpec => []DigestInv
  <2> HIDE DEF DigestInv
  <2> QED
    BY DigestInitInv, DigestStep, PTL DEF DigestSpec
<1> QED
  BY <1>1, DigestInvServes, PTL

(* ------------------- the intents of the user interface ------------------- *)
Report == [id : Intents, state : Final, from : Windows]
Registered == {i \in Intents : waiting[i] # "idle"}

IntentTypes ==
  /\ DOMAIN table \subseteq Registered /\ IsFiniteSet(Registered)
  /\ \A i \in DOMAIN table : table[i] \in [state : {"pending"} \cup Final, expires : Nat, nth : Nat]
  /\ calls \in Nat /\ elapsed \in Nat
  /\ waiting \in [Intents -> {"idle", "waiting", "returned"}]
  /\ since \in [Intents -> Nat]
  /\ result \in [Intents -> {"none", "pending", "expired"} \cup Final]
  /\ inbox \in [Windows -> SUBSET Intents] /\ handling \in [Windows -> SUBSET Intents]
  /\ reports \subseteq Report /\ told \in Seq(Report)

\* The table keeps the order of the calls, and nothing that waits expires.
InOrder ==
  /\ \A i \in DOMAIN table : table[i].nth <= calls /\ table[i].expires = since[i] + IntentTTL
  /\ \A i, j \in DOMAIN table : /\ i # j => table[i].nth # table[j].nth
                                /\ table[i].nth < table[j].nth => since[i] <= since[j]
  /\ \A i \in Registered : since[i] <= elapsed
  /\ \A i \in Intents : waiting[i] = "waiting" => elapsed <= since[i] + ReportWait

\* Only newer calls push an intent out.
PushedOut(i) == Cardinality(Since(i)) >= IntentCap
OnlyPushed ==
  \A i \in Registered :
    /\ waiting[i] = "waiting" /\ i \notin DOMAIN table => PushedOut(i)
    /\ result[i] = "expired" => PushedOut(i)

\* The state in the table is the last report, and a result is one.
StateIsTold ==
  /\ \A i \in DOMAIN table :
       /\ table[i].state = "pending" => Told(i) = {}
       /\ table[i].state \in Final => \E k \in Told(i) : Last(i, k) /\ told[k].state = table[i].state
  /\ \A i \in Intents :
       /\ result[i] \in Final => \E k \in Told(i) : told[k].state = result[i]
       /\ waiting[i] # "returned" => result[i] = "none"
       /\ waiting[i] = "idle" => Told(i) = {}

IntentInv == IntentTypes /\ InOrder /\ OnlyPushed /\ StateIsTold

USE IntentAssumption

\* A call that newer calls pushed out stays so.
LEMMA StaysPushed ==
  ASSUME Registered \subseteq Registered', IsFiniteSet(Registered'),
         \A i \in Registered : since'[i] = since[i],
         NEW i \in Registered, PushedOut(i)
  PROVE  PushedOut(i)'
<1>1. Since(i) \subseteq Since(i)' /\ Since(i)' \subseteq Registered'
  BY DEF Since, Registered
<1>2. IsFiniteSet(Since(i)')
  BY <1>1, FS_Subset
<1>3. Cardinality(Since(i)) <= Cardinality(Since(i)') /\ Cardinality(Since(i)) \in Nat /\ Cardinality(Since(i)') \in Nat
  BY <1>1, <1>2, FS_Subset, FS_CardinalityType
<1> QED
  BY <1>3 DEF PushedOut

\* What the table says of an intent that waits is never that it expired.
LEMMA WaitingLives ==
  ASSUME IntentInv, NEW i \in DOMAIN table, waiting[i] = "waiting"
  PROVE  Live(i)
<1>1. i \in Intents /\ since[i] \in Nat /\ elapsed \in Nat /\ table[i].expires = since[i] + IntentTTL
      /\ elapsed <= since[i] + ReportWait
  BY DEF IntentInv, IntentTypes, InOrder, Registered
<1> QED
  BY <1>1 DEF Live

LEMMA IntentInitInv == IntentInit => IntentInv
<1> SUFFICES ASSUME IntentInit PROVE IntentInv
  OBVIOUS
<1>1. DOMAIN table = {} /\ DOMAIN told = {} /\ told \in Seq(Report)
  <2>1. told = <<>> /\ table = <<>>
    BY DEF IntentInit
  <2> QED
    BY <2>1
<1>2. Registered = {}
  BY DEF Registered, IntentInit
<1>3. IsFiniteSet(Registered)
  BY <1>2, FS_EmptySet
<1>4. IntentTypes
  BY <1>1, <1>2, <1>3 DEF IntentTypes, IntentInit
<1>5. \A i \in Intents : Told(i) = {}
  BY <1>1 DEF Told
<1> QED
  BY <1>1, <1>2, <1>4, <1>5 DEF IntentInv, InOrder, OnlyPushed, StateIsTold, IntentInit, Final

\* Steps of the workbenches, that touch no call and no intent.
LEMMA WorkbenchStep ==
  ASSUME IntentInv, UNCHANGED <<table, calls, waiting, since, result, told, elapsed>>,
         inbox' \in [Windows -> SUBSET Intents], handling' \in [Windows -> SUBSET Intents], reports' \subseteq Report
  PROVE  IntentInv'
<1>1. IntentTypes'
  BY DEF IntentInv, IntentTypes, Registered
<1>2. InOrder'
  BY DEF IntentInv, InOrder, Registered
<1>3. OnlyPushed'
  BY DEF IntentInv, OnlyPushed, PushedOut, Since, Registered
<1>4. StateIsTold'
  BY DEF IntentInv, StateIsTold, Told, Last
<1> QED
  BY <1>1, <1>2, <1>3, <1>4 DEF IntentInv

LEMMA WorkbenchKept ==
  ASSUME IntentInv, NEW w \in Windows, NEW i \in Intents,
         handleIntent(w, i) \/ Handled(w, i) \/ CloseWindow(w)
  PROVE  IntentInv'
<1>1. inbox \in [Windows -> SUBSET Intents] /\ handling \in [Windows -> SUBSET Intents] /\ reports \subseteq Report
  BY DEF IntentInv, IntentTypes
<1>2. CASE handleIntent(w, i)
  <2>1. inbox' \in [Windows -> SUBSET Intents] /\ handling' \in [Windows -> SUBSET Intents] /\ reports' \subseteq Report
    BY <1>1, <1>2 DEF handleIntent
  <2> QED
    BY <1>2, <2>1, WorkbenchStep DEF handleIntent
<1>3. CASE Handled(w, i)
  <2>1. PICK s \in Final : reports' = reports \cup {[id |-> i, state |-> s, from |-> w]}
    BY <1>3 DEF Handled
  <2>2. [id |-> i, state |-> s, from |-> w] \in Report
    BY DEF Report
  <2>3. inbox' \in [Windows -> SUBSET Intents] /\ handling' \in [Windows -> SUBSET Intents] /\ reports' \subseteq Report
    BY <1>1, <1>3, <2>1, <2>2 DEF Handled
  <2> QED
    BY <1>3, <2>3, WorkbenchStep DEF Handled
<1>4. CASE CloseWindow(w)
  <2>1. inbox' \in [Windows -> SUBSET Intents] /\ handling' \in [Windows -> SUBSET Intents] /\ reports' \subseteq Report
    BY <1>1, <1>4 DEF CloseWindow
  <2> QED
    BY <1>4, <2>1, WorkbenchStep DEF CloseWindow
<1> QED
  BY <1>2, <1>3, <1>4

\* An intent that expired is dropped: nobody waits for it.
LEMMA DropExpired ==
  ASSUME IntentInv, NEW i \in Intents, i \in DOMAIN table, ~Live(i), table' = removeLocked(i),
         UNCHANGED <<calls, waiting, since, result, told, elapsed, inbox, handling>>, reports' \subseteq reports
  PROVE  IntentInv'
<1>1. waiting[i] # "waiting"
  BY WaitingLives
<1>2. DOMAIN table' = DOMAIN table \ {i} /\ \A j \in DOMAIN table' : table'[j] = table[j]
  BY DEF removeLocked
<1>3. IntentTypes'
  BY <1>2 DEF IntentInv, IntentTypes, Registered
<1>4. InOrder'
  BY <1>2 DEF IntentInv, InOrder, Registered
<1>5. OnlyPushed'
  BY <1>1, <1>2 DEF IntentInv, OnlyPushed, PushedOut, Since, Registered
<1>6. StateIsTold'
  BY <1>2 DEF IntentInv, StateIsTold, Told, Last
<1> QED
  BY <1>3, <1>4, <1>5, <1>6 DEF IntentInv

LEMMA TickKept == IntentInv /\ IntentTick => IntentInv'
<1> SUFFICES ASSUME IntentInv, IntentTick PROVE IntentInv'
  OBVIOUS
<1>1. /\ UNCHANGED <<table, calls, waiting, since, result, inbox, handling, reports, snapshot, told>>
      /\ elapsed' = elapsed + 1 /\ elapsed \in Nat
      /\ \A i \in Intents : waiting[i] = "waiting" => elapsed < since[i] + ReportWait
      /\ \A i \in Intents : since[i] \in Nat
  BY DEF IntentTick, IntentInv, IntentTypes
<1>2. IntentTypes'
  BY <1>1 DEF IntentInv, IntentTypes, Registered
<1>3. InOrder'
  <2>1. \A i \in Registered : since[i] <= elapsed + 1
    <3>1. \A i \in Registered : since[i] <= elapsed /\ since[i] \in Nat
      BY <1>1 DEF IntentInv, InOrder, Registered
    <3> QED
      BY <1>1, <3>1
  <2>2. \A i \in Intents : waiting[i] = "waiting" => elapsed + 1 <= since[i] + ReportWait
    BY <1>1
  <2> QED
    BY <1>1, <2>1, <2>2 DEF IntentInv, InOrder, Registered
<1>4. OnlyPushed'
  BY <1>1 DEF IntentInv, OnlyPushed, PushedOut, Since, Registered
<1>5. StateIsTold'
  BY <1>1 DEF IntentInv, StateIsTold, Told, Last
<1> QED
  BY <1>2, <1>3, <1>4, <1>5 DEF IntentInv

\* One turn of a call that waits, and returns.
LEMMA WaitKept ==
  ASSUME IntentInv, NEW i \in Intents, waitIntent(i)
  PROVE  IntentInv'
<1>0. IntentTypes /\ InOrder /\ OnlyPushed /\ StateIsTold
  BY DEF IntentInv
<1>1. waiting[i] = "waiting" /\ i \in Registered
      /\ UNCHANGED <<calls, since, inbox, handling, reports, told, elapsed>>
  BY DEF waitIntent, Registered
<1>2. UNCHANGED table
  BY <1>1, WaitingLives DEF waitIntent, Purged, Get, IntentInv, StateIsTold, IntentTypes, Final
<1>3. PICK r \in {"pending", "expired"} \cup Final :
        /\ waiting' = [waiting EXCEPT ![i] = "returned"] /\ result' = [result EXCEPT ![i] = r]
        /\ r = "expired" => PushedOut(i)
        /\ r \in Final => \E k \in Told(i) : told[k].state = r
  <2> DEFINE Returns(r) == /\ waiting' = [waiting EXCEPT ![i] = "returned"] /\ result' = [result EXCEPT ![i] = r]
  <2>1. CASE i \notin DOMAIN table
    <3>1. Get(i) = "unknown" /\ PushedOut(i)
      BY <1>0, <1>1, <2>1 DEF Get, OnlyPushed
    <3>2. Returns("expired")
      BY <3>1 DEF waitIntent, Final
    <3> QED
      BY <3>1, <3>2 DEF Final
  <2>2. CASE i \in DOMAIN table
    <3>1. Get(i) = table[i].state /\ table[i].state \in {"pending"} \cup Final
      BY <1>0, <1>1, <2>2, WaitingLives DEF Get, IntentTypes
    <3>2. CASE table[i].state = "pending"
      <4>1. Returns("pending")
        BY <3>1, <3>2 DEF waitIntent, Final
      <4> QED
        BY <4>1 DEF Final
    <3>3. CASE table[i].state \in Final
      <4>1. Returns(table[i].state)
        BY <3>1, <3>3 DEF waitIntent, Final
      <4>2. \E k \in Told(i) : told[k].state = table[i].state
        BY <1>0, <2>2, <3>3 DEF StateIsTold
      <4> QED
        BY <3>3, <4>1, <4>2 DEF Final
    <3> QED
      BY <3>1, <3>2, <3>3
  <2> QED
    BY <2>1, <2>2
<1>4. Registered' = Registered
  BY <1>0, <1>1, <1>3 DEF Registered, IntentTypes
<1>5. \A j : Since(j)' = Since(j)
  BY <1>0, <1>1, <1>3 DEF Since, IntentTypes
<1>6. IntentTypes'
  BY <1>0, <1>1, <1>2, <1>3, <1>4 DEF IntentTypes
<1>7. InOrder'
  BY <1>0, <1>1, <1>2, <1>3, <1>4 DEF InOrder, IntentTypes
<1>8. OnlyPushed'
  <2>1. \A j : PushedOut(j)' = PushedOut(j)
    BY <1>5 DEF PushedOut
  <2>2. \A j \in Registered \ {i} : waiting'[j] = waiting[j] /\ result'[j] = result[j]
    BY <1>0, <1>3 DEF IntentTypes, Registered
  <2>3. waiting'[i] = "returned" /\ result'[i] = r
    BY <1>0, <1>3 DEF IntentTypes
  <2> QED
    BY <1>0, <1>2, <1>3, <1>4, <2>1, <2>2, <2>3 DEF OnlyPushed
<1>9. StateIsTold'
  <2>1. \A j, k : Told(j)' = Told(j) /\ (Last(j, k)' <=> Last(j, k))
    BY <1>1 DEF Told, Last
  <2>2. \A j \in Intents \ {i} : waiting'[j] = waiting[j] /\ result'[j] = result[j]
    BY <1>0, <1>3 DEF IntentTypes
  <2>3. waiting'[i] = "returned" /\ result'[i] = r
    BY <1>0, <1>3 DEF IntentTypes
  <2> QED
    BY <1>0, <1>1, <1>2, <1>3, <2>1, <2>2, <2>3 DEF StateIsTold
<1> QED
  BY <1>6, <1>7, <1>8, <1>9 DEF IntentInv

LEMMA ReportKept ==
  ASSUME IntentInv, NEW m \in reports, ReportUIState(m)
  PROVE  IntentInv'
<1>0. IntentTypes /\ InOrder /\ OnlyPushed /\ StateIsTold /\ m \in Report /\ m.id \in Intents /\ m.state \in Final
  BY DEF IntentInv, IntentTypes, Report
<1>1. /\ reports' = reports \ {m}
      /\ UNCHANGED <<calls, waiting, since, result, inbox, handling, elapsed>>
  BY DEF ReportUIState
<1>2. CASE m.id \notin DOMAIN table
  <2>1. UNCHANGED <<table, told>>
    BY <1>2 DEF ReportUIState, Get, Purged
  <2> QED
    BY <1>0, <1>1, <2>1, WorkbenchStep DEF IntentTypes
<1>3. CASE m.id \in DOMAIN table /\ ~Live(m.id)
  <2>1. table' = removeLocked(m.id) /\ UNCHANGED told
    BY <1>3 DEF ReportUIState, Get, Purged
  <2> QED
    BY <1>0, <1>1, <1>3, <2>1, DropExpired
<1>4. CASE m.id \in DOMAIN table /\ Live(m.id)
  <2> DEFINE i == m.id
  <2>12. PICK n : n = Len(told) + 1
    OBVIOUS
  <2>1. table[i].state \in {"pending"} \cup Final
    BY <1>0, <1>4 DEF IntentTypes
  <2>2. table' = [table EXCEPT ![i].state = m.state] /\ told' = Append(told, m)
    BY <1>4, <2>1 DEF ReportUIState, Get, Final
  <2>3. /\ told \in Seq(Report) /\ told' \in Seq(Report)
        /\ DOMAIN told' = DOMAIN told \cup {n} /\ \A k \in DOMAIN told : told'[k] = told[k] /\ k < n /\ k \in Nat
        /\ told'[n] = m /\ n \in Nat
    <3>1. told \in Seq(Report) /\ Len(told) \in Nat /\ DOMAIN told = 1..Len(told)
      BY <1>0, LenProperties DEF IntentTypes
    <3>2. told' \in Seq(Report) /\ Len(told') = n /\ \A k \in 1..Len(told) : told'[k] = told[k]
      BY <1>0, <2>2, <2>12, <3>1, AppendProperties
    <3>3. told'[n] = m /\ DOMAIN told' = 1..n
      BY <1>0, <2>2, <2>12, <3>1, <3>2, AppendProperties, LenProperties
    <3> QED
      BY <2>12, <3>1, <3>2, <3>3
  <2>4. /\ DOMAIN table' = DOMAIN table /\ \A j \in DOMAIN table \ {i} : table'[j] = table[j]
        /\ table'[i].state = m.state /\ table'[i].nth = table[i].nth /\ table'[i].expires = table[i].expires
        /\ table'[i] \in [state : {"pending"} \cup Final, expires : Nat, nth : Nat]
    BY <1>0, <1>4, <2>2 DEF IntentTypes
  <2>5. /\ Told(i)' = Told(i) \cup {n} /\ Last(i, n)' /\ \A j \in Intents \ {i} : Told(j)' = Told(j)
        /\ \A j \in Intents : \A k \in Told(j) : told'[k] = told[k] /\ k \in DOMAIN told
    <3>1. Told(i)' = Told(i) \cup {n}
      BY <2>3 DEF Told
    <3>2. \A k \in Told(i)' : k <= n
      BY <2>3, <3>1 DEF Told
    <3>3. Last(i, n)'
      BY <3>1, <3>2 DEF Last
    <3>4. ASSUME NEW j \in Intents \ {i} PROVE Told(j)' = Told(j)
      <4>1. told'[n].id # j
        BY <2>3
      <4> QED
        BY <2>3, <4>1 DEF Told
    <3>5. \A j \in Intents : \A k \in Told(j) : told'[k] = told[k] /\ k \in DOMAIN told
      BY <2>3 DEF Told
    <3> QED
      BY <3>1, <3>3, <3>4, <3>5
  <2>6. \A j \in Intents \ {i} : \A k : Last(j, k)' <=> Last(j, k)
    BY <2>5 DEF Last
  <2>7. Registered' = Registered /\ i \in Registered
    BY <1>0, <1>1, <1>4 DEF Registered, IntentTypes
  <2>8. IntentTypes'
    BY <1>0, <1>1, <2>3, <2>4, <2>7 DEF IntentTypes
  <2>9. InOrder'
    <3>1. \A j \in DOMAIN table : table'[j].nth = table[j].nth /\ table'[j].expires = table[j].expires
      BY <2>4
    <3> QED
      BY <1>0, <1>1, <2>4, <2>7, <3>1 DEF InOrder
  <2>10. OnlyPushed'
    <3>1. \A j : PushedOut(j)' <=> PushedOut(j)
      BY <1>1 DEF PushedOut, Since
    <3> QED
      BY <1>0, <1>1, <2>4, <2>7, <3>1 DEF OnlyPushed
  <2>11. StateIsTold'
    <3>1. ASSUME NEW j \in DOMAIN table'
          PROVE  /\ table'[j].state = "pending" => Told(j)' = {}
                 /\ table'[j].state \in Final => \E k \in Told(j)' : Last(j, k)' /\ told'[k].state = table'[j].state
      <4>1. CASE j = i
        <5>1. table'[j].state = m.state /\ m.state \in Final /\ m.state # "pending"
          BY <1>0, <2>4, <4>1 DEF Final
        <5>2. n \in Told(j)' /\ Last(j, n)' /\ told'[n].state = m.state
          BY <2>3, <2>5, <4>1
        <5> QED
          BY <5>1, <5>2
      <4>2. CASE j # i
        <5>1. j \in Intents /\ table'[j] = table[j] /\ Told(j)' = Told(j)
          BY <1>0, <2>4, <2>5, <3>1, <4>2 DEF IntentTypes, Registered
        <5>2. /\ table[j].state = "pending" => Told(j) = {}
              /\ table[j].state \in Final => \E k \in Told(j) : Last(j, k) /\ told[k].state = table[j].state
          BY <1>0, <2>4, <3>1 DEF StateIsTold
        <5> QED
          BY <2>5, <2>6, <4>2, <5>1, <5>2
      <4> QED
        BY <4>1, <4>2
    <3>2. ASSUME NEW j \in Intents
          PROVE  /\ result'[j] \in Final => \E k \in Told(j)' : told'[k].state = result'[j]
                 /\ waiting'[j] # "returned" => result'[j] = "none"
                 /\ waiting'[j] = "idle" => Told(j)' = {}
      <4>1. Told(j) \subseteq Told(j)' /\ \A k \in Told(j) : told'[k] = told[k]
        BY <2>5
      <4>2. waiting[j] = "idle" => j # i
        BY <2>7 DEF Registered
      <4> QED
        BY <1>0, <1>1, <2>5, <4>1, <4>2 DEF StateIsTold
    <3> QED
      BY <3>1, <3>2 DEF StateIsTold
  <2> QED
    BY <2>8, <2>9, <2>10, <2>11 DEF IntentInv
<1> QED
  BY <1>2, <1>3, <1>4

LEMMA RegisterKept ==
  ASSUME IntentInv, NEW i \in Intents, Register(i)
  PROVE  IntentInv'
<1>0. IntentTypes /\ InOrder /\ OnlyPushed /\ StateIsTold
  BY DEF IntentInv
<1> DEFINE all == {j \in DOMAIN table : Live(j)} \cup {i}
           entries == [j \in all |-> IF j = i THEN Entry(calls + 1) ELSE table[j]]
           oldest(j) == \A k \in all : entries[k].nth >= entries[j].nth
           kept == IF Cardinality(all) > IntentCap
                   THEN {j \in all : \E k \in all : entries[k].nth < entries[j].nth} ELSE all
<1>1. /\ waiting[i] = "idle" /\ i \notin DOMAIN table /\ i \notin Registered
      /\ table' = [j \in kept |-> entries[j]] /\ calls' = calls + 1
      /\ waiting' = [waiting EXCEPT ![i] = "waiting"]
      /\ since' = [since EXCEPT ![i] = elapsed]
      /\ inbox' = [w \in Windows |-> inbox[w] \cup {i}]
      /\ UNCHANGED <<result, handling, reports, told, elapsed>>
  BY <1>0 DEF Register, IntentTypes, Registered
<1>2. /\ all \subseteq DOMAIN table \cup {i} /\ kept \subseteq all /\ i \in all
      /\ \A j \in DOMAIN table : j \notin all => ~Live(j)
      /\ entries[i] = Entry(calls + 1) /\ \A j \in all \ {i} : entries[j] = table[j] /\ j \in DOMAIN table
      /\ \A j \in all \ kept : Cardinality(all) > IntentCap /\ \A k \in all : ~(entries[k].nth < entries[j].nth)
      /\ \A j \in kept : Cardinality(all) > IntentCap => \E k \in all : entries[k].nth < entries[j].nth
  OBVIOUS
<1>3. DOMAIN table' = kept /\ \A j \in kept : table'[j] = entries[j]
  BY <1>1
<1> HIDE DEF entries, kept
<1>4. /\ Registered' = Registered \cup {i} /\ IsFiniteSet(Registered') /\ all \subseteq Registered'
      /\ \A j \in Registered : j # i /\ waiting'[j] = waiting[j] /\ since'[j] = since[j]
      /\ waiting'[i] = "waiting" /\ since'[i] = elapsed /\ elapsed \in Nat /\ calls \in Nat
  <2>1. Registered' = Registered \cup {i}
    BY <1>0, <1>1 DEF Registered, IntentTypes
  <2>2. IsFiniteSet(Registered')
    BY <1>0, <2>1, FS_AddElement DEF IntentTypes
  <2>3. DOMAIN table \subseteq Registered
    BY <1>0 DEF IntentTypes
  <2> QED
    BY <1>0, <1>1, <1>2, <2>1, <2>2, <2>3 DEF IntentTypes, Registered
<1> HIDE DEF all
<1>5. \A j \in all : entries[j] \in [state : {"pending"} \cup Final, expires : Nat, nth : Nat]
  <2>1. Entry(calls + 1) \in [state : {"pending"} \cup Final, expires : Nat, nth : Nat]
    BY <1>4 DEF Entry
  <2> QED
    BY <1>0, <1>2, <2>1 DEF IntentTypes
<1>6. IntentTypes'
  <2>1. \A j \in DOMAIN table' : table'[j] \in [state : {"pending"} \cup Final, expires : Nat, nth : Nat]
    BY <1>2, <1>3, <1>5
  <2>2. inbox' \in [Windows -> SUBSET Intents]
    BY <1>0, <1>1 DEF IntentTypes
  <2> QED
    BY <1>0, <1>1, <1>2, <1>3, <1>4, <2>1, <2>2 DEF IntentTypes
<1>7. /\ entries[i].nth = calls + 1 /\ entries[i].expires = elapsed + IntentTTL /\ entries[i].state = "pending"
      /\ \A j \in all \ {i} : entries[j].nth <= calls /\ entries[j].nth \in Nat /\ since'[j] <= elapsed /\ since'[j] \in Nat
  <2>1. \A j \in all \ {i} : j \in Registered /\ j \in Intents
    BY <1>0, <1>2 DEF IntentTypes, Registered
  <2>2. \A j \in all \ {i} : entries[j].nth <= calls /\ since[j] <= elapsed /\ since[j] \in Nat
    BY <1>0, <1>2, <2>1 DEF InOrder, IntentTypes
  <2> QED
    BY <1>2, <1>4, <1>5, <2>1, <2>2 DEF Entry
<1>8. \A j, k \in all : /\ j # k => entries[j].nth # entries[k].nth
                        /\ entries[j].nth < entries[k].nth => since'[j] <= since'[k]
  <2> SUFFICES ASSUME NEW j \in all, NEW k \in all, j # k
               PROVE  /\ entries[j].nth # entries[k].nth
                      /\ entries[j].nth < entries[k].nth => since'[j] <= since'[k]
    BY <1>4, <1>5
  <2>1. CASE j = i
    BY <1>4, <1>7, <2>1
  <2>2. CASE k = i
    BY <1>4, <1>7, <2>2
  <2>3. CASE j # i /\ k # i
    <3>1. j \in Registered /\ k \in Registered /\ j \in DOMAIN table /\ k \in DOMAIN table
      BY <1>0, <1>2, <2>3 DEF IntentTypes
    <3> QED
      BY <1>0, <1>2, <1>4, <2>3, <3>1 DEF InOrder
  <2> QED
    BY <2>1, <2>2, <2>3
<1>9. InOrder'
  <2>1. \A j \in DOMAIN table' : table'[j].nth <= calls' /\ table'[j].expires = since'[j] + IntentTTL
    <3> SUFFICES ASSUME NEW j \in kept PROVE entries[j].nth <= calls + 1 /\ entries[j].expires = since'[j] + IntentTTL
      BY <1>1, <1>3
    <3>1. CASE j = i
      BY <1>4, <1>7, <3>1
    <3>2. CASE j # i
      <4>1. j \in all \ {i} /\ j \in Registered /\ j \in DOMAIN table
        BY <1>0, <1>2, <3>2 DEF IntentTypes
      <4>2. table[j].expires = since[j] + IntentTTL /\ entries[j] = table[j] /\ since'[j] = since[j]
        BY <1>0, <1>2, <1>4, <4>1 DEF InOrder
      <4> QED
        BY <1>4, <1>7, <4>1, <4>2
    <3> QED
      BY <3>1, <3>2
  <2>2. \A j, k \in DOMAIN table' : /\ j # k => table'[j].nth # table'[k].nth
                                    /\ table'[j].nth < table'[k].nth => since'[j] <= since'[k]
    BY <1>2, <1>3, <1>8
  <2>3. \A j \in Registered' : since'[j] <= elapsed'
    BY <1>0, <1>1, <1>4 DEF InOrder
  <2>4. \A j \in Intents : waiting'[j] = "waiting" => elapsed' <= since'[j] + ReportWait
    <3> SUFFICES ASSUME NEW j \in Intents, waiting'[j] = "waiting" PROVE elapsed <= since'[j] + ReportWait
      BY <1>1
    <3>1. CASE j = i
      BY <1>4, <3>1
    <3>2. CASE j # i
      BY <1>0, <1>1, <3>2 DEF InOrder, IntentTypes
    <3> QED
      BY <3>1, <3>2
  <2> QED
    BY <2>1, <2>2, <2>3, <2>4 DEF InOrder
<1>10. ASSUME NEW j \in all, j \notin kept PROVE PushedOut(j)'
  <2>1. Cardinality(all) > IntentCap /\ \A k \in all : ~(entries[k].nth < entries[j].nth)
    BY <1>2, <1>10
  <2>2. ASSUME NEW k \in all, k # j PROVE k \in Since(j)'
    <3>1. entries[k].nth \in Nat /\ entries[j].nth \in Nat /\ entries[j].nth # entries[k].nth
      BY <1>5, <1>8, <2>2
    <3>2. entries[j].nth < entries[k].nth
      BY <2>1, <3>1
    <3>3. since'[j] <= since'[k] /\ since'[j] \in Nat /\ since'[k] \in Nat
      BY <1>4, <1>7, <1>8, <3>2
    <3>4. k \in Registered'
      BY <1>4
    <3> QED
      BY <2>2, <3>3, <3>4 DEF Since, Registered
  <2>3. IsFiniteSet(all) /\ IsFiniteSet(all \ {j}) /\ Cardinality(all \ {j}) = Cardinality(all) - 1
        /\ Cardinality(all) \in Nat
    BY <1>4, FS_Subset, FS_RemoveElement, FS_CardinalityType
  <2>4. Since(j)' \subseteq Registered' /\ all \ {j} \subseteq Since(j)'
    BY <2>2 DEF Since, Registered
  <2>5. IsFiniteSet(Since(j)')
    BY <1>4, <2>4, FS_Subset
  <2>6. Cardinality(all \ {j}) <= Cardinality(Since(j)') /\ Cardinality(Since(j)') \in Nat
    BY <2>4, <2>5, FS_Subset, FS_CardinalityType
  <2> QED
    BY <2>1, <2>3, <2>6 DEF PushedOut
<1>11. OnlyPushed'
  <2>1. \A j \in Registered : PushedOut(j) => PushedOut(j)'
    BY <1>4, StaysPushed
  <2>2. ASSUME NEW j \in Registered', waiting'[j] = "waiting", j \notin DOMAIN table' PROVE PushedOut(j)'
    <3>1. CASE j \in all
      BY <1>3, <1>10, <2>2, <3>1
    <3>2. CASE j \notin all
      <4>1. j \in Registered /\ waiting[j] = "waiting" /\ j \in Intents
        BY <1>2, <1>4, <2>2, <3>2 DEF Registered
      <4>2. j \notin DOMAIN table
        BY <1>2, <3>2, <4>1, WaitingLives
      <4> QED
        BY <1>0, <2>1, <4>1, <4>2 DEF OnlyPushed
    <3> QED
      BY <3>1, <3>2
  <2>3. ASSUME NEW j \in Registered', result'[j] = "expired" PROVE PushedOut(j)'
    <3>1. result[j] = "expired" /\ j \in Intents
      BY <1>1, <2>3 DEF Registered
    <3>2. j # i
      BY <1>0, <1>1, <3>1 DEF StateIsTold
    <3> QED
      BY <1>0, <1>4, <2>1, <3>1, <3>2 DEF OnlyPushed
  <2> QED
    BY <2>2, <2>3 DEF OnlyPushed
<1>12. StateIsTold'
  <2>1. \A j, k : Told(j)' = Told(j) /\ (Last(j, k)' <=> Last(j, k))
    BY <1>1 DEF Told, Last
  <2>2. ASSUME NEW j \in DOMAIN table'
        PROVE  /\ table'[j].state = "pending" => Told(j) = {}
               /\ table'[j].state \in Final => \E k \in Told(j) : Last(j, k) /\ told[k].state = table'[j].state
    <3>1. CASE j = i
      BY <1>0, <1>1, <1>3, <1>7, <2>2, <3>1 DEF StateIsTold, Final
    <3>2. CASE j # i
      BY <1>0, <1>2, <1>3, <2>2, <3>2 DEF StateIsTold
    <3> QED
      BY <3>1, <3>2
  <2>3. ASSUME NEW j \in Intents
        PROVE  /\ result[j] \in Final => \E k \in Told(j) : told[k].state = result[j]
               /\ waiting'[j] # "returned" => result[j] = "none"
               /\ waiting'[j] = "idle" => Told(j) = {}
    BY <1>0, <1>1 DEF StateIsTold, IntentTypes
  <2> QED
    BY <1>1, <2>1, <2>2, <2>3 DEF StateIsTold
<1> QED
  BY <1>6, <1>9, <1>11, <1>12 DEF IntentInv

LEMMA IntentStep == IntentInv /\ [IntentNext]_intentVars => IntentInv'
<1> SUFFICES ASSUME IntentInv, [IntentNext]_intentVars PROVE IntentInv'
  OBVIOUS
<1>1. ASSUME NEW i \in Intents, uiState(i) PROVE IntentInv'
  <2>1. /\ table' = removeLocked(i)
        /\ UNCHANGED <<calls, waiting, since, result, inbox, handling, reports, told, elapsed>>
    BY <1>1 DEF uiState
  <2>2. i \in DOMAIN table /\ ~Live(i)
    BY <1>1 DEF uiState, Get, IntentInv, IntentTypes, Final
  <2> QED
    BY <2>1, <2>2, DropExpired
<1>2. ASSUME NEW w \in Windows, CloseWindow(w) PROVE IntentInv'
  <2>1. inbox' \in [Windows -> SUBSET Intents] /\ handling' \in [Windows -> SUBSET Intents] /\ reports' \subseteq Report
    BY <1>2 DEF CloseWindow, IntentInv, IntentTypes
  <2> QED
    BY <1>2, <2>1, WorkbenchStep DEF CloseWindow
<1>3. CASE UNCHANGED intentVars
  <2>1. inbox' \in [Windows -> SUBSET Intents] /\ handling' \in [Windows -> SUBSET Intents] /\ reports' \subseteq Report
    BY <1>3 DEF intentVars, IntentInv, IntentTypes
  <2> QED
    BY <1>3, <2>1, WorkbenchStep DEF intentVars
<1> QED
  BY <1>1, <1>2, <1>3, RegisterKept, WaitKept, WorkbenchKept, ReportKept, TickKept DEF IntentNext

\* Any number of calls, workbenches and reports, any capacity and times: a call
\* returns a state that was reported, gives up only when newer calls pushed its
\* intent out of the table, and the table keeps the last report
\* (intent.go:64-194, server.go:95-294).
THEOREM ResultsAreReported == IntentSpec => []ResultIsReported
<1>1. IntentInv => ResultIsReported
  <2> SUFFICES ASSUME IntentInv, NEW i \in Intents
               PROVE  /\ result[i] \in Final => \E k \in Told(i) : told[k].state = result[i]
                      /\ result[i] = "expired" => PushedOut(i)
                      /\ i \in DOMAIN table => \A k \in Told(i) : Last(i, k) => Get(i) \in {"expired", told[k].state}
                      /\ i \notin DOMAIN table /\ waiting[i] = "waiting" => PushedOut(i)
    BY DEF ResultIsReported, PushedOut
  <2>0. IntentTypes /\ InOrder /\ OnlyPushed /\ StateIsTold
    BY DEF IntentInv
  <2>1. waiting[i] # "idle" => i \in Registered
    BY DEF Registered
  <2>2. result[i] = "expired" => waiting[i] # "idle"
    BY <2>0 DEF StateIsTold
  <2>3. ASSUME i \in DOMAIN table, NEW k \in Told(i), Last(i, k) PROVE Get(i) \in {"expired", told[k].state}
    <3>1. table[i].state \in Final
      BY <2>0, <2>3 DEF IntentTypes, StateIsTold
    <3>2. PICK n \in Told(i) : Last(i, n) /\ told[n].state = table[i].state
      BY <2>0, <2>3, <3>1 DEF StateIsTold
    <3>3. n \in Nat /\ k \in Nat /\ n <= k /\ k <= n
      <4>1. DOMAIN told = 1..Len(told) /\ Len(told) \in Nat
        BY <2>0, LenProperties DEF IntentTypes
      <4> QED
        BY <2>3, <3>2, <4>1 DEF Last, Told
    <3>4. n = k
      BY <3>3
    <3> QED
      BY <2>3, <3>2, <3>4 DEF Get
  <2> QED
    BY <2>0, <2>1, <2>2, <2>3 DEF OnlyPushed, StateIsTold
<1> QED
  BY <1>1, IntentInitInv, IntentStep, PTL DEF IntentSpec
=============================================================================
