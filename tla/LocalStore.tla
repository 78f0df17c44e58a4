------------------------------ MODULE LocalStore ----------------------------
(* What the sidecar keeps in its data directory (store.go): the presets      *)
(* (operations.go) and the settings of the MCP tools (settings.go and        *)
(* SettingsSet of server.go).  Each is one JSON file that is loaded,         *)
(* changed and written as a whole, by concurrent requests, while a write may *)
(* fail and the process may be killed.                                       *)
EXTENDS Naturals, FiniteSets

CONSTANTS
  Savers,      \* the requests that may run together
  PresetIds,
  Bounds,      \* settingsFields: field -> [floor, ceiling, default]
  Values,      \* what a setting is given, or found as in the file
  MaxSaves,    \* bound: how many calls are started
  MaxKills,    \* bound: how often the process is killed
  Nothing      \* no file, no value, no caller

\* settingsFields: every floor is at least 1.
ASSUME StoreAssumption ==
  /\ Bounds \in [DOMAIN Bounds -> [floor : Nat \ {0}, ceiling : Nat, default : Nat]]
  /\ \A f \in DOMAIN Bounds : Bounds[f].floor <= Bounds[f].ceiling
  /\ Values \subseteq Nat
  /\ PresetIds \cap DOMAIN Bounds = {}
  /\ Nothing \notin Savers /\ Nothing \notin Nat
  /\ Nothing \notin [PresetIds -> Nat \cup {Nothing}] /\ Nothing \notin [DOMAIN Bounds -> Nat]

VARIABLES
  file,     \* "presets" and "settings" -> what the file holds
  temps,    \* the temporary files: their numbers
  memory,   \* Server.settings
  held,     \* presetsMu and Server.mu: who holds it
  call,     \* what each request does
  serial,   \* the number of calls started
  kills,
  acked     \* history: key -> the value of the last call on it, when that succeeded

localVars == <<file, temps, memory, held, call, serial, kills, acked>>

Fields == DOMAIN Bounds
Keys(doc) == IF doc = "presets" THEN PresetIds ELSE Fields
NoCall == [step |-> "idle"]

(* ------------------------------ settings.go ------------------------------ *)
clamp(f, v) ==
  IF v < Bounds[f].floor THEN Bounds[f].floor
  ELSE IF v > Bounds[f].ceiling THEN Bounds[f].ceiling ELSE v
Sanitized(s) == [f \in Fields |-> clamp(f, s[f])]
DefaultSettings == [f \in Fields |-> Bounds[f].default]

\* What is missing in the file or not positive falls back to its default.
LoadSettings(persisted) ==
  Sanitized([f \in Fields |->
    IF persisted # Nothing /\ persisted[f] > 0 THEN persisted[f] ELSE DefaultSettings[f]])

\* A value out of its bounds refuses the whole update.
Refuses(f, v) == v < Bounds[f].floor \/ v > Bounds[f].ceiling

(* ---------------------------- the two documents -------------------------- *)
\* Missing presets are none.
LoadPresets == IF file["presets"] = Nothing THEN [i \in PresetIds |-> Nothing] ELSE file["presets"]

Start(c, doc, key, value) ==
  /\ call[c] = NoCall /\ serial < MaxSaves
  /\ serial' = serial + 1
  /\ call' = [call EXCEPT ![c] = [step |-> "lock", doc |-> doc, key |-> key, value |-> value,
                                  number |-> serial, new |-> Nothing]]
  /\ acked' = [acked EXCEPT ![key] = Nothing]
  /\ UNCHANGED <<file, temps, memory, held, kills>>

SavePreset(c, id) == Start(c, "presets", id, serial + 1)
RemovePreset(c, id) == Start(c, "presets", id, Nothing)
ApplySetting(c, f, v) == Start(c, "settings", f, v)

\* Mutant: no mutual exclusion of load, change and save.
LockFree(c) ==
  /\ call[c].step = "lock" /\ call' = [call EXCEPT ![c].step = "change"]
  /\ UNCHANGED <<file, temps, memory, held, serial, kills, acked>>

Lock(c) ==
  /\ call[c].step = "lock" /\ held[call[c].doc] = Nothing
  /\ held' = [held EXCEPT ![call[c].doc] = c]
  /\ call' = [call EXCEPT ![c].step = "change"]
  /\ UNCHANGED <<file, temps, memory, serial, kills, acked>>

\* The end of a call, with the lock: the last call on a key is remembered.
Ends(c, ok) ==
  /\ held' = [held EXCEPT ![call[c].doc] = Nothing]
  /\ call' = [call EXCEPT ![c] = NoCall]
  /\ acked' = [acked EXCEPT ![call[c].key] =
                 IF ok /\ \A d \in Savers \ {c} : call[d] = NoCall \/ call[d].key # call[c].key
                 THEN [to |-> call[c].value] ELSE Nothing]

(* The change is made to the document: the presets as they are in the file,  *)
(* the settings as they are in memory, which takes them before the file does. *)
Change(c) ==
  /\ call[c].step = "change"
  /\ IF call[c].doc = "presets"
     THEN /\ \/ Ends(c, FALSE)            \* the file cannot be read, or there is no such preset
             \/ /\ call[c].value = Nothing => LoadPresets[call[c].key] # Nothing
                /\ call' = [call EXCEPT ![c].step = "temp",
                                        ![c].new = [LoadPresets EXCEPT ![call[c].key] = call[c].value]]
                /\ UNCHANGED <<held, acked>>
          /\ UNCHANGED memory
     ELSE IF Refuses(call[c].key, call[c].value) THEN Ends(c, FALSE) /\ UNCHANGED memory
     ELSE /\ memory' = Sanitized([memory EXCEPT ![call[c].key] = call[c].value])
          /\ call' = [call EXCEPT ![c].step = "temp", ![c].new = memory']
          /\ UNCHANGED <<held, acked>>
  /\ UNCHANGED <<file, temps, serial, kills>>

(* ---------------------------------- store.go ----------------------------- *)
\* SaveJSON: a temporary file of its own, then the rename; the temporary file
\* of a save that fails is removed.
SaveTemp(c) ==
  /\ call[c].step = "temp"
  /\ \/ Ends(c, FALSE) /\ UNCHANGED temps
     \/ /\ temps' = temps \cup {call[c].number}
        /\ call' = [call EXCEPT ![c].step = "rename"] /\ UNCHANGED <<held, acked>>
  /\ UNCHANGED <<file, memory, serial, kills>>

SaveJSON(c) ==
  /\ call[c].step = "rename"
  /\ temps' = temps \ {call[c].number}
  /\ \/ Ends(c, FALSE) /\ UNCHANGED file
     \/ file' = [file EXCEPT ![call[c].doc] = call[c].new] /\ Ends(c, TRUE)
  /\ UNCHANGED <<memory, serial, kills>>

\* SIGKILL, and the next start: what was in flight did or did not happen.
Killed ==
  /\ kills < MaxKills /\ kills' = kills + 1
  /\ call' = [c \in Savers |-> NoCall] /\ held' = [d \in DOMAIN held |-> Nothing]
  /\ memory' = LoadSettings(file["settings"])
  /\ UNCHANGED <<file, temps, serial, acked>>

StoreInit ==
  /\ \E s \in {Nothing} \cup [Fields -> Values] :
       /\ file = [d \in {"presets", "settings"} |-> IF d = "settings" THEN s ELSE Nothing]
       /\ memory = LoadSettings(s)
  /\ temps = {} /\ serial = 0 /\ kills = 0
  /\ held = [d \in {"presets", "settings"} |-> Nothing]
  /\ call = [c \in Savers |-> NoCall]
  /\ acked = [key \in PresetIds \cup Fields |-> Nothing]

StoreNext ==
  \/ \E c \in Savers :
       \/ \E id \in PresetIds : SavePreset(c, id) \/ RemovePreset(c, id)
       \/ \E f \in Fields, v \in Values : ApplySetting(c, f, v)
       \/ Lock(c) \/ Change(c) \/ SaveTemp(c) \/ SaveJSON(c)
  \/ Killed

StoreSpec == StoreInit /\ [][StoreNext]_localVars

\* What a caller was told to be saved stays saved: until the next call on the
\* same preset or setting the file holds it, and so does the memory of the
\* settings, whatever other calls save or fail to save at the same time, and
\* over a restart; and every setting in force is within its bounds.
SavedIsKept ==
  /\ \A doc \in DOMAIN file : \A key \in Keys(doc) :
       acked[key] # Nothing =>
         /\ file[doc] # Nothing /\ file[doc][key] = acked[key].to
         /\ doc = "settings" => memory[key] = acked[key].to
  /\ \A f \in Fields : ~Refuses(f, memory[f])
  /\ kills = 0 => temps = {call[c].number : c \in {d \in Savers : call[d].step = "rename"}}
=============================================================================
