---------------------------- MODULE SchemaValues ----------------------------
(* The schema cache of the sidecar (schema.go, SchemaMetadata) and what      *)
(* depends on it: whether the value of an attribute travels as text or as    *)
(* base64 (operations.go).  One connection id, whose configuration Connect   *)
(* replaces; a client that reads an attribute and writes the value back.     *)
EXTENDS Integers, FiniteSets

CONSTANTS
  Loaders,      \* the requests for the schema that may run together
  Versions,      \* the configurations of the id, naturals from 1 on, in order
  BlockedIn,    \* configuration -> the attributes its profile blocks
  CacheTTL,     \* the time an entry of the cache is served
  MaxClock      \* bound: the time

VARIABLES
  config,       \* the configuration the connection table holds
  replacing,    \* Connect has replaced the entry and not yet invalidated
  cached,       \* the cache's entry of the id, or NoEntry
  loads,        \* the loads in flight
  clock,
  attr,         \* the attribute the client edits
  wire,         \* the value as the client holds it: "none", "plain" or "b64"
  stored        \* the bytes in the directory: "raw" as they were, or "text64", "mangled"

cacheVars == <<config, replacing, cached, loads, clock>>
valueVars == <<attr, wire, stored>>
schemaVars == <<cacheVars, valueVars>>

NoEntry == [config |-> 0]
NoLoad == [config |-> 0]

(* The schema of the server: attribute types, each a set of names.           *)
AttributeTypes == {{"photo"}, {"blob"}, {"code"}, {"note"}, {"password", "pass"}}
OctetStrings == {"photo", "blob", "code", "password", "pass"}

\* The blocked names go, and a type without a name goes with them; a raw
\* definition stays as long as one of its names is allowed.
filterLDAPSchemaMetadataForProfile(blocked) ==
  [types |-> {t \ blocked : t \in AttributeTypes} \ {{}},
   raw |-> {t \in AttributeTypes : t \ blocked # {}}]

(* ------------------------------ SchemaCache ------------------------------ *)
Fresh == cached # NoEntry /\ clock - cached.at <= CacheTTL

BinaryNames == IF Fresh THEN OctetStrings \cap (UNION cached.metadata.types) ELSE {}

\* Connect replaces the entry of the table and drops the schema after it.
Replace ==
  /\ ~replacing /\ config + 1 \in Versions
  /\ config' = config + 1 /\ replacing' = TRUE
  /\ UNCHANGED <<cached, loads, clock, valueVars>>

\* Mutant: the schema outlives its configuration.
InvalidateNothing ==
  /\ replacing /\ replacing' = FALSE
  /\ UNCHANGED <<config, cached, loads, clock, valueVars>>

Invalidate ==
  /\ replacing /\ replacing' = FALSE /\ cached' = NoEntry
  /\ UNCHANGED <<config, loads, clock, valueVars>>

\* SchemaMetadata up to its two reads; a fresh entry ends it (its answer is
\* the entry) unless the request asks for a refresh.
StartLoad(l, refresh) ==
  /\ loads[l] = NoLoad /\ (refresh \/ ~Fresh)
  /\ loads' = [loads EXCEPT ![l] = [config |-> config]]
  /\ UNCHANGED <<config, replacing, cached, clock, valueVars>>

\* The reads have answered: parse, filter by the profile that was read at the
\* start, and put; or one of them has failed.
SchemaMetadata(l) ==
  /\ loads[l] # NoLoad
  /\ loads' = [loads EXCEPT ![l] = NoLoad]
  /\ \/ cached' = [config |-> loads[l].config, at |-> clock, late |-> loads[l].config # config,
                   metadata |-> filterLDAPSchemaMetadataForProfile(BlockedIn[loads[l].config])]
     \/ UNCHANGED cached
  /\ UNCHANGED <<config, replacing, clock, valueVars>>

SchemaTick == clock < MaxClock /\ clock' = clock + 1 /\ UNCHANGED <<config, replacing, cached, loads, valueVars>>

(* ------------------------------- the values ------------------------------ *)
ValueAttrs == UNION AttributeTypes
NamedPassword == {"password", "pass"}
NamedBinary == {"photo"}
Text == {"code", "note", "password", "pass"}        \* their bytes are valid UTF-8
LooksEncoded == {"code", "password"}                \* ... that are base64 as well

\* Mutant: a password goes by its syntax.
SchemaDecides(a) == a \in NamedBinary \/ a \in BinaryNames

\* The name of a password wins, then a binary name, then the schema's syntax.
ldapBinaryValuePredicate(a) == a \notin NamedPassword /\ (a \in NamedBinary \/ a \in BinaryNames)

ldapEntryToType ==
  /\ wire' = IF ldapBinaryValuePredicate(attr) \/ attr \notin Text THEN "b64" ELSE "plain"
  /\ stored = "raw" /\ UNCHANGED <<cacheVars, attr, stored>>

\* What is no base64 goes out as it came.
decodeBinaryProtocolValues ==
  /\ wire # "none" /\ wire' = "none"
  /\ stored' = IF ldapBinaryValuePredicate(attr)
               THEN IF wire = "plain" /\ attr \in LooksEncoded THEN "mangled" ELSE "raw"
               ELSE IF wire = "b64" THEN "text64" ELSE "raw"
  /\ UNCHANGED <<cacheVars, attr>>

SchemaInit ==
  /\ config = 1 /\ replacing = FALSE /\ cached = NoEntry /\ clock = 0
  /\ loads = [l \in Loaders |-> NoLoad]
  /\ attr \in ValueAttrs /\ wire = "none" /\ stored = "raw"

SchemaNext ==
  \/ Replace \/ Invalidate \/ SchemaTick
  \/ \E l \in Loaders : SchemaMetadata(l) \/ \E refresh \in BOOLEAN : StartLoad(l, refresh)
  \/ ldapEntryToType \/ decodeBinaryProtocolValues

SchemaSpec == SchemaInit /\ [][SchemaNext]_schemaVars

(* ------------------------------- properties ------------------------------ *)
\* What the cache serves is the schema of the current configuration, without
\* the names its profile blocks; only a load that began under the
\* configuration before leaves the older one, and a Connect that is between
\* its two steps.
StaleOnlyByOverlap ==
  cached # NoEntry =>
    /\ cached.config # config => cached.late \/ replacing
    /\ (UNION cached.metadata.types) \cap BlockedIn[cached.config] = {}

\* A password and an attribute with a binary name are written back as the
\* bytes they were read from, whatever the cache holds at either moment.
NamedValuesSurvive == attr \in NamedPassword \cup NamedBinary => stored = "raw"
=============================================================================
