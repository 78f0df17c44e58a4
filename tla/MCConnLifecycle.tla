-------------------------- MODULE MCConnLifecycle --------------------------
(* The package ldapconn for TLC: the lifecycle of the connections, the       *)
(* writes and the reads under a profile, the schema cache with the values it *)
(* decides about, and the dial.  A behaviour is one of one part: the others  *)
(* stay as they began.                                                       *)
EXTENDS ConnLifecycle, ReadOps, SchemaValues, Dialing, TLC

VARIABLE part

MCProfiles ==
  {[readOnly |-> FALSE, readBases |-> {<<"R">>}, writeBases |-> {<<"a", "R">>}, blocked |-> {}],
   [readOnly |-> FALSE, readBases |-> {<<"b", "r">>}, writeBases |-> {}, blocked |-> {"cn"}],
   [readOnly |-> TRUE, readBases |-> {}, writeBases |-> {}, blocked |-> {"pw"}]}
MCBlockedIn == <<{}, {"password"}>>
MCEndpoints == [scheme : {"ldap", "ldaps", "ldapi", "http"}, startTLS : BOOLEAN, verified : BOOLEAN]
MCAuths ==
  [type : {"simple"}, named : BOOLEAN, mutual : {FALSE}, qop : {"auth"}, inline : {FALSE}, oddPort : {FALSE}]
  \cup [type : {"kerberos"}, named : BOOLEAN, mutual : BOOLEAN, qop : {"auth", "auth-conf"},
        inline : BOOLEAN, oddPort : BOOLEAN]

allVars == <<vars, dirVars, readVars, schemaVars, dialVars, part>>

PackageInit ==
  /\ part \in {"lifecycle", "write", "read", "schema", "dial"}
  /\ Init /\ DirInit /\ ReadInit /\ SchemaInit /\ DialInit
  /\ part \notin {"write", "read"} => policy = CHOOSE p \in MCProfiles : TRUE
  /\ part # "schema" => attr = "note"
  /\ part # "dial" => ~session

Finished == part # "lifecycle" /\ UNCHANGED allVars

PackageNext ==
  /\ UNCHANGED part
  /\ \/ part = "lifecycle" /\ Next /\ UNCHANGED <<dirVars, readVars, schemaVars, dialVars>>
     \/ part = "write" /\ DirNext /\ UNCHANGED <<vars, readVars, schemaVars, dialVars>>
     \/ part = "read" /\ ReadNext /\ UNCHANGED <<vars, dirVars, schemaVars, dialVars>>
     \/ part = "schema" /\ SchemaNext /\ UNCHANGED <<vars, dirVars, readVars, dialVars>>
     \/ part = "dial" /\ DialNext /\ UNCHANGED <<vars, dirVars, readVars, schemaVars>>
     \/ Finished

Package == PackageInit /\ [][PackageNext]_allVars

Interchangeable == Permutations(Procs) \cup Permutations(Callers)
=============================================================================
