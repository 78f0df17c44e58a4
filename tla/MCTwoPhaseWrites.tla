-------------------------- MODULE MCTwoPhaseWrites --------------------------
(* The tools of the MCP server and the data directory for TLC: the two-phase *)
(* writes, the digest sessions, the intents of the user interface, and the   *)
(* presets and settings in their files.  A behaviour is one of one part: the *)
(* others stay as they began.                                                *)
EXTENDS TwoPhaseWrites, DigestSessions, UiIntents, LocalStore, TLC

VARIABLE part

MCBase == <<"d">>
MCRowSets == {<<<<"a", "d">>, <<"b", "a", "d">>, <<"c", "b", "a", "d">>>>}
MCShapes == {[ttl |-> 1, capacity |-> 2, maxRows |-> 2], [ttl |-> 1, capacity |-> 3, maxRows |-> 3]}

MCBounds == [f1 |-> [floor |-> 2, ceiling |-> 3, default |-> 2], f2 |-> [floor |-> 1, ceiling |-> 2, default |-> 1]]

toolVars == <<vars, digestVars, intentVars, localVars, part>>

ToolsInit ==
  /\ part \in {"writes", "digests", "intents", "store"}
  /\ Init /\ DigestInit /\ IntentInit /\ StoreInit
  /\ part # "digests" => shape = CHOOSE s \in MCShapes : TRUE
  /\ part # "store" => file["settings"] = Nothing

Finished == part # "writes" /\ UNCHANGED toolVars

ToolsNext ==
  /\ UNCHANGED part
  /\ \/ part = "writes" /\ Next /\ UNCHANGED <<digestVars, intentVars, localVars>>
     \/ part = "digests" /\ DigestNext /\ UNCHANGED <<vars, intentVars, localVars>>
     \/ part = "intents" /\ IntentNext /\ UNCHANGED <<vars, digestVars, localVars>>
     \/ part = "store" /\ StoreNext /\ UNCHANGED <<vars, digestVars, intentVars>>
     \/ Finished

Tools == ToolsInit /\ [][ToolsNext]_toolVars

\* The parts share no state and their model values: a call is the intent it
\* makes, and a workbench a connection.
Interchangeable == Permutations(Procs) \cup Permutations(ConnIds) \cup Permutations(Tokens)
=============================================================================
