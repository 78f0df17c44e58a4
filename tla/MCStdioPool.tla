---------------------------- MODULE MCStdioPool ----------------------------
(* The two processes that serve requests on stdio for TLC: the stand-alone   *)
(* MCP server with its pool, and the sidecar of the desktop with its log     *)
(* panel.  A behaviour is one of one part: the others stay as they began.    *)
EXTENDS StdioPool, Sidecar, McpServe

VARIABLE part

Line(m, i, v) == [method |-> m, hasId |-> i, valid |-> v]
MCMix == {Line("write", TRUE, TRUE), Line("lifecycle", FALSE, TRUE)}

Text(s, i, m, t) == [shape |-> s, id |-> i, method |-> m, tool |-> t]
MCInputs ==
  {Text("long", "none", "bad", "ui"), Text("garbage", "none", "bad", "ui"),
   Text("request", "none", "notification", "ui"), Text("request", "valid", "notification", "ui"),
   Text("request", "none", "known", "ui"), Text("request", "valid", "known", "ui"),
   Text("request", "valid", "call", "session"), Text("request", "valid", "call", "desktop")}

servingVars == <<vars, sideVars, serveVars, part>>

ServingInit == part \in {"pool", "sidecar", "serve"} /\ Init /\ SideInit /\ ServeInit

Finished == part # "pool" /\ UNCHANGED servingVars

ServingNext ==
  /\ UNCHANGED part
  /\ \/ part = "pool" /\ Next /\ UNCHANGED <<sideVars, serveVars>>
     \/ part = "sidecar" /\ SideNext /\ UNCHANGED <<vars, serveVars>>
     \/ part = "serve" /\ ServeNext /\ UNCHANGED <<vars, sideVars>>
     \/ Finished

Serving == ServingInit /\ [][ServingNext]_servingVars
=============================================================================
