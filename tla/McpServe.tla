------------------------------- MODULE McpServe ------------------------------
(* The stand-alone MCP server (mcp/stdio.go, appbridge.go): one reader of    *)
(* lines, a goroutine per request up to a limit, replies in any order, and a *)
(* bounded wait for what is in flight when the input ends.  A tool call on a *)
(* connection of the desktop is forwarded over its local bridge, which may   *)
(* have to be started.  The pool of the inline connections is StdioPool's.   *)
EXTENDS Naturals, Sequences, FiniteSets

CONSTANTS
  MaxInput,        \* bound: the lines of the host
  Inputs,          \* the lines it sends, some of InputType (bounds a run)
  MaxConcurrent,   \* maxConcurrentRequests
  EnsureWait,      \* DefaultBridgeEnsureWait, 30 s
  ForwardTimeout,  \* bridgeForwardTimeout, 300 s
  ReadMargin,      \* bridgeReadMargin, 150 s
  DrainMargin      \* 5 s

VARIABLES
  serve,   \* "reading", "draining", "returned"
  lines,     \* the lines that were read
  doing,     \* what becomes of each: "handle", "ensure", "forward", "over"
  since,     \* when its step began
  replies,   \* line -> the replies to it
  now,
  drainFrom,
  atEof      \* whether the input came to its end

serveVars == <<serve, lines, doing, since, replies, now, drainFrom, atEof>>

InputType ==
  [shape : {"long", "garbage", "batch", "request"}, id : {"none", "valid", "invalid"},
   method : {"bad", "notification", "known", "unknown", "call"},
   \* of a call: the interface, a connection by its parameters, one of the pool,
   \* one of the desktop, none, a tool without a connection
   tool : {"ui", "inline", "pooled", "desktop", "missing", "session"}]

Read == DOMAIN lines
InFlight == {n \in Read : doing[n] # "over"}
Answer(n, id, kind) == replies' = [replies EXCEPT ![n] = @ \cup {[id |-> id, kind |-> kind]}]

(* ------------------------------- the replies ----------------------------- *)
\* What handleLine answers at once, {} for nothing; a tool call goes on.
handleLine(l) ==
  CASE l.shape = "long" \/ l.shape = "garbage" \/ l.shape = "batch" -> {[id |-> "null", kind |-> "error"]}
    [] l.shape = "request" /\ l.method = "notification" -> {}
    [] l.shape = "request" /\ l.method # "notification" /\ l.id # "valid" -> {[id |-> "null", kind |-> "error"]}
    [] OTHER -> {[id |-> "own", kind |-> IF l.method \in {"bad", "unknown"} THEN "error" ELSE "result"]}
IsCall(l) == l.shape = "request" /\ l.method = "call" /\ l.id = "valid"

\* A notification without an id is dropped, one with an id is answered.
busyReplyFor(l) ==
  IF l.shape = "request" /\ l.id # "none" THEN {[id |-> "own", kind |-> "busy"]}
  ELSE IF l.shape = "request" /\ l.method = "notification" THEN {}
  ELSE {[id |-> "null", kind |-> "busy"]}

(* --------------------------------- Serve --------------------------------- *)
\* A line that is too long is answered by the reader, one over the limit as well.
ReadLine(l) ==
  /\ serve = "reading" /\ Len(lines) < MaxInput
  /\ LET busy == l.shape # "long" /\ Cardinality(InFlight) >= MaxConcurrent
     IN /\ lines' = Append(lines, l) /\ since' = Append(since, now)
        /\ doing' = Append(doing, IF busy \/ l.shape = "long" THEN "over" ELSE "handle")
        /\ replies' = Append(replies, IF busy THEN busyReplyFor(l)
                                      ELSE IF l.shape = "long" THEN handleLine(l) ELSE {})
  /\ UNCHANGED <<serve, now, drainFrom, atEof>>

\* The end of the input starts the wait; a read error returns at once.
InputEnds ==
  /\ serve = "reading"
  /\ \/ serve' = "draining" /\ atEof' = TRUE
     \/ serve' = "returned" /\ UNCHANGED atEof
  /\ drainFrom' = now
  /\ UNCHANGED <<lines, doing, since, replies, now>>

DrainLimit == EnsureWait + ForwardTimeout + DrainMargin

\* Mutant: it does not wait.
NotDrained ==
  /\ serve = "draining" /\ serve' = "returned"
  /\ UNCHANGED <<lines, doing, since, replies, now, drainFrom, atEof>>

Drained ==
  /\ serve = "draining" /\ (InFlight = {} \/ now >= drainFrom + DrainLimit)
  /\ serve' = "returned"
  /\ UNCHANGED <<lines, doing, since, replies, now, drainFrom, atEof>>

(* ------------------------------ the goroutines --------------------------- *)
Runs(n) == serve # "returned" /\ n \in Read
Over(n) == doing' = [doing EXCEPT ![n] = "over"]
Proceeds(n, s) == doing' = [doing EXCEPT ![n] = s] /\ since' = [since EXCEPT ![n] = now] /\ UNCHANGED replies

\* handleLine of what is no call for the desktop: one answer, and if it
\* panics, one without the id.
Handled(n) ==
  /\ Runs(n) /\ doing[n] = "handle" /\ ~(IsCall(lines[n]) /\ lines[n].tool = "desktop")
  /\ Over(n)
  /\ \/ replies' = [replies EXCEPT ![n] = handleLine(lines[n])]
     \/ IsCall(lines[n]) /\ Answer(n, "null", "error")
  /\ UNCHANGED <<serve, lines, since, now, drainFrom, atEof>>

\* resolveConnectionOrForward: an id that is not pooled is one of the desktop.
resolveConnectionOrForward(n) ==
  /\ Runs(n) /\ doing[n] = "handle" /\ IsCall(lines[n]) /\ lines[n].tool = "desktop"
  /\ Proceeds(n, "ensure")
  /\ UNCHANGED <<serve, lines, now, drainFrom, atEof>>

\* The bridge is there or comes within the time; or the call fails.
ensureBridge(n) ==
  /\ Runs(n) /\ doing[n] = "ensure"
  /\ \/ Proceeds(n, "forward")
     \/ /\ now >= since[n] + EnsureWait
        /\ Over(n) /\ Answer(n, "own", "result") /\ UNCHANGED since
  /\ UNCHANGED <<serve, lines, now, drainFrom, atEof>>

\* The desktop answers, or fails, or the client of the bridge gives up: its
\* time is that of the call and the margin for an approval.
callPluginTool(n) ==
  /\ Runs(n) /\ doing[n] = "forward"
  /\ Over(n) /\ Answer(n, "own", "result")
  /\ UNCHANGED <<serve, lines, since, now, drainFrom, atEof>>

Deadline(n) ==
  CASE doing[n] = "ensure" -> since[n] + EnsureWait
    [] doing[n] = "forward" -> since[n] + ForwardTimeout + ReadMargin
    [] doing[n] = "handle" -> since[n]
\* Time does not pass the deadline of a step, nor that of the wait.
ServeTick ==
  /\ serve # "returned" /\ now' = now + 1
  /\ \A n \in InFlight : now < Deadline(n)
  /\ serve = "draining" => now < drainFrom + DrainLimit
  /\ InFlight # {}
  /\ UNCHANGED <<serve, lines, doing, since, replies, drainFrom, atEof>>

ServeInit ==
  /\ serve = "reading" /\ lines = <<>> /\ doing = <<>> /\ since = <<>> /\ replies = <<>>
  /\ now = 0 /\ drainFrom = 0 /\ atEof = FALSE

ServeNext ==
  \/ \E l \in Inputs \cap InputType : ReadLine(l)
  \/ InputEnds \/ Drained \/ ServeTick
  \/ \E n \in Read : Handled(n) \/ resolveConnectionOrForward(n) \/ ensureBridge(n) \/ callPluginTool(n)

ServeSpec == ServeInit /\ [][ServeNext]_serveVars

\* Every line that is no notification is answered exactly once before Serve
\* returns at the end of the input, also one refused as busy and one whose tool
\* panicked, but for a call that outlasts the wait; a notification without an
\* id is never answered.
EveryLineHasItsReply ==
  \A n \in Read :
    LET silent == lines[n].shape = "request" /\ lines[n].method = "notification"
    IN /\ Cardinality(replies[n]) <= 1
       /\ silent /\ lines[n].id = "none" => replies[n] = {}
       /\ serve = "returned" /\ atEof /\ ~silent => replies[n] # {} \/ now >= drainFrom + DrainLimit
=============================================================================
