------------------------------- MODULE Sidecar ------------------------------
(* The sidecar process (main.go on sdk.go): one reader of stdin, one         *)
(* goroutine per request, one locked writer of stdout; the request log       *)
(* (logbuf.go) and the panel of the frontend that follows it (logFeed.ts,    *)
(* LogPanelView.vue).  What a request does to a connection is in the other   *)
(* modules: here it succeeds, fails or panics.  The host reads what is        *)
(* written: a write to stdout does not fail.                                 *)
EXTENDS Naturals, Sequences, FiniteSets

CONSTANTS
  MaxLines,  \* bound: the lines of the host
  Mix,       \* the requests the host sends, some of Lines (bounds a run)
  LogMax,    \* logbuf.DefaultMax and LOG_FEED_MAX
  NoMethod   \* no request

ASSUME LogAssumption == LogMax \in Nat \ {0}

Requests == 1..MaxLines

VARIABLES
  stdin,     \* "open", "eof", "broken" (a read or the answer to initialize failed)
  exitAs,    \* "" while the process runs; "waiting" for the workers, then "end";
             \* "fatal" after an error of the reader, see CloseStdin
  stage,     \* the step of a request's goroutine
  request,   \* what the request is
  outcome,   \* what its handler made of it: "answer", "large" (over maxJSONBytes), "panic"
  entry,     \* the number of its log entry
  ring,      \* logbuf.Buffer: buf, next, full, seq
  stdout,    \* what was written, in order
  panel      \* the log panel: mounted, items, how much of stdout it saw, its backfill

hostVars == <<stdin, exitAs>>
sideVars == <<hostVars, stage, request, outcome, entry, ring, stdout, panel>>

\* The methods of dispatch, those alike to the model under one name.
ForwardedReads  == {"read"}        \* ldap/search .. ldap/check, childrenCount, compare, whoami
ForwardedWrites == {"write"}       \* ldap/entry/add, modify, delete, modifyDn, passwdModify
Unforwarded     == {"global"}      \* statuses, presets, ui/state/report, mcp/tools, settings
Lifecycle       == {"lifecycle"}   \* connection/test, connect, disconnect
dispatch == ForwardedReads \cup ForwardedWrites \cup Unforwarded \cup Lifecycle
              \cup {"mcp/call", "ldap/log/tail"}
Methods == dispatch \cup {"unknown"}

\* Methods with a goroutine; initialize is answered by the reader itself.
Lines == [method : Methods, hasId : BOOLEAN, valid : BOOLEAN]
shouldLogRequest(m) == m \notin Lifecycle \cup {"ldap/log/tail"}
\* decodeParams, lifecycle.Parse and the checks of the other handlers.
Accepted(q) == q.valid /\ q.method \in dispatch

Audited == ForwardedWrites \cup {"mcp/call"}
Alive == exitAs # "end"
Msg(kind, r, n) == [kind |-> kind, of |-> r, seq |-> n]
Write(m) == stdout' = Append(stdout, m)
Goes(r, s) == stage' = [stage EXCEPT ![r] = s]
\* What follows the handler: the entry of the request log, then the answer.
AfterHandler(r) == IF shouldLogRequest(request[r].method) THEN "append" ELSE "respond"

\* The reader takes one line after the other.
ReaderAt(r) ==
  /\ stdin = "open" /\ exitAs = "" /\ stage[r] = "unsent"
  /\ \A q \in 1..(r - 1) : stage[q] # "unsent"

decodeRequest(r, q) ==
  /\ ReaderAt(r)
  /\ request' = [request EXCEPT ![r] = q] /\ Goes(r, "handle")
  /\ UNCHANGED <<hostVars, outcome, entry, ring, stdout, panel>>

\* A line that is too long, is no request or is blank: skipped.
SkipLine(r) ==
  /\ ReaderAt(r)
  /\ Goes(r, "skipped")
  /\ UNCHANGED <<hostVars, request, outcome, entry, ring, stdout, panel>>

\* plugin/initialize: the reader answers, and gives up when it cannot.
Initialize(r) ==
  /\ ReaderAt(r)
  /\ \/ Write(Msg("answer", r, 0)) /\ Goes(r, "done") /\ UNCHANGED <<stdin, exitAs>>
     \/ stdin' = "broken" /\ exitAs' = "fatal" /\ Goes(r, "skipped") /\ UNCHANGED stdout
  /\ UNCHANGED <<request, outcome, entry, ring, panel>>

\* A request that dials its connection, or a disconnect, logs that too (Service.Log).
Connects(r) ==
  /\ Alive /\ stage[r] = "handle" /\ Accepted(request[r]) /\ request[r].method # "ldap/log/tail"
  /\ Goes(r, "connect")
  /\ UNCHANGED <<hostVars, request, outcome, entry, ring, stdout, panel>>

\* The event, whether or not the store is there and takes the record: a store
\* that fails is only logged (what the file has then is DirectoryOps's).
auditRecord(r) == Write(Msg("audit", r, 0))

\* The handler: a write is audited before it returns; one that panics is not.
Handle(r) ==
  /\ Alive /\ stage[r] \in {"handle", "run"}
  /\ \E o \in IF Accepted(request[r]) THEN {"answer", "large", "panic"} ELSE {"answer"} :
       /\ outcome' = [outcome EXCEPT ![r] = o]
       /\ Goes(r, IF o = "panic" THEN "respond" ELSE AfterHandler(r))
       /\ IF o # "panic" /\ Accepted(request[r]) /\ request[r].method \in Audited
          THEN auditRecord(r) ELSE UNCHANGED stdout
  /\ UNCHANGED <<stdin, exitAs, request, entry, ring, panel>>

\* logbuf.Append, and the event outside of its lock.
RingAppend(r) ==
  /\ Alive /\ stage[r] \in {"connect", "append"}
  /\ ring' = [seq |-> ring.seq + 1, buf |-> [ring.buf EXCEPT ![ring.next] = ring.seq + 1],
              next |-> (ring.next + 1) % LogMax,
              full |-> ring.full \/ (ring.next + 1) % LogMax = 0]
  /\ entry' = [entry EXCEPT ![r] = ring.seq + 1] /\ Goes(r, IF stage[r] = "connect" THEN "connectEvent" ELSE "logEvent")
  /\ UNCHANGED <<hostVars, request, outcome, stdout, panel>>

emitEvent(r) ==
  /\ Alive /\ stage[r] \in {"connectEvent", "logEvent"}
  /\ Write(Msg("log", r, entry[r])) /\ Goes(r, IF stage[r] = "connectEvent" THEN "run" ELSE "respond")
  /\ UNCHANGED <<hostVars, request, outcome, entry, ring, panel>>

\* A request without an id has no answer, and one whose answer is too large none.
respond(r) ==
  /\ Alive /\ stage[r] = "respond" /\ Goes(r, "done")
  /\ IF request[r].hasId /\ outcome[r] # "large"
     THEN Write(Msg("answer", r, 0)) ELSE UNCHANGED stdout
  /\ UNCHANGED <<hostVars, request, outcome, entry, ring, panel>>

\* End of input, or an error of the reader.  After an error CloseAll runs
\* beside the requests, which go on until log.Fatal ends the process wherever
\* they are: a behaviour in which they take no further step.
CloseStdin ==
  /\ stdin = "open" /\ exitAs = ""
  /\ \/ stdin' = "eof" /\ exitAs' = "waiting"
     \/ stdin' = "broken" /\ exitAs' = "fatal"
  /\ UNCHANGED <<stage, request, outcome, entry, ring, stdout, panel>>

\* Mutant: it does not wait for the workers.
ExitAtOnce ==
  /\ exitAs = "waiting" /\ exitAs' = "end"
  /\ UNCHANGED <<stdin, stage, request, outcome, entry, ring, stdout, panel>>

\* workers.Wait, then CloseAll and the end of the process.
Exit ==
  /\ exitAs = "waiting" /\ \A r \in Requests : stage[r] \in {"unsent", "skipped", "done"}
  /\ exitAs' = "end"
  /\ UNCHANGED <<stdin, stage, request, outcome, entry, ring, stdout, panel>>

\* Buffer.Tail: from the oldest place of the ring to the newest, as many
\* entries as the limit allows; the panel sorts them.
TailOf(after, limit) ==
  LET start == IF ring.full THEN ring.next ELSE 0
      count == IF ring.full THEN LogMax ELSE ring.next
      at(i) == ring.buf[(start + i) % LogMax]
      new == {i \in 0..(count - 1) : at(i) > after}
      cap == IF limit = 0 \/ limit > LogMax THEN LogMax ELSE limit
  IN {at(i) : i \in {j \in new : Cardinality({k \in new : k < j}) < cap}}

\* Mutant: the feed is not cut.
mergeUncut(items, tail) == items \cup tail

\* The set sorted by number, without what is over the limit.
mergeLogTail(items, tail) ==
  LET all == items \cup tail
  IN {n \in all : Cardinality({m \in all : m > n}) < LogMax}
nextLogCursor(items) == IF items = {} THEN 0 ELSE CHOOSE n \in items : \A m \in items : m <= n

PanelKeeps == UNCHANGED <<hostVars, stage, request, outcome, entry, ring>>

\* onMounted: it follows the events from here, and asks for the past.
PanelMounts ==
  /\ ~panel.mounted
  /\ panel' = [panel EXCEPT !.mounted = TRUE, !.seen = Len(stdout), !.backfill = "asked",
                            !.after = nextLogCursor(panel.items)]
  /\ UNCHANGED stdout /\ PanelKeeps

\* ldap/log/tail: the answer is on stdout behind the events before it.
TailAnswered ==
  /\ Alive /\ panel.backfill = "asked"
  /\ panel' = [panel EXCEPT !.backfill = "answered", !.tail = TailOf(panel.after, 2 * LogMax)]
  /\ Write(Msg("tail", NoMethod, 0)) /\ PanelKeeps

\* The panel takes the next message that is for it.
Unseen == {i \in DOMAIN stdout : i > panel.seen /\ stdout[i].kind \in {"log", "tail"}}
handleEvent ==
  /\ panel.mounted
  /\ \E next \in Unseen :
       /\ \A i \in Unseen : next <= i
       /\ LET m == stdout[next]
          IN panel' = [panel EXCEPT !.seen = next,
                         !.items = mergeLogTail(@, IF m.kind = "log" THEN {m.seq} ELSE panel.tail),
                         !.backfill = IF m.kind = "tail" THEN "merged" ELSE @]
  /\ UNCHANGED stdout /\ PanelKeeps

SideInit ==
  /\ stdin = "open" /\ exitAs = "" /\ stdout = <<>>
  /\ stage = [r \in Requests |-> "unsent"]
  /\ request = [r \in Requests |-> NoMethod]
  /\ outcome = [r \in Requests |-> "none"] /\ entry = [r \in Requests |-> 0]
  /\ ring = [seq |-> 0, buf |-> [i \in 0..(LogMax - 1) |-> 0], next |-> 0, full |-> FALSE]
  /\ panel = [mounted |-> FALSE, items |-> {}, seen |-> 0, backfill |-> "none", after |-> 0, tail |-> {}]

SideNext ==
  \/ \E r \in Requests :
       \/ \E q \in Mix \cap Lines : decodeRequest(r, q)
       \/ SkipLine(r) \/ Initialize(r) \/ Connects(r) \/ Handle(r)
       \/ RingAppend(r) \/ emitEvent(r) \/ respond(r)
  \/ CloseStdin \/ Exit \/ PanelMounts \/ TailAnswered \/ handleEvent

SideSpec == SideInit /\ [][SideNext]_sideVars

Written(kind, r) == {i \in DOMAIN stdout : stdout[i].kind = kind /\ stdout[i].of = r}

\* No request is answered twice; when the process ends as it should, every
\* request with an id was answered, but for an answer that is too large; and
\* the events of a request, that of its audit record and that of its log
\* entry, are written before its answer.
AnsweredOnce ==
  \A r \in Requests :
    /\ Cardinality(Written("answer", r)) <= 1
    /\ exitAs = "end" /\ request[r] # NoMethod /\ request[r].hasId
         => Written("answer", r) # {} \/ outcome[r] = "large"
    /\ \A i \in Written("answer", r) :
         request[r] # NoMethod /\ outcome[r] # "panic" /\ shouldLogRequest(request[r].method)
           => /\ \E j \in Written("log", r) : j < i /\ stdout[j].seq = entry[r]
              /\ request[r].method \in ForwardedWrites /\ Accepted(request[r])
                   => \E j \in Written("audit", r) : j < i

\* Once the panel has merged the past and taken every event, it shows the
\* last entries of the log: none is missing or twice, in whatever order the
\* events of concurrent requests came.
PanelShowsTheLog ==
  panel.backfill = "merged" /\ Unseen = {} /\ (\A r \in Requests : stage[r] \notin {"connectEvent", "logEvent"})
    => panel.items = {n \in 1..ring.seq : n + LogMax > ring.seq}
=============================================================================
