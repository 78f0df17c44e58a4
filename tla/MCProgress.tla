----------------------------- MODULE MCProgress -----------------------------
(* Liveness for TLC: the connection table, the search sessions, the search   *)
(* view and the entry editor.  The liveness of each is its own affair, so a  *)
(* behaviour is one of a single part; the others stay as they began.         *)
EXTENDS SearchClient, EntryEditor, FiniteSets

CONSTANTS Procs, Reaper, ConnIds, Entries, Configs, ReadOnly, Workload,
          SessionEntries, Sessions, Limit, MaxSessions

VARIABLES
  part,   \* which one it is
  conns, profile, conn, status, mu, retired, connServing, waited, toClose, connPc, ent, sock, req,
  current, connId, table, made, open, closed, smu, cookie, left, age, sessServing, sessPc, job, cur, sent, todo, after

Conn == INSTANCE ConnLifecycle WITH serving <- connServing, pc <- connPc
Sess == INSTANCE SearchSessions WITH Entries <- SessionEntries, serving <- sessServing, pc <- sessPc

connState == <<conns, profile, conn, status, mu, retired, connServing, waited, toClose, connPc, ent, sock, req>>
sessState == <<current, connId, table, made, open, closed, smu, cookie, left, age, sessServing, sessPc, job, cur,
               sent, todo, after>>
all == <<part, connState, sessState, vars, editorVars>>

ProgressInit ==
  /\ part \in {"connections", "sessions", "search", "editor"}
  /\ Conn!Init /\ Sess!Init /\ Init /\ EditorInit

\* Bounds the run: an edited draft stays on the form.
EditsInForm == touched' # {} => ~asText'

ProgressNext ==
  /\ \/ part = "connections" /\ Conn!Next /\ UNCHANGED <<sessState, vars, editorVars>>
     \/ part = "sessions" /\ Sess!Next /\ UNCHANGED <<connState, vars, editorVars>>
     \/ part = "search" /\ Next /\ UNCHANGED <<connState, sessState, editorVars>>
     \/ part = "editor" /\ EditorNext /\ EditsInForm /\ UNCHANGED <<connState, sessState, vars>>
  /\ UNCHANGED part

\* Of a part that stays as it began only the ticker of the reaper could move.
Progress ==
  /\ ProgressInit /\ [][ProgressNext]_all
  /\ Conn!Fairness
  /\ Sess!RequestFairness /\ WF_sessState(part = "sessions" /\ Sess!Tick)
  /\ WF_vars(Client)
  /\ EditorFairness

\* Every request on the connection table or on a search session is answered.
EveryRequestReturns == Conn!EveryRequestReturns /\ Sess!EveryRequestReturns

\* The connection of a replaced or removed entry is closed in the end.
DetachedIsClosed == Conn!DetachedIsClosed

\* A session whose client went away is closed soon after its TTL.
ExpiredIsReclaimed == Sess!ExpiredIsReclaimed

\* No spinner of the workbench spins for ever: neither that of a search nor those
\* of an entry that is read or saved.
SpinnersStop == SpinnerStops /\ EditorSettles
=============================================================================
