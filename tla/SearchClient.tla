---------------------------- MODULE SearchClient ----------------------------
(***************************************************************************)
(* The search view of the workbench (frontend/src/lib/useSearchSession.ts)  *)
(* against the paged searches of the sidecar.  A search is started, its     *)
(* cursor is drained page by page, and the cursor is cancelled when the     *)
(* view moves on.  Calls travel to the sidecar and back in any order; the   *)
(* watchdog of api.ts gives a call up after a while, and the sidecar may    *)
(* still serve it.                                                          *)
(*                                                                          *)
(* JavaScript runs to completion, so what follows an await is one step.  Of *)
(* the sidecar (SearchSessions) only the place of each cursor is kept.  A   *)
(* search is named by its request number; a page stands for its entries.    *)
(***************************************************************************)
EXTENDS Naturals, Sequences

CONSTANTS
  Pages,     \* the most pages a search has
  MaxSeq,    \* bounds the request numbers of a run
  MaxCalls,  \* bounds the calls after which a page may be asked for again
  None       \* no search

ASSUME BoundAssumption == Pages \in Nat \ {0} /\ MaxSeq \in Nat /\ MaxCalls \in Nat
ASSUME NoneAssumption == None \notin Nat

Searches == 1..MaxSeq
Attempts == 1..MaxCalls + Pages

VARIABLES
  alive,      \* the view is mounted
  seq,        \* searchRequestSeq
  active,     \* activeSearchSession
  model,      \* searchModel: the search the view is about
  rows,       \* results: pages
  complete,   \* resultsComplete
  truncated,  \* resultTruncated
  searching,  \* searching
  loading,    \* loadingMore
  failed,     \* searchError is set
  starting,   \* the searches that wait for the answer to searchStart
  loaders,    \* the invocations of loadNextSearchPage that wait for a page
  cursor,     \* sidecar: the pages a search has, those it has served, open or not
  calls,      \* calls that have not reached the sidecar
  answers,    \* answers that somebody waits for
  calledNext, \* how many times searchNext was called, by search
  gaveUp      \* history: the searches of which a call was given up

view    == <<alive, seq, active, model, rows, complete, truncated, searching, loading, failed>>
waiting == <<starting, loaders, calledNext>>
network == <<calls, answers>>
vars == <<view, waiting, cursor, network, gaveUp>>

Page    == [of: Searches, no: 1..Pages]
Call    == [op: {"start", "next", "cancel"}, of: Searches, call: Attempts \cup {0}]
Answer  == [of: Searches, call: Attempts \cup {0}, page: 0..Pages, more: BOOLEAN, cut: BOOLEAN]

TypeOK ==
  /\ alive \in BOOLEAN
  /\ seq \in 0..MaxSeq
  /\ active \in Searches \cup {None} /\ model \in Searches \cup {None}
  /\ rows \in Seq(Page)
  /\ complete \in BOOLEAN /\ truncated \in BOOLEAN /\ failed \in BOOLEAN
  /\ searching \in BOOLEAN /\ loading \in BOOLEAN
  /\ starting \subseteq Searches
  /\ \A l \in loaders : l.of \in Searches /\ l.call \in Attempts /\ l.since \in 0..1
                        /\ l.pending \in Seq(Page)
  /\ cursor \in [Searches -> [size: 0..Pages, at: 0..Pages, open: BOOLEAN]]
  /\ calls \subseteq Call
  /\ answers \subseteq Answer
  /\ calledNext \in [Searches -> 0..MaxCalls + Pages]
  /\ gaveUp \subseteq Searches

Init ==
  /\ alive = TRUE
  /\ seq = 0
  /\ active = None /\ model = None
  /\ rows = <<>>
  /\ complete = TRUE /\ truncated = FALSE /\ failed = FALSE
  /\ searching = FALSE /\ loading = FALSE
  /\ starting = {} /\ loaders = {}
  /\ cursor = [k \in Searches |-> [size |-> 0, at |-> 0, open |-> FALSE]]
  /\ calls = {} /\ answers = {}
  /\ calledNext = [k \in Searches |-> 0]
  /\ gaveUp = {}
----------------------------------------------------------------------------
(* Helpers *)

Cancelled == IF active = None THEN {} ELSE {[op |-> "cancel", of |-> active, call |-> 0]}

\* The answer is taken, or nobody waits for it any more.
Taken(k, n) == answers' = {a \in answers : a.of # k \/ a.call # n}

----------------------------------------------------------------------------
(* The user, and what the workbench does for him *)

\* runSearch up to its await; also retrySearch and refreshAfterWrite.
RunSearch ==
  LET k == seq + 1 IN
  /\ alive
  /\ seq < MaxSeq
  /\ seq' = k /\ model' = k
  /\ active' = None
  /\ rows' = <<>> /\ complete' = FALSE /\ failed' = FALSE
  /\ searching' = TRUE /\ loading' = FALSE
  /\ starting' = starting \cup {k}
  /\ calls' = calls \cup Cancelled \cup {[op |-> "start", of |-> k, call |-> 0]}
  /\ UNCHANGED <<alive, truncated, loaders, calledNext, cursor, answers, gaveUp>>

\* reset: the workbench turns to another connection.
Reset ==
  /\ alive
  /\ seq < MaxSeq
  /\ seq' = seq + 1
  /\ active' = None /\ model' = None
  /\ rows' = <<>> /\ complete' = TRUE /\ truncated' = FALSE /\ failed' = FALSE
  /\ searching' = FALSE /\ loading' = FALSE
  /\ calls' = calls \cup Cancelled
  /\ UNCHANGED <<alive, waiting, cursor, answers, gaveUp>>

\* The view is unmounted.
Dispose ==
  /\ alive
  /\ seq < MaxSeq
  /\ alive' = FALSE
  /\ seq' = seq + 1
  /\ active' = None
  /\ calls' = calls \cup Cancelled
  /\ UNCHANGED <<model, rows, complete, truncated, searching, loading, failed, waiting, cursor, answers, gaveUp>>

\* requestNextSearchPage: the retry after a page that failed.
RequestNext ==
  /\ alive
  /\ active # None /\ ~loading
  /\ calledNext[active] < MaxCalls
  /\ loading' = TRUE
  /\ loaders' = loaders \cup {[of |-> active, call |-> calledNext[active] + 1, pending |-> <<>>, since |-> 0]}
  /\ calledNext' = [calledNext EXCEPT ![active] = @ + 1]
  /\ calls' = calls \cup {[op |-> "next", of |-> active, call |-> calledNext[active] + 1]}
  /\ UNCHANGED <<alive, seq, active, model, rows, complete, truncated, searching, failed, starting, cursor,
                 answers, gaveUp>>

----------------------------------------------------------------------------
(* searchStart is answered *)

\* Broken: the cursor of a search that was given up is left to its TTL.
StaleIgnored(a) ==
  /\ starting' = starting \ {a.of}
  /\ UNCHANGED <<view, loaders, calledNext, calls>>

\* The view has moved on: the cursor of the late answer is cancelled.
StaleStart(a) ==
  /\ starting' = starting \ {a.of}
  /\ calls' = IF a.page = 0 THEN calls ELSE calls \cup {[op |-> "cancel", of |-> a.of, call |-> 0]}
  /\ UNCHANGED <<view, loaders, calledNext>>

\* request === searchRequestSeq
Newest(k) == k = seq

\* The first page; with more to come the first loader asks at once.
FirstPage(a) ==
  /\ rows' = <<[of |-> a.of, no |-> a.page]>>
  /\ complete' = ~a.more /\ truncated' = a.cut
  /\ searching' = FALSE
  /\ starting' = starting \ {a.of}
  /\ IF a.more
     THEN /\ active' = a.of /\ loading' = TRUE
          /\ loaders' = loaders \cup {[of |-> a.of, call |-> 1, pending |-> <<>>, since |-> 0]}
          /\ calledNext' = [calledNext EXCEPT ![a.of] = 1]
          /\ calls' = calls \cup {[op |-> "next", of |-> a.of, call |-> 1]}
     ELSE active' = None /\ UNCHANGED <<loading, loaders, calledNext, calls>>
  /\ UNCHANGED <<alive, seq, model, failed>>

\* An error, of the sidecar or of the watchdog.
StartFails(k) ==
  /\ starting' = starting \ {k}
  /\ IF Newest(k) THEN complete' = TRUE /\ failed' = TRUE /\ searching' = FALSE
     ELSE UNCHANGED <<complete, failed, searching>>
  /\ UNCHANGED <<alive, seq, active, model, rows, truncated, loading, loaders, calledNext, calls>>

StartAnswered ==
  \E a \in answers :
    /\ a.call = 0
    /\ Taken(a.of, 0)
    /\ \/ a.page # 0 /\ Newest(a.of) /\ FirstPage(a)
       \/ a.page # 0 /\ ~Newest(a.of) /\ StaleStart(a)
       \/ a.page = 0 /\ StartFails(a.of)
    /\ UNCHANGED <<cursor, gaveUp>>

StartGivenUp(k) ==
  /\ k \in starting
  /\ Taken(k, 0)
  /\ StartFails(k)
  /\ gaveUp' = gaveUp \cup {k}
  /\ UNCHANGED cursor

----------------------------------------------------------------------------
(* searchNext is answered *)

\* Broken: the pages that were not shown yet are forgotten at the end.
CommitNothing(l, page) == rows

\* commitPending
Commit(l, page) == rows \o l.pending \o page

\* The loader ends; what it leaves of its search is shown.
LastPage(l, a) ==
  /\ rows' = Commit(l, <<[of |-> a.of, no |-> a.page]>>)
  /\ complete' = TRUE
  /\ active' = None
  /\ loading' = FALSE
  /\ loaders' = loaders \ {l}
  /\ UNCHANGED <<calledNext, calls>>

\* Another page is asked for.  What is pending is shown after two pages or
\* after 250 milliseconds.
MiddlePage(l, a) ==
  LET page == [of |-> a.of, no |-> a.page]
      n == calledNext[l.of] + 1
  IN
  /\ complete' = FALSE
  /\ \/ /\ rows' = rows \o Append(l.pending, page)
        /\ loaders' = (loaders \ {l}) \cup {[of |-> l.of, call |-> n, pending |-> <<>>, since |-> 0]}
     \/ /\ l.since = 0
        /\ rows' = rows
        /\ loaders' = (loaders \ {l})
                        \cup {[of |-> l.of, call |-> n, pending |-> Append(l.pending, page), since |-> 1]}
  /\ calledNext' = [calledNext EXCEPT ![l.of] = n]
  /\ calls' = calls \cup {[op |-> "next", of |-> l.of, call |-> n]}
  /\ UNCHANGED <<active, loading>>

\* The view is still about the search this loader drains.
Current(l) == Newest(l.of) /\ active = l.of

\* An error: what was loaded is shown, the user may try again.
PageFails(l) ==
  /\ rows' = IF Current(l) THEN rows \o l.pending ELSE rows
  /\ loading' = (loading /\ ~Newest(l.of))
  /\ loaders' = loaders \ {l}
  /\ UNCHANGED <<alive, seq, active, model, complete, truncated, searching, failed, starting, calledNext, calls>>

\* The view has moved on: the page is dropped, the cursor was cancelled then.
StalePage(l) ==
  /\ loaders' = loaders \ {l}
  /\ loading' = (loading /\ ~Newest(l.of))
  /\ UNCHANGED <<alive, seq, active, model, rows, complete, truncated, searching, failed, starting, calledNext, calls>>

NextAnswered ==
  \E a \in answers, l \in loaders :
    /\ a.of = l.of /\ a.call = l.call
    /\ Taken(a.of, a.call)
    /\ \/ /\ a.page # 0 /\ Current(l)
          /\ truncated' = (truncated \/ a.cut)
          /\ IF a.more THEN MiddlePage(l, a) ELSE LastPage(l, a)
          /\ UNCHANGED <<alive, seq, model, searching, failed, starting>>
       \/ a.page # 0 /\ ~Current(l) /\ StalePage(l)
       \/ a.page = 0 /\ PageFails(l)
    /\ UNCHANGED <<cursor, gaveUp>>

\* Broken: nobody watches a page that does not come.
NeverGivenUp(l) == FALSE /\ UNCHANGED vars

NextGivenUp(l) ==
  /\ l \in loaders
  /\ Taken(l.of, l.call)
  /\ PageFails(l)
  /\ gaveUp' = gaveUp \cup {l.of}
  /\ UNCHANGED cursor

----------------------------------------------------------------------------
(* The sidecar serves a call, when it gets there *)

\* Somebody still waits for the answer.
Awaited(c) ==
  \/ c.op = "start" /\ c.of \in starting
  \/ c.op = "next" /\ \E l \in loaders : l.of = c.of /\ l.call = c.call

Reply(c, page, more, cut) ==
  answers' = IF ~Awaited(c) THEN answers
             ELSE answers \cup {[of |-> c.of, call |-> c.call, page |-> page, more |-> more, cut |-> cut]}

\* The server's cookie says that a page is left.
HasCookie(no, size) == no < size

\* SearchStart and SearchNext: an error closes the cursor, as does the last
\* page, which is the server's last or the one that reaches the size limit.
ServePage(c, size) ==
  LET k == c.of  no == cursor[k].at + 1 IN
  /\ \/ c.op = "start"
     \/ c.op = "next" /\ cursor[k].open /\ size = cursor[k].size
  /\ \E cut \in BOOLEAN :
       LET more == HasCookie(no, size) /\ ~cut IN
       /\ Reply(c, no, more, cut)
       /\ cursor' = [cursor EXCEPT ![k] = [size |-> size, at |-> no, open |-> more]]

ServeError(c) ==
  /\ c.op # "cancel"
  /\ Reply(c, 0, FALSE, FALSE)
  /\ cursor' = [cursor EXCEPT ![c.of].open = FALSE]

ServeCancel(c) ==
  /\ c.op = "cancel"
  /\ cursor' = [cursor EXCEPT ![c.of].open = FALSE]
  /\ UNCHANGED answers

Serve ==
  \E c \in calls :
    /\ calls' = calls \ {c}
    /\ (\E size \in 1..Pages : ServePage(c, size)) \/ ServeError(c) \/ ServeCancel(c)
    /\ UNCHANGED <<view, waiting, gaveUp>>

----------------------------------------------------------------------------

Client ==
  \/ StartAnswered \/ NextAnswered
  \/ \E k \in Searches : StartGivenUp(k)
  \/ \E l \in loaders : NextGivenUp(l)

Next == RunSearch \/ Reset \/ Dispose \/ RequestNext \/ Client \/ Serve

Spec == Init /\ [][Next]_vars

\* The watchdog's timer fires for every call that is not answered before; of
\* the sidecar nothing is assumed.
FairSpec == Spec /\ WF_vars(Client)
----------------------------------------------------------------------------
(* What the search view promises *)

PageNos == [i \in 1..Len(rows) |-> rows[i].no]

\* The rows are pages of the search the view is about, never of an older one
\* whose answer came late (useSearchSession.ts:111, :190); they start with the
\* first page and follow the order of the server's cursor, and none is left
\* out unless a call of this search was given up.
RowsInOrder ==
  /\ \A i \in 1..Len(rows) : rows[i].of = model
  /\ \A i, j \in 1..Len(rows) : i < j => rows[i].no < rows[j].no
  /\ rows # <<>> => rows[1].no = 1
  /\ model \notin gaveUp => PageNos = [i \in 1..Len(rows) |-> i]

\* The view says that it holds the whole result.
SaysComplete == model # None /\ complete /\ ~failed /\ ~truncated

\* Every page of the search is shown.
ShowsAll == PageNos = [i \in 1..cursor[model].size |-> i]

\* A result that is shown as complete, and may be exported as such
\* (App.vue:892), is complete: the pages kept back between two commits
\* (useSearchSession.ts:80-84) and the ones of a retry included.  The
\* exception is a search of which a call was given up.
CompleteIsAll == SaysComplete /\ model \notin gaveUp => ShowsAll

\* What the view shows, and what it says about it.
RowsAreTheResult == RowsInOrder /\ CompleteIsAll

\* Comment of useSearchSession.ts:98-99, that no entry is skipped, and of
\* App.vue:890-891, that no incomplete result is exported.  The code: after the
\* watchdog gave a page up, the retry takes the page after it, because the
\* sidecar served the first call too.
NothingSkipped == SaysComplete => ShowsAll

\* An open cursor of the sidecar has somebody who will drain or cancel it: the
\* view, the answer to its start, a cancel on its way
\* (useSearchSession.ts:74-78, :191).  The exception, the start that was given
\* up and served later, is left to the sidecar's TTL.
CursorHasKeeper ==
  \A k \in Searches :
    cursor[k].open => \/ active = k
                      \/ k \in starting \cup gaveUp
                      \/ [op |-> "cancel", of |-> k, call |-> 0] \in calls

\* A mounted view does not spin for ever, not even when the sidecar never
\* answers (api.ts:153-162), and however searches overlap: the `finally`s of
\* the older ones do not run for the newest (useSearchSession.ts:137, :231).
SpinnerStops == (alive /\ (searching \/ loading)) ~> (~alive \/ ~(searching \/ loading))
=============================================================================
