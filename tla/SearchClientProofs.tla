------------------------- MODULE SearchClientProofs -------------------------
(* The search view for any number of searches, pages and calls: who keeps an *)
(* open cursor, and that the rows are the pages of the search, in order.     *)
EXTENDS SearchClient, SequenceTheorems, TLAPS

StartCall(k)  == [op |-> "start", of |-> k, call |-> 0]
NextCall(k, n) == [op |-> "next", of |-> k, call |-> n]

\* A search that has not begun.
Fresh ==
  \A k \in Searches : k > seq =>
    /\ k \notin starting /\ k \notin gaveUp /\ calledNext[k] = 0
    /\ cursor[k].at = 0 /\ ~cursor[k].open
    /\ \A c \in calls : c.of # k
    /\ \A l \in loaders : l.of # k

\* The search that is going on: it is the newest, and the one the view shows.
Underway == active # None \/ seq \in starting \/ \E l \in loaders : l.of = seq
ViewIsNewest ==
  /\ active # None => active = seq /\ seq \notin starting /\ calledNext[seq] > 0
  /\ Underway => alive /\ model = seq
  /\ alive /\ model # None => model = seq
  /\ model # None => model <= seq
  /\ \A k \in starting : calledNext[k] = 0

\* A search has one loader, which waits for the last page asked for.
OneLoader ==
  \A l \in loaders :
    /\ l.call = calledNext[l.of] /\ l.call > 0
    /\ l.of = seq => active = seq /\ loading
    /\ \A m \in loaders : m.of = l.of => m = l

\* Somebody waits for the answer to call n of search k.
SomeoneWaits(k, n) ==
  IF n = 0 THEN k \in starting ELSE \E l \in loaders : l.of = k /\ l.call = n

\* A call is made once: it travels, or its answer does, and somebody waits for
\* it unless a call of the search was given up.
CalledOnce ==
  /\ \A a \in answers : /\ SomeoneWaits(a.of, a.call)
                        /\ \A b \in answers : b.of = a.of /\ b.call = a.call => b = a
  /\ \A c \in calls :
       c.op # "cancel" =>
         /\ c.op = "start" <=> c.call = 0
         /\ SomeoneWaits(c.of, c.call) \/ c.of \in gaveUp
         /\ c.call <= calledNext[c.of]
         /\ \A a \in answers : a.of # c.of \/ a.call # c.call
  /\ \A c \in calls : c.op = "start" => calledNext[c.of] = 0 /\ cursor[c.of].at = 0 /\ ~cursor[c.of].open

\* What an answer says of the cursor.
AnswersTrue ==
  /\ \A k \in Searches : /\ cursor[k].at <= cursor[k].size
                         /\ cursor[k].open => cursor[k].at < cursor[k].size
  /\ \A a \in answers :
       /\ a.page <= cursor[a.of].at
       /\ a.more => a.page # 0 /\ a.page < Pages
       /\ ~a.more => ~cursor[a.of].open
       /\ a.page # 0 /\ ~a.more /\ ~a.cut => a.page = cursor[a.of].size
       /\ a.call = 0 /\ a.page # 0 => a.page = 1 /\ cursor[a.of].at = 1

KeeperInv == TypeOK /\ Fresh /\ ViewIsNewest /\ OneLoader /\ CalledOnce /\ AnswersTrue /\ CursorHasKeeper

\* Pages of search k in the order of its cursor, from the first; without a gap
\* unless a call was given up.
InOrder(s, k) ==
  /\ \A i \in 1..Len(s) : s[i].of = k
  /\ \A i, j \in 1..Len(s) : i < j => s[i].no < s[j].no
  /\ s # <<>> => s[1].no = 1
  /\ k \notin gaveUp => \A i \in 1..Len(s) : s[i].no = i

\* The page that answers the loader, when it is there.
PageFor(l) == {a \in answers : a.of = l.of /\ a.call = l.call /\ a.page # 0}

\* What the loader of the newest search holds goes as far as its cursor.
Held(l) ==
  LET s == rows \o l.pending IN
  /\ InOrder(s, seq)
  /\ calledNext[seq] <= MaxCalls + s[Len(s)].no
  /\ s[Len(s)].no <= cursor[seq].at
  /\ \A a \in PageFor(l) : s[Len(s)].no < a.page
  /\ seq \notin gaveUp =>
       /\ PageFor(l) = {} => cursor[seq].at = Len(s)
       /\ \A a \in PageFor(l) : a.page = Len(s) + 1 /\ cursor[seq].at = Len(s) + 1
LoaderInOrder == \A l \in loaders : l.of = seq => Held(l)

RowsOfActive ==
  active # None =>
    /\ rows # <<>> /\ ~complete
    /\ rows[Len(rows)].no <= cursor[seq].at
    /\ seq \notin gaveUp /\ ~loading => cursor[seq].at = Len(rows)
    /\ loading => \E l \in loaders : l.of = seq

ViewInOrder ==
  /\ InOrder(rows, model)
  /\ model \in starting => ~complete
  /\ seq \in starting => rows = <<>>

CompleteHasAll == SaysComplete /\ model \notin gaveUp => Len(rows) = cursor[model].size

RowsInv == LoaderInOrder /\ RowsOfActive /\ ViewInOrder /\ CompleteHasAll

SearchInv == KeeperInv /\ RowsInv
----------------------------------------------------------------------------
(* The steps of the search view, one by one *)

StartStep(a) == a \in answers /\ a.call = 0 /\ Taken(a.of, 0) /\ UNCHANGED <<cursor, gaveUp>>
First(a)     == StartStep(a) /\ a.page # 0 /\ Newest(a.of) /\ FirstPage(a)
Late(a)      == StartStep(a) /\ a.page # 0 /\ ~Newest(a.of) /\ StaleStart(a)
NoStart(k)   == k \in starting /\ Taken(k, 0) /\ StartFails(k) /\ UNCHANGED cursor
                /\ gaveUp \subseteq gaveUp' /\ gaveUp' \subseteq gaveUp \cup {k}
                /\ (k \in gaveUp' \/ \E a \in answers : a.of = k /\ a.call = 0 /\ a.page = 0)

PageStep(a, l) == /\ a \in answers /\ l \in loaders /\ a.of = l.of /\ a.call = l.call /\ a.page # 0
                  /\ Taken(l.of, l.call) /\ UNCHANGED <<cursor, gaveUp>>
OnePage(a, l)  == /\ PageStep(a, l) /\ Current(l)
                  /\ truncated' = (truncated \/ a.cut)
                  /\ UNCHANGED <<alive, seq, model, searching, failed, starting>>
Middle(a, l)   == OnePage(a, l) /\ a.more /\ MiddlePage(l, a)
Last(a, l)     == OnePage(a, l) /\ ~a.more /\ LastPage(l, a)
Stale(a, l)    == PageStep(a, l) /\ ~Current(l) /\ StalePage(l)
NoPage(l)      == l \in loaders /\ Taken(l.of, l.call) /\ PageFails(l) /\ UNCHANGED cursor
                  /\ gaveUp \subseteq gaveUp' /\ gaveUp' \subseteq gaveUp \cup {l.of}
                  /\ (l.of \in gaveUp' \/ \E a \in answers : a.of = l.of /\ a.call = l.call /\ a.page = 0)

ServeStep(c)      == c \in calls /\ calls' = calls \ {c} /\ UNCHANGED <<view, waiting, gaveUp>>
Served(c, size)   == ServeStep(c) /\ c.op # "cancel" /\ size \in 1..Pages /\ ServePage(c, size)
Refused(c)        == ServeStep(c) /\ ServeError(c)
CancelServed(c)   == ServeStep(c) /\ ServeCancel(c)

\* Every step is one of these.
LEMMA StepCases ==
  ASSUME SearchInv, [Next]_vars
  PROVE  \/ RunSearch \/ Reset \/ Dispose \/ RequestNext
         \/ \E a \in answers : First(a) \/ Late(a)
         \/ \E k \in Searches : NoStart(k)
         \/ \E a \in answers, l \in loaders : Middle(a, l) \/ Last(a, l) \/ Stale(a, l)
         \/ \E l \in loaders : NoPage(l)
         \/ \E c \in calls : Refused(c) \/ CancelServed(c) \/ \E size \in 1..Pages : Served(c, size)
         \/ UNCHANGED vars
<1>1. ASSUME StartAnswered
      PROVE  \/ \E a \in answers : First(a) \/ Late(a)
             \/ \E k \in Searches : NoStart(k)
  <2>1. PICK a \in answers :
          /\ a.call = 0 /\ Taken(a.of, 0) /\ UNCHANGED <<cursor, gaveUp>>
          /\ \/ a.page # 0 /\ Newest(a.of) /\ FirstPage(a)
             \/ a.page # 0 /\ ~Newest(a.of) /\ StaleStart(a)
             \/ a.page = 0 /\ StartFails(a.of)
    BY <1>1 DEF StartAnswered
  <2>2. CASE a.page = 0
    <3>1. a.of \in Searches /\ a.of \in starting
      BY <2>1, <2>2 DEF SearchInv, KeeperInv, TypeOK, Answer, CalledOnce, SomeoneWaits
    <3> QED
      BY <2>1, <2>2, <3>1 DEF NoStart
  <2> QED
    BY <2>1, <2>2 DEF First, Late, StartStep
<1>2. ASSUME NEW k \in Searches, StartGivenUp(k) PROVE NoStart(k)
  BY <1>2 DEF StartGivenUp, NoStart
<1>3. ASSUME NextAnswered
      PROVE  \/ \E a \in answers, l \in loaders : Middle(a, l) \/ Last(a, l) \/ Stale(a, l)
             \/ \E l \in loaders : NoPage(l)
  <2>1. PICK a \in answers, l \in loaders :
          /\ a.of = l.of /\ a.call = l.call
          /\ Taken(a.of, a.call) /\ UNCHANGED <<cursor, gaveUp>>
          /\ \/ /\ a.page # 0 /\ Current(l)
                /\ truncated' = (truncated \/ a.cut)
                /\ IF a.more THEN MiddlePage(l, a) ELSE LastPage(l, a)
                /\ UNCHANGED <<alive, seq, model, searching, failed, starting>>
             \/ a.page # 0 /\ ~Current(l) /\ StalePage(l)
             \/ a.page = 0 /\ PageFails(l)
    BY <1>3 DEF NextAnswered
  <2>2. CASE a.page = 0
    BY <2>1, <2>2 DEF NoPage
  <2> QED
    BY <2>1, <2>2 DEF Middle, Last, Stale, OnePage, PageStep
<1>4. ASSUME NEW l \in loaders, NextGivenUp(l) PROVE NoPage(l)
  BY <1>4 DEF NextGivenUp, NoPage
<1>5. ASSUME Serve
      PROVE  \E c \in calls : Refused(c) \/ CancelServed(c) \/ \E size \in 1..Pages : Served(c, size)
  BY <1>5 DEF Serve, Refused, CancelServed, Served, ServeStep, ServePage
<1> QED
  BY <1>1, <1>2, <1>3, <1>4, <1>5 DEF Next, Client
----------------------------------------------------------------------------
LEMMA InitInv == Init => SearchInv
<1> SUFFICES ASSUME Init PROVE SearchInv
  OBVIOUS
<1> USE BoundAssumption, NoneAssumption DEF Init, Searches
<1>1. TypeOK
  <2>1. rows \in Seq(Page)
    OBVIOUS
  <2>2. cursor \in [Searches -> [size: 0..Pages, at: 0..Pages, open: BOOLEAN]]
    <3>1. [size |-> 0, at |-> 0, open |-> FALSE] \in [size: 0..Pages, at: 0..Pages, open: BOOLEAN]
      OBVIOUS
    <3> HIDE DEF Searches
    <3> QED
      BY <3>1
  <2>3. calledNext \in [Searches -> 0..MaxCalls + Pages]
    <3>1. 0 \in 0..MaxCalls + Pages
      OBVIOUS
    <3> HIDE DEF Searches
    <3> QED
      BY <3>1
  <2>4. seq \in 0..MaxSeq
    OBVIOUS
  <2> HIDE DEF Searches
  <2> QED
    BY <2>1, <2>2, <2>3, <2>4 DEF TypeOK
<1>2. Fresh /\ ViewIsNewest /\ OneLoader /\ CalledOnce /\ AnswersTrue
  BY DEF Fresh, ViewIsNewest, Underway, OneLoader, CalledOnce, AnswersTrue
<1>3. CursorHasKeeper
  BY DEF CursorHasKeeper
<1>4. RowsInv
  BY DEF RowsInv, LoaderInOrder, Held, RowsOfActive, ViewInOrder, InOrder, CompleteHasAll, SaysComplete
<1> QED
  BY <1>1, <1>2, <1>3, <1>4 DEF SearchInv, KeeperInv

\* The cancel that RunSearch, Reset and Dispose send.
LEMMA CancelledOf ==
  /\ \A c \in Cancelled : active # None /\ c.op = "cancel" /\ c.of = active /\ c.call = 0
  /\ active # None => [op |-> "cancel", of |-> active, call |-> 0] \in Cancelled
BY DEF Cancelled


\* The names of the searches that are known to somebody.
LEMMA Known ==
  ASSUME SearchInv
  PROVE  /\ seq \in Nat /\ seq <= MaxSeq
         /\ \A k \in Searches : k \in Nat /\ k # None
         /\ active # None => active = seq /\ seq \in Searches
         /\ \A k \in starting : k \in Searches /\ k <= seq /\ calledNext[k] = 0
         /\ \A l \in loaders : /\ l.of \in Searches /\ l.of <= seq /\ l.of \notin starting
                               /\ l.call = calledNext[l.of] /\ calledNext[l.of] > 0
                               /\ \A m \in loaders : m.of = l.of => m = l
         /\ \A a \in answers : /\ a.of \in Searches /\ a.of <= seq /\ SomeoneWaits(a.of, a.call)
                               /\ a.call = 0 => a.of \in starting
         /\ \A k \in Searches : calledNext[k] \in Nat
<1> USE DEF SearchInv, KeeperInv
<1>1. seq \in Nat /\ seq <= MaxSeq /\ \A k \in Searches : k \in Nat /\ k # None
  BY BoundAssumption, NoneAssumption DEF TypeOK, Searches
<1>2. \A k \in Searches : calledNext[k] \in Nat
  BY BoundAssumption DEF TypeOK
<1>3. active # None => active = seq /\ seq \in Searches
  BY DEF TypeOK, ViewIsNewest
<1>4. \A k \in starting : k \in Searches /\ k <= seq /\ calledNext[k] = 0
  BY <1>1 DEF TypeOK, ViewIsNewest, Fresh
<1>5. \A l \in loaders : /\ l.of \in Searches /\ l.of <= seq /\ l.of \notin starting
                         /\ l.call = calledNext[l.of] /\ calledNext[l.of] > 0
                         /\ \A m \in loaders : m.of = l.of => m = l
  <2> TAKE l \in loaders
  <2>1. l.of \in Searches
    BY DEF TypeOK
  <2>2. l.call = calledNext[l.of] /\ l.call > 0 /\ \A m \in loaders : m.of = l.of => m = l
    BY DEF OneLoader
  <2>3. l.of <= seq
    BY <1>1, <2>1 DEF Fresh
  <2> QED
    BY <1>4, <2>1, <2>2, <2>3
<1>6. ASSUME NEW a \in answers
      PROVE  /\ a.of \in Searches /\ a.of <= seq /\ SomeoneWaits(a.of, a.call)
             /\ a.call = 0 => a.of \in starting
  <2>1. SomeoneWaits(a.of, a.call)
    BY DEF CalledOnce
  <2> QED
    BY <2>1, <1>4, <1>5 DEF SomeoneWaits
<1> QED
  BY <1>1, <1>2, <1>3, <1>4, <1>5, <1>6

\* A loader of the newest search asks for its next page.
Asked(p, s) ==
  /\ seq \in Searches
  /\ alive /\ model = seq /\ UNCHANGED <<alive, seq, model>>
  /\ active' = seq /\ loading' = TRUE
  /\ loaders' = {l \in loaders : l.of # seq}
                  \cup {[of |-> seq, call |-> calledNext[seq] + 1, pending |-> p, since |-> s]}
  /\ calledNext' = [calledNext EXCEPT ![seq] = @ + 1]
  /\ calls' = calls \cup {NextCall(seq, calledNext[seq] + 1)}
  /\ starting' = starting \ {seq}
  /\ answers' = {a \in answers : a.of # seq}
  /\ \A c \in calls : c.of = seq /\ c.op # "cancel" => c.op = "next" /\ seq \in gaveUp
  /\ UNCHANGED <<cursor, gaveUp>>

\* Who waits for an answer waits for no other of that search; and the call is
\* over, unless one was given up.
LEMMA OneAnswer ==
  ASSUME SearchInv
  PROVE  /\ \A l \in loaders, a \in answers : a.of = l.of => a.call = l.call
         /\ \A k \in starting, a \in answers : a.of = k => a.call = 0
         /\ \A a \in answers, c \in calls : c.of = a.of /\ c.op # "cancel" => c.op = "next" /\ c.of \in gaveUp
         /\ \A c \in calls : c.op # "cancel" /\ c.of \notin starting /\ c.of \notin gaveUp => \E l \in loaders : l.of = c.of
         /\ \A c \in calls : c.op = "start" => calledNext[c.of] = 0
         /\ \A c \in calls : c.op \in {"start", "next", "cancel"} /\ c.of \in Searches
<1>1. /\ \A l \in loaders, a \in answers : a.of = l.of => a.call = l.call
      /\ \A k \in starting, a \in answers : a.of = k => a.call = 0
  BY Known DEF SomeoneWaits
<1>2. \A c \in calls : c.op = "start" => calledNext[c.of] = 0
  BY DEF SearchInv, KeeperInv, CalledOnce
<1>3. \A c \in calls : c.op \in {"start", "next", "cancel"} /\ c.of \in Searches
  BY DEF SearchInv, KeeperInv, TypeOK, Call
<1>4. \A c \in calls : c.op # "cancel" /\ c.of \notin gaveUp => SomeoneWaits(c.of, c.call)
  BY DEF SearchInv, KeeperInv, CalledOnce
<1>5. ASSUME NEW a \in answers, NEW c \in calls, c.of = a.of, c.op # "cancel"
      PROVE  c.op = "next" /\ c.of \in gaveUp
  <2>1. a.call # c.call /\ (c.op = "start" <=> c.call = 0) /\ SomeoneWaits(a.of, a.call)
    BY <1>5 DEF SearchInv, KeeperInv, CalledOnce
  <2>2. c.of \in gaveUp
    BY <1>4, <1>5, <2>1, Known DEF SomeoneWaits
  <2>3. c.op # "start"
    BY <1>2, <1>5, <2>1, Known DEF SomeoneWaits
  <2> QED
    BY <1>3, <1>5, <2>2, <2>3
<1> QED
  BY <1>1, <1>2, <1>3, <1>4, <1>5 DEF SomeoneWaits

LEMMA UnderwayIsShown ==
  ASSUME SearchInv
  PROVE  (active # None \/ seq \in starting \/ \E l \in loaders : l.of = seq) => alive /\ model = seq
BY DEF SearchInv, KeeperInv, ViewIsNewest, Underway

LEMMA RequestAsks ==
  ASSUME SearchInv, RequestNext
  PROVE  /\ Asked(<<>>, 0) /\ active = seq /\ ~loading /\ calledNext[seq] < MaxCalls
         /\ UNCHANGED <<rows, complete, truncated, failed, searching, starting, answers>>
<1>1. /\ active = seq /\ seq \in Searches /\ seq \notin starting /\ alive /\ model = seq
      /\ \A l \in loaders : l.of # seq
  BY Known, UnderwayIsShown DEF RequestNext, SearchInv, KeeperInv, OneLoader, ViewIsNewest
<1>2. \A a \in answers : a.of # seq
  BY <1>1, Known DEF SomeoneWaits
<1>3. \A c \in calls : c.of = seq /\ c.op # "cancel" => c.op = "next" /\ seq \in gaveUp
  <2>1. calledNext[seq] > 0
    BY <1>1 DEF RequestNext, SearchInv, KeeperInv, ViewIsNewest
  <2> QED
    BY <1>1, <2>1, OneAnswer
<1>4. answers' = {a \in answers : a.of # seq}
  BY <1>2 DEF RequestNext
<1> QED
  BY <1>1, <1>3, <1>4 DEF RequestNext, Asked, NextCall

LEMMA FirstAsks ==
  ASSUME SearchInv, NEW a \in answers, First(a), a.more
  PROVE  /\ Asked(<<>>, 0) /\ a.of = seq /\ seq \in starting /\ starting' = starting \ {seq}
         /\ rows' = <<[of |-> seq, no |-> a.page]>> /\ complete' = FALSE
         /\ UNCHANGED failed
<1>1. /\ a.of = seq /\ seq \in starting /\ seq \in Searches /\ calledNext[seq] = 0 /\ alive /\ model = seq
      /\ \A l \in loaders : l.of # seq
  BY Known, UnderwayIsShown DEF First, StartStep, Newest
<1>2. calledNext' = [calledNext EXCEPT ![seq] = @ + 1] /\ calls' = calls \cup {NextCall(seq, calledNext[seq] + 1)}
  BY <1>1 DEF First, FirstPage, NextCall
<1>3. loaders' = {l \in loaders : l.of # seq} \cup {[of |-> seq, call |-> calledNext[seq] + 1, pending |-> <<>>, since |-> 0]}
  BY <1>1 DEF First, FirstPage
<1>5. /\ answers' = {b \in answers : b.of # seq}
      /\ \A c \in calls : c.of = seq /\ c.op # "cancel" => c.op = "next" /\ seq \in gaveUp
  BY <1>1, OneAnswer DEF First, StartStep, Taken
<1>4. Asked(<<>>, 0)
  BY <1>1, <1>2, <1>3, <1>5 DEF First, StartStep, FirstPage, Asked
<1> QED
  BY <1>1, <1>4 DEF First, StartStep, FirstPage, Taken

LEMMA MiddleAsks ==
  ASSUME SearchInv, NEW a \in answers, NEW l \in loaders, Middle(a, l)
  PROVE  /\ l.of = seq /\ active = seq
         /\ \E p, s : /\ Asked(p, s) /\ s \in 0..1
                      /\ \/ rows' = rows \o Append(l.pending, [of |-> seq, no |-> a.page]) /\ p = <<>>
                         \/ rows' = rows /\ p = Append(l.pending, [of |-> seq, no |-> a.page])
         /\ complete' = FALSE
         /\ UNCHANGED <<failed, starting>>
<1>1. /\ a.of = seq /\ l.of = seq /\ seq \in Searches /\ active = seq /\ seq \notin starting
      /\ alive /\ model = seq /\ loaders \ {l} = {m \in loaders : m.of # seq}
  BY Known, UnderwayIsShown DEF Middle, OnePage, PageStep, Current, Newest
<1>2. loading
  BY <1>1 DEF SearchInv, KeeperInv, OneLoader
<1>3. loading' = TRUE
  BY <1>2 DEF Middle, MiddlePage, SearchInv, KeeperInv, TypeOK
<1>4. ASSUME NEW p, NEW s,
             loaders' = (loaders \ {l}) \cup {[of |-> l.of, call |-> calledNext[l.of] + 1, pending |-> p, since |-> s]}
      PROVE  Asked(p, s)
  <2>2. /\ answers' = {b \in answers : b.of # seq}
        /\ \A c \in calls : c.of = seq /\ c.op # "cancel" => c.op = "next" /\ seq \in gaveUp
    BY <1>1, OneAnswer DEF Middle, OnePage, PageStep, Taken
  <2>1. /\ calledNext' = [calledNext EXCEPT ![seq] = @ + 1]
        /\ calls' = calls \cup {NextCall(seq, calledNext[seq] + 1)}
    BY <1>1 DEF Middle, MiddlePage, NextCall
  <2> QED
    BY <1>1, <1>3, <1>4, <2>1, <2>2 DEF Middle, OnePage, PageStep, MiddlePage, Asked
<1>5. \E p, s : /\ Asked(p, s) /\ s \in 0..1
                /\ \/ rows' = rows \o Append(l.pending, [of |-> seq, no |-> a.page]) /\ p = <<>>
                   \/ rows' = rows /\ p = Append(l.pending, [of |-> seq, no |-> a.page])
  <2> DEFINE page == [of |-> seq, no |-> a.page]
             Loads(p, s) == [of |-> l.of, call |-> calledNext[l.of] + 1, pending |-> p, since |-> s]
  <2>1. CASE rows' = rows \o Append(l.pending, page) /\ loaders' = (loaders \ {l}) \cup {Loads(<<>>, 0)}
    <3>1. Asked(<<>>, 0)
      BY <1>4, <2>1
    <3> QED
      BY <2>1, <3>1
  <2>2. CASE rows' = rows /\ loaders' = (loaders \ {l}) \cup {Loads(Append(l.pending, page), 1)}
    <3>1. Asked(Append(l.pending, page), 1)
      BY <1>4, <2>2
    <3>2. 1 \in 0..1
      OBVIOUS
    <3> WITNESS Append(l.pending, page), 1
    <3> QED
      BY <2>2, <3>1, <3>2
  <2>3. [of |-> a.of, no |-> a.page] = page
    BY <1>1
  <2>4. MiddlePage(l, a)
    BY DEF Middle
  <2>5. \/ /\ rows' = rows \o Append(l.pending, [of |-> a.of, no |-> a.page])
           /\ loaders' = (loaders \ {l}) \cup {Loads(<<>>, 0)}
        \/ /\ rows' = rows
           /\ loaders' = (loaders \ {l}) \cup {Loads(Append(l.pending, [of |-> a.of, no |-> a.page]), 1)}
    BY <2>4, Zenon DEF MiddlePage
  <2> QED
    BY <2>1, <2>2, <2>3, <2>5, Zenon
<1>6. complete' = FALSE /\ UNCHANGED <<failed, starting>>
  BY DEF Middle, OnePage, PageStep, MiddlePage
<1> QED
  BY <1>1, <1>5, <1>6

\* A page that is not followed by another call: of StalePage, an error, or the last.
LoaderEnds(l) ==
  /\ l \in loaders /\ loaders' = loaders \ {l}
  /\ answers' = {b \in answers : b.of # l.of}
  /\ UNCHANGED <<alive, seq, model, starting, calledNext, calls, cursor>>
  /\ \/ active' = active /\ (loading' = loading \/ l.of = seq)
     \/ active' = None /\ l.of = seq /\ ~cursor[seq].open
  /\ \A c \in calls : c.of = l.of /\ c.op # "cancel" => l.of \in gaveUp'
  /\ gaveUp \subseteq gaveUp' /\ gaveUp' \subseteq gaveUp \cup {l.of}

LEMMA Endings ==
  ASSUME SearchInv, NEW l \in loaders
  PROVE  /\ NoPage(l) => LoaderEnds(l) /\ UNCHANGED active
         /\ \A a \in answers : Last(a, l) => LoaderEnds(l) /\ active' = None
         /\ \A a \in answers : Stale(a, l) => LoaderEnds(l) /\ UNCHANGED active
<1>0. loading \in BOOLEAN
  BY DEF SearchInv, KeeperInv, TypeOK
<1>1. ASSUME NoPage(l) PROVE LoaderEnds(l) /\ UNCHANGED active
  <2>1. loading' = (loading /\ ~Newest(l.of))
    BY <1>1 DEF NoPage, PageFails
  <2>2. loading' = loading \/ l.of = seq
    BY <1>0, <2>1, Zenon DEF Newest
  <2>3. /\ answers' = {b \in answers : b.of # l.of}
        /\ \A c \in calls : c.of = l.of /\ c.op # "cancel" => l.of \in gaveUp'
    BY <1>1, OneAnswer DEF NoPage, Taken
  <2> QED
    BY <1>1, <2>2, <2>3 DEF NoPage, PageFails, LoaderEnds
<1>2. ASSUME NEW a \in answers, Last(a, l) PROVE LoaderEnds(l) /\ active' = None
  <2>1. ~cursor[l.of].open
    BY <1>2 DEF Last, OnePage, PageStep, SearchInv, KeeperInv, AnswersTrue
  <2>2. /\ answers' = {b \in answers : b.of # l.of}
        /\ \A c \in calls : c.of = l.of /\ c.op # "cancel" => l.of \in gaveUp'
    BY <1>2, OneAnswer DEF Last, OnePage, PageStep, Taken
  <2> QED
    BY <1>2, <2>1, <2>2 DEF Last, OnePage, PageStep, LastPage, LoaderEnds, Current, Newest
<1>3. ASSUME NEW a \in answers, Stale(a, l) PROVE LoaderEnds(l) /\ UNCHANGED active
  <2>1. loading' = (loading /\ ~Newest(l.of))
    BY <1>3 DEF Stale, StalePage
  <2>2. loading' = loading \/ l.of = seq
    BY <1>0, <2>1, Zenon DEF Newest
  <2>3. /\ answers' = {b \in answers : b.of # l.of}
        /\ \A c \in calls : c.of = l.of /\ c.op # "cancel" => l.of \in gaveUp'
    BY <1>3, OneAnswer DEF Stale, PageStep, Taken
  <2> QED
    BY <1>3, <2>2, <2>3 DEF Stale, PageStep, StalePage, LoaderEnds
<1> QED
  BY <1>1, <1>2, <1>3

\* The start of search k is over without a loader: it is stale or failed, or
\* its only page has come.
StartEnds(k) ==
  /\ k \in starting /\ starting' = starting \ {k}
  /\ answers' = {b \in answers : b.of # k}
  /\ \A c \in calls : c.of = k /\ c.op # "cancel" => k \in gaveUp'
  /\ ~cursor[k].open \/ k \in gaveUp' \/ [op |-> "cancel", of |-> k, call |-> 0] \in calls'
  /\ UNCHANGED <<alive, seq, model, loaders, calledNext, cursor, loading>>
  /\ \/ active' = active
     \/ active' = None /\ k = seq
  /\ calls \subseteq calls' /\ calls' \subseteq calls \cup {[op |-> "cancel", of |-> k, call |-> 0]}
  /\ gaveUp \subseteq gaveUp' /\ gaveUp' \subseteq gaveUp \cup {k}

LEMMA StartEndings ==
  ASSUME SearchInv
  PROVE  /\ \A k \in Searches : NoStart(k) => StartEnds(k) /\ UNCHANGED <<active, rows>>
         /\ \A a \in answers : Late(a) => StartEnds(a.of) /\ UNCHANGED <<active, rows, complete, truncated, failed>>
         /\ \A a \in answers : First(a) /\ ~a.more => StartEnds(a.of) /\ active' = None /\ a.of = seq
<1>1. ASSUME NEW k \in Searches, NoStart(k) PROVE StartEnds(k) /\ UNCHANGED <<active, rows>>
  <2>1. /\ answers' = {b \in answers : b.of # k}
        /\ \A c \in calls : c.of = k /\ c.op # "cancel" => k \in gaveUp'
    BY <1>1, OneAnswer, Known DEF NoStart, Taken
  <2>2. ~cursor[k].open \/ k \in gaveUp'
    BY <1>1 DEF NoStart, SearchInv, KeeperInv, AnswersTrue
  <2> QED
    BY <1>1, <2>1, <2>2 DEF NoStart, StartFails, StartEnds
<1>2. ASSUME NEW a \in answers, Late(a)
      PROVE  StartEnds(a.of) /\ UNCHANGED <<active, rows, complete, truncated, failed>>
  <2>1. /\ answers' = {b \in answers : b.of # a.of} /\ a.of \in starting
        /\ \A c \in calls : c.of = a.of /\ c.op # "cancel" => a.of \in gaveUp'
    BY <1>2, OneAnswer, Known DEF Late, StartStep, Taken
  <2> QED
    BY <1>2, <2>1 DEF Late, StartStep, StaleStart, StartEnds, view
<1>3. ASSUME NEW a \in answers, First(a), ~a.more PROVE StartEnds(a.of) /\ active' = None /\ a.of = seq
  <2>1. /\ answers' = {b \in answers : b.of # a.of} /\ a.of \in starting
        /\ \A c \in calls : c.of = a.of /\ c.op # "cancel" => a.of \in gaveUp'
    BY <1>3, OneAnswer, Known DEF First, StartStep, Taken
  <2>2. ~cursor[a.of].open
    BY <1>3 DEF SearchInv, KeeperInv, AnswersTrue
  <2> QED
    BY <1>3, <2>1, <2>2 DEF First, StartStep, FirstPage, StartEnds, Newest
<1> QED
  BY <1>1, <1>2, <1>3

\* The view turns away from the search: RunSearch, with a search to start, or
\* Reset and Dispose, without.
TurnsAway(new) ==
  /\ seq' = seq + 1 /\ seq' \in Searches
  /\ active' = None
  /\ starting' = starting \cup new
  /\ calls' = calls \cup Cancelled \cup {StartCall(k) : k \in new}
  /\ UNCHANGED <<loaders, calledNext, cursor, answers, gaveUp>>

LEMMA Turns ==
  ASSUME SearchInv
  PROVE  /\ RunSearch => TurnsAway({seq + 1})
         /\ Reset \/ Dispose => TurnsAway({})
<1>1. seq < MaxSeq => seq + 1 \in Searches
  BY Known, BoundAssumption DEF Searches
<1>2. ASSUME RunSearch PROVE TurnsAway({seq + 1})
  BY <1>1, <1>2 DEF RunSearch, TurnsAway, StartCall
<1>3. ASSUME Reset PROVE TurnsAway({})
  BY <1>1, <1>3 DEF Reset, TurnsAway, waiting
<1>4. ASSUME Dispose PROVE TurnsAway({})
  BY <1>1, <1>4 DEF Dispose, TurnsAway, waiting
<1> QED
  BY <1>2, <1>3, <1>4

\* The sidecar takes a call.
LEMMA Services ==
  ASSUME NEW c \in calls, Refused(c) \/ CancelServed(c) \/ \E size \in 1..Pages : Served(c, size)
  PROVE  UNCHANGED <<view, waiting, gaveUp>> /\ calls' = calls \ {c}
BY DEF Refused, CancelServed, Served, ServeStep

\* The steps by what they do to the searches.
LEMMA StepKinds ==
  ASSUME SearchInv, [Next]_vars
  PROVE  \/ RunSearch /\ TurnsAway({seq + 1})
         \/ (Reset \/ Dispose) /\ TurnsAway({})
         \/ \E p, s : Asked(p, s)
         \/ \E k \in Searches : StartEnds(k)
         \/ \E l \in loaders : LoaderEnds(l)
         \/ \E c \in calls : Refused(c) \/ CancelServed(c) \/ \E size \in 1..Pages : Served(c, size)
         \/ UNCHANGED vars
BY StepCases, Turns, RequestAsks, FirstAsks, MiddleAsks, StartEndings, Endings, Known
----------------------------------------------------------------------------
\* A search that has not begun stays so until RunSearch begins it.
LEMMA FreshStep == SearchInv /\ [Next]_vars => Fresh'
<1> SUFFICES ASSUME SearchInv, [Next]_vars PROVE Fresh'
  OBVIOUS
<1>0. Fresh
  BY DEF SearchInv, KeeperInv
<1>1. CASE TurnsAway({seq + 1}) \/ TurnsAway({})
  BY <1>0, <1>1, CancelledOf, Known DEF TurnsAway, StartCall, Fresh
<1>2. ASSUME NEW p, NEW s, Asked(p, s) PROVE Fresh'
  <2>1. \A k \in Searches : k > seq => k # seq
    BY Known
  <2>2. \A k \in Searches : k # seq => calledNext'[k] = calledNext[k]
    BY <1>2 DEF Asked, SearchInv, KeeperInv, TypeOK
  <2>3. \A c \in calls' : c \in calls \/ c.of = seq
    BY <1>2 DEF Asked, NextCall
  <2>4. \A l \in loaders' : l \in loaders \/ l.of = seq
    BY <1>2 DEF Asked
  <2> QED
    BY <1>0, <1>2, <2>1, <2>2, <2>3, <2>4 DEF Asked, Fresh
<1>3. ASSUME NEW k \in Searches, StartEnds(k) PROVE Fresh'
  BY <1>0, <1>3, Known DEF StartEnds, Fresh
<1>4. ASSUME NEW l \in loaders, LoaderEnds(l) PROVE Fresh'
  BY <1>0, <1>4, Known DEF LoaderEnds, Fresh
<1>5. ASSUME NEW c \in calls, Refused(c) \/ CancelServed(c) \/ \E size \in 1..Pages : Served(c, size) PROVE Fresh'
  <2>1. UNCHANGED <<seq, starting, gaveUp, calledNext, loaders>> /\ calls' \subseteq calls
    BY <1>5, Services DEF view, waiting
  <2>2. \A k \in Searches : k # c.of => cursor'[k] = cursor[k]
    BY <1>5 DEF Refused, CancelServed, Served, ServeError, ServeCancel, ServePage, SearchInv, KeeperInv, TypeOK
  <2>3. c.of \in Searches /\ ~(c.of > seq)
    BY <1>0 DEF Fresh, SearchInv, KeeperInv, TypeOK, Call
  <2> QED
    BY <1>0, <2>1, <2>2, <2>3 DEF Fresh
<1>6. CASE UNCHANGED vars
  BY <1>0, <1>6 DEF vars, view, waiting, network, Fresh
<1> QED
  BY <1>1, <1>2, <1>3, <1>4, <1>5, <1>6, StepKinds

LEMMA NewestStep == SearchInv /\ [Next]_vars => ViewIsNewest'
<1> SUFFICES ASSUME SearchInv, [Next]_vars PROVE ViewIsNewest'
  OBVIOUS
<1> USE DEF Underway
<1>0. Fresh /\ ViewIsNewest /\ TypeOK
  BY DEF SearchInv, KeeperInv
<1>1. CASE RunSearch /\ TurnsAway({seq + 1})
  <2>1. calledNext[seq + 1] = 0 /\ \A l \in loaders : l.of # seq + 1
    BY <1>0, <1>1, Known DEF TurnsAway, Fresh
  <2>2. alive' /\ model' = seq' /\ model' <= seq'
    BY <1>1, Known DEF RunSearch
  <2> QED
    BY <1>0, <1>1, <2>1, <2>2 DEF TurnsAway, ViewIsNewest
<1>2. CASE (Reset \/ Dispose) /\ TurnsAway({})
  <2>1. seq + 1 \notin starting /\ \A l \in loaders : l.of # seq + 1
    BY <1>0, <1>2, Known DEF TurnsAway, Fresh
  <2>2. ~Underway'
    BY <1>2, <2>1 DEF TurnsAway
  <2>3. (alive' => model' = None) /\ (model' # None => model' <= seq')
    <3>1. CASE Reset
      BY <3>1 DEF Reset
    <3>2. CASE Dispose
      BY <1>0, <3>2, Known DEF Dispose, ViewIsNewest, TypeOK
    <3> QED
      BY <1>2, <3>1, <3>2
  <2> QED
    BY <1>0, <1>2, <2>2, <2>3 DEF TurnsAway, ViewIsNewest
<1>3. ASSUME NEW p, NEW s, Asked(p, s) PROVE ViewIsNewest'
  <2>1. calledNext'[seq] > 0 /\ \A k \in Searches : k # seq => calledNext'[k] = calledNext[k]
    BY <1>0, <1>3, Known DEF Asked, TypeOK
  <2> QED
    BY <1>0, <1>3, <2>1, Known DEF Asked, ViewIsNewest, TypeOK
<1>4. ASSUME NEW k \in Searches, StartEnds(k) PROVE ViewIsNewest'
  BY <1>0, <1>4 DEF StartEnds, ViewIsNewest
<1>5. ASSUME NEW l \in loaders, LoaderEnds(l) PROVE ViewIsNewest'
  BY <1>0, <1>5 DEF LoaderEnds, ViewIsNewest
<1>6. CASE UNCHANGED <<view, waiting>>
  BY <1>0, <1>6 DEF view, waiting, ViewIsNewest
<1> QED
  BY <1>1, <1>2, <1>3, <1>4, <1>5, <1>6, StepKinds, Services DEF vars

LEMMA LoaderStep == SearchInv /\ [Next]_vars => OneLoader'
<1> SUFFICES ASSUME SearchInv, [Next]_vars PROVE OneLoader'
  OBVIOUS
<1>0. Fresh /\ OneLoader /\ TypeOK
  BY DEF SearchInv, KeeperInv
<1>1. CASE TurnsAway({seq + 1}) \/ TurnsAway({})
  <2>1. UNCHANGED <<loaders, calledNext>> /\ \A l \in loaders : l.of # seq'
    BY <1>0, <1>1, Known DEF TurnsAway, Fresh
  <2> QED
    BY <1>0, <2>1 DEF OneLoader
<1>2. ASSUME NEW p, NEW s, Asked(p, s) PROVE OneLoader'
  <2>1. calledNext'[seq] = calledNext[seq] + 1 /\ \A k \in Searches : k # seq => calledNext'[k] = calledNext[k]
    BY <1>0, <1>2 DEF Asked, TypeOK
  <2>2. \A l \in loaders' :
          \/ l \in loaders /\ l.of # seq /\ l.of \in Searches
          \/ l = [of |-> seq, call |-> calledNext[seq] + 1, pending |-> p, since |-> s]
    BY <1>2, Known DEF Asked
  <2>3. calledNext[seq] + 1 > 0
    BY <1>2, Known DEF Asked
  <2>4. seq' = seq /\ active' = seq /\ loading'
    BY <1>2 DEF Asked
  <2> QED
    BY <1>0, <2>1, <2>2, <2>3, <2>4 DEF OneLoader
<1>3. ASSUME NEW k \in Searches, StartEnds(k) PROVE OneLoader'
  <2>1. k = seq => \A l \in loaders : l.of # seq
    BY <1>3, Known DEF StartEnds
  <2>2. k # seq => UNCHANGED active
    BY <1>3 DEF StartEnds
  <2> QED
    BY <1>0, <1>3, <2>1, <2>2 DEF StartEnds, OneLoader
<1>4. ASSUME NEW l \in loaders, LoaderEnds(l) PROVE OneLoader'
  BY <1>0, <1>4 DEF LoaderEnds, OneLoader
<1>5. CASE UNCHANGED <<view, waiting>>
  BY <1>0, <1>5 DEF view, waiting, OneLoader
<1> QED
  BY <1>1, <1>2, <1>3, <1>4, <1>5, StepKinds, Services DEF vars

\* The sidecar takes a call from the network, and answers who waits for it.
AnsweredWith(c, page, more, cut) ==
  \/ ~SomeoneWaits(c.of, c.call) /\ answers' = answers
  \/ /\ SomeoneWaits(c.of, c.call)
     /\ answers' = answers \cup {[of |-> c.of, call |-> c.call, page |-> page, more |-> more, cut |-> cut]}

LEMMA AnsweredOnce ==
  ASSUME NEW c, NEW page, NEW more, NEW cut, AnsweredWith(c, page, more, cut)
  PROVE  \/ answers' = answers
         \/ /\ SomeoneWaits(c.of, c.call)
            /\ \E new : answers' = answers \cup {new} /\ new.of = c.of /\ new.call = c.call
<1> DEFINE new == [of |-> c.of, call |-> c.call, page |-> page, more |-> more, cut |-> cut]
<1>1. new.of = c.of /\ new.call = c.call
  OBVIOUS
<1> HIDE DEF new
<1>2. \/ answers' = answers
      \/ SomeoneWaits(c.of, c.call) /\ answers' = answers \cup {new}
  BY DEF AnsweredWith, new
<1> QED
  BY <1>1, <1>2

LEMMA ServedEffect ==
  ASSUME SearchInv, NEW c \in calls, NEW size \in 1..Pages, Served(c, size)
  PROVE  \E cut \in BOOLEAN :
           LET k == c.of  no == cursor[k].at + 1  more == HasCookie(no, size) /\ ~cut IN
           /\ AnsweredWith(c, no, more, cut)
           /\ cursor' = [cursor EXCEPT ![k] = [size |-> size, at |-> no, open |-> more]]
           /\ \/ c.op = "start" /\ cursor[k].at = 0 /\ ~cursor[k].open /\ c.call = 0 /\ calledNext[k] = 0
              \/ c.op = "next" /\ cursor[k].open /\ size = cursor[k].size /\ c.call > 0 /\ k \notin starting
                 /\ cursor[k].at < size
<1>1. PICK cut \in BOOLEAN :
        /\ Reply(c, cursor[c.of].at + 1, HasCookie(cursor[c.of].at + 1, size) /\ ~cut, cut)
        /\ cursor' = [cursor EXCEPT ![c.of] = [size |-> size, at |-> cursor[c.of].at + 1,
                                               open |-> HasCookie(cursor[c.of].at + 1, size) /\ ~cut]]
  BY DEF Served, ServePage
<1>2. /\ c.op \in {"start", "next"} /\ c.call \in Nat /\ c.of \in Searches
      /\ (c.op = "start" <=> c.call = 0)
      /\ (c.op = "start" => calledNext[c.of] = 0 /\ cursor[c.of].at = 0 /\ ~cursor[c.of].open)
      /\ c.call <= calledNext[c.of]
  BY BoundAssumption DEF Served, SearchInv, KeeperInv, CalledOnce, TypeOK, Call, Attempts
<1>3. Awaited(c) <=> SomeoneWaits(c.of, c.call)
  BY <1>2 DEF Awaited, SomeoneWaits
<1>4. \/ c.op = "start" /\ cursor[c.of].at = 0 /\ ~cursor[c.of].open /\ c.call = 0 /\ calledNext[c.of] = 0
      \/ c.op = "next" /\ cursor[c.of].open /\ size = cursor[c.of].size /\ c.call > 0 /\ c.of \notin starting
         /\ cursor[c.of].at < size
  <2>1. CASE c.op = "start"
    BY <1>2, <2>1
  <2>2. CASE c.op = "next" /\ cursor[c.of].open /\ size = cursor[c.of].size
    BY <1>2, <2>2, Known DEF SearchInv, KeeperInv, AnswersTrue
  <2> QED
    BY <2>1, <2>2 DEF Served, ServePage
<1> QED
  BY <1>1, <1>3, <1>4 DEF Reply, AnsweredWith

LEMMA RefusedEffect ==
  ASSUME SearchInv, NEW c \in calls, Refused(c)
  PROVE  /\ AnsweredWith(c, 0, FALSE, FALSE) /\ c.op # "cancel" /\ c.of \in Searches
         /\ cursor' = [cursor EXCEPT ![c.of].open = FALSE]
<1>1. c.op \in {"start", "next"} /\ c.of \in Searches /\ (c.op = "start" <=> c.call = 0)
  BY DEF Refused, ServeError, SearchInv, KeeperInv, CalledOnce, TypeOK, Call
<1>2. Awaited(c) <=> SomeoneWaits(c.of, c.call)
  BY <1>1 DEF Awaited, SomeoneWaits
<1> QED
  BY <1>1, <1>2 DEF Refused, ServeError, Reply, AnsweredWith

\* Closing a cursor leaves its place.
LEMMA CloseEffect ==
  ASSUME SearchInv, NEW c \in calls, Refused(c) \/ CancelServed(c)
  PROVE  /\ \A k \in Searches : /\ cursor'[k].at = cursor[k].at /\ cursor'[k].size = cursor[k].size
                                /\ cursor'[k].open => cursor[k].open /\ k # c.of
         /\ cursor' \in [Searches -> [size: 0..Pages, at: 0..Pages, open: BOOLEAN]]
<1>1. cursor \in [Searches -> [size: 0..Pages, at: 0..Pages, open: BOOLEAN]] /\ c.of \in Searches
  BY DEF SearchInv, KeeperInv, TypeOK, Call
<1>2. cursor' = [cursor EXCEPT ![c.of].open = FALSE]
  BY DEF Refused, CancelServed, ServeError, ServeCancel
<1>3. [cursor[c.of] EXCEPT !.open = FALSE] \in [size: 0..Pages, at: 0..Pages, open: BOOLEAN]
  BY <1>1
<1>4. cursor' \in [Searches -> [size: 0..Pages, at: 0..Pages, open: BOOLEAN]]
  BY <1>1, <1>2, <1>3
<1>5. \A k \in Searches : k # c.of => cursor'[k] = cursor[k]
  BY <1>1, <1>2
<1>6. cursor'[c.of].at = cursor[c.of].at /\ cursor'[c.of].size = cursor[c.of].size /\ ~cursor'[c.of].open
  BY <1>1, <1>2
<1> QED
  BY <1>4, <1>5, <1>6

\* A page that is served is the next one of its cursor, and moves that cursor.
LEMMA PageEffect ==
  ASSUME SearchInv, NEW c \in calls, NEW size \in 1..Pages, Served(c, size)
  PROVE  /\ c.of \in Searches /\ c.op # "cancel"
         /\ \A k \in Searches : k # c.of => cursor'[k] = cursor[k]
         /\ cursor'[c.of].size = size /\ cursor'[c.of].at = cursor[c.of].at + 1
         /\ cursor'[c.of].open => cursor[c.of].at + 1 < size
         /\ cursor' \in [Searches -> [size: 0..Pages, at: 0..Pages, open: BOOLEAN]]
<1>1. cursor \in [Searches -> [size: 0..Pages, at: 0..Pages, open: BOOLEAN]] /\ c.of \in Searches
  BY DEF SearchInv, KeeperInv, TypeOK, Call
<1>2. PICK cut \in BOOLEAN :
        cursor' = [cursor EXCEPT ![c.of] = [size |-> size, at |-> cursor[c.of].at + 1,
                                            open |-> HasCookie(cursor[c.of].at + 1, size) /\ ~cut]]
  BY ServedEffect
<1>3. cursor[c.of].at + 1 \in 0..Pages
  <2>1. cursor[c.of].at < size
    <3>1. cursor[c.of].at = 0 \/ cursor[c.of].at < size
      BY ServedEffect
    <3> QED
      BY <3>1
  <2> QED
    BY <1>1, <2>1, BoundAssumption
<1>4. (HasCookie(cursor[c.of].at + 1, size) /\ ~cut) \in BOOLEAN /\ size \in 0..Pages
  <2>1. (HasCookie(cursor[c.of].at + 1, size) /\ ~cut) \in BOOLEAN
    BY Zenon
  <2> QED
    BY <2>1
<1>5. cursor' \in [Searches -> [size: 0..Pages, at: 0..Pages, open: BOOLEAN]]
  BY <1>1, <1>2, <1>3, <1>4
<1> QED
  BY <1>1, <1>2, <1>5 DEF HasCookie, Served

\* A call is made once, and its answer is one.
LEMMA CalledStep == SearchInv /\ [Next]_vars => CalledOnce'
<1> SUFFICES ASSUME SearchInv, [Next]_vars PROVE CalledOnce'
  OBVIOUS
<1>0. CalledOnce /\ Fresh /\ OneLoader /\ TypeOK
  BY DEF SearchInv, KeeperInv
<1>1. ASSUME NEW new \in {{}, {seq + 1}}, TurnsAway(new) PROVE CalledOnce'
  <2>1. seq + 1 \in Searches /\ calledNext[seq + 1] = 0 /\ cursor[seq + 1].at = 0 /\ ~cursor[seq + 1].open
    BY <1>0, <1>1, Known DEF TurnsAway, Fresh
  <2>2. \A c \in calls' : \/ c \in calls
                          \/ c.op = "cancel"
                          \/ new = {seq + 1} /\ c = StartCall(seq + 1)
    BY <1>1, CancelledOf DEF TurnsAway
  <2>3. \A a \in answers : a.of # seq + 1
    BY Known
  <2>4. \A k, n : SomeoneWaits(k, n) => SomeoneWaits(k, n)'
    BY <1>1 DEF TurnsAway, SomeoneWaits
  <2>5. \A k : new = {seq + 1} /\ k = seq + 1 => SomeoneWaits(k, 0)'
    BY <1>1 DEF TurnsAway, SomeoneWaits
  <2> QED
    BY <1>0, <1>1, <2>1, <2>2, <2>3, <2>4, <2>5 DEF TurnsAway, StartCall, CalledOnce
<1>2. ASSUME NEW p, NEW s, Asked(p, s) PROVE CalledOnce'
  <2>1. calledNext'[seq] = calledNext[seq] + 1 /\ \A k \in Searches : k # seq => calledNext'[k] = calledNext[k]
    BY <1>0, <1>2 DEF Asked, TypeOK
  <2>2. \A k, n : k # seq /\ SomeoneWaits(k, n) => SomeoneWaits(k, n)'
    BY <1>2 DEF Asked, SomeoneWaits
  <2>3. \A c \in calls' : c \in calls \/ c = NextCall(seq, calledNext[seq] + 1)
    BY <1>2 DEF Asked
  <2>4. \A k, n : k = seq /\ n = calledNext[seq] + 1 => SomeoneWaits(k, n)'
    <3>1. calledNext[seq] + 1 # 0
      BY <1>2, Known DEF Asked
    <3>2. [of |-> seq, call |-> calledNext[seq] + 1, pending |-> p, since |-> s] \in loaders'
      BY <1>2 DEF Asked
    <3>3. \E l \in loaders' : l.of = seq /\ l.call = calledNext[seq] + 1
      BY <3>2
    <3> QED
      BY <3>1, <3>3 DEF SomeoneWaits
  <2>5. calledNext[seq] \in Nat /\ \A c \in calls : c.of \in Searches /\ c.call \in Nat
    BY <1>0, <1>2, Known, BoundAssumption DEF Asked, TypeOK, Call, Attempts
  <2>6. \A c \in calls : c.of = seq /\ c.op # "cancel" => c.op = "next" /\ seq \in gaveUp
    BY <1>2 DEF Asked
  <2>7. answers' = {a \in answers : a.of # seq} /\ UNCHANGED <<cursor, gaveUp>>
    BY <1>2 DEF Asked
  <2>8. ASSUME NEW c \in calls', c.op # "cancel"
        PROVE  /\ (c.op = "start" <=> c.call = 0)
               /\ SomeoneWaits(c.of, c.call)' \/ c.of \in gaveUp'
               /\ c.call <= calledNext'[c.of]
               /\ \A a \in answers' : a.of # c.of \/ a.call # c.call
               /\ c.op = "start" => calledNext'[c.of] = 0 /\ cursor'[c.of].at = 0 /\ ~cursor'[c.of].open
    <3>1. CASE c = NextCall(seq, calledNext[seq] + 1)
      BY <2>1, <2>4, <2>5, <2>7, <3>1 DEF NextCall
    <3>2. CASE c \in calls /\ c.of = seq
      BY <1>0, <2>1, <2>5, <2>6, <2>7, <2>8, <3>2 DEF CalledOnce
    <3>3. CASE c \in calls /\ c.of # seq
      BY <1>0, <2>1, <2>2, <2>5, <2>7, <2>8, <3>3 DEF CalledOnce
    <3> QED
      BY <2>3, <3>1, <3>2, <3>3
  <2>9. \A a \in answers' : SomeoneWaits(a.of, a.call)' /\ \A b \in answers' : b.of = a.of /\ b.call = a.call => b = a
    BY <1>0, <2>2, <2>7 DEF CalledOnce
  <2> QED
    BY <2>8, <2>9 DEF CalledOnce
<1>3. ASSUME NEW k \in Searches, StartEnds(k) PROVE CalledOnce'
  <2>1. \A j, n : j # k /\ SomeoneWaits(j, n) => SomeoneWaits(j, n)'
    BY <1>3 DEF StartEnds, SomeoneWaits
  <2>2. /\ answers' = {a \in answers : a.of # k} /\ UNCHANGED <<cursor, calledNext>> /\ gaveUp \subseteq gaveUp'
        /\ \A c \in calls' : c.op # "cancel" => c \in calls /\ (c.of = k => k \in gaveUp')
    BY <1>3 DEF StartEnds
  <2> QED
    BY <1>0, <2>1, <2>2 DEF CalledOnce
<1>4. ASSUME NEW l \in loaders, LoaderEnds(l) PROVE CalledOnce'
  <2>1. \A j, n : j # l.of /\ SomeoneWaits(j, n) => SomeoneWaits(j, n)'
    BY <1>4 DEF LoaderEnds, SomeoneWaits
  <2>2. /\ answers' = {a \in answers : a.of # l.of} /\ UNCHANGED <<cursor, calledNext, calls>> /\ gaveUp \subseteq gaveUp'
        /\ \A c \in calls : c.op # "cancel" => (c.of = l.of => l.of \in gaveUp')
    BY <1>4 DEF LoaderEnds
  <2> QED
    BY <1>0, <2>1, <2>2 DEF CalledOnce
<1>5. ASSUME NEW c \in calls, Refused(c) \/ CancelServed(c) \/ \E size \in 1..Pages : Served(c, size) PROVE CalledOnce'
  <2>1. UNCHANGED <<starting, loaders, gaveUp, calledNext>> /\ calls' = calls \ {c}
    BY <1>5, Services DEF waiting
  <2>2. \A j, n : SomeoneWaits(j, n) => SomeoneWaits(j, n)'
    BY <2>1 DEF SomeoneWaits
  <2>3. \/ answers' = answers
        \/ /\ c.op # "cancel" /\ SomeoneWaits(c.of, c.call)
           /\ \E new : answers' = answers \cup {new} /\ new.of = c.of /\ new.call = c.call
    <3>1. CASE Refused(c)
      BY <3>1, RefusedEffect, AnsweredOnce
    <3>2. CASE CancelServed(c)
      BY <3>2 DEF CancelServed, ServeCancel
    <3>3. ASSUME NEW size \in 1..Pages, Served(c, size)
          PROVE  \/ answers' = answers
                 \/ /\ c.op # "cancel" /\ SomeoneWaits(c.of, c.call)
                    /\ \E new : answers' = answers \cup {new} /\ new.of = c.of /\ new.call = c.call
      BY <3>3, ServedEffect, AnsweredOnce DEF Served
    <3> QED
      BY <1>5, <3>1, <3>2, <3>3
  <2>4. \A d \in calls' : d.op # "cancel" /\ c.op # "cancel" => d.of # c.of \/ d.call # c.call
    <3>1. SUFFICES ASSUME NEW d \in calls', d.op # "cancel", c.op # "cancel", d.of = c.of, d.call = c.call PROVE FALSE
      OBVIOUS
    <3>2. d \in calls /\ d # c
      BY <2>1
    <3>3. d.op = c.op
      BY <1>0, <3>1, <3>2 DEF CalledOnce, TypeOK, Call
    <3>4. d \in Call /\ c \in Call
      BY <1>0, <3>2 DEF TypeOK
    <3> QED
      BY <3>1, <3>2, <3>3, <3>4 DEF Call
  <2>5. /\ \A a \in answers' : /\ SomeoneWaits(a.of, a.call)'
                               /\ \A b \in answers' : b.of = a.of /\ b.call = a.call => b = a
        /\ \A d \in calls' : d.op # "cancel" => \A a \in answers' : a.of # d.of \/ a.call # d.call
    BY <1>0, <2>1, <2>2, <2>3, <2>4 DEF CalledOnce
  <2>6. ASSUME NEW d \in calls', d.op = "start"
        PROVE  calledNext'[d.of] = 0 /\ cursor'[d.of].at = 0 /\ ~cursor'[d.of].open
    <3>1. d \in calls /\ calledNext[d.of] = 0 /\ cursor[d.of].at = 0 /\ ~cursor[d.of].open /\ d.of \in Searches /\ d.call = 0
      BY <1>0, <2>1, <2>6 DEF CalledOnce, TypeOK, Call
    <3>2. CASE Refused(c) \/ CancelServed(c)
      BY <2>1, <3>1, <3>2, CloseEffect
    <3>3. ASSUME NEW size \in 1..Pages, Served(c, size), cursor'[d.of] # cursor[d.of] PROVE FALSE
      <4>1. c.of = d.of /\ c.op # "cancel"
        BY <3>1, <3>3, PageEffect
      <4>2. c.call = 0
        BY <1>0, <2>1, <3>1, <3>3, <4>1, ServedEffect
      <4> QED
        BY <2>4, <2>6, <3>1, <4>1, <4>2
    <3> QED
      BY <1>5, <2>1, <3>1, <3>2, <3>3
  <2> QED
    BY <1>0, <2>1, <2>2, <2>5, <2>6 DEF CalledOnce
<1>6. CASE UNCHANGED vars
  BY <1>0, <1>6 DEF vars, view, waiting, network, CalledOnce, SomeoneWaits
<1> QED
  BY <1>1, <1>2, <1>3, <1>4, <1>5, <1>6, StepKinds

\* Every step but the sidecar's leaves the cursors, and brings no answer.
LEMMA OnlyServeAnswers ==
  ASSUME SearchInv, [Next]_vars
  PROVE  \/ UNCHANGED cursor /\ answers' \subseteq answers
         \/ \E c \in calls : Refused(c) \/ CancelServed(c) \/ \E size \in 1..Pages : Served(c, size)
<1>1. \A l : LoaderEnds(l) => UNCHANGED cursor /\ answers' \subseteq answers
  BY DEF LoaderEnds
<1>2. \A k : StartEnds(k) => UNCHANGED cursor /\ answers' \subseteq answers
  BY DEF StartEnds
<1>3. \A p, s : Asked(p, s) => UNCHANGED cursor /\ answers' \subseteq answers
  BY DEF Asked
<1>4. \A new : TurnsAway(new) => UNCHANGED cursor /\ answers' \subseteq answers
  BY DEF TurnsAway
<1>5. UNCHANGED vars => UNCHANGED cursor /\ answers' \subseteq answers
  BY DEF vars, network
<1> QED
  BY <1>1, <1>2, <1>3, <1>4, <1>5, StepKinds

\* What an answer says of its cursor stays true until it is read.
LEMMA AnswersStep == SearchInv /\ [Next]_vars => AnswersTrue'
<1> SUFFICES ASSUME SearchInv, [Next]_vars PROVE AnswersTrue'
  OBVIOUS
<1>0. AnswersTrue /\ cursor \in [Searches -> [size: 0..Pages, at: 0..Pages, open: BOOLEAN]]
  BY DEF SearchInv, KeeperInv, TypeOK
<1>n. \A k \in Searches : cursor[k].at \in Nat /\ cursor[k].size \in Nat /\ cursor[k].size <= Pages
  BY <1>0, BoundAssumption
<1>1. CASE UNCHANGED cursor /\ answers' \subseteq answers
  BY <1>0, <1>1 DEF AnswersTrue
<1>2. ASSUME NEW c \in calls, Refused(c) \/ CancelServed(c) PROVE AnswersTrue'
  <2>1. /\ \A k \in Searches : /\ cursor'[k].at = cursor[k].at /\ cursor'[k].size = cursor[k].size
                               /\ cursor'[k].open => cursor[k].open /\ k # c.of
    BY <1>2, CloseEffect
  <2>2. \A a \in answers' :
          \/ a \in answers /\ a.of \in Searches
          \/ a = [of |-> c.of, call |-> c.call, page |-> 0, more |-> FALSE, cut |-> FALSE] /\ c.of \in Searches
    BY <1>2, Known, RefusedEffect DEF AnsweredWith, CancelServed, ServeCancel
  <2> QED
    BY <1>0, <1>n, <2>1, <2>2 DEF AnswersTrue
<1>3. ASSUME NEW c \in calls, NEW size \in 1..Pages, Served(c, size) PROVE AnswersTrue'
  <2> DEFINE k == c.of
             no == cursor[k].at + 1
  <2>1. PICK cut \in BOOLEAN :
          /\ AnsweredWith(c, no, HasCookie(no, size) /\ ~cut, cut)
          /\ cursor' = [cursor EXCEPT ![k] = [size |-> size, at |-> no, open |-> HasCookie(no, size) /\ ~cut]]
          /\ \/ c.op = "start" /\ cursor[k].at = 0 /\ ~cursor[k].open /\ c.call = 0 /\ calledNext[k] = 0
             \/ c.op = "next" /\ cursor[k].open /\ size = cursor[k].size /\ c.call > 0 /\ k \notin starting
                /\ cursor[k].at < size
    BY <1>3, ServedEffect
  <2>2. k \in Searches /\ c.op # "cancel" /\ \A j \in Searches : j # k => cursor'[j] = cursor[j]
    BY <1>3, PageEffect
  <2>3. cursor'[k].size = size /\ cursor'[k].at = no /\ (cursor'[k].open <=> no < size /\ ~cut)
    BY <1>0, <2>1, <2>2 DEF HasCookie
  <2>4. no <= size /\ size <= Pages /\ no \in Nat \ {0} /\ size \in Nat
    BY <1>n, <2>1, <2>2, BoundAssumption
  <2>5. \A a \in answers : a.of = k => c.op = "next" /\ a.of \notin starting
    BY <2>1, <2>2, OneAnswer
  <2>6. ASSUME NEW a \in answers' 
        PROVE  /\ a.page <= cursor'[a.of].at
               /\ a.more => a.page # 0 /\ a.page < Pages
               /\ ~a.more => ~cursor'[a.of].open
               /\ a.page # 0 /\ ~a.more /\ ~a.cut => a.page = cursor'[a.of].size
               /\ a.call = 0 /\ a.page # 0 => a.page = 1 /\ cursor'[a.of].at = 1
    <3>1. CASE a \in answers /\ a.of # k
      BY <1>0, <2>2, <3>1, Known DEF AnswersTrue
    <3>2. CASE a \in answers /\ a.of = k
      <4>1. c.op = "next" /\ k \notin starting /\ size = cursor[k].size /\ cursor[k].open
        BY <2>1, <2>5, <3>2
      <4>2. a.call # 0 /\ a.more /\ a.page # 0 /\ a.page < Pages /\ a.page <= cursor[k].at
        BY <1>0, <3>2, <4>1, Known DEF AnswersTrue
      <4>3. a.page \in Nat
        BY <3>2, BoundAssumption DEF SearchInv, KeeperInv, TypeOK, Answer
      <4> QED
        BY <1>n, <2>2, <2>3, <3>2, <4>2, <4>3
    <3>3. CASE a = [of |-> c.of, call |-> c.call, page |-> no, more |-> HasCookie(no, size) /\ ~cut, cut |-> cut]
      <4>1. a.of = k /\ a.call = c.call /\ a.page = no /\ a.cut = cut /\ (a.more <=> no < size /\ ~cut)
        BY <3>3 DEF HasCookie
      <4>2. a.call = 0 => no = 1
        BY <2>1, <4>1
      <4>3. cursor'[a.of].size = size /\ cursor'[a.of].at = no /\ (cursor'[a.of].open <=> a.more)
        BY <2>3, <4>1
      <4>4. a.page # 0 /\ (~a.more /\ ~a.cut => no = size) /\ (a.more => no < Pages)
        BY <1>3, <2>4, <4>1, BoundAssumption
      <4> HIDE DEF no
      <4> QED
        BY <2>4, <4>1, <4>2, <4>3, <4>4
    <3> QED
      BY <2>1, <3>1, <3>2, <3>3 DEF AnsweredWith
  <2>7. \A j \in Searches : /\ cursor'[j].at <= cursor'[j].size
                            /\ cursor'[j].open => cursor'[j].at < cursor'[j].size
    BY <1>0, <2>2, <2>3, <2>4 DEF AnswersTrue
  <2> QED
    BY <2>6, <2>7 DEF AnswersTrue
<1> QED
  BY <1>1, <1>2, <1>3, OnlyServeAnswers

\* An open cursor has its keeper.
LEMMA KeeperStep == SearchInv /\ [Next]_vars => CursorHasKeeper'
<1> SUFFICES ASSUME SearchInv, [Next]_vars PROVE CursorHasKeeper'
  OBVIOUS
<1> DEFINE Cancel(k) == [op |-> "cancel", of |-> k, call |-> 0]
<1>0. CursorHasKeeper /\ TypeOK
  BY DEF SearchInv, KeeperInv
<1>1. ASSUME NEW new, TurnsAway(new) PROVE CursorHasKeeper'
  BY <1>0, <1>1, CancelledOf, Known DEF TurnsAway, CursorHasKeeper
<1>2. ASSUME NEW p, NEW s, Asked(p, s) PROVE CursorHasKeeper'
  BY <1>0, <1>2, Known DEF Asked, CursorHasKeeper
<1>3. ASSUME NEW k \in Searches, StartEnds(k) PROVE CursorHasKeeper'
  BY <1>0, <1>3, Known DEF StartEnds, CursorHasKeeper
<1>4. ASSUME NEW l \in loaders, LoaderEnds(l) PROVE CursorHasKeeper'
  BY <1>0, <1>4, Known DEF LoaderEnds, CursorHasKeeper
<1>5. ASSUME NEW c \in calls, Refused(c) \/ CancelServed(c) PROVE CursorHasKeeper'
  <2>1. UNCHANGED <<active, starting, gaveUp>> /\ calls' = calls \ {c}
    BY <1>5, Services DEF view, waiting
  <2>2. \A k \in Searches : cursor'[k].open => cursor[k].open /\ Cancel(k) # c
    BY <1>5, CloseEffect
  <2> QED
    BY <1>0, <2>1, <2>2 DEF CursorHasKeeper
<1>6. ASSUME NEW c \in calls, NEW size \in 1..Pages, Served(c, size) PROVE CursorHasKeeper'
  <2>1. UNCHANGED <<active, starting, gaveUp>> /\ calls' = calls \ {c} /\ c.op # "cancel"
    BY <1>6, Services DEF view, waiting, Served
  <2>2. \A k \in Searches : k # c.of => cursor'[k] = cursor[k]
    BY <1>6, PageEffect
  <2>3. c.op = "start" => c.of \in starting \cup gaveUp
    BY <2>1 DEF SearchInv, KeeperInv, CalledOnce, SomeoneWaits
  <2>4. c.op # "start" => cursor[c.of].open
    BY <1>6, ServedEffect
  <2> QED
    BY <1>0, <2>1, <2>2, <2>3, <2>4 DEF CursorHasKeeper
<1>7. CASE UNCHANGED vars
  BY <1>0, <1>7 DEF vars, view, waiting, network, CursorHasKeeper
<1> QED
  BY <1>1, <1>2, <1>3, <1>4, <1>5, <1>6, <1>7, StepKinds
----------------------------------------------------------------------------
(* The rows *)

\* What the types say of pages and their sequences.
LEMMA PageTypes ==
  ASSUME SearchInv
  PROVE  /\ rows \in Seq(Page)
         /\ \A l \in loaders : l.pending \in Seq(Page) /\ rows \o l.pending \in Seq(Page)
         /\ \A k \in Searches : cursor[k].at \in Nat /\ cursor[k].size \in Nat
         /\ \A a \in answers : /\ a.page \in Nat /\ a.cut \in BOOLEAN /\ a.more \in BOOLEAN
                               /\ a.page # 0 => [of |-> a.of, no |-> a.page] \in Page
<1>1. rows \in Seq(Page) /\ \A l \in loaders : l.pending \in Seq(Page)
  BY DEF SearchInv, KeeperInv, TypeOK
<1>2. \A k \in Searches : cursor[k].at \in Nat /\ cursor[k].size \in Nat
  BY BoundAssumption DEF SearchInv, KeeperInv, TypeOK
<1>3. ASSUME NEW a \in answers
      PROVE  /\ a.page \in Nat /\ a.cut \in BOOLEAN /\ a.more \in BOOLEAN
             /\ a.page # 0 => [of |-> a.of, no |-> a.page] \in Page
  <2>1. a.page \in 0..Pages /\ a.of \in Searches /\ a.cut \in BOOLEAN /\ a.more \in BOOLEAN
    BY DEF SearchInv, KeeperInv, TypeOK, Answer
  <2> QED
    BY <2>1, BoundAssumption DEF Page
<1> QED
  BY <1>1, <1>2, <1>3, ConcatProperties

LEMMA LastPageNo ==
  ASSUME NEW s \in Seq(Page), s # <<>>
  PROVE  s[Len(s)].no \in Nat /\ Len(s) \in Nat \ {0}
<1>1. Len(s) \in 1..Len(s) /\ Len(s) \in Nat \ {0}
  BY EmptySeq
<1>2. s[Len(s)] \in Page
  BY <1>1, LenProperties
<1> QED
  BY <1>1, <1>2, BoundAssumption DEF Page

\* A page added to what is held, wherever the commit divides it.
LEMMA PageAdded ==
  ASSUME NEW s \in Seq(Page), NEW t \in Seq(Page), NEW p \in Page
  PROVE  /\ s \o Append(t, p) = Append(s \o t, p) /\ (s \o t) \o <<p>> = Append(s \o t, p)
         /\ s \o t \in Seq(Page) /\ Append(s \o t, p) \in Seq(Page) /\ Append(t, p) \in Seq(Page)
         /\ s \o Append(t, p) \in Seq(Page)
<1>1. <<p>> \in Seq(Page) /\ Append(t, p) = t \o <<p>> /\ s \o t \in Seq(Page)
  BY AppendIsConcat, ConcatProperties
<1>2. Append(s \o t, p) = (s \o t) \o <<p>>
  BY <1>1, AppendIsConcat
<1>3. (s \o t) \o <<p>> = s \o (t \o <<p>>)
  BY <1>1, ConcatAssociative
<1> QED
  BY <1>1, <1>2, <1>3, AppendProperties

\* The beginning of what is in order is in order.
LEMMA InOrderPrefix ==
  ASSUME NEW s \in Seq(Page), NEW t \in Seq(Page), NEW k, InOrder(s \o t, k), s # <<>>
  PROVE  InOrder(s, k) /\ s[Len(s)].no <= (s \o t)[Len(s \o t)].no /\ s[Len(s)].no \in Nat
<1>1. /\ Len(s) \in Nat \ {0} /\ Len(t) \in Nat /\ Len(s \o t) = Len(s) + Len(t) /\ s \o t \in Seq(Page)
      /\ \A i \in 1..Len(s) : (s \o t)[i] = s[i]
  BY ConcatProperties, EmptySeq, LenProperties
<1>2. \A i \in 1..Len(s) : i \in 1..Len(s \o t)
  BY <1>1
<1>3. InOrder(s, k)
  <2>1. \A i, j \in 1..Len(s) : i < j => s[i].no < s[j].no
    BY <1>1, <1>2 DEF InOrder
  <2>2. s[1].no = 1
    <3>1. s \o t # <<>> /\ 1 \in 1..Len(s)
      BY <1>1, EmptySeq
    <3> QED
      BY <1>1, <3>1 DEF InOrder
  <2> QED
    BY <1>1, <1>2, <2>1, <2>2 DEF InOrder
<1>4. Len(s \o t) \in 1..Len(s \o t) /\ Len(s) \in 1..Len(s \o t)
  BY <1>1
<1>5. \A i \in 1..Len(s \o t) : (s \o t)[i].no \in Nat
  <2>1. \A i \in 1..Len(s \o t) : (s \o t)[i] \in Page
    BY <1>1, LenProperties
  <2> QED
    BY <2>1, BoundAssumption DEF Page
<1>6. s[Len(s)] = (s \o t)[Len(s)]
  BY <1>1
<1>7. Len(s) = Len(s \o t) \/ Len(s) < Len(s \o t)
  BY <1>1
<1> QED
  BY <1>3, <1>4, <1>5, <1>6, <1>7 DEF InOrder

\* The next page keeps the order.
LEMMA InOrderAppend ==
  ASSUME NEW s \in Seq(Page), NEW k, NEW p \in Page, InOrder(s, k), s # <<>>,
         p.of = k, s[Len(s)].no < p.no, k \notin gaveUp => p.no = Len(s) + 1
  PROVE  /\ InOrder(Append(s, p), k) /\ Len(Append(s, p)) = Len(s) + 1
         /\ Append(s, p)[Len(Append(s, p))].no = p.no
<1> DEFINE t == Append(s, p)
<1>1. /\ Len(s) \in Nat \ {0} /\ t \in Seq(Page) /\ Len(t) = Len(s) + 1 /\ t[Len(s) + 1] = p
      /\ \A i \in 1..Len(s) : t[i] = s[i]
  BY AppendProperties, EmptySeq
<1>2. \A i \in 1..Len(s) : s[i].no \in Nat /\ s[i].no <= s[Len(s)].no
  <2>1. \A i \in 1..Len(s) : s[i].no \in Nat
    <3>1. \A i \in 1..Len(s) : s[i] \in Page
      BY LenProperties
    <3> QED
      BY <3>1, BoundAssumption DEF Page
  <2>2. Len(s) \in 1..Len(s)
    BY <1>1
  <2>3. \A i \in 1..Len(s) : i = Len(s) \/ i < Len(s)
    BY <1>1
  <2> QED
    BY <2>1, <2>2, <2>3 DEF InOrder
<1>3. p.no \in Nat
  BY BoundAssumption DEF Page
<1> HIDE DEF t
<1>4. \A i \in 1..Len(t) : i \in 1..Len(s) \/ i = Len(s) + 1
  BY <1>1
<1>5. \A i \in 1..Len(t) : t[i].of = k
  BY <1>1, <1>4 DEF InOrder
<1>6. ASSUME NEW i \in 1..Len(t), NEW j \in 1..Len(t), i < j PROVE t[i].no < t[j].no
  <2>1. i \in 1..Len(s)
    BY <1>1, <1>6
  <2>2. CASE j \in 1..Len(s)
    BY <1>1, <1>6, <2>1, <2>2 DEF InOrder
  <2>3. CASE j = Len(s) + 1
    <3>1. t[i].no = s[i].no /\ t[j].no = p.no /\ s[Len(s)].no \in Nat
      BY <1>1, <1>2, <2>1, <2>3
    <3> QED
      BY <1>2, <1>3, <2>1, <3>1
  <2> QED
    BY <1>4, <2>2, <2>3
<1>7. t[1].no = 1
  <2>1. t[1] = s[1]
    BY <1>1
  <2> QED
    BY <2>1 DEF InOrder
<1>8. k \notin gaveUp => \A i \in 1..Len(t) : t[i].no = i
  BY <1>1, <1>4 DEF InOrder
<1>9. InOrder(t, k)
  BY <1>5, <1>6, <1>7, <1>8 DEF InOrder
<1> QED
  BY <1>1, <1>9 DEF t

\* The loader that asks holds pages in order, up to the place of the cursor.
AsksInOrder(p, u) ==
  LET t == rows' \o p IN
  /\ Asked(p, u) /\ u \in 0..1
  /\ rows' \in Seq(Page) /\ rows' # <<>> /\ p \in Seq(Page)
  /\ InOrder(t, seq)
  /\ calledNext[seq] + 1 <= MaxCalls + t[Len(t)].no
  /\ calledNext[seq] + 1 <= MaxCalls + Pages
  /\ t[Len(t)].no <= cursor[seq].at
  /\ seq \notin gaveUp => cursor[seq].at = Len(t)
  /\ complete' = FALSE

LEMMA RequestInOrder == SearchInv /\ RequestNext => AsksInOrder(<<>>, 0)
<1> SUFFICES ASSUME SearchInv, RequestNext PROVE AsksInOrder(<<>>, 0)
  OBVIOUS
<1>1. Asked(<<>>, 0) /\ active = seq /\ ~loading /\ calledNext[seq] < MaxCalls /\ UNCHANGED <<rows, complete>>
  BY RequestAsks
<1>2. active # None /\ seq \in Searches /\ model = seq /\ complete = FALSE
  BY <1>1 DEF RequestNext, Asked, SearchInv, RowsInv, RowsOfActive, KeeperInv, TypeOK
<1>3. rows \in Seq(Page) /\ rows # <<>> /\ rows \o <<>> = rows
  BY <1>2, PageTypes, ConcatEmptySeq DEF SearchInv, RowsInv, RowsOfActive
<1>4. InOrder(rows, seq) /\ rows[Len(rows)].no <= cursor[seq].at /\ (seq \notin gaveUp => cursor[seq].at = Len(rows))
  BY <1>1, <1>2 DEF SearchInv, RowsInv, RowsOfActive, ViewInOrder
<1>5. rows[Len(rows)].no \in Nat
  BY <1>3, LastPageNo
<1>6. calledNext[seq] \in Nat /\ <<>> \in Seq(Page)
  BY <1>2, Known
<1> QED
  BY <1>1, <1>2, <1>3, <1>4, <1>5, <1>6, BoundAssumption DEF AsksInOrder

LEMMA FirstInOrder ==
  ASSUME SearchInv, NEW a \in answers, First(a)
  PROVE  /\ LET p == [of |-> seq, no |-> a.page] IN
              /\ rows' = <<p>> /\ p.no = 1 /\ p.of = seq /\ Len(rows') = 1 /\ rows'[1] = p
              /\ rows' \in Seq(Page) /\ InOrder(rows', seq) /\ cursor[seq].at = 1
         /\ a.of = seq /\ seq \in Searches /\ seq \in starting /\ alive /\ model = seq
         /\ a.more => AsksInOrder(<<>>, 0)
<1> DEFINE p == [of |-> seq, no |-> a.page]
<1>1. a.of = seq /\ seq \in Searches /\ seq \in starting /\ calledNext[seq] = 0 /\ alive /\ model = seq
  BY Known, UnderwayIsShown DEF First, StartStep, Newest
<1>2. a.page = 1 /\ cursor[seq].at = 1
  BY <1>1 DEF First, StartStep, SearchInv, KeeperInv, AnswersTrue
<1>3. p \in Page /\ rows' = <<p>> /\ p.no = 1 /\ p.of = seq
  BY <1>1, <1>2, PageTypes DEF First, FirstPage
<1> HIDE DEF p
<1>4. Len(<<p>>) = 1 /\ <<p>>[1] = p /\ <<p>> \in Seq(Page) /\ <<p>> # <<>> /\ <<p>> \o <<>> = <<p>>
  BY <1>3, ConcatEmptySeq
<1>5. InOrder(<<p>>, seq)
  BY <1>3, <1>4 DEF InOrder
<1>6. ASSUME a.more PROVE AsksInOrder(<<>>, 0)
  <2>1. Asked(<<>>, 0) /\ complete' = FALSE
    BY <1>6, FirstAsks
  <2> QED
    BY <1>1, <1>2, <1>3, <1>4, <1>5, <2>1, BoundAssumption DEF AsksInOrder
<1> QED
  BY <1>1, <1>2, <1>3, <1>4, <1>5, <1>6 DEF p

\* The page that answers the loader comes next after what is held.
LEMMA NextInOrder ==
  ASSUME SearchInv, NEW a \in answers, NEW l \in loaders, OnePage(a, l)
  PROVE  LET p == [of |-> seq, no |-> a.page]
             t == Append(rows \o l.pending, p)
         IN
         /\ a.of = seq /\ l.of = seq /\ active = seq /\ active # None /\ seq \in Searches /\ model = seq
         /\ p \in Page /\ t \in Seq(Page) /\ l.pending \in Seq(Page) /\ rows \in Seq(Page) /\ rows # <<>>
         /\ rows \o Append(l.pending, p) = t /\ (rows \o l.pending) \o <<p>> = t
         /\ InOrder(t, seq)
         /\ t[Len(t)].no = a.page /\ a.page <= cursor[seq].at
         /\ calledNext[seq] + 1 <= MaxCalls + a.page
         /\ seq \notin gaveUp => cursor[seq].at = Len(t) /\ a.page = Len(t)
<1> DEFINE p == [of |-> seq, no |-> a.page]
           u == rows \o l.pending
<1>1. a.of = seq /\ l.of = seq /\ active = seq /\ seq \in Searches /\ model = seq /\ a.page # 0
  BY Known, UnderwayIsShown DEF OnePage, PageStep, Current, Newest
<1>2. p \in Page /\ rows \in Seq(Page) /\ l.pending \in Seq(Page) /\ u \in Seq(Page) /\ active # None
  BY <1>1, PageTypes, Known
<1>3. rows # <<>> /\ u # <<>>
  BY <1>2, ConcatEqualIffEmpty DEF SearchInv, RowsInv, RowsOfActive
<1>4. a \in PageFor(l)
  BY <1>1 DEF OnePage, PageStep, PageFor
<1>5. /\ InOrder(u, seq) /\ calledNext[seq] <= MaxCalls + u[Len(u)].no /\ u[Len(u)].no < a.page
      /\ seq \notin gaveUp => a.page = Len(u) + 1 /\ cursor[seq].at = Len(u) + 1
  BY <1>1, <1>4 DEF SearchInv, RowsInv, LoaderInOrder, Held
<1>6. a.page <= cursor[seq].at
  BY <1>1 DEF SearchInv, KeeperInv, AnswersTrue
<1>7. p.of = seq /\ p.no = a.page
  OBVIOUS
<1> HIDE DEF u, p
<1>8. /\ InOrder(Append(u, p), seq) /\ Len(Append(u, p)) = Len(u) + 1
      /\ Append(u, p)[Len(Append(u, p))].no = a.page
  BY <1>2, <1>3, <1>5, <1>7, InOrderAppend
<1>9. rows \o Append(l.pending, p) = Append(u, p) /\ u \o <<p>> = Append(u, p) /\ Append(u, p) \in Seq(Page)
  BY <1>2, PageAdded DEF u
<1>10. calledNext[seq] + 1 <= MaxCalls + a.page
  <2>1. u[Len(u)].no \in Nat /\ a.page \in Nat /\ calledNext[seq] \in Nat
    BY <1>1, <1>2, <1>3, LastPageNo, Known, PageTypes
  <2> QED
    BY <1>5, <2>1, BoundAssumption
<1> QED
  BY <1>1, <1>2, <1>3, <1>5, <1>6, <1>8, <1>9, <1>10 DEF u, p

LEMMA MiddleInOrder ==
  ASSUME SearchInv, NEW a \in answers, NEW l \in loaders, Middle(a, l)
  PROVE  \E p, u : AsksInOrder(p, u)
<1> DEFINE page == [of |-> seq, no |-> a.page]
           t == Append(rows \o l.pending, page)
<1>0. OnePage(a, l) /\ a.more
  BY DEF Middle
<1>1. /\ l.of = seq /\ complete' = FALSE /\ page \in Page
      /\ t \in Seq(Page) /\ l.pending \in Seq(Page) /\ rows \in Seq(Page) /\ rows # <<>>
      /\ rows \o Append(l.pending, page) = t
      /\ InOrder(t, seq) /\ t[Len(t)].no = a.page /\ a.page <= cursor[seq].at
      /\ calledNext[seq] + 1 <= MaxCalls + a.page
      /\ seq \notin gaveUp => cursor[seq].at = Len(t)
  BY <1>0, NextInOrder, MiddleAsks
<1>2. a.page <= Pages /\ a.page \in Nat /\ calledNext[seq] \in Nat
  <2>1. a.page \in 0..Pages
    BY DEF SearchInv, KeeperInv, TypeOK, Answer
  <2>2. seq \in Searches
    BY <1>0, NextInOrder
  <2> QED
    BY <2>1, <2>2, BoundAssumption, Known
<1>3. calledNext[seq] + 1 <= MaxCalls + Pages
  BY <1>1, <1>2, BoundAssumption
<1>4. t # <<>> /\ <<>> \in Seq(Page) /\ t \o <<>> = t /\ Append(l.pending, page) \in Seq(Page)
  BY <1>1, AppendProperties, ConcatEmptySeq, ConcatProperties
<1>5. PICK p, u : /\ Asked(p, u) /\ u \in 0..1
                  /\ \/ rows' = rows \o Append(l.pending, page) /\ p = <<>>
                     \/ rows' = rows /\ p = Append(l.pending, page)
  BY MiddleAsks
<1>6. rows' \o p = t /\ p \in Seq(Page) /\ rows' \in Seq(Page) /\ rows' # <<>>
  <2>1. CASE rows' = rows \o Append(l.pending, page) /\ p = <<>>
    <3> HIDE DEF t
    <3> QED
      BY <1>1, <1>4, <2>1
  <2>2. CASE rows' = rows /\ p = Append(l.pending, page)
    BY <1>1, <1>4, <2>2
  <2> QED
    BY <1>5, <2>1, <2>2
<1> HIDE DEF t, page
<1>7. AsksInOrder(p, u)
  BY <1>1, <1>3, <1>5, <1>6 DEF AsksInOrder
<1> QED
  BY <1>7

\* The steps by what they do to the rows.
FailsUnread(l) ==
  /\ LoaderEnds(l) /\ l.of = seq /\ loading' = FALSE /\ rows' = rows \o l.pending
  /\ UNCHANGED <<active, complete, failed, truncated>>
  /\ seq \in gaveUp' \/ PageFor(l) = {}
EndsUnseen(l) == LoaderEnds(l) /\ l.of # seq /\ UNCHANGED <<active, rows, complete, failed, truncated, loading>>
StartUnseen(k) ==
  /\ StartEnds(k) /\ UNCHANGED <<active, rows, truncated>>
  /\ \/ UNCHANGED <<complete, failed>>
     \/ k = seq /\ complete' = TRUE /\ failed' = TRUE
OnlyPage(a) == First(a) /\ ~a.more

LEMMA FailsKind ==
  ASSUME SearchInv, NEW l \in loaders, NoPage(l)
  PROVE  FailsUnread(l) \/ EndsUnseen(l)
<1>1. LoaderEnds(l) /\ UNCHANGED active
  BY Endings
<1>2. UNCHANGED <<complete, failed, truncated>> /\ loading' = (loading /\ ~Newest(l.of))
  BY DEF NoPage, PageFails
<1>3. CASE l.of = seq
  <2>1. Current(l)
    BY <1>3 DEF Current, Newest, SearchInv, KeeperInv, OneLoader
  <2>2. rows' = rows \o l.pending
    BY <2>1 DEF NoPage, PageFails
  <2>3. loading' = FALSE
    BY <1>2, <1>3, Zenon DEF Newest
  <2>4. seq \in gaveUp' \/ PageFor(l) = {}
    BY <1>3 DEF NoPage, PageFor, SearchInv, KeeperInv, CalledOnce
  <2> QED
    BY <1>1, <1>2, <1>3, <2>2, <2>3, <2>4 DEF FailsUnread
<1>4. CASE l.of # seq
  <2>1. loading' = loading
    <3>1. loading \in BOOLEAN
      BY DEF SearchInv, KeeperInv, TypeOK
    <3> QED
      BY <1>2, <1>4, <3>1, Zenon DEF Newest
  <2> QED
    BY <1>1, <1>2, <1>4, <2>1 DEF EndsUnseen, NoPage, PageFails, Current, Newest
<1> QED
  BY <1>3, <1>4

LEMMA StaleKind ==
  ASSUME SearchInv, NEW a \in answers, NEW l \in loaders, Stale(a, l)
  PROVE  EndsUnseen(l)
<1>1. LoaderEnds(l) /\ UNCHANGED <<active, rows, complete, failed, truncated>> /\ loading' = (loading /\ ~Newest(l.of))
  BY Endings DEF Stale, StalePage
<1>2. l.of # seq
  BY DEF Stale, Current, Newest, SearchInv, KeeperInv, OneLoader
<1>3. loading' = loading
  <2>1. loading \in BOOLEAN
    BY DEF SearchInv, KeeperInv, TypeOK
  <2> QED
    BY <1>1, <1>2, <2>1, Zenon DEF Newest
<1> QED
  BY <1>1, <1>2, <1>3 DEF EndsUnseen

LEMMA RowKinds ==
  ASSUME SearchInv, [Next]_vars
  PROVE  \/ RunSearch /\ TurnsAway({seq + 1})
         \/ (Reset \/ Dispose) /\ TurnsAway({})
         \/ \E p, u : AsksInOrder(p, u)
         \/ \E a \in answers : OnlyPage(a)
         \/ \E k \in Searches : StartUnseen(k)
         \/ \E l \in loaders : FailsUnread(l) \/ EndsUnseen(l)
         \/ \E a \in answers, l \in loaders : Last(a, l)
         \/ \E c \in calls : Refused(c) \/ CancelServed(c)
         \/ \E c \in calls, size \in 1..Pages : Served(c, size)
         \/ UNCHANGED vars
<1>1. ASSUME NEW k \in Searches, NoStart(k) PROVE StartUnseen(k)
  BY <1>1, StartEndings DEF NoStart, StartFails, StartUnseen, Newest
<1>2. ASSUME NEW a \in answers, Late(a) PROVE a.of \in Searches /\ StartUnseen(a.of)
  BY <1>2, StartEndings, Known DEF StartUnseen
<1>3. \A a \in answers : First(a) => OnlyPage(a) \/ AsksInOrder(<<>>, 0)
  BY FirstInOrder DEF OnlyPage
<1> QED
  BY <1>1, <1>2, <1>3, StepCases, Turns, RequestInOrder, MiddleInOrder, FailsKind, StaleKind

\* A page is served to the newest search: somebody waits for it, or a call was
\* given up; a start is not.
LEMMA ServedNewest ==
  ASSUME SearchInv, NEW c \in calls, NEW size \in 1..Pages, Served(c, size), c.of = seq, active # None
  PROVE  /\ c.op = "next" /\ size = cursor[seq].size
         /\ cursor'[seq].at = cursor[seq].at + 1
         /\ seq \notin gaveUp => \E l \in loaders : l.of = seq /\ l.call = c.call /\ loading /\ PageFor(l) = {}
         /\ \A l \in loaders : l.of = seq =>
              \A a \in answers' : a.of = seq /\ a.call = l.call /\ a.page # 0 =>
                 a \in PageFor(l) \/ a.page = cursor[seq].at + 1
<1>1. active = seq /\ seq \in Searches /\ calledNext[seq] > 0 /\ seq \notin starting
  BY Known DEF SearchInv, KeeperInv, ViewIsNewest
<1>2. PICK cut \in BOOLEAN :
        /\ AnsweredWith(c, cursor[seq].at + 1, HasCookie(cursor[seq].at + 1, size) /\ ~cut, cut)
        /\ \/ c.op = "start" /\ calledNext[seq] = 0
           \/ c.op = "next" /\ size = cursor[seq].size /\ c.call > 0
  BY ServedEffect
<1>3. c.op = "next" /\ size = cursor[seq].size
  BY <1>1, <1>2
<1>4. cursor'[seq].at = cursor[seq].at + 1
  BY PageEffect
<1>5. ASSUME seq \notin gaveUp PROVE \E l \in loaders : l.of = seq /\ l.call = c.call /\ loading /\ PageFor(l) = {}
  <2>1. SomeoneWaits(seq, c.call) /\ \A a \in answers : a.of # seq \/ a.call # c.call
    BY <1>3, <1>5 DEF SearchInv, KeeperInv, CalledOnce
  <2>2. PICK l \in loaders : l.of = seq /\ l.call = c.call
    BY <1>1, <1>2, <2>1 DEF SomeoneWaits
  <2> QED
    BY <2>1, <2>2 DEF PageFor, SearchInv, KeeperInv, OneLoader
<1>6. ASSUME NEW l \in loaders, l.of = seq, NEW a \in answers', a.of = seq, a.call = l.call, a.page # 0
      PROVE  a \in PageFor(l) \/ a.page = cursor[seq].at + 1
  BY <1>2, <1>6 DEF AnsweredWith, PageFor
<1> QED
  BY <1>3, <1>4, <1>5, <1>6

\* The answer that a service brings, if anybody waits for it.
LEMMA AnswerOf ==
  ASSUME SearchInv, NEW c \in calls, NEW size \in 1..Pages, Served(c, size)
  PROVE  /\ \E r : answers' \in {answers, answers \cup {r}} /\ r.of = c.of
         /\ SomeoneWaits(c.of, c.call) =>
              \E r \in answers' : r.of = c.of /\ r.call = c.call /\ r.page = cursor[c.of].at + 1
<1>1. PICK cut \in BOOLEAN :
        AnsweredWith(c, cursor[c.of].at + 1, HasCookie(cursor[c.of].at + 1, size) /\ ~cut, cut)
  BY ServedEffect
<1> DEFINE r == [of |-> c.of, call |-> c.call, page |-> cursor[c.of].at + 1,
                 more |-> HasCookie(cursor[c.of].at + 1, size) /\ ~cut, cut |-> cut]
<1>2. r.of = c.of /\ r.call = c.call /\ r.page = cursor[c.of].at + 1
  OBVIOUS
<1>3. \/ ~SomeoneWaits(c.of, c.call) /\ answers' = answers
      \/ SomeoneWaits(c.of, c.call) /\ answers' = answers \cup {r}
  BY <1>1 DEF AnsweredWith
<1> HIDE DEF r
<1> QED
  BY <1>2, <1>3

LEMMA LoaderOrderStep == SearchInv /\ [Next]_vars => LoaderInOrder'
<1> SUFFICES ASSUME SearchInv, [Next]_vars PROVE LoaderInOrder'
  OBVIOUS
<1>0. LoaderInOrder
  BY DEF SearchInv, RowsInv
<1>1. ASSUME NEW new, TurnsAway(new) PROVE LoaderInOrder'
  <2>1. \A l \in loaders' : l.of # seq'
    BY <1>1, Known DEF TurnsAway
  <2> QED
    BY <2>1 DEF LoaderInOrder
<1>2. ASSUME NEW p, NEW u, AsksInOrder(p, u) PROVE LoaderInOrder'
  <2>1. Asked(p, u)
    BY <1>2 DEF AsksInOrder
  <2>2. calledNext'[seq] = calledNext[seq] + 1 /\ seq' = seq /\ UNCHANGED <<cursor, gaveUp>>
    BY <2>1 DEF Asked, SearchInv, KeeperInv, TypeOK
  <2>3. \A l \in loaders' : l.of = seq => l.pending = p /\ PageFor(l)' = {}
    BY <2>1 DEF Asked, PageFor
  <2>4. DEFINE t == rows' \o p
  <2>5. /\ InOrder(t, seq) /\ calledNext[seq] + 1 <= MaxCalls + t[Len(t)].no
        /\ t[Len(t)].no <= cursor[seq].at /\ (seq \notin gaveUp => cursor[seq].at = Len(t))
    BY <1>2 DEF AsksInOrder
  <2> HIDE DEF t
  <2>6. ASSUME NEW l \in loaders', l.of = seq'
        PROVE  /\ InOrder(t, seq') /\ (seq' \notin gaveUp' <=> seq \notin gaveUp)
               /\ calledNext'[seq'] <= MaxCalls + t[Len(t)].no
               /\ t[Len(t)].no <= cursor'[seq'].at
               /\ PageFor(l)' = {}
               /\ rows' \o l.pending = t
    BY <2>2, <2>3, <2>5, <2>6 DEF t
  <2>7. (seq \notin gaveUp => cursor'[seq].at = Len(t))
    BY <2>2, <2>5
  <2> QED
    BY <2>2, <2>6, <2>7 DEF LoaderInOrder, Held, InOrder
<1>3. ASSUME NEW a \in answers, OnlyPage(a) PROVE LoaderInOrder'
  <2>1. seq \in starting /\ UNCHANGED <<seq, loaders>>
    BY <1>3, FirstInOrder DEF OnlyPage, First, FirstPage
  <2>2. \A l \in loaders' : l.of # seq'
    BY <2>1, Known
  <2> QED
    BY <2>2 DEF LoaderInOrder
<1>4. ASSUME NEW k \in Searches, StartUnseen(k) PROVE LoaderInOrder'
  <2>1. \A l \in loaders : l.of # k
    BY <1>4, Known DEF StartUnseen, StartEnds
  <2>2. \A l \in loaders : l.of = seq => PageFor(l)' = PageFor(l) /\ k # seq
    BY <1>4, <2>1 DEF StartUnseen, StartEnds, PageFor
  <2>3. UNCHANGED <<seq, loaders, rows, cursor, calledNext>> /\ gaveUp \subseteq gaveUp' /\ gaveUp' \subseteq gaveUp \cup {k}
    BY <1>4 DEF StartUnseen, StartEnds
  <2> QED
    BY <1>0, <2>2, <2>3 DEF LoaderInOrder, Held, InOrder
<1>5. ASSUME NEW l \in loaders, LoaderEnds(l), l.of = seq PROVE LoaderInOrder'
  <2>1. \A m \in loaders' : m.of # seq'
    BY <1>5, Known DEF LoaderEnds
  <2> QED
    BY <2>1 DEF LoaderInOrder
<1>6. ASSUME NEW l \in loaders, EndsUnseen(l) PROVE LoaderInOrder'
  <2>1. \A m \in loaders : m.of = seq => PageFor(m)' = PageFor(m)
    BY <1>6 DEF EndsUnseen, LoaderEnds, PageFor
  <2>2. /\ UNCHANGED <<seq, rows, cursor, calledNext>> /\ gaveUp \subseteq gaveUp' /\ gaveUp' \subseteq gaveUp \cup {l.of}
        /\ l.of # seq /\ loaders' \subseteq loaders
    BY <1>6 DEF EndsUnseen, LoaderEnds
  <2> QED
    BY <1>0, <2>1, <2>2 DEF LoaderInOrder, Held, InOrder
<1>7. ASSUME NEW a \in answers, NEW l \in loaders, Last(a, l) PROVE LoaderEnds(l) /\ l.of = seq
  BY <1>7, Endings, NextInOrder DEF Last
<1>8. ASSUME NEW c \in calls, Refused(c) \/ CancelServed(c) PROVE LoaderInOrder'
  <2>1. UNCHANGED <<seq, loaders, rows, calledNext, gaveUp>>
    BY <1>8, Services DEF view, waiting
  <2>2. \A k \in Searches : cursor'[k].at = cursor[k].at
    BY <1>8, CloseEffect
  <2>3. \A l \in loaders : PageFor(l)' = PageFor(l)
    BY <1>8, RefusedEffect DEF AnsweredWith, CancelServed, ServeCancel, PageFor
  <2> QED
    <3> SUFFICES ASSUME NEW l \in loaders, l.of = seq PROVE Held(l)'
      BY <2>1 DEF LoaderInOrder
    <3>1. Held(l) /\ cursor'[seq].at = cursor[seq].at
      BY <1>0, <2>2, Known DEF LoaderInOrder
    <3> QED
      BY <2>1, <2>3, <3>1 DEF Held, InOrder
<1>9. ASSUME NEW c \in calls, NEW size \in 1..Pages, Served(c, size) PROVE LoaderInOrder'
  <2>1. UNCHANGED <<seq, loaders, rows, calledNext, gaveUp>>
    BY <1>9, Services DEF view, waiting
  <2> SUFFICES ASSUME NEW l \in loaders, l.of = seq PROVE Held(l)'
    BY <2>1 DEF LoaderInOrder
  <2>2. Held(l) /\ active = seq /\ active # None /\ seq \in Searches /\ cursor[seq].at \in Nat
    BY <1>0, Known, PageTypes DEF LoaderInOrder, SearchInv, KeeperInv, OneLoader
  <2>3. CASE c.of # seq
    <3>1. cursor'[seq] = cursor[seq]
      BY <1>9, <2>2, <2>3, PageEffect
    <3>2. PageFor(l)' = PageFor(l)
      <4>1. \E r : answers' \in {answers, answers \cup {r}} /\ r.of = c.of
        BY <1>9, AnswerOf
      <4> QED
        BY <2>3, <4>1 DEF PageFor
    <3> QED
      BY <2>1, <2>2, <3>1, <3>2 DEF Held, InOrder
  <2>4. CASE c.of = seq
    <3> DEFINE t == rows \o l.pending
    <3>1. /\ cursor'[seq].at = cursor[seq].at + 1
          /\ seq \notin gaveUp => PageFor(l) = {}
          /\ \A a \in PageFor(l)' : a \in PageFor(l) \/ a.page = cursor[seq].at + 1
      <4>1. \A a \in PageFor(l)' : a \in answers' /\ a.of = seq /\ a.call = l.call /\ a.page # 0
        BY DEF PageFor
      <4>2. \A m \in loaders : m.of = seq => m = l
        BY Known
      <4> QED
        BY <1>9, <2>2, <2>4, <4>1, <4>2, ServedNewest
    <3>2. seq \notin gaveUp => PageFor(l)' # {}
      <4>1. ASSUME seq \notin gaveUp PROVE PageFor(l)' # {}
        <5>1. l.call = c.call /\ SomeoneWaits(c.of, c.call)
          BY <1>9, <2>2, <2>4, <4>1, ServedNewest, Known DEF SomeoneWaits
        <5>2. PICK new : new \in answers' /\ new.of = c.of /\ new.call = c.call /\ new.page = cursor[seq].at + 1
          BY <1>9, <2>4, <5>1, AnswerOf
        <5>3. new \in PageFor(l)'
          BY <2>2, <2>4, <5>1, <5>2 DEF PageFor
        <5> QED
          BY <5>3
      <4> QED
        BY <4>1
    <3>3. /\ t[Len(t)].no <= cursor[seq].at /\ InOrder(t, seq) /\ calledNext[seq] <= MaxCalls + t[Len(t)].no
          /\ \A a \in PageFor(l) : t[Len(t)].no < a.page
          /\ seq \notin gaveUp => cursor[seq].at = Len(t)
      BY <2>2, <3>1 DEF Held
    <3>4. t[Len(t)].no \in Nat
      <4>1. rows \in Seq(Page) /\ l.pending \in Seq(Page) /\ t \in Seq(Page) /\ rows # <<>>
        BY <2>2, PageTypes DEF SearchInv, RowsInv, RowsOfActive
      <4>2. t # <<>>
        BY <4>1, ConcatEqualIffEmpty
      <4> HIDE DEF t
      <4> QED
        BY <4>1, <4>2, LastPageNo
    <3> HIDE DEF t
    <3>5. /\ t[Len(t)].no <= cursor'[seq].at
          /\ \A a \in PageFor(l)' : t[Len(t)].no < a.page
          /\ seq \notin gaveUp => \A a \in PageFor(l)' : a.page = Len(t) + 1 /\ cursor'[seq].at = Len(t) + 1
      BY <2>2, <3>1, <3>3, <3>4
    <3>6. rows' \o l.pending = t
      BY <2>1 DEF t
    <3> QED
      BY <2>1, <3>2, <3>3, <3>5, <3>6 DEF Held, InOrder
  <2> QED
    BY <2>3, <2>4
<1>10. CASE UNCHANGED vars
  BY <1>0, <1>10 DEF vars, view, waiting, network, LoaderInOrder, Held, InOrder, PageFor
<1> QED
  BY <1>1, <1>2, <1>3, <1>4, <1>5, <1>6, <1>7, <1>8, <1>9, <1>10, RowKinds DEF FailsUnread

LEMMA ActiveRowsStep == SearchInv /\ [Next]_vars => RowsOfActive'
<1> SUFFICES ASSUME SearchInv, [Next]_vars PROVE RowsOfActive'
  OBVIOUS
<1>0. RowsOfActive
  BY DEF SearchInv, RowsInv
<1>1. ASSUME NEW new, TurnsAway(new) PROVE RowsOfActive'
  BY <1>1 DEF TurnsAway, RowsOfActive
<1>2. ASSUME NEW p, NEW u, AsksInOrder(p, u) PROVE RowsOfActive'
  <2>1. /\ Asked(p, u) /\ rows' # <<>> /\ complete' = FALSE /\ InOrder(rows' \o p, seq)
        /\ rows' \in Seq(Page) /\ p \in Seq(Page)
    BY <1>2 DEF AsksInOrder
  <2> DEFINE shown == rows'[Len(rows')].no
             held  == (rows' \o p)[Len(rows' \o p)].no
  <2>2. shown <= held /\ shown \in Nat
    BY <2>1, InOrderPrefix
  <2>3. cursor[seq].at \in Nat /\ held \in Nat
    <3>1. rows' \o p # <<>> /\ rows' \o p \in Seq(Page)
      BY <2>1, ConcatEqualIffEmpty, ConcatProperties
    <3> QED
      BY <2>1, <3>1, LastPageNo, PageTypes DEF Asked
  <2>4. shown <= cursor[seq].at
    <3>1. held <= cursor[seq].at
      BY <1>2 DEF AsksInOrder
    <3> HIDE DEF shown, held
    <3> QED
      BY <2>2, <2>3, <3>1
  <2> HIDE DEF shown, held
  <2>5. \E l \in loaders' : l.of = seq
    <3> DEFINE asking == [of |-> seq, call |-> calledNext[seq] + 1, pending |-> p, since |-> u]
    <3>1. asking \in loaders'
      BY <2>1 DEF Asked
    <3> QED
      BY <3>1
  <2>6. seq' = seq /\ cursor' = cursor /\ loading' = TRUE
    BY <2>1 DEF Asked
  <2> QED
    BY <2>1, <2>4, <2>5, <2>6 DEF RowsOfActive, shown
<1>3. ASSUME NEW a \in answers, OnlyPage(a) PROVE RowsOfActive'
  BY <1>3 DEF OnlyPage, First, FirstPage, RowsOfActive
<1>4. ASSUME NEW k \in Searches, StartUnseen(k) PROVE RowsOfActive'
  <2>1. active # None => k # seq
    BY <1>4 DEF StartUnseen, StartEnds, SearchInv, KeeperInv, ViewIsNewest
  <2>2. UNCHANGED <<active, rows, seq, loaders, loading, cursor>> /\ gaveUp \subseteq gaveUp' /\ (k = seq \/ UNCHANGED complete)
    BY <1>4 DEF StartUnseen, StartEnds
  <2> QED
    BY <1>0, <2>1, <2>2 DEF RowsOfActive
<1>5. ASSUME NEW l \in loaders, FailsUnread(l) PROVE RowsOfActive'
  <2>1. /\ l.of = seq /\ UNCHANGED <<seq, active, complete, cursor>> /\ gaveUp \subseteq gaveUp'
        /\ loading' = FALSE /\ rows' = rows \o l.pending /\ (seq \in gaveUp' \/ PageFor(l) = {})
    BY <1>5 DEF FailsUnread, LoaderEnds
  <2>2. active = seq /\ Held(l)
    BY <2>1 DEF SearchInv, KeeperInv, OneLoader, RowsInv, LoaderInOrder
  <2>3. active # None => rows \o l.pending # <<>>
    BY <1>0, PageTypes, ConcatEqualIffEmpty DEF RowsOfActive
  <2> QED
    BY <1>0, <2>1, <2>2, <2>3 DEF RowsOfActive, Held
<1>6. ASSUME NEW l \in loaders, EndsUnseen(l) PROVE RowsOfActive'
  <2>1. /\ UNCHANGED <<seq, active, rows, complete, loading, cursor>> /\ gaveUp \subseteq gaveUp'
        /\ \A m \in loaders : m.of = seq => m \in loaders'
    BY <1>6 DEF EndsUnseen, LoaderEnds
  <2> QED
    BY <1>0, <2>1 DEF RowsOfActive
<1>7. ASSUME NEW a \in answers, NEW l \in loaders, Last(a, l) PROVE RowsOfActive'
  BY <1>7 DEF Last, LastPage, RowsOfActive
<1>8. ASSUME NEW c \in calls, Refused(c) \/ CancelServed(c) PROVE RowsOfActive'
  <2>1. UNCHANGED <<seq, active, rows, complete, loading, loaders, gaveUp>>
    BY <1>8, Services DEF view, waiting
  <2>2. active # None => cursor'[seq].at = cursor[seq].at
    BY <1>8, CloseEffect, Known
  <2> QED
    BY <1>0, <2>1, <2>2 DEF RowsOfActive
<1>9. ASSUME NEW c \in calls, NEW size \in 1..Pages, Served(c, size) PROVE RowsOfActive'
  <2>1. UNCHANGED <<seq, active, rows, complete, loading, loaders, gaveUp>>
    BY <1>9, Services DEF view, waiting
  <2>2. CASE active # None /\ c.of = seq
    <3>1. cursor'[seq].at = cursor[seq].at + 1 /\ (seq \notin gaveUp => loading) /\ cursor[seq].at \in Nat
      BY <1>9, <2>2, ServedNewest, Known, PageTypes
    <3>2. rows[Len(rows)].no \in Nat
      BY <1>0, <2>2, PageTypes, LastPageNo DEF RowsOfActive
    <3> QED
      BY <1>0, <2>1, <2>2, <3>1, <3>2 DEF RowsOfActive
  <2>3. CASE active # None /\ c.of # seq
    BY <1>0, <1>9, <2>1, <2>3, PageEffect, Known DEF RowsOfActive
  <2> QED
    BY <2>1, <2>2, <2>3 DEF RowsOfActive
<1>10. CASE UNCHANGED vars
  BY <1>0, <1>10 DEF vars, view, waiting, network, RowsOfActive
<1> QED
  BY <1>1, <1>2, <1>3, <1>4, <1>5, <1>6, <1>7, <1>8, <1>9, <1>10, RowKinds

\* The view shows pages in order; a search that is being started shows nothing.
LEMMA ViewOrderStep == SearchInv /\ [Next]_vars => ViewInOrder'
<1> SUFFICES ASSUME SearchInv, [Next]_vars PROVE ViewInOrder'
  OBVIOUS
<1>0. ViewInOrder
  BY DEF SearchInv, RowsInv
<1>1. CASE RunSearch
  BY <1>1 DEF RunSearch, ViewInOrder, InOrder
<1>2. CASE (Reset \/ Dispose) /\ TurnsAway({})
  <2>1. None \notin starting /\ seq + 1 \notin starting
    <3>1. \A k \in starting : k \in Nat /\ k # None /\ k <= seq
      BY Known
    <3> QED
      BY <3>1, Known
  <2>4. starting' = starting /\ seq' = seq + 1
    BY <1>2 DEF TurnsAway
  <2>2. CASE Reset
    BY <2>1, <2>2, <2>4 DEF Reset, ViewInOrder, InOrder
  <2>3. CASE Dispose
    BY <1>0, <2>1, <2>3, <2>4 DEF Dispose, ViewInOrder, InOrder
  <2> QED
    BY <1>2, <2>2, <2>3
<1>3. ASSUME NEW p, NEW u, AsksInOrder(p, u) PROVE ViewInOrder'
  <2>1. /\ Asked(p, u) /\ rows' # <<>> /\ complete' = FALSE /\ InOrder(rows' \o p, seq)
        /\ rows' \in Seq(Page) /\ p \in Seq(Page)
    BY <1>3 DEF AsksInOrder
  <2>2. InOrder(rows', seq)
    BY <2>1, InOrderPrefix
  <2> QED
    BY <2>1, <2>2 DEF Asked, ViewInOrder, InOrder
<1>4. ASSUME NEW a \in answers, OnlyPage(a) PROVE ViewInOrder'
  <2>1. /\ InOrder(rows', seq) /\ seq \in starting /\ a.of = seq /\ UNCHANGED <<seq, model, gaveUp>> /\ model = seq
        /\ starting' = starting \ {a.of}
    BY <1>4, FirstInOrder DEF OnlyPage, First, StartStep, FirstPage
  <2> QED
    BY <2>1 DEF ViewInOrder, InOrder
<1>5. ASSUME NEW k \in Searches, StartUnseen(k) PROVE ViewInOrder'
  <2>1. /\ UNCHANGED <<rows, model, seq>> /\ starting' = starting \ {k} /\ gaveUp \subseteq gaveUp'
        /\ UNCHANGED complete \/ (k = seq /\ seq \in starting)
    BY <1>5 DEF StartUnseen, StartEnds
  <2>2. seq \in starting => model = seq
    BY UnderwayIsShown
  <2> QED
    BY <1>0, <2>1, <2>2 DEF ViewInOrder, InOrder
<1>6. ASSUME NEW l \in loaders, FailsUnread(l) PROVE ViewInOrder'
  <2>1. /\ l.of = seq /\ rows' = rows \o l.pending /\ UNCHANGED <<model, seq, starting>> /\ gaveUp \subseteq gaveUp'
    BY <1>6 DEF FailsUnread, LoaderEnds
  <2>2. model = seq /\ seq \notin starting /\ InOrder(rows \o l.pending, seq)
    BY <2>1, UnderwayIsShown, Known DEF SearchInv, RowsInv, LoaderInOrder, Held
  <2> QED
    BY <2>1, <2>2 DEF ViewInOrder, InOrder
<1>7. ASSUME NEW l \in loaders, EndsUnseen(l) PROVE ViewInOrder'
  BY <1>0, <1>7 DEF EndsUnseen, LoaderEnds, ViewInOrder, InOrder
<1>8. ASSUME NEW a \in answers, NEW l \in loaders, Last(a, l) PROVE ViewInOrder'
  <2>1. OnePage(a, l) /\ rows' = rows \o l.pending \o <<[of |-> a.of, no |-> a.page]>>
        /\ UNCHANGED <<model, seq, starting, gaveUp>>
    BY <1>8 DEF Last, LastPage, OnePage, PageStep, Commit
  <2>2. InOrder(rows', seq) /\ model = seq /\ seq \notin starting
    <3> DEFINE t == Append(rows \o l.pending, [of |-> seq, no |-> a.page])
    <3>1. a.of = seq /\ l.of = seq /\ model = seq /\ InOrder(t, seq)
          /\ rows \o l.pending \o <<[of |-> seq, no |-> a.page]>> = t
      BY <2>1, NextInOrder
    <3>2. rows' = t
      BY <2>1, <3>1
    <3> HIDE DEF t
    <3> QED
      BY <3>1, <3>2, Known
  <2> QED
    BY <2>1, <2>2 DEF ViewInOrder, InOrder
<1>9. ASSUME NEW c \in calls, UNCHANGED <<view, waiting, gaveUp>> PROVE ViewInOrder'
  BY <1>0, <1>9 DEF view, waiting, ViewInOrder, InOrder
<1>10. CASE UNCHANGED vars
  BY <1>0, <1>10 DEF vars, view, waiting, network, ViewInOrder, InOrder
<1> QED
  BY <1>1, <1>2, <1>3, <1>4, <1>5, <1>6, <1>7, <1>8, <1>9, <1>10, RowKinds, Services

\* A view that says it is complete has as many pages as the search.
LEMMA CompleteStep == SearchInv /\ [Next]_vars => CompleteHasAll'
<1> SUFFICES ASSUME SearchInv, [Next]_vars PROVE CompleteHasAll'
  OBVIOUS
<1>0. CompleteHasAll /\ RowsOfActive /\ ViewInOrder
  BY DEF SearchInv, RowsInv
<1> USE DEF CompleteHasAll, SaysComplete
<1>1. CASE RunSearch
  BY <1>1 DEF RunSearch
<1>2. CASE Reset
  BY <1>2 DEF Reset
<1>3. CASE Dispose
  BY <1>0, <1>3 DEF Dispose
<1>4. ASSUME NEW p, NEW u, AsksInOrder(p, u) PROVE CompleteHasAll'
  BY <1>4 DEF AsksInOrder
<1>5. ASSUME NEW a \in answers, OnlyPage(a) PROVE CompleteHasAll'
  <2>1. /\ a.of = seq /\ Len(rows') = 1 /\ model' = seq /\ a.page = 1 /\ truncated' = a.cut
        /\ UNCHANGED cursor
    BY <1>5, FirstInOrder DEF OnlyPage, First, StartStep, FirstPage
  <2>2. ~a.cut => a.page = cursor[seq].size
    BY <1>5, <2>1 DEF OnlyPage, SearchInv, KeeperInv, AnswersTrue
  <2> QED
    BY <2>1, <2>2
<1>6. ASSUME NEW k \in Searches, StartUnseen(k) PROVE CompleteHasAll'
  <2>1. UNCHANGED <<rows, truncated, model, cursor>> /\ gaveUp \subseteq gaveUp'
    BY <1>6 DEF StartUnseen, StartEnds
  <2>2. CASE UNCHANGED <<complete, failed>>
    BY <1>0, <2>1, <2>2
  <2>3. CASE failed' = TRUE
    BY <2>3
  <2> QED
    BY <1>6, <2>2, <2>3 DEF StartUnseen
<1>7. ASSUME NEW l \in loaders, FailsUnread(l) PROVE CompleteHasAll'
  <2>1. complete' = complete /\ active # None
    BY <1>7, Known DEF FailsUnread, SearchInv, KeeperInv, OneLoader
  <2> QED
    BY <1>0, <2>1 DEF RowsOfActive
<1>8. ASSUME NEW l \in loaders, EndsUnseen(l) PROVE CompleteHasAll'
  BY <1>0, <1>8 DEF EndsUnseen, LoaderEnds
<1>9. ASSUME NEW a \in answers, NEW l \in loaders, Last(a, l) PROVE CompleteHasAll'
  <2> DEFINE t == Append(rows \o l.pending, [of |-> seq, no |-> a.page])
  <2>1. /\ OnePage(a, l) /\ rows' = rows \o l.pending \o <<[of |-> a.of, no |-> a.page]>>
        /\ truncated' = (truncated \/ a.cut) /\ ~a.more
        /\ UNCHANGED <<model, gaveUp, cursor>>
    BY <1>9 DEF Last, LastPage, OnePage, PageStep, Commit
  <2>2. rows' = t /\ model = seq /\ a.of = seq /\ (seq \notin gaveUp => a.page = Len(t))
    BY <2>1, NextInOrder
  <2> HIDE DEF t
  <2>3. ~a.cut => a.page = cursor[seq].size
    BY <2>1, <2>2 DEF OnePage, PageStep, SearchInv, KeeperInv, AnswersTrue
  <2> QED
    BY <2>1, <2>2, <2>3
<1>10. ASSUME NEW c \in calls, Refused(c) \/ CancelServed(c) PROVE CompleteHasAll'
  <2>1. UNCHANGED <<model, rows, complete, failed, truncated, gaveUp>>
    BY <1>10, Services DEF view, waiting
  <2>2. model # None => cursor'[model].size = cursor[model].size
    BY <1>10, CloseEffect DEF SearchInv, KeeperInv, TypeOK
  <2> QED
    BY <1>0, <2>1, <2>2
<1>11. ASSUME NEW c \in calls, NEW size \in 1..Pages, Served(c, size) PROVE CompleteHasAll'
  <2>1. UNCHANGED <<model, rows, complete, failed, truncated, gaveUp>> /\ c.op # "cancel"
    BY <1>11, Services, PageEffect DEF view, waiting
  <2>2. \A k \in Searches : k # c.of => cursor'[k] = cursor[k]
    BY <1>11, PageEffect
  <2>3. c.op = "start" /\ c.of \notin gaveUp => c.of \in starting
    BY <2>1 DEF SearchInv, KeeperInv, CalledOnce, SomeoneWaits
  <2>4. c.op # "start" => cursor'[c.of].size = cursor[c.of].size
    <3>1. c.op # "start" => size = cursor[c.of].size
      BY <1>11, ServedEffect
    <3> QED
      BY <1>11, <3>1, PageEffect
  <2>5. model \in starting => ~complete
    BY <1>0 DEF ViewInOrder
  <2>6. model # None => model \in Searches
    BY DEF SearchInv, KeeperInv, TypeOK
  <2> QED
    BY <1>0, <2>1, <2>2, <2>3, <2>4, <2>5, <2>6
<1>12. CASE UNCHANGED vars
  BY <1>0, <1>12 DEF vars, view, waiting, network
<1> QED
  BY <1>1, <1>2, <1>3, <1>4, <1>5, <1>6, <1>7, <1>8, <1>9, <1>10, <1>11, <1>12, RowKinds
----------------------------------------------------------------------------
(* The types *)

Flags == /\ alive \in BOOLEAN /\ complete \in BOOLEAN /\ truncated \in BOOLEAN /\ failed \in BOOLEAN
         /\ searching \in BOOLEAN /\ loading \in BOOLEAN

LEMMA FlagsStep == SearchInv /\ [Next]_vars => Flags'
<1> SUFFICES ASSUME SearchInv, [Next]_vars PROVE Flags'
  OBVIOUS
<1>0. Flags
  BY DEF Flags, SearchInv, KeeperInv, TypeOK
<1> USE DEF Flags
<1>1. CASE RunSearch
  BY <1>0, <1>1 DEF RunSearch
<1>2. CASE Reset
  BY <1>0, <1>2 DEF Reset
<1>3. CASE Dispose
  BY <1>0, <1>3 DEF Dispose
<1>4. CASE RequestNext
  BY <1>0, <1>4 DEF RequestNext
<1>5. ASSUME NEW a \in answers, First(a) PROVE Flags'
  <2>1. complete' \in BOOLEAN /\ truncated' \in BOOLEAN /\ searching' \in BOOLEAN
    BY <1>5, PageTypes, Zenon DEF First, FirstPage
  <2>2. loading' = TRUE \/ loading' = loading
    BY <1>5 DEF First, FirstPage
  <2> QED
    BY <1>0, <1>5, <2>1, <2>2 DEF First, FirstPage
<1>6. ASSUME NEW a \in answers, Late(a) PROVE Flags'
  BY <1>0, <1>6 DEF Late, StaleStart, view
<1>7. ASSUME NEW k \in Searches, NoStart(k) PROVE Flags'
  BY <1>0, <1>7 DEF NoStart, StartFails
<1>8. ASSUME NEW a \in answers, NEW l \in loaders, OnePage(a, l),
             complete' \in BOOLEAN, loading' = FALSE \/ loading' = loading
      PROVE  Flags'
  <2>1. truncated' \in BOOLEAN
    BY <1>0, <1>8, Zenon DEF OnePage
  <2> QED
    BY <1>0, <1>8, <2>1 DEF OnePage
<1>9. ASSUME NEW a \in answers, NEW l \in loaders, Middle(a, l) \/ Last(a, l) PROVE Flags'
  BY <1>8, <1>9 DEF Middle, Last, MiddlePage, LastPage
<1>10. ASSUME NEW a \in answers, NEW l \in loaders, Stale(a, l) PROVE Flags'
  <2>1. loading' \in BOOLEAN
    BY <1>10, Zenon DEF Stale, StalePage
  <2> QED
    BY <1>0, <1>10, <2>1 DEF Stale, StalePage
<1>11. ASSUME NEW l \in loaders, NoPage(l) PROVE Flags'
  <2>1. loading' \in BOOLEAN
    BY <1>11, Zenon DEF NoPage, PageFails
  <2> QED
    BY <1>0, <1>11, <2>1 DEF NoPage, PageFails
<1>12. ASSUME NEW c \in calls, UNCHANGED <<view, waiting, gaveUp>> PROVE Flags'
  BY <1>0, <1>12 DEF view
<1>13. CASE UNCHANGED vars
  BY <1>0, <1>13 DEF vars, view
<1> QED
  BY <1>1, <1>2, <1>3, <1>4, <1>5, <1>6, <1>7, <1>9, <1>10, <1>11, <1>12, <1>13, StepCases, Services

\* The searches, and the calls between the view and the sidecar.
Names == /\ seq \in 0..MaxSeq
         /\ active \in Searches \cup {None} /\ model \in Searches \cup {None}
         /\ starting \subseteq Searches /\ gaveUp \subseteq Searches
         /\ calls \subseteq Call /\ answers \subseteq Answer
         /\ cursor \in [Searches -> [size: 0..Pages, at: 0..Pages, open: BOOLEAN]]

\* The start and the cancel of a search are calls.
LEMMA CallTypes ==
  ASSUME NEW k \in Searches
  PROVE  /\ StartCall(k) \in Call /\ [op |-> "cancel", of |-> k, call |-> 0] \in Call
         /\ \A n \in Attempts : NextCall(k, n) \in Call
BY DEF StartCall, NextCall, Call

LEMMA NamesStep == SearchInv /\ [Next]_vars => Names'
<1> SUFFICES ASSUME SearchInv, [Next]_vars PROVE Names'
  OBVIOUS
<1>0. Names /\ TypeOK
  BY DEF Names, SearchInv, KeeperInv, TypeOK
<1>1. ASSUME NEW new \in {{}, {seq + 1}}, TurnsAway(new), model' \in {model, None, seq + 1}
      PROVE  Names'
  <2>1. seq + 1 \in Searches /\ seq' = seq + 1 /\ seq' \in 0..MaxSeq /\ new \subseteq Searches
    BY <1>1, Known, BoundAssumption DEF TurnsAway, Searches
  <2>2. Cancelled \subseteq Call
    BY CallTypes, Known DEF Cancelled
  <2>3. {StartCall(k) : k \in new} \subseteq Call
    BY <2>1, CallTypes
  <2>4. calls' \subseteq Call
    BY <1>0, <1>1, <2>2, <2>3 DEF TurnsAway, Names
  <2>5. model' \in Searches \cup {None} /\ starting' \subseteq Searches
    BY <1>0, <1>1, <2>1 DEF TurnsAway, Names
  <2> QED
    BY <1>0, <1>1, <2>1, <2>4, <2>5 DEF TurnsAway, Names
<1>2. ASSUME NEW p, NEW u, AsksInOrder(p, u) PROVE Names'
  <2>1. Asked(p, u) /\ calledNext[seq] + 1 <= MaxCalls + Pages
    BY <1>2 DEF AsksInOrder
  <2>2. seq \in Searches /\ calledNext[seq] + 1 \in Attempts
    BY <2>1, Known, BoundAssumption DEF Asked, Attempts
  <2>3. calls' \subseteq Call
    BY <1>0, <2>1, <2>2, CallTypes DEF Asked, Names
  <2> QED
    BY <1>0, <2>1, <2>2, <2>3 DEF Asked, Names
<1>3. ASSUME NEW k \in Searches, StartEnds(k) PROVE Names'
  <2>1. calls' \subseteq Call
    BY <1>0, <1>3, CallTypes DEF StartEnds, Names
  <2> QED
    BY <1>0, <1>3, <2>1 DEF StartEnds, Names
<1>4. ASSUME NEW l \in loaders, LoaderEnds(l) PROVE Names'
  BY <1>0, <1>4, Known DEF LoaderEnds, Names
<1>5. ASSUME NEW c \in calls, NEW page \in 0..Pages, NEW more \in BOOLEAN, NEW cut \in BOOLEAN,
             AnsweredWith(c, page, more, cut)
      PROVE  answers' \subseteq Answer
  <2>1. c.of \in Searches /\ c.call \in Attempts \cup {0}
    BY <1>0 DEF TypeOK, Call
  <2>2. [of |-> c.of, call |-> c.call, page |-> page, more |-> more, cut |-> cut] \in Answer
    BY <2>1 DEF Answer
  <2> QED
    BY <1>0, <1>5, <2>2 DEF AnsweredWith, Names
<1>6. ASSUME NEW c \in calls, Refused(c) \/ CancelServed(c) PROVE Names'
  <2>1. answers' \subseteq Answer
    <3>1. CASE Refused(c)
      <4>1. AnsweredWith(c, 0, FALSE, FALSE)
        BY <3>1, RefusedEffect
      <4>2. 0 \in 0..Pages
        BY BoundAssumption
      <4> QED
        BY <1>5, <4>1, <4>2, Zenon
    <3>2. CASE CancelServed(c)
      BY <1>0, <3>2 DEF CancelServed, ServeCancel, Names
    <3> QED
      BY <1>6, <3>1, <3>2
  <2> QED
    BY <1>0, <1>6, <2>1, Services, CloseEffect DEF view, waiting, Names
<1>7. ASSUME NEW c \in calls, NEW size \in 1..Pages, Served(c, size) PROVE Names'
  <2>1. PICK cut \in BOOLEAN :
          AnsweredWith(c, cursor[c.of].at + 1, HasCookie(cursor[c.of].at + 1, size) /\ ~cut, cut)
    BY <1>7, ServedEffect
  <2>2. cursor[c.of].at + 1 \in 0..Pages
    BY <1>7, PageEffect
  <2>3. (HasCookie(cursor[c.of].at + 1, size) /\ ~cut) \in BOOLEAN
    BY Zenon
  <2>4. answers' \subseteq Answer
    BY <1>5, <2>1, <2>2, <2>3
  <2> QED
    BY <1>0, <1>7, <2>4, Services, PageEffect DEF view, waiting, Names
<1>8. CASE UNCHANGED vars
  BY <1>0, <1>8 DEF vars, view, waiting, network, Names
<1>9. RunSearch => model' = seq + 1
  BY DEF RunSearch
<1>10. Reset \/ Dispose => model' \in {model, None}
  BY DEF Reset, Dispose
<1>11. \A a \in answers : OnlyPage(a) => \E k \in Searches : StartEnds(k)
  BY StartEndings, Known DEF OnlyPage
<1>12. \A a \in answers, l \in loaders : Last(a, l) => LoaderEnds(l)
  BY Endings
<1> QED
  BY <1>1, <1>2, <1>3, <1>4, <1>6, <1>7, <1>8, <1>9, <1>10, <1>11, <1>12, RowKinds
     DEF StartUnseen, FailsUnread, EndsUnseen

\* The rows, and who loads them.
Loads == /\ rows \in Seq(Page)
         /\ \A l \in loaders : l.of \in Searches /\ l.call \in Attempts /\ l.since \in 0..1
                               /\ l.pending \in Seq(Page)
         /\ calledNext \in [Searches -> 0..MaxCalls + Pages]

LEMMA LoadsStep == SearchInv /\ [Next]_vars => Loads'
<1> SUFFICES ASSUME SearchInv, [Next]_vars PROVE Loads'
  OBVIOUS
<1>0. Loads
  BY DEF Loads, SearchInv, KeeperInv, TypeOK
<1>1. ASSUME NEW new, TurnsAway(new), rows' = rows \/ rows' = <<>> PROVE Loads'
  <2>2. rows' \in Seq(Page)
    <3>1. <<>> \in Seq(Page) /\ rows \in Seq(Page)
      BY <1>0 DEF Loads
    <3> QED
      BY <1>1, <3>1
  <2>1. loaders' = loaders /\ calledNext' = calledNext /\ rows' \in Seq(Page)
    BY <1>1, <2>2 DEF TurnsAway
  <2> QED
    BY <1>0, <2>1 DEF Loads
<1>2. ASSUME NEW p, NEW u, AsksInOrder(p, u) PROVE Loads'
  <2>1. /\ Asked(p, u) /\ calledNext[seq] + 1 <= MaxCalls + Pages /\ u \in 0..1
        /\ rows' \in Seq(Page) /\ p \in Seq(Page)
    BY <1>2 DEF AsksInOrder
  <2>2. seq \in Searches /\ calledNext[seq] + 1 \in Attempts /\ calledNext[seq] + 1 \in 0..MaxCalls + Pages
    BY <2>1, Known, BoundAssumption DEF Asked, Attempts
  <2>3. calledNext' \in [Searches -> 0..MaxCalls + Pages]
    BY <1>0, <2>1, <2>2 DEF Asked, Loads
  <2>4. \A l \in loaders' : l.of \in Searches /\ l.call \in Attempts /\ l.since \in 0..1
                            /\ l.pending \in Seq(Page)
    BY <1>0, <2>1, <2>2 DEF Asked, Loads
  <2> QED
    BY <2>1, <2>3, <2>4 DEF Loads
<1>3. ASSUME NEW k \in Searches, StartEnds(k), rows' \in Seq(Page) PROVE Loads'
  BY <1>0, <1>3 DEF StartEnds, Loads
<1>4. ASSUME NEW l \in loaders, LoaderEnds(l), rows' \in Seq(Page) PROVE Loads'
  BY <1>0, <1>4 DEF LoaderEnds, Loads
<1>5. ASSUME NEW a \in answers, OnlyPage(a) PROVE \E k \in Searches : StartEnds(k) /\ rows' \in Seq(Page)
  BY <1>5, StartEndings, FirstInOrder, Known DEF OnlyPage
<1>6. ASSUME NEW k \in Searches, StartUnseen(k) PROVE StartEnds(k) /\ rows' \in Seq(Page)
  BY <1>0, <1>6 DEF StartUnseen, Loads
<1>7. ASSUME NEW l \in loaders, FailsUnread(l) \/ EndsUnseen(l) PROVE LoaderEnds(l) /\ rows' \in Seq(Page)
  BY <1>0, <1>7, PageTypes DEF FailsUnread, EndsUnseen, Loads
<1>8. ASSUME NEW a \in answers, NEW l \in loaders, Last(a, l) PROVE LoaderEnds(l) /\ rows' \in Seq(Page)
  <2>1. OnePage(a, l) /\ rows' = rows \o l.pending \o <<[of |-> a.of, no |-> a.page]>>
    BY <1>8 DEF Last, LastPage, Commit
  <2> DEFINE t == Append(rows \o l.pending, [of |-> seq, no |-> a.page])
  <2>2. a.of = seq /\ rows \o l.pending \o <<[of |-> seq, no |-> a.page]>> = t /\ t \in Seq(Page)
    BY <2>1, NextInOrder
  <2> HIDE DEF t
  <2> QED
    BY <1>8, <2>1, <2>2, Endings
<1>9. ASSUME NEW c \in calls, UNCHANGED <<view, waiting, gaveUp>> PROVE Loads'
  BY <1>0, <1>9 DEF view, waiting, Loads
<1>10. CASE UNCHANGED vars
  BY <1>0, <1>10 DEF vars, view, waiting, network, Loads
<1>11. RunSearch \/ Reset \/ Dispose => rows' = rows \/ rows' = <<>>
  BY DEF RunSearch, Reset, Dispose
<1> QED
  BY <1>1, <1>2, <1>3, <1>4, <1>5, <1>6, <1>7, <1>8, <1>9, <1>10, <1>11, RowKinds, Services
----------------------------------------------------------------------------
\* The strengthened invariant is kept by every step.
LEMMA InvStep == SearchInv /\ [Next]_vars => SearchInv'
<1>1. SearchInv /\ [Next]_vars => TypeOK'
  BY FlagsStep, NamesStep, LoadsStep DEF Flags, Names, Loads, TypeOK
<1> QED
  BY <1>1, FreshStep, NewestStep, LoaderStep, CalledStep, AnswersStep, KeeperStep,
     LoaderOrderStep, ActiveRowsStep, ViewOrderStep, CompleteStep
     DEF SearchInv, KeeperInv, RowsInv

LEMMA SearchInvariant == Spec => []SearchInv
BY InitInv, InvStep, PTL DEF Spec

\* Variables of the search view keep their types, for any number of searches,
\* pages and calls (useSearchSession.ts:44-66).
THEOREM SearchClientTypes == Spec => []TypeOK
<1>1. SearchInv => TypeOK
  BY DEF SearchInv, KeeperInv
<1> QED
  BY <1>1, SearchInvariant, PTL

\* An open cursor of the sidecar always has somebody who will drain or cancel
\* it, whatever the order in which the calls and their answers travel
\* (useSearchSession.ts:74-78, :191).
THEOREM CursorsAreKept == Spec => []CursorHasKeeper
<1>1. SearchInv => CursorHasKeeper
  BY DEF SearchInv, KeeperInv
<1> QED
  BY <1>1, SearchInvariant, PTL

\* The view shows the pages of its own search, in order and without a gap, and
\* a result it calls complete is complete, but for a search of which a call
\* was given up (useSearchSession.ts:80-137, :186-231).
THEOREM ResultIsShown == Spec => []RowsAreTheResult
<1>1. SearchInv => RowsAreTheResult
  <2> SUFFICES ASSUME SearchInv PROVE RowsAreTheResult
    OBVIOUS
  <2>1. InOrder(rows, model) /\ CompleteHasAll /\ Len(rows) \in Nat
    BY PageTypes DEF SearchInv, RowsInv, ViewInOrder
  <2>2. model \notin gaveUp => PageNos = [i \in 1..Len(rows) |-> i]
    BY <2>1 DEF InOrder, PageNos
  <2>3. RowsInOrder
    BY <2>1, <2>2 DEF RowsInOrder, InOrder
  <2>4. CompleteIsAll
    BY <2>1, <2>2 DEF CompleteIsAll, ShowsAll, CompleteHasAll
  <2> QED
    BY <2>3, <2>4 DEF RowsAreTheResult
<1> QED
  BY <1>1, SearchInvariant, PTL
=============================================================================
