---------------------------- MODULE DigestSessions --------------------------
(* ldap_search_digest and ldap_cursor_next of the MCP tools (mcp/cursor.go,  *)
(* mcp/digest.go, searchDigest and cursorNext of mcp/server.go): a search is *)
(* aggregated and its rows are kept, for a time and for so many sessions, to *)
(* be fetched in batches by concurrent calls.                                *)
EXTENDS Naturals, Sequences, FiniteSets

CONSTANTS
  MaxDigests,  \* bound: the digests; their ids are random, the n-th is n here
  RowSets,     \* the results of a search: sequences of DNs, with the leaf first
  Base,        \* the base of the searches
  GroupLimit,  \* digestGroupLimit
  BatchMax,    \* 20, the largest batch
  Shapes,      \* the settings: [ttl, capacity, maxRows]
  CursorTime   \* bound: the clock

\* The settings are at least 1 (settings.go).
ASSUME DigestAssumption ==
  /\ MaxDigests \in Nat /\ BatchMax \in Nat \ {0}
  /\ Shapes \subseteq [ttl : Nat \ {0}, capacity : Nat \ {0}, maxRows : Nat \ {0}]
  /\ \A rows \in RowSets : rows \in Seq(Seq(STRING))

CursorIds == 1..MaxDigests

VARIABLES
  shape,      \* CursorStore.ttl, capacity, maxRows
  sessions,   \* CursorStore.sessions: the rows, the offset, the expiry
  order,      \* CursorStore.order: the sessions behind a session, which were used later
  used,       \* the ids given out
  hour,       \* the clock
  handed,     \* history: the rows handed out, while they follow one another
  loose,      \* history: the sessions a call gave an offset for, or of which
              \* enforceResponseLimit dropped a batch
  later,      \* history: the ids that were used after the last use of an id
  born,       \* history: when a session was made
  reply       \* what the last call returned

digestVars == <<shape, sessions, order, used, hour, handed, loose, later, born, reply>>

NotExpired(id) == hour < sessions[id].expires
orderWithout(id) == [x \in CursorIds |-> IF x = id THEN {} ELSE order[x] \ {id}]
Uses(id) == later' = [x \in CursorIds |-> IF x = id THEN {} ELSE later[x] \cup {id}]
Smaller(a, b) == IF a < b THEN a ELSE b

(* The aggregation of digest.go: an entry is counted under subtreeKey, and   *)
(* the largest groups are told.                                              *)
subtreeKey(dn) ==
  IF Len(dn) <= Len(Base) \/ SubSeq(dn, Len(dn) - Len(Base) + 1, Len(dn)) # Base THEN dn
  ELSE IF Len(dn) = Len(Base) + 1 THEN dn ELSE Tail(dn)
AggregateDigest(rows) ==
  LET keys == {subtreeKey(rows[k]) : k \in DOMAIN rows}
  IN {[key |-> x, count |-> Cardinality({k \in DOMAIN rows : subtreeKey(rows[k]) = x})] : x \in keys}
\* Of groups of the same size those first by name: any of them, here.
topGroups(groups, limit) ==
  {t \in SUBSET groups :
     /\ Cardinality(t) = Smaller(Cardinality(groups), limit)
     /\ \A g \in t, h \in groups \ t : g.count >= h.count}

(* Put: what has expired goes, the rows over the maximum go, the session is  *)
(* the newest, and the oldest goes when there are too many.                  *)
Put(id, rows) ==
  LET all == {x \in DOMAIN sessions : NotExpired(x)} \cup {id}
      behind(x) == IF x = id THEN {} ELSE (order[x] \cap all) \cup {id}
      last == {x \in all : Cardinality(behind(x)) < shape.capacity}
      new == [rows |-> SubSeq(rows, 1, Smaller(Len(rows), shape.maxRows)), offset |-> 0,
              truncated |-> Len(rows) > shape.maxRows, expires |-> hour + shape.ttl]
  IN /\ order' = [x \in CursorIds |-> IF x \in last THEN behind(x) \cap last ELSE {}]
     /\ sessions' = [x \in last |-> IF x = id THEN new ELSE sessions[x]]

searchDigest(id, rows) ==
  /\ used = 1..(id - 1) /\ used' = used \cup {id}
  /\ Put(id, rows)
  /\ Uses(id) /\ born' = [born EXCEPT ![id] = hour]
  /\ handed' = [handed EXCEPT ![id] = <<>>]
  /\ LET all == AggregateDigest(rows)
     IN \E top \in topGroups(all, GroupLimit) :
          reply' = [kind |-> "digest", id |-> id, matched |-> Len(rows), all |-> all,
                    groups |-> top, limited |-> Cardinality(all) > GroupLimit]
  /\ UNCHANGED <<shape, hour, loose>>

(* Next: the batch from the offset of the call, or from that of the session, *)
(* which follows the last batch in either case, also when the rows do not    *)
(* fit into the answer and are dropped from it (enforceResponseLimit).       *)
\* Mutant: the row at the offset is taken for handed out.
WindowSkips(id, n, offset) ==
  LET last == Len(sessions[id].rows)
      from == Smaller(IF offset = 0 THEN 0 ELSE offset + 1, last)
  IN [from |-> from, end |-> Smaller(from + n, last), last |-> last]

Window(id, n, offset) ==
  LET rows == sessions[id].rows
      size == IF n = 0 THEN BatchMax ELSE Smaller(n, BatchMax)
      from == Smaller(offset, Len(rows))
  IN [from |-> from, end |-> Smaller(from + size, Len(rows)), last |-> Len(rows)]

NextUnknown(id) ==
  /\ id \in used \ DOMAIN sessions
  /\ reply' = [kind |-> "unknown", id |-> id]
  /\ UNCHANGED <<shape, sessions, order, used, hour, handed, loose, later, born>>

NextExpired(id) ==
  /\ id \in DOMAIN sessions /\ ~NotExpired(id)
  /\ reply' = [kind |-> "expired", id |-> id]
  /\ sessions' = [x \in DOMAIN sessions \ {id} |-> sessions[x]] /\ order' = orderWithout(id)
  /\ UNCHANGED <<shape, used, hour, handed, loose, later, born>>

\* Mutant: the order of the first use.
NoTouch(id) == order

Touched(id) == [x \in CursorIds |-> IF x \in DOMAIN sessions \ {id} THEN order[x] \cup {id} ELSE {}]

cursorNext(id, n, offset, isSeek) ==
  /\ id \in DOMAIN sessions /\ NotExpired(id)
  /\ LET w == Window(id, n, IF isSeek THEN offset ELSE sessions[id].offset)
     IN \E fits \in BOOLEAN :
          /\ sessions' = [sessions EXCEPT ![id].offset = w.end]
          /\ reply' = [kind |-> "rows", id |-> id, done |-> w.end >= w.last, truncated |-> ~fits]
          /\ loose' = IF isSeek \/ ~fits THEN loose \cup {id} ELSE loose
          /\ handed' = [handed EXCEPT ![id] = IF id \in loose' THEN <<>>
                           ELSE @ \o SubSeq(sessions[id].rows, w.from + 1, w.end)]
  /\ order' = Touched(id)
  /\ Uses(id)
  /\ UNCHANGED <<shape, used, hour, born>>

\* mcp/settings/set: it holds for the next digest.
Configure(s) ==
  /\ s \in Shapes /\ shape' = s
  /\ UNCHANGED <<sessions, order, used, hour, handed, loose, later, born, reply>>

DigestTick ==
  /\ hour < CursorTime /\ hour' = hour + 1
  /\ UNCHANGED <<shape, sessions, order, used, handed, loose, later, born, reply>>

DigestInit ==
  /\ shape \in Shapes /\ sessions = <<>> /\ order = [id \in CursorIds |-> {}] /\ used = {} /\ hour = 0
  /\ handed = [id \in CursorIds |-> <<>>] /\ loose = {}
  /\ later = [id \in CursorIds |-> {}] /\ born = [id \in CursorIds |-> 0]
  /\ reply = [kind |-> "none", id |-> 0]

DigestNext ==
  \/ \E id \in CursorIds, rows \in RowSets : searchDigest(id, rows)
  \/ \E id \in CursorIds : NextUnknown(id) \/ NextExpired(id)
  \/ \E id \in DOMAIN sessions, n \in 0..BatchMax - 1 :
       cursorNext(id, n, 0, FALSE) \/ \E o \in 0..1 : cursorNext(id, n, o, TRUE)
  \/ \E s \in Shapes : Configure(s)
  \/ DigestTick

DigestSpec == DigestInit /\ [][DigestNext]_digestVars

\* The calls that go on where the last batch stopped hand out every row of the
\* session in order, none twice, and the last one says that it is the last.
\* Excepted are the sessions in loose: a call that gave an offset moved the place to
\* go on from, and a batch too large for an answer is dropped from it after the
\* offset was moved past it (cursor.go:172, server.go:694-713), so that whoever just
\* goes on never gets these rows; the answer is marked as truncated.
BatchesAreGapless ==
  \A id \in DOMAIN sessions \ loose :
    /\ handed[id] = SubSeq(sessions[id].rows, 1, sessions[id].offset)
    /\ reply.kind = "rows" /\ reply.id = id => reply.done = (handed[id] = sessions[id].rows)

\* A session is unknown only when it has expired, or when at least as many
\* others as a capacity allows were used after it.
RecentlyUsedSurvive ==
  reply.kind = "unknown" =>
    \E s \in Shapes : \/ Cardinality(later[reply.id]) >= s.capacity
                      \/ hour >= born[reply.id] + s.ttl

\* A client that keeps asking, gives no offset and gets no truncated answer, gets
\* the whole digest: the session is there while it is in use, and each call goes
\* on where the last one stopped.
DigestIsServed == BatchesAreGapless /\ RecentlyUsedSurvive
=============================================================================
