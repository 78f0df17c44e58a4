---------------------------- MODULE ServerProofs -----------------------------
(* The proofs about the servers that answer requests: the pool and the       *)
(* framing of the stdio MCP server.                                          *)
EXTENDS StdioPool, McpServe, Sidecar, FiniteSetTheorems, SequenceTheorems,
        WellFoundedInduction, TLAPS

(* The pool of connections *)

\* What the argument needs of the types.
Typed ==
  /\ pc \in [Procs -> Steps]
  /\ evicted \in [Procs -> SUBSET Keys]
  /\ DOMAIN job = Procs
  /\ pool \subseteq Keys
  /\ \A p \in Procs : pc[p] # "idle" => job[p].key \in Keys

\* The Connect of a key that is refused registers nothing.
OnlyAccepted == registered \cap Refused = {}

IInv == Typed /\ OnlyAccepted /\ RegisteredIsOwned

USE CapAssumption

LEMMA InitIInv == Init => IInv
BY DEF Init, IInv, Typed, OnlyAccepted, RegisteredIsOwned, Steps

\* A step that leaves the table of ids alone, at a process that owes no
\* Disconnect, keeps the registrations owned.
LEMMA StepElsewhere ==
  ASSUME IInv, NEW p \in Procs, pc[p] # "disconnect",
         NEW s \in Steps, Goto(p, s), UNCHANGED <<pool, registered, evicted>>,
         DOMAIN job' = Procs,
         s = "idle" \/ job'[p].key \in Keys,
         \A q \in Procs \ {p} : job'[q] = job[q]
  PROVE  IInv'
<1>1. /\ pc' \in [Procs -> Steps] /\ pc'[p] = s
      /\ \A q \in Procs \ {p} : pc'[q] = pc[q]
  BY DEF Goto, IInv, Typed
<1>2. Typed'
  BY <1>1 DEF IInv, Typed
<1>3. RegisteredIsOwned'
  BY <1>1 DEF IInv, RegisteredIsOwned
<1> QED BY <1>2, <1>3 DEF IInv, OnlyAccepted

LEMMA StepBegin ==
  ASSUME IInv, NEW p \in Procs, NEW k \in Keys, NEW by \in {"params", "id"}, Begin(p, k, by)
  PROVE  IInv'
<1>1. /\ pc[p] = "idle" /\ Goto(p, "resolve") /\ "resolve" \in Steps
      /\ job' = [job EXCEPT ![p] = [key |-> k, by |-> by, ok |-> TRUE]]
      /\ UNCHANGED <<pool, registered, evicted>>
  BY DEF Begin, poolVars, Steps
<1>2. DOMAIN job' = Procs /\ \A q \in Procs \ {p} : job'[q] = job[q]
  BY <1>1 DEF IInv, Typed
<1>3. job'[p].key \in Keys
  BY <1>1 DEF IInv, Typed
<1> QED BY <1>1, <1>2, <1>3, StepElsewhere

\* The steps of a call that neither pool nor register.
LEMMA StepCall ==
  ASSUME IInv, NEW p \in Procs, Hit(p) \/ ById(p) \/ Gate(p) \/ Run(p)
  PROVE  IInv'
<1>1. UNCHANGED <<pool, registered, evicted>> /\ pc[p] \notin {"disconnect", "idle"}
  BY DEF Hit, ById, Gate, Run, poolVars
<1>2. job[p].key \in Keys
  BY <1>1 DEF IInv, Typed
<1>3. CASE Return(p)
  <2>1. Goto(p, "idle") /\ "idle" \in Steps /\ DOMAIN job' = Procs /\ \A q \in Procs \ {p} : job'[q] = job[q]
    BY <1>3 DEF Return, IInv, Typed, Steps
  <2> QED BY <1>1, <2>1, StepElsewhere
<1>4. ASSUME NEW s \in {"gate", "run"}, Goto(p, s), job' = job
      PROVE  IInv'
  <2>1. s \in Steps
    BY DEF Steps
  <2> QED BY <1>1, <1>2, <1>4, <2>1, StepElsewhere DEF IInv, Typed
<1> QED BY <1>3, <1>4 DEF Hit, ById, Gate, Run

LEMMA StepMiss ==
  ASSUME IInv, NEW p \in Procs, Miss(p)
  PROVE  IInv'
<1> DEFINE k == job[p].key
           out == Oldest(Victims)
<1>1. /\ pc[p] = "resolve" /\ k \in Keys
      /\ evicted' = [evicted EXCEPT ![p] = out \cap pool]
      /\ Goto(p, "disconnect")
  BY DEF Miss, Stale, IInv, Typed
<1>2. \/ k \notin Refused /\ pool' = (pool \ out) \cup {k} /\ registered' = registered \cup {k} /\ job' = job
      \/ pool' = pool \ out /\ registered' = registered /\ job' = [job EXCEPT ![p].ok = FALSE]
  BY DEF Miss, Withdraw
<1> HIDE DEF out
<1>3. /\ pc' \in [Procs -> Steps] /\ pc'[p] = "disconnect"
      /\ \A q \in Procs \ {p} : pc'[q] = pc[q] /\ evicted'[q] = evicted[q]
      /\ evicted' \in [Procs -> SUBSET Keys] /\ evicted'[p] = out \cap pool
  BY <1>1 DEF Goto, IInv, Typed, Steps
<1>4. DOMAIN job' = Procs /\ \A q \in Procs : job'[q].key = job[q].key
  <2>1. CASE job' = job
    BY <2>1 DEF IInv, Typed
  <2>2. CASE job' = [job EXCEPT ![p].ok = FALSE]
    BY <2>2 DEF IInv, Typed
  <2> QED BY <1>2, <2>1, <2>2
<1>5. Typed'
  BY <1>1, <1>2, <1>3, <1>4 DEF IInv, Typed
<1>6. OnlyAccepted'
  BY <1>2 DEF IInv, OnlyAccepted
<1>7. RegisteredIsOwned'
  BY <1>1, <1>2, <1>3 DEF IInv, RegisteredIsOwned
<1> QED BY <1>5, <1>6, <1>7 DEF IInv

LEMMA StepDisconnect ==
  ASSUME IInv, NEW p \in Procs, Disconnect(p)
  PROVE  IInv'
<1>1. /\ pc[p] = "disconnect" /\ pool' = pool
      /\ registered' = registered \ evicted[p]
      /\ evicted' = [evicted EXCEPT ![p] = {}]
  BY DEF Disconnect, poolVars
<1>2. PICK s \in {"gate", "idle"} : Goto(p, s)
  BY DEF Disconnect, Return
<1>3. /\ pc' \in [Procs -> Steps] /\ pc'[p] = s
      /\ \A q \in Procs \ {p} : pc'[q] = pc[q] /\ evicted'[q] = evicted[q]
      /\ evicted' \in [Procs -> SUBSET Keys]
  BY <1>1, <1>2 DEF Goto, IInv, Typed, Steps
<1>4. /\ DOMAIN job' = Procs
      /\ \A q \in Procs \ {p} : job'[q] = job[q]
      /\ s = "gate" => job'[p] = job[p]
  BY <1>2, <1>3 DEF Disconnect, Return, Goto, IInv, Typed
<1>5. Typed'
  BY <1>1, <1>3, <1>4 DEF IInv, Typed
<1>6. OnlyAccepted'
  BY <1>1 DEF IInv, OnlyAccepted
<1>7. RegisteredIsOwned'
  BY <1>1, <1>3 DEF IInv, RegisteredIsOwned
<1> QED BY <1>5, <1>6, <1>7 DEF IInv

LEMMA StepClose ==
  ASSUME IInv, Close
  PROVE  IInv'
BY DEF Close, IInv, Typed, OnlyAccepted, RegisteredIsOwned, poolVars, procVars

\* What an id in the service's table belongs to, as an invariant.
THEOREM Inductive == Spec => []IInv
<1>1. ASSUME IInv, [Next]_vars PROVE IInv'
  <2>1. CASE Next
    BY <1>1, <2>1, StepBegin, StepCall, StepMiss, StepDisconnect, StepClose
    DEF Next, Exited, IInv, Typed, OnlyAccepted, RegisteredIsOwned, vars, poolVars, procVars
  <2>2. CASE UNCHANGED vars
    BY <1>1, <2>2 DEF IInv, Typed, OnlyAccepted, RegisteredIsOwned, vars, poolVars, procVars
  <2> QED BY <1>1, <2>1, <2>2
<1> QED BY InitIInv, <1>1, PTL DEF Spec

\* Every registered id is pooled, or will be disconnected by the call that
\* evicted it (stdio.go:679-716).
THEOREM NoLeakedRegistration == Spec => []RegisteredIsOwned
<1>1. IInv => RegisteredIsOwned
  BY DEF IInv
<1> QED BY Inductive, <1>1, PTL

(* The order of eviction *)

\* A set of numbers that is not empty has a least one.
LEMMA LeastNumber == ASSUME NEW S \in SUBSET Nat, S # {} PROVE \E m \in S : \A n \in S : m <= n
<1> DEFINE R == {p \in Nat \X Nat : p[1] < p[2]}
<1>1. IsWellFoundedOn(R, Nat)
  BY NatLessThanWellFounded DEF OpToRel
<1>2. \A m, n \in Nat : <<m, n>> \in R <=> m < n
  OBVIOUS
<1> HIDE DEF R
<1>3. PICK m \in S : \A n \in S : ~(<<n, m>> \in R)
  BY <1>1, WFMin
<1>4. ASSUME NEW n \in S PROVE m <= n
  <2>1. ~(n < m)
    BY <1>2, <1>3, Zenon
  <2> QED
    BY <2>1
<1> QED
  BY <1>4

\* A sequence of keys that lists each one once.
Listing(seq) ==
  /\ seq \in Seq(Keys)
  /\ \A i, j \in 1..Len(seq) : seq[i] = seq[j] => i = j

\* One sequence is what another ends with.
Ends(tail, seq) ==
  /\ Len(tail) <= Len(seq)
  /\ \A j \in 1..Len(tail) : tail[j] = seq[(Len(seq) - Len(tail)) + j]

\* The order lists the pool, each key once, and ends the history.
PoolInv ==
  /\ Listing(order) /\ Listing(recency)
  /\ pool = ToSet(order)
  /\ Ends(order, recency)

LEMMA ListingFacts ==
  ASSUME NEW seq, seq \in Seq(Keys)
  PROVE  /\ Len(seq) \in Nat /\ DOMAIN seq = 1..Len(seq)
         /\ \A j \in 1..Len(seq) : seq[j] \in Keys
         /\ \A x : x \in ToSet(seq) <=> \E j \in 1..Len(seq) : seq[j] = x
<1>1. Len(seq) \in Nat /\ DOMAIN seq = 1..Len(seq) /\ seq \in [1..Len(seq) -> Keys]
  BY LenProperties
<1>2. \A j \in 1..Len(seq) : seq[j] \in Keys
  BY <1>1
<1>3. \A x : x \in ToSet(seq) <=> \E j \in 1..Len(seq) : seq[j] = x
  BY <1>1 DEF ToSet
<1> QED BY <1>1, <1>2, <1>3

\* What a key's move to the end does: the keys behind it move up by one.
LEMMA MovedToEnd ==
  ASSUME NEW seq, Listing(seq), NEW i \in 1..Len(seq)
  PROVE  /\ ToEnd(seq, seq[i]) \in Seq(Keys) /\ Len(ToEnd(seq, seq[i])) = Len(seq)
         /\ \A j \in 1..Len(seq) :
              ToEnd(seq, seq[i])[j] =
                IF j = Len(seq) THEN seq[i] ELSE IF j < i THEN seq[j] ELSE seq[j + 1]
<1> DEFINE n == Len(seq)
           front == SubSeq(seq, 1, i - 1)
           back == SubSeq(seq, i + 1, n)
<1>1. seq \in Seq(Keys) /\ n \in Nat /\ DOMAIN seq = 1..n /\ i \in 1..n /\ seq[i] \in Keys
  BY DEF Listing
<1>2. seq[i] \in ToSet(seq) /\ PlaceOf(seq, seq[i]) = i
  BY <1>1 DEF Listing, ToSet, PlaceOf
<1>3. /\ front \in Seq(Keys) /\ Len(front) = i - 1
      /\ \A j \in 1..(i - 1) : front[j] = seq[j]
  BY <1>1
<1>4. /\ back \in Seq(Keys) /\ Len(back) = n - i
      /\ \A j \in 1..(n - i) : back[j] = seq[j + i]
  <2>1. i + 1 \in Int /\ n \in Int /\ \A j \in (i + 1)..n : seq[j] \in Keys
    BY <1>1, ListingFacts
  <2>2. /\ back \in Seq(Keys) /\ Len(back) = IF i + 1 <= n THEN (n - (i + 1)) + 1 ELSE 0
        /\ \A j \in 1..((n - (i + 1)) + 1) : back[j] = seq[((i + 1) + j) - 1]
    BY <2>1, SubSeqProperties
  <2> HIDE DEF back, n
  <2>3. (n - (i + 1)) + 1 = n - i /\ n \in Nat /\ i \in 1..n
    BY <1>1
  <2>4. \A j \in 1..(n - i) : ((i + 1) + j) - 1 = j + i
    BY <1>1
  <2>5. Len(back) = n - i
    BY <2>2, <2>3
  <2> QED BY <2>2, <2>3, <2>4, <2>5
<1>5. ToEnd(seq, seq[i]) = Append(front \o back, seq[i])
  BY <1>2 DEF ToEnd, RemoveAt
<1> HIDE DEF front, back, n
<1>6. /\ front \o back \in Seq(Keys) /\ Len(front \o back) = n - 1
      /\ \A j \in 1..(i - 1) : (front \o back)[j] = seq[j]
      /\ \A j \in i..(n - 1) : (front \o back)[j] = seq[j + 1]
  <2>1. front \o back \in Seq(Keys) /\ Len(front \o back) = n - 1
    <3>1. Len(front \o back) = (i - 1) + (n - i) /\ front \o back \in Seq(Keys)
      BY <1>3, <1>4, ConcatProperties
    <3>2. (i - 1) + (n - i) = n - 1
      BY <1>1
    <3> QED BY <3>1, <3>2
  <2>2. \A j \in 1..(i - 1) : (front \o back)[j] = seq[j]
    BY <1>1, <1>3, <1>4
  <2>3. ASSUME NEW j \in i..(n - 1) PROVE (front \o back)[j] = seq[j + 1]
    <3>1. (front \o back)[j] = back[j - (i - 1)]
      BY <1>1, <1>3, <1>4
    <3>2. j - (i - 1) \in 1..(n - i) /\ (j - (i - 1)) + i = j + 1
      BY <1>1
    <3> QED BY <1>4, <3>1, <3>2
  <2> QED BY <2>1, <2>2, <2>3
<1> DEFINE rest == front \o back
<1> HIDE DEF rest
<1>7. /\ rest \in Seq(Keys) /\ Len(rest) = n - 1
      /\ \A j \in 1..(i - 1) : rest[j] = seq[j]
      /\ \A j \in i..(n - 1) : rest[j] = seq[j + 1]
  BY <1>6 DEF rest
<1>8. /\ Append(rest, seq[i]) \in Seq(Keys) /\ Len(Append(rest, seq[i])) = n
      /\ \A j \in 1..(n - 1) : Append(rest, seq[i])[j] = rest[j]
      /\ Append(rest, seq[i])[n] = seq[i]
  <2>1. (n - 1) + 1 = n /\ n \in Nat
    BY <1>1
  <2> DEFINE k == seq[i]
  <2>2. k \in Keys
    BY <1>1
  <2> HIDE DEF k
  <2>3. /\ Append(rest, k) \in Seq(Keys) /\ Len(Append(rest, k)) = Len(rest) + 1
        /\ \A j \in 1..Len(rest) : Append(rest, k)[j] = rest[j]
        /\ Append(rest, k)[Len(rest) + 1] = k
    BY <1>7, <2>2, AppendProperties
  <2>4. Len(rest) = n - 1 /\ Len(rest) + 1 = n
    BY <1>7, <2>1
  <2> QED BY <2>3, <2>4 DEF k
<1>9. ASSUME NEW j \in 1..n
      PROVE  Append(rest, seq[i])[j] = IF j = n THEN seq[i] ELSE IF j < i THEN seq[j] ELSE seq[j + 1]
  <2>1. CASE j = n
    BY <1>8, <2>1
  <2>2. CASE j # n /\ j < i
    BY <1>1, <1>7, <1>8, <2>2
  <2>3. CASE j # n /\ ~(j < i)
    BY <1>1, <1>7, <1>8, <2>3
  <2> QED BY <2>1, <2>2, <2>3
<1> QED BY <1>5, <1>8, <1>9 DEF rest, n

\* A key that is moved to the end of a listing leaves a listing of the same keys.
LEMMA MoveKeepsListing ==
  ASSUME NEW seq, Listing(seq), NEW i \in 1..Len(seq)
  PROVE  Listing(ToEnd(seq, seq[i])) /\ ToSet(ToEnd(seq, seq[i])) = ToSet(seq)
<1> DEFINE n == Len(seq)
           t == ToEnd(seq, seq[i])
<1>1. /\ t \in Seq(Keys) /\ Len(t) = n
      /\ \A j \in 1..n : t[j] = IF j = n THEN seq[i] ELSE IF j < i THEN seq[j] ELSE seq[j + 1]
  BY MovedToEnd
<1>2. n \in Nat /\ seq \in Seq(Keys) /\ i \in 1..n
      /\ \A j, l \in 1..n : seq[j] = seq[l] => j = l
  BY ListingFacts DEF Listing
<1> HIDE DEF t, n
<1>3. \A x : x \in ToSet(t) <=> \E j \in 1..n : t[j] = x
  BY <1>1, ListingFacts
<1>4. \A x : x \in ToSet(seq) <=> \E j \in 1..n : seq[j] = x
  BY <1>2, ListingFacts DEF n
<1> DEFINE from(j) == IF j = n THEN i ELSE IF j < i THEN j ELSE j + 1
           to(j) == IF j = i THEN n ELSE IF j < i THEN j ELSE j - 1
<1>5. \A j \in 1..n : from(j) \in 1..n /\ t[j] = seq[from(j)]
  BY <1>1, <1>2
<1>6. \A j \in 1..n : to(j) \in 1..n /\ from(to(j)) = j /\ to(from(j)) = j
  BY <1>2
<1> HIDE DEF from, to
<1>7. ASSUME NEW j \in 1..n, NEW l \in 1..n, t[j] = t[l] PROVE j = l
  <2>1. from(j) = from(l)
    BY <1>2, <1>5, <1>7
  <2> QED BY <1>6, <2>1
<1>8. \A x : x \in ToSet(t) <=> x \in ToSet(seq)
  <2>1. \A j \in 1..n : \E l \in 1..n : t[j] = seq[l]
    BY <1>5
  <2>2. \A j \in 1..n : \E l \in 1..n : t[l] = seq[j]
    BY <1>5, <1>6
  <2> QED BY <1>3, <1>4, <2>1, <2>2
<1> QED BY <1>1, <1>7, <1>8 DEF Listing, t

\* A key that is new to a listing is added at its end.
LEMMA AddKeepsListing ==
  ASSUME NEW seq, Listing(seq), NEW k \in Keys, k \notin ToSet(seq)
  PROVE  /\ Listing(Append(seq, k)) /\ ToSet(Append(seq, k)) = ToSet(seq) \cup {k}
         /\ ToEnd(seq, k) = Append(seq, k)
<1> DEFINE n == Len(seq)
           t == Append(seq, k)
<1>1. n \in Nat /\ seq \in Seq(Keys) /\ DOMAIN seq = 1..n
      /\ \A j, l \in 1..n : seq[j] = seq[l] => j = l
  BY DEF Listing
<1>2. /\ t \in Seq(Keys) /\ Len(t) = n + 1
      /\ \A j \in 1..n : t[j] = seq[j]
      /\ t[n + 1] = k
  BY <1>1, AppendProperties
<1> HIDE DEF t
<1>3. \A j \in 1..n : seq[j] # k
  BY <1>1 DEF ToSet
<1>4. DOMAIN t = 1..(n + 1)
  BY <1>2
<1>5. ToSet(t) = ToSet(seq) \cup {k}
  <2>1. ToSet(t) \subseteq ToSet(seq) \cup {k}
    BY <1>1, <1>2, <1>4 DEF ToSet
  <2>2. \A j \in 1..n : seq[j] \in ToSet(t)
    BY <1>1, <1>2, <1>4 DEF ToSet
  <2>3. k \in ToSet(t)
    BY <1>1, <1>2, <1>4 DEF ToSet
  <2> QED BY <1>1, <2>1, <2>2, <2>3 DEF ToSet
<1>6. ASSUME NEW j \in 1..(n + 1), NEW l \in 1..(n + 1), t[j] = t[l] PROVE j = l
  <2>1. CASE j = n + 1 /\ l = n + 1
    BY <2>1
  <2>2. CASE j = n + 1 /\ l \in 1..n
    BY <1>2, <1>3, <1>6, <2>2
  <2>3. CASE l = n + 1 /\ j \in 1..n
    BY <1>2, <1>3, <1>6, <2>3
  <2>4. CASE j \in 1..n /\ l \in 1..n
    BY <1>1, <1>2, <1>6, <2>4
  <2> QED BY <1>1, <2>1, <2>2, <2>3, <2>4
<1> QED BY <1>2, <1>5, <1>6 DEF Listing, ToEnd, t

\* The keys of the pool after the first m of the order are gone.
LEMMA DropKeepsListing ==
  ASSUME NEW seq, Listing(seq), NEW m \in 0..Len(seq)
  PROVE  /\ Listing(SubSeq(seq, m + 1, Len(seq)))
         /\ Len(SubSeq(seq, m + 1, Len(seq))) = Len(seq) - m
         /\ \A j \in 1..(Len(seq) - m) : SubSeq(seq, m + 1, Len(seq))[j] = seq[m + j]
         /\ ToSet(SubSeq(seq, m + 1, Len(seq))) = ToSet(seq) \ {seq[j] : j \in 1..m}
<1> DEFINE n == Len(seq)
           rest == SubSeq(seq, m + 1, n)
<1>1. n \in Nat /\ seq \in Seq(Keys) /\ m \in 0..n
      /\ \A j, l \in 1..n : seq[j] = seq[l] => j = l
  BY ListingFacts DEF Listing
<1>2. /\ rest \in Seq(Keys) /\ Len(rest) = n - m
      /\ \A j \in 1..(n - m) : rest[j] = seq[m + j]
  <2>1. m + 1 \in Int /\ n \in Int /\ \A j \in (m + 1)..n : seq[j] \in Keys
    BY <1>1, ListingFacts
  <2>2. /\ rest \in Seq(Keys) /\ Len(rest) = IF m + 1 <= n THEN (n - (m + 1)) + 1 ELSE 0
        /\ \A j \in 1..((n - (m + 1)) + 1) : rest[j] = seq[((m + 1) + j) - 1]
    BY <2>1, SubSeqProperties
  <2> HIDE DEF rest, n
  <2>3. (n - (m + 1)) + 1 = n - m /\ n \in Nat /\ m \in 0..n
    BY <1>1
  <2>4. \A j \in 1..(n - m) : ((m + 1) + j) - 1 = m + j
    BY <1>1
  <2>5. Len(rest) = n - m
    BY <2>2, <2>3
  <2> QED BY <2>2, <2>3, <2>4, <2>5
<1> HIDE DEF rest, n
<1>3. \A j, l \in 1..(n - m) : rest[j] = rest[l] => j = l
  <2>1. \A j \in 1..(n - m) : m + j \in 1..n
    BY <1>1
  <2>2. \A j, l \in 1..(n - m) : m + j = m + l => j = l
    BY <1>1
  <2> QED BY <1>1, <1>2, <2>1, <2>2
<1>4. \A x : x \in ToSet(rest) <=> \E j \in 1..(n - m) : rest[j] = x
  BY <1>2, ListingFacts
<1>5. \A x : x \in ToSet(seq) <=> \E j \in 1..n : seq[j] = x
  BY <1>1, ListingFacts DEF n
<1>6. ToSet(rest) = ToSet(seq) \ {seq[j] : j \in 1..m}
  <2>1. ASSUME NEW j \in 1..(n - m)
        PROVE  rest[j] \in ToSet(seq) /\ rest[j] \notin {seq[l] : l \in 1..m}
    <3>1. m + j \in 1..n /\ \A l \in 1..m : l \in 1..n /\ l # m + j
      BY <1>1
    <3>2. rest[j] = seq[m + j]
      BY <1>2
    <3> QED BY <1>1, <1>5, <3>1, <3>2
  <2>2. ASSUME NEW j \in 1..n, seq[j] \notin {seq[l] : l \in 1..m}
        PROVE  seq[j] \in ToSet(rest)
    <3>1. j \notin 1..m
      BY <2>2
    <3>2. j - m \in 1..(n - m) /\ m + (j - m) = j
      BY <1>1, <3>1
    <3>3. rest[j - m] = seq[j]
      BY <1>2, <3>2
    <3> QED BY <1>4, <3>2, <3>3
  <2>3. \A x : x \in ToSet(rest) <=> x \in ToSet(seq) /\ x \notin {seq[j] : j \in 1..m}
    BY <1>4, <1>5, <2>1, <2>2
  <2> QED BY <2>3
<1> QED BY <1>1, <1>2, <1>3, <1>6 DEF Listing, rest, n

\* The eviction loop ends, at the latest when the order is empty.
LEMMA VictimsType ==
  ASSUME PoolInv
  PROVE  Victims \in 0..Len(order)
<1> DEFINE S == {n \in 0..Len(order) : Cardinality(pool \ Oldest(n)) < Cap}
<1>1. Len(order) \in Nat /\ order \in Seq(Keys) /\ DOMAIN order = 1..Len(order)
  BY ListingFacts DEF PoolInv, Listing
<1>2. pool \ Oldest(Len(order)) = {}
  BY <1>1 DEF PoolInv, ToSet, Oldest
<1>3. Cardinality(pool \ Oldest(Len(order))) < Cap
  <2>1. Cardinality({}) = 0
    BY FS_EmptySet
  <2>2. Cardinality(pool \ Oldest(Len(order))) = 0
    BY <1>2, <2>1, Zenon
  <2> QED BY <2>2
<1>4. S # {} /\ S \in SUBSET Nat /\ S \subseteq 0..Len(order)
  <2>1. Len(order) \in S
    BY <1>1, <1>3
  <2>2. S \subseteq 0..Len(order)
    OBVIOUS
  <2> HIDE DEF S
  <2> QED BY <1>1, <2>1, <2>2
<1>5. Victims = CHOOSE x \in S : \A y \in S : x <= y
  BY DEF Victims, Min
<1> HIDE DEF S
<1>6. Victims \in S
  BY <1>4, <1>5, LeastNumber
<1> QED BY <1>4, <1>6
\* A hit: the key is moved in the order and in the history.
LEMMA MoveKeepsEnd ==
  ASSUME NEW tail, NEW seq, Listing(tail), Listing(seq), Ends(tail, seq), NEW k \in ToSet(tail)
  PROVE  Ends(ToEnd(tail, k), ToEnd(seq, k)) /\ k \in ToSet(seq)
<1> DEFINE m == Len(tail)
           n == Len(seq)
<1>1. m \in Nat /\ n \in Nat /\ m <= n /\ \A j \in 1..m : tail[j] = seq[(n - m) + j]
  BY ListingFacts DEF Listing, Ends
<1>2. PICK i \in 1..m : tail[i] = k
  BY ListingFacts DEF Listing
<1> DEFINE e == (n - m) + i
<1> HIDE DEF m, n
<1>3. e \in 1..n /\ seq[e] = k
  BY <1>1, <1>2
<1>4. k \in ToSet(seq)
  BY <1>3, ListingFacts DEF Listing, n
<1>5. /\ Len(ToEnd(tail, k)) = m
      /\ \A j \in 1..m : ToEnd(tail, k)[j] = IF j = m THEN k ELSE IF j < i THEN tail[j] ELSE tail[j + 1]
  BY <1>2, MovedToEnd DEF m
<1>6. /\ Len(ToEnd(seq, k)) = n
      /\ \A j \in 1..n : ToEnd(seq, k)[j] = IF j = n THEN k ELSE IF j < e THEN seq[j] ELSE seq[j + 1]
  <2> HIDE DEF e
  <2> QED BY <1>3, MovedToEnd DEF n
<1>7. ASSUME NEW j \in 1..m PROVE ToEnd(tail, k)[j] = ToEnd(seq, k)[(n - m) + j]
  <2> DEFINE h == (n - m) + j
  <2>1. h \in 1..n /\ (h = n <=> j = m) /\ (h < e <=> j < i) /\ h + 1 = (n - m) + (j + 1)
    BY <1>1, <1>2
  <2>2. tail[j] = seq[h] /\ (j # m => j + 1 \in 1..m /\ tail[j + 1] = seq[h + 1])
    BY <1>1, <2>1
  <2> HIDE DEF h, e
  <2>3. ToEnd(tail, k)[j] = ToEnd(seq, k)[h]
    BY <1>5, <1>6, <2>1, <2>2
  <2> QED BY <2>3 DEF h
<1> QED BY <1>1, <1>4, <1>5, <1>6, <1>7 DEF Ends

\* A miss: the key is new to the order, and may be one of the history.
LEMMA AddKeepsEnd ==
  ASSUME NEW tail, NEW seq, Listing(tail), Listing(seq), Ends(tail, seq),
         NEW k \in Keys, k \notin ToSet(tail)
  PROVE  Ends(Append(tail, k), ToEnd(seq, k)) /\ Listing(ToEnd(seq, k))
<1> DEFINE m == Len(tail)
           n == Len(seq)
<1>1. m \in Nat /\ n \in Nat /\ m <= n /\ \A j \in 1..m : tail[j] = seq[(n - m) + j]
  BY ListingFacts DEF Listing, Ends
<1>2. /\ Len(Append(tail, k)) = m + 1 /\ Append(tail, k)[m + 1] = k
      /\ \A j \in 1..m : Append(tail, k)[j] = tail[j]
  BY AppendProperties DEF Listing
<1>3. CASE k \notin ToSet(seq)
  <2>1. ToEnd(seq, k) = Append(seq, k) /\ Listing(ToEnd(seq, k))
    <3>1. ToEnd(seq, k) = Append(seq, k)
      BY <1>3, AddKeepsListing, Zenon
    <3>2. Listing(Append(seq, k))
      BY <1>3, AddKeepsListing, Zenon
    <3> QED BY <3>1, <3>2, Zenon
  <2>2. /\ Len(ToEnd(seq, k)) = n + 1 /\ ToEnd(seq, k)[n + 1] = k
        /\ \A j \in 1..n : ToEnd(seq, k)[j] = seq[j]
    BY <2>1, AppendProperties DEF Listing
  <2> HIDE DEF m, n
  <2>3. ASSUME NEW j \in 1..(m + 1) PROVE Append(tail, k)[j] = ToEnd(seq, k)[((n + 1) - (m + 1)) + j]
    <3>1. CASE j = m + 1
      BY <1>1, <1>2, <2>2, <3>1
    <3>2. CASE j \in 1..m
      <4>1. (n - m) + j \in 1..n /\ ((n + 1) - (m + 1)) + j = (n - m) + j
        BY <1>1, <3>2
      <4> QED BY <1>1, <1>2, <2>2, <3>2, <4>1
    <3>3. j = m + 1 \/ j \in 1..m
      BY <1>1
    <3> QED BY <3>1, <3>2, <3>3
  <2>4. m + 1 <= n + 1
    BY <1>1
  <2> QED BY <1>2, <2>1, <2>2, <2>3, <2>4 DEF Ends
<1>4. CASE k \in ToSet(seq)
  <2>1. PICK i \in 1..n : seq[i] = k
    BY <1>4, ListingFacts DEF Listing
  <2>2. Listing(ToEnd(seq, k))
    BY <2>1, MoveKeepsListing
  <2>3. /\ Len(ToEnd(seq, k)) = n
        /\ \A j \in 1..n : ToEnd(seq, k)[j] = IF j = n THEN k ELSE IF j < i THEN seq[j] ELSE seq[j + 1]
    BY <2>1, MovedToEnd
  <2>4. \A j \in 1..m : tail[j] # k
    BY ListingFacts DEF Listing
  <2> HIDE DEF m, n
  <2>5. i <= n - m
    <3>1. CASE i > n - m
      <4>1. i - (n - m) \in 1..m /\ (n - m) + (i - (n - m)) = i
        BY <1>1, <2>1, <3>1
      <4> QED BY <1>1, <2>1, <2>4, <4>1
    <3> QED BY <1>1, <2>1, <3>1
  <2>6. ASSUME NEW j \in 1..(m + 1) PROVE Append(tail, k)[j] = ToEnd(seq, k)[(n - (m + 1)) + j]
    <3>1. CASE j = m + 1
      BY <1>1, <1>2, <2>1, <2>3, <2>5, <3>1
    <3>2. CASE j \in 1..m
      <4> DEFINE h == (n - (m + 1)) + j
      <4>1. h \in 1..n /\ h # n /\ ~(h < i) /\ h + 1 = (n - m) + j
        BY <1>1, <2>1, <2>5, <3>2
      <4> HIDE DEF h
      <4>2. ToEnd(seq, k)[h] = seq[(n - m) + j]
        BY <2>3, <4>1
      <4> QED BY <1>1, <1>2, <3>2, <4>2 DEF h
    <3>3. j = m + 1 \/ j \in 1..m
      BY <1>1
    <3> QED BY <3>1, <3>2, <3>3
  <2> QED BY <1>1, <1>2, <2>1, <2>2, <2>3, <2>5, <2>6 DEF Ends
<1> QED BY <1>3, <1>4

\* Eviction takes from the front.
LEMMA DropKeepsEnd ==
  ASSUME NEW tail, NEW seq, Listing(tail), Listing(seq), Ends(tail, seq), NEW v \in 0..Len(tail)
  PROVE  Ends(SubSeq(tail, v + 1, Len(tail)), seq)
<1> DEFINE m == Len(tail)
           n == Len(seq)
           rest == SubSeq(tail, v + 1, m)
<1>1. m \in Nat /\ n \in Nat /\ m <= n /\ v \in 0..m /\ \A j \in 1..m : tail[j] = seq[(n - m) + j]
  BY ListingFacts DEF Listing, Ends
<1>2. Len(rest) = m - v /\ \A j \in 1..(m - v) : rest[j] = tail[v + j]
  BY DropKeepsListing
<1> HIDE DEF m, n, rest
<1>3. ASSUME NEW j \in 1..(m - v) PROVE rest[j] = seq[(n - (m - v)) + j]
  <2>1. v + j \in 1..m /\ (n - m) + (v + j) = (n - (m - v)) + j
    BY <1>1
  <2> QED BY <1>1, <1>2, <2>1
<1>4. Len(rest) <= n /\ \A j \in 1..Len(rest) : rest[j] = seq[(n - Len(rest)) + j]
  <2> HIDE DEF rest
  <2> QED BY <1>1, <1>2, <1>3
<1> QED BY <1>4 DEF Ends, m, n, rest

LEMMA InitPoolInv == Init => PoolInv
<1> SUFFICES ASSUME Init PROVE PoolInv
  OBVIOUS
<1>1. order = <<>> /\ recency = <<>> /\ pool = {} /\ \A p \in Procs : pc[p] = "idle"
  BY DEF Init
<1>2. <<>> \in Seq(Keys) /\ Len(<<>>) = 0
  BY EmptySeq
<1>3. ToSet(order) = {}
  <2>1. \A x : x \notin ToSet(order)
    <3>1. \A x : x \in ToSet(order) <=> \E j \in 1..Len(order) : order[j] = x
      <4>1. order \in Seq(Keys)
        BY <1>1, <1>2
      <4> QED BY <4>1, ListingFacts
    <3>2. Len(order) = 0
      BY <1>1, <1>2
    <3> QED BY <3>1, <3>2
  <2> QED BY <2>1
<1> QED BY <1>1, <1>2, <1>3 DEF PoolInv, Listing, Ends

\* A step that leaves the pool and the history alone.
LEMMA PoolUntouched ==
  ASSUME PoolInv, UNCHANGED <<pool, order, recency>>
  PROVE  PoolInv'
BY DEF PoolInv, Listing, Ends

LEMMA PoolHit ==
  ASSUME PoolInv, NEW p \in Procs, Hit(p)
  PROVE  PoolInv'
<1> DEFINE k == job[p].key
<1>1. k \in pool /\ pool' = pool /\ order' = ToEnd(order, k) /\ recency' = ToEnd(recency, k)
  BY DEF Hit, Touch
<1> HIDE DEF k
<1>2. k \in ToSet(order) /\ Listing(order) /\ Listing(recency) /\ Ends(order, recency)
  BY <1>1 DEF PoolInv
<1>3. Ends(order', recency') /\ k \in ToSet(recency)
  BY <1>1, <1>2, MoveKeepsEnd
<1>4. PICK i \in 1..Len(order) : order[i] = k
  BY <1>2, ListingFacts DEF Listing
<1>5. PICK j \in 1..Len(recency) : recency[j] = k
  BY <1>2, <1>3, ListingFacts DEF Listing
<1>6. Listing(order') /\ ToSet(order') = ToSet(order)
  BY <1>1, <1>2, <1>4, MoveKeepsListing
<1>7. Listing(recency')
  BY <1>1, <1>2, <1>5, MoveKeepsListing
<1> QED BY <1>1, <1>3, <1>6, <1>7 DEF PoolInv, Listing, Ends, ToSet

LEMMA PoolMiss ==
  ASSUME PoolInv, Typed, NEW p \in Procs, Miss(p)
  PROVE  PoolInv'
<1> DEFINE k == job[p].key
           v == Victims
           rest == SubSeq(order, v + 1, Len(order))
<1>1. k \in Keys /\ k \notin pool
  BY DEF Miss, Typed
<1>2. \/ pool' = (pool \ Oldest(v)) \cup {k} /\ order' = Append(rest, k) /\ recency' = ToEnd(recency, k)
      \/ pool' = pool \ Oldest(v) /\ order' = rest /\ recency' = recency
  BY DEF Miss, Withdraw
<1>3. v \in 0..Len(order) /\ Listing(order) /\ Listing(recency) /\ Ends(order, recency) /\ pool = ToSet(order)
  BY VictimsType DEF PoolInv
<1> HIDE DEF v, k
<1>4. Listing(rest) /\ ToSet(rest) = pool \ Oldest(v) /\ Ends(rest, recency)
  BY <1>3, DropKeepsListing, DropKeepsEnd DEF Oldest
<1> HIDE DEF rest
<1>5. CASE pool' = pool \ Oldest(v) /\ order' = rest /\ recency' = recency
  BY <1>3, <1>4, <1>5 DEF PoolInv, Listing, Ends, ToSet
<1>6. CASE pool' = (pool \ Oldest(v)) \cup {k} /\ order' = Append(rest, k) /\ recency' = ToEnd(recency, k)
  <2>1. k \notin ToSet(rest)
    BY <1>1, <1>4
  <2>2. Listing(order') /\ ToSet(order') = pool'
    BY <1>1, <1>4, <1>6, <2>1, AddKeepsListing
  <2>3. Ends(order', recency') /\ Listing(recency')
    BY <1>1, <1>3, <1>4, <1>6, <2>1, AddKeepsEnd
  <2> QED BY <2>2, <2>3 DEF PoolInv, Listing, Ends, ToSet
<1> QED BY <1>2, <1>5, <1>6

THEOREM PoolInductive == Spec => []PoolInv
<1>1. ASSUME IInv, PoolInv, [Next]_vars PROVE PoolInv'
  <2>1. ASSUME NEW p \in Procs, Hit(p) PROVE PoolInv'
    BY <1>1, <2>1, PoolHit
  <2>2. ASSUME NEW p \in Procs, Miss(p) PROVE PoolInv'
    BY <1>1, <2>2, PoolMiss DEF IInv
  <2>3. CASE UNCHANGED <<pool, order, recency>>
    BY <1>1, <2>3, PoolUntouched
  <2> QED BY <1>1, <2>1, <2>2, <2>3
    DEF Next, Begin, Disconnect, ById, Gate, Run, Close, Exited, vars, poolVars
<1> QED BY InitPoolInv, <1>1, Inductive, PTL DEF Spec

\* However calls overlap, and whatever Connect refuses, the pool is what the
\* history of resolved keys ends with, next victim first (stdio.go:672-734).
THEOREM PoolKeepsTheLatest == Spec => []PoolIsMostRecent
<1>1. ASSUME PoolInv PROVE PoolIsMostRecent
  <2> DEFINE m == Len(order)
             n == Len(recency)
             d == n - m
             rest == SubSeq(recency, d + 1, n)
  <2>1. /\ order \in Seq(Keys) /\ recency \in Seq(Keys)
        /\ m \in Nat /\ n \in Nat /\ m <= n /\ \A j \in 1..m : order[j] = recency[d + j]
    BY <1>1, ListingFacts DEF PoolInv, Listing, Ends
  <2>2. Listing(recency) /\ d \in 0..n
    <3> HIDE DEF m, n
    <3> QED BY <1>1, <2>1 DEF PoolInv
  <2>3. /\ Len(rest) = n - d /\ rest \in Seq(Keys)
        /\ \A j \in 1..(n - d) : rest[j] = recency[d + j]
    <3> HIDE DEF d
    <3> QED BY <2>2, DropKeepsListing DEF Listing
  <2> HIDE DEF rest, m, n
  <2>4. n - d = m /\ d >= 0
    BY <2>1
  <2> HIDE DEF d
  <2>5. order = rest
    BY <2>1, <2>3, <2>4, SeqEqual DEF m
  <2> QED BY <2>4, <2>5 DEF PoolIsMostRecent, m, n, d, rest
<1> QED BY PoolInductive, <1>1, PTL
------------------------------------------------------------------------------
(* Framing and dispatch *)

Replies == [id : {"null", "own"}, kind : {"error", "result", "busy"}]
Stages  == {"handle", "ensure", "forward", "over"}

\* The four tables of a line grow together.
OneRowALine ==
  /\ lines \in Seq(InputType) /\ doing \in Seq(Stages)
  /\ since \in Seq(Nat) /\ replies \in Seq(SUBSET Replies) /\ now \in Nat
  /\ Len(doing) = Len(lines) /\ Len(since) = Len(lines) /\ Len(replies) = Len(lines)

Silent(l) == l.shape = "request" /\ l.method = "notification"

\* A line has no reply before its goroutine is over, and then the one it has to get.
ReplyOfStage ==
  \A n \in Read :
    /\ replies[n] = {} \/ \E r \in replies[n] : replies[n] = {r}
    /\ doing[n] # "over" => replies[n] = {}
    /\ doing[n] \in {"ensure", "forward"} => IsCall(lines[n])
    /\ doing[n] = "over" /\ ~Silent(lines[n]) => replies[n] # {}
    /\ Silent(lines[n]) /\ lines[n].id = "none" => replies[n] = {}

\* The wait is over when nothing is in flight or its time is.
WaitsForAll ==
  /\ atEof => serve # "reading"
  /\ serve = "returned" /\ atEof => InFlight = {} \/ now >= drainFrom + DrainLimit

ServeInv == OneRowALine /\ ReplyOfStage /\ WaitsForAll

\* What a line is answered is one reply at most, and none only for a notification.
LEMMA RepliesOfLine ==
  ASSUME NEW l \in InputType
  PROVE  /\ handleLine(l) \in SUBSET Replies /\ busyReplyFor(l) \in SUBSET Replies
         /\ handleLine(l) = {} \/ \E r \in handleLine(l) : handleLine(l) = {r}
         /\ handleLine(l) = {} <=> Silent(l)
         /\ busyReplyFor(l) = {} \/ \E r \in busyReplyFor(l) : busyReplyFor(l) = {r}
         /\ busyReplyFor(l) = {} <=> Silent(l) /\ l.id = "none"
         /\ l.shape = "long" => ~Silent(l)
<1>1. l.shape \in {"long", "garbage", "batch", "request"}
  BY DEF InputType
<1>2. /\ handleLine(l) = {} \/ \E r \in handleLine(l) : handleLine(l) = {r}
      /\ handleLine(l) = {} <=> Silent(l)
  BY <1>1 DEF handleLine, Silent
<1>3. /\ busyReplyFor(l) = {} \/ \E r \in busyReplyFor(l) : busyReplyFor(l) = {r}
      /\ busyReplyFor(l) = {} <=> Silent(l) /\ l.id = "none"
      /\ l.shape = "long" => ~Silent(l)
  BY <1>1 DEF busyReplyFor, Silent
<1>4. handleLine(l) \in SUBSET Replies /\ busyReplyFor(l) \in SUBSET Replies
  BY DEF handleLine, busyReplyFor, Replies
<1> QED
  BY <1>2, <1>3, <1>4

\* The two answers of a call are single replies.
LEMMA CallAnswer ==
  ASSUME NEW a \in {{[id |-> "null", kind |-> "error"]}, {[id |-> "own", kind |-> "result"]}}
  PROVE  a \in SUBSET Replies /\ a # {} /\ \E r \in a : a = {r}
<1>1. CASE a = {[id |-> "null", kind |-> "error"]}
  BY <1>1 DEF Replies
<1>2. CASE a = {[id |-> "own", kind |-> "result"]}
  BY <1>2 DEF Replies
<1> QED
  BY <1>1, <1>2

\* A goroutine that ends answers its line, and no other.
LEMMA OneLineEnds ==
  ASSUME ServeInv, NEW n \in Read, doing[n] # "over", NEW answer,
         answer \in SUBSET Replies, answer = {} \/ \E r \in answer : answer = {r},
         answer = {} => Silent(lines[n]),
         Silent(lines[n]) /\ lines[n].id = "none" => answer = {},
         doing' = [doing EXCEPT ![n] = "over"], replies' = [replies EXCEPT ![n] = answer],
         serve # "returned",
         UNCHANGED <<serve, lines, since, now, drainFrom, atEof>>
  PROVE  ServeInv'
<1>1. OneRowALine'
  BY DEF ServeInv, OneRowALine, Read, Stages
<1>2. ReplyOfStage'
  <2>1. doing'[n] = "over" /\ replies'[n] = answer /\ Read' = Read /\ lines' = lines
    BY DEF ServeInv, OneRowALine, Read
  <2>2. \A m \in Read \ {n} : doing'[m] = doing[m] /\ replies'[m] = replies[m]
    BY DEF ServeInv, OneRowALine, Read
  <2> QED
    BY <2>1, <2>2 DEF ServeInv, ReplyOfStage
<1>3. WaitsForAll'
  BY DEF ServeInv, WaitsForAll
<1> QED
  BY <1>1, <1>2, <1>3 DEF ServeInv

THEOREM ServeInductive == ServeSpec => []ServeInv
<1>1. ServeInit => ServeInv
  BY DEF ServeInit, ServeInv, OneRowALine, ReplyOfStage, WaitsForAll, Read, Stages
<1>2. ServeInv /\ [ServeNext]_serveVars => ServeInv'
  <2> SUFFICES ASSUME ServeInv, [ServeNext]_serveVars PROVE ServeInv'
    OBVIOUS
  <2>1. ASSUME NEW l \in Inputs \cap InputType, ReadLine(l) PROVE ServeInv'
    <3>1. PICK d \in {"over", "handle"}, a \in {busyReplyFor(l), handleLine(l), {}} :
            /\ doing' = Append(doing, d) /\ replies' = Append(replies, a)
            /\ d = "handle" => a = {}
            /\ d = "over" => a = busyReplyFor(l) \/ (a = handleLine(l) /\ l.shape = "long")
      BY <2>1 DEF ReadLine
    <3>2. lines' = Append(lines, l) /\ since' = Append(since, now)
      BY <2>1 DEF ReadLine
    <3>3. OneRowALine'
      <4>1. a \in SUBSET Replies /\ now' = now
        BY <2>1, <3>1, RepliesOfLine DEF ReadLine
      <4> QED
        BY <3>1, <3>2, <4>1 DEF ServeInv, OneRowALine, Stages
    <3>4. ReplyOfStage'
      <4>1. \A n \in Read : lines'[n] = lines[n] /\ doing'[n] = doing[n] /\ replies'[n] = replies[n]
        BY <3>1, <3>2 DEF ServeInv, OneRowALine, Read
      <4>2. Read' = Read \cup {Len(lines) + 1} /\ Len(doing) = Len(lines) /\ Len(replies) = Len(lines)
        BY <3>2 DEF ServeInv, OneRowALine, Read
      <4>3. LET k == Len(lines) + 1 IN lines'[k] = l /\ doing'[k] = d /\ replies'[k] = a
        BY <3>1, <3>2, <4>2 DEF ServeInv, OneRowALine
      <4> QED
        <5>1. /\ a = {} \/ \E r \in a : a = {r}
              /\ d # "over" => a = {}
              /\ d = "over" /\ ~Silent(l) => a # {}
              /\ Silent(l) /\ l.id = "none" => a = {}
          BY <3>1, RepliesOfLine
        <5>2. ASSUME NEW n \in Read
              PROVE  /\ replies'[n] = {} \/ \E r \in replies'[n] : replies'[n] = {r}
                     /\ doing'[n] # "over" => replies'[n] = {}
                     /\ doing'[n] \in {"ensure", "forward"} => IsCall(lines'[n])
                     /\ doing'[n] = "over" /\ ~Silent(lines'[n]) => replies'[n] # {}
                     /\ Silent(lines'[n]) /\ lines'[n].id = "none" => replies'[n] = {}
          BY <4>1 DEF ServeInv, ReplyOfStage
        <5> QED
          BY <3>1, <4>2, <4>3, <5>1, <5>2 DEF ReplyOfStage
    <3>5. WaitsForAll'
      BY <2>1 DEF ReadLine, ServeInv, WaitsForAll
    <3> QED
      BY <3>3, <3>4, <3>5 DEF ServeInv
  <2>2. CASE InputEnds
    BY <2>2 DEF InputEnds, ServeInv, OneRowALine, ReplyOfStage, WaitsForAll, Read, InFlight
  <2>3. CASE Drained
    BY <2>3 DEF Drained, ServeInv, OneRowALine, ReplyOfStage, WaitsForAll, Read, InFlight, DrainLimit
  <2>4. CASE ServeTick
    <3>1. now' = now + 1 /\ serve # "returned"
          /\ UNCHANGED <<serve, lines, doing, since, replies, drainFrom, atEof>>
      BY <2>4 DEF ServeTick
    <3>2. OneRowALine'
      BY <3>1 DEF ServeInv, OneRowALine
    <3>3. ReplyOfStage'
      BY <3>1 DEF ServeInv, ReplyOfStage, Read
    <3>4. WaitsForAll'
      BY <3>1 DEF ServeInv, WaitsForAll
    <3> QED
      BY <3>2, <3>3, <3>4 DEF ServeInv
  <2>5. ASSUME NEW n \in Read, Handled(n) PROVE ServeInv'
    <3>1. lines[n] \in InputType /\ doing[n] = "handle" /\ serve # "returned"
      BY <2>5 DEF Handled, Runs, ServeInv, OneRowALine, Read
    <3>2. CASE replies' = [replies EXCEPT ![n] = handleLine(lines[n])]
      BY <2>5, <3>1, <3>2, RepliesOfLine, OneLineEnds DEF Handled, Over
    <3>3. CASE IsCall(lines[n]) /\ Answer(n, "null", "error")
      <4>1. replies[n] = {}
        BY <3>1 DEF ServeInv, ReplyOfStage
      <4>2. replies' = [replies EXCEPT ![n] = {[id |-> "null", kind |-> "error"]}]
        BY <3>3, <4>1 DEF Answer
      <4>3. ~Silent(lines[n])
        BY <3>3 DEF IsCall, Silent
      <4> QED
        BY <2>5, <3>1, <4>2, <4>3, CallAnswer, OneLineEnds DEF Handled, Over
    <3> QED
      BY <2>5, <3>2, <3>3 DEF Handled
  <2>6. ASSUME NEW n \in Read, resolveConnectionOrForward(n) \/ (ensureBridge(n) /\ Proceeds(n, "forward")) PROVE ServeInv'
    <3>1. PICK s \in {"ensure", "forward"} :
            /\ doing' = [doing EXCEPT ![n] = s] /\ since' = [since EXCEPT ![n] = now] /\ UNCHANGED replies
      BY <2>6 DEF resolveConnectionOrForward, Proceeds
    <3>2. doing[n] # "over" /\ IsCall(lines[n]) /\ serve # "returned"
      BY <2>6 DEF resolveConnectionOrForward, ensureBridge, Runs, ServeInv, ReplyOfStage
    <3>3. UNCHANGED <<serve, lines, now, drainFrom, atEof>>
      BY <2>6 DEF resolveConnectionOrForward, ensureBridge
    <3>4. OneRowALine'
      BY <3>1, <3>3 DEF ServeInv, OneRowALine, Read, Stages
    <3>5. ReplyOfStage'
      <4>1. doing'[n] = s /\ Read' = Read /\ lines' = lines /\ replies' = replies
        BY <3>1, <3>3 DEF ServeInv, OneRowALine, Read
      <4>2. \A m \in Read \ {n} : doing'[m] = doing[m]
        BY <3>1 DEF ServeInv, OneRowALine, Read
      <4> QED
        BY <3>2, <4>1, <4>2 DEF ServeInv, ReplyOfStage
    <3> QED
      BY <3>2, <3>3, <3>4, <3>5 DEF ServeInv, WaitsForAll
  <2>7. ASSUME NEW n \in Read, callPluginTool(n) \/ (ensureBridge(n) /\ Over(n) /\ Answer(n, "own", "result") /\ UNCHANGED since)
        PROVE  ServeInv'
    <3>1. /\ doing[n] \in {"ensure", "forward"} /\ serve # "returned"
          /\ doing' = [doing EXCEPT ![n] = "over"]
          /\ UNCHANGED <<serve, lines, since, now, drainFrom, atEof>>
      BY <2>7 DEF callPluginTool, ensureBridge, Runs, Over
    <3>2. IsCall(lines[n]) /\ replies[n] = {}
      BY <3>1 DEF ServeInv, ReplyOfStage
    <3>3. replies' = [replies EXCEPT ![n] = {[id |-> "own", kind |-> "result"]}]
      BY <2>7, <3>2 DEF callPluginTool, Answer
    <3>4. ~Silent(lines[n])
      BY <3>2 DEF IsCall, Silent
    <3> QED
      BY <3>1, <3>3, <3>4, CallAnswer, OneLineEnds
  <2>8. CASE UNCHANGED serveVars
    BY <2>8 DEF serveVars, ServeInv, OneRowALine, ReplyOfStage, WaitsForAll, Read, InFlight
  <2> QED
    BY <2>1, <2>2, <2>3, <2>4, <2>5, <2>6, <2>7, <2>8 DEF ServeNext, ensureBridge
<1> QED
  BY <1>1, <1>2, PTL DEF ServeSpec

\* Whatever lines come, however the goroutines interleave, panic or run out of
\* time: no line gets two replies, a notification none, and every other line
\* has its reply when the server ends (stdio.go).
THEOREM RepliesAreExact == ServeSpec => []EveryLineHasItsReply
<1>1. ServeInv => EveryLineHasItsReply
  <2> SUFFICES ASSUME ServeInv, NEW n \in Read
               PROVE  /\ Cardinality(replies[n]) <= 1
                      /\ Silent(lines[n]) /\ lines[n].id = "none" => replies[n] = {}
                      /\ serve = "returned" /\ atEof /\ ~Silent(lines[n])
                           => replies[n] # {} \/ now >= drainFrom + DrainLimit
    BY DEF EveryLineHasItsReply, Silent
  <2>1. Cardinality(replies[n]) <= 1
    <3>1. replies[n] = {} \/ \E r \in replies[n] : replies[n] = {r}
      BY DEF ServeInv, ReplyOfStage
    <3>2. CASE replies[n] = {}
      BY <3>2, FS_EmptySet
    <3>3. ASSUME NEW r \in replies[n], replies[n] = {r} PROVE Cardinality(replies[n]) <= 1
      <4>1. Cardinality(replies[n]) = 1
        BY <3>3, FS_Singleton, Zenon
      <4> QED
        BY <4>1
    <3> QED
      BY <3>1, <3>2, <3>3
  <2> QED
    BY <2>1 DEF ServeInv, ReplyOfStage, WaitsForAll, InFlight
<1> QED
  BY <1>1, ServeInductive, PTL
-----------------------------------------------------------------------------
(* The sidecar of the desktop: its answers, its audit events and the log that*)
(* its panel follows.                                                        *)

Message == [kind : {"answer", "audit", "log", "tail"}, of : Requests \cup {NoMethod}, seq : Nat]
Idle    == {"unsent", "skipped", "done"}                       \* no goroutine runs
HandlerOver == {"append", "logEvent", "respond", "done"}           \* the handler is over
Working == {"handle", "connect", "connectEvent", "run"} \cup HandlerOver

SideTypes ==
  /\ stdout \in Seq(Message)
  /\ stage \in [Requests -> Idle \cup Working]
  /\ request \in [Requests -> Lines \cup {NoMethod}]
  /\ outcome \in [Requests -> {"none", "answer", "large", "panic"}]
  /\ entry \in [Requests -> Nat]
  /\ ring.seq \in Nat

\* The handler of request r returned, and its answer says so.
Returned(r) == request[r] # NoMethod /\ outcome[r] # "panic"
NeedsAudit(r) == request[r].method \in ForwardedWrites /\ Accepted(request[r])

\* What was written for a request by the stage it is at.
WrittenByStage(r) ==
  /\ stage[r] \in {"unsent", "skipped"} => request[r] = NoMethod
  /\ stage[r] # "done" => Written("answer", r) = {}
  /\ stage[r] = "done" /\ request[r] # NoMethod /\ request[r].hasId /\ outcome[r] # "large"
       => Written("answer", r) # {}
  /\ stage[r] \in HandlerOver /\ Returned(r) /\ NeedsAudit(r) => Written("audit", r) # {}
  /\ stage[r] \in {"respond", "done"} /\ Returned(r) /\ shouldLogRequest(request[r].method)
       => \E j \in Written("log", r) : stdout[j].seq = entry[r]

\* The answer is one, and what it stands for was written before.
Preceded(r) ==
  /\ \A i, j \in Written("answer", r) : i = j
  /\ \A i \in Written("answer", r) :
       Returned(r) /\ shouldLogRequest(request[r].method)
         => /\ \E j \in Written("log", r) : j < i /\ stdout[j].seq = entry[r]
            /\ NeedsAudit(r) => \E j \in Written("audit", r) : j < i

SideInv ==
  /\ SideTypes
  /\ exitAs = "end" => \A r \in Requests : stage[r] \in Idle
  /\ \A r \in Requests : WrittenByStage(r) /\ Preceded(r)

WrittenWith(m, k, r) ==
  IF m.kind = k /\ m.of = r THEN Written(k, r)' = Written(k, r) \cup {Len(stdout) + 1}
  ELSE Written(k, r)' = Written(k, r)

\* A message goes to the end of stdout.
LEMMA MessageWritten ==
  ASSUME stdout \in Seq(Message), NEW m \in Message, Write(m)
  PROVE  /\ stdout' \in Seq(Message) /\ Len(stdout) \in Nat
         /\ \A k, r : WrittenWith(m, k, r)
         /\ \A k, r : \A i \in Written(k, r) : i < Len(stdout) + 1 /\ stdout'[i] = stdout[i]
         /\ stdout'[Len(stdout) + 1] = m
<1>1. /\ stdout' \in Seq(Message) /\ Len(stdout) \in Nat /\ stdout'[Len(stdout) + 1] = m
      /\ DOMAIN stdout = 1..Len(stdout) /\ DOMAIN stdout' = 1..(Len(stdout) + 1)
      /\ \A i \in 1..Len(stdout) : stdout'[i] = stdout[i]
  BY AppendProperties, LenProperties DEF Write
<1>2. DOMAIN stdout' = DOMAIN stdout \cup {Len(stdout) + 1}
  BY <1>1
<1>3. \A i \in DOMAIN stdout : i < Len(stdout) + 1 /\ stdout'[i] = stdout[i]
  BY <1>1
<1>4. Len(stdout) + 1 \notin DOMAIN stdout
  BY <1>1
<1>5. \A k, r : WrittenWith(m, k, r)
  BY <1>1, <1>2, <1>3, <1>4 DEF Written, WrittenWith
<1>6. \A k, r : \A i \in Written(k, r) : i < Len(stdout) + 1 /\ stdout'[i] = stdout[i]
  BY <1>3 DEF Written
<1> QED
  BY <1>1, <1>5, <1>6

\* What holds of a request is kept by a step that leaves it as it is and
\* writes no answer to it.
LEMMA RequestKept ==
  ASSUME SideInv, NEW r \in Requests,
         UNCHANGED <<stage[r], request[r], outcome[r], entry[r]>>,
         stdout' = stdout \/ \E m \in Message : Write(m) /\ ~(m.kind = "answer" /\ m.of = r)
  PROVE  (WrittenByStage(r) /\ Preceded(r))' /\ stdout' \in Seq(Message)
<1>0. WrittenByStage(r) /\ Preceded(r) /\ stdout \in Seq(Message)
  BY DEF SideInv, SideTypes
<1>1. /\ Written("answer", r)' = Written("answer", r) /\ stdout' \in Seq(Message)
      /\ \A k : /\ Written(k, r) \subseteq Written(k, r)'
                /\ \A i \in Written(k, r) : stdout'[i] = stdout[i]
  <2>1. CASE stdout' = stdout
    BY <1>0, <2>1 DEF Written
  <2>2. ASSUME NEW m \in Message, Write(m), ~(m.kind = "answer" /\ m.of = r)
        PROVE  /\ Written("answer", r)' = Written("answer", r) /\ stdout' \in Seq(Message)
               /\ \A k : /\ Written(k, r) \subseteq Written(k, r)'
                         /\ \A i \in Written(k, r) : stdout'[i] = stdout[i]
    <3>1. \A k : /\ WrittenWith(m, k, r)
                /\ \A i \in Written(k, r) : stdout'[i] = stdout[i]
      BY <1>0, <2>2, MessageWritten
    <3>2. stdout' \in Seq(Message)
      BY <1>0, <2>2, MessageWritten
    <3> QED
      BY <2>2, <3>1, <3>2 DEF WrittenWith
  <2> QED
    BY <2>1, <2>2
<1>2. WrittenByStage(r)'
  BY <1>0, <1>1 DEF WrittenByStage, Returned, NeedsAudit
<1>3. Preceded(r)'
  BY <1>0, <1>1 DEF Preceded, Returned, NeedsAudit
<1> QED
  BY <1>1, <1>2, <1>3

\* A step of request r leaves the others alone.
RequestStep(r) ==
  /\ \A q \in Requests \ {r} : UNCHANGED <<stage[q], request[q], outcome[q], entry[q]>>
  /\ stdout' = stdout \/ \E m \in Message : Write(m) /\ m.of = r

LEMMA OneRequest ==
  ASSUME SideInv, NEW r \in Requests, RequestStep(r), SideTypes', (WrittenByStage(r) /\ Preceded(r))',
         exitAs' = "end" => \A q \in Requests : stage'[q] \in Idle
  PROVE  SideInv'
<1>1. \A q \in Requests \ {r} : (WrittenByStage(q) /\ Preceded(q))'
  BY RequestKept DEF RequestStep
<1> QED
  BY <1>1 DEF SideInv

LEMMA MsgTypes ==
  ASSUME NEW r \in Requests \cup {NoMethod}, NEW k \in {"answer", "audit", "log", "tail"}, NEW n \in Nat
  PROVE  Msg(k, r, n) \in Message /\ Msg(k, r, n).kind = k /\ Msg(k, r, n).of = r /\ Msg(k, r, n).seq = n
BY DEF Msg, Message

LEMMA SideStep == SideInv /\ [SideNext]_sideVars => SideInv'
<1> SUFFICES ASSUME SideInv, [SideNext]_sideVars PROVE SideInv'
  OBVIOUS
<1>0. SideTypes /\ stdout \in Seq(Message) /\ \A r \in Requests : WrittenByStage(r) /\ Preceded(r)
  BY DEF SideInv, SideTypes
<1>01. ~Alive => exitAs # "" /\ exitAs # "waiting"
  BY DEF Alive
<1>1. ASSUME NEW r \in Requests, NEW q \in Lines, decodeRequest(r, q) PROVE SideInv'
  <2>1. /\ stage[r] = "unsent" /\ exitAs = "" /\ exitAs' = "" /\ stage' = [stage EXCEPT ![r] = "handle"]
        /\ request' = [request EXCEPT ![r] = q]
        /\ UNCHANGED <<stdout, outcome, entry, ring>>
    BY <1>1 DEF decodeRequest, ReaderAt, Goes, hostVars
  <2>2. SideTypes'
    BY <1>0, <2>1 DEF SideTypes, Working
  <2>3. RequestStep(r)
    BY <1>0, <2>1 DEF RequestStep, SideTypes
  <2>4. stage'[r] = "handle" /\ Written("answer", r) = {}
    BY <1>0, <2>1 DEF SideTypes, WrittenByStage
  <2>5. (WrittenByStage(r) /\ Preceded(r))'
    BY <2>1, <2>4 DEF WrittenByStage, Preceded, Written, HandlerOver
  <2> QED
    BY <2>1, <2>2, <2>3, <2>5, OneRequest
<1>2. ASSUME NEW r \in Requests, SkipLine(r) PROVE SideInv'
  <2>1. /\ stage[r] = "unsent" /\ exitAs = "" /\ exitAs' = "" /\ stage' = [stage EXCEPT ![r] = "skipped"]
        /\ UNCHANGED <<request, stdout, outcome, entry, ring>>
    BY <1>2 DEF SkipLine, ReaderAt, Goes, hostVars
  <2>2. SideTypes'
    BY <1>0, <2>1 DEF SideTypes, Idle
  <2>3. RequestStep(r)
    BY <1>0, <2>1 DEF RequestStep, SideTypes
  <2>4. stage'[r] = "skipped" /\ Written("answer", r) = {} /\ request[r] = NoMethod
    BY <1>0, <2>1 DEF SideTypes, WrittenByStage
  <2>5. (WrittenByStage(r) /\ Preceded(r))'
    BY <2>1, <2>4 DEF WrittenByStage, Preceded, Written, HandlerOver
  <2> QED
    BY <2>1, <2>2, <2>3, <2>5, OneRequest
<1>3. ASSUME NEW r \in Requests, Initialize(r) PROVE SideInv'
  <2>1. /\ stage[r] = "unsent" /\ exitAs = ""
        /\ \/ Write(Msg("answer", r, 0)) /\ stage' = [stage EXCEPT ![r] = "done"] /\ exitAs' = ""
           \/ exitAs' = "fatal" /\ stage' = [stage EXCEPT ![r] = "skipped"] /\ UNCHANGED stdout
        /\ UNCHANGED <<request, outcome, entry, ring>>
    BY <1>3 DEF Initialize, ReaderAt, Goes
  <2>2. Msg("answer", r, 0) \in Message /\ Msg("answer", r, 0).kind = "answer" /\ Msg("answer", r, 0).of = r
    BY MsgTypes
  <2>3. stdout' \in Seq(Message)
    BY <1>0, <2>1, <2>2, MessageWritten
  <2>4. SideTypes'
    BY <1>0, <2>1, <2>3 DEF SideTypes, Idle
  <2>5. RequestStep(r)
    BY <1>0, <2>1, <2>2 DEF RequestStep, SideTypes
  <2>6. Written("answer", r) = {} /\ request[r] = NoMethod
    BY <1>0, <2>1 DEF WrittenByStage
  <2>7. stage'[r] \in {"done", "skipped"} /\ (stage'[r] = "skipped" => UNCHANGED stdout)
    BY <1>0, <2>1 DEF SideTypes
  <2>8. \/ Written("answer", r)' = {}
        \/ Written("answer", r)' = {Len(stdout) + 1} /\ stage'[r] = "done"
    <3>1. CASE UNCHANGED stdout
      BY <2>6, <3>1 DEF Written
    <3>2. CASE Write(Msg("answer", r, 0)) /\ stage'[r] = "done"
      <4> DEFINE m == Msg("answer", r, 0)
      <4>1. \A k : WrittenWith(m, k, r)
        BY <1>0, <2>2, <3>2, MessageWritten
      <4> QED
        BY <2>2, <2>6, <3>2, <4>1 DEF WrittenWith
    <3>3. stage \in [Requests -> Idle \cup Working]
      BY <1>0 DEF SideTypes
    <3> QED
      BY <2>1, <3>1, <3>2, <3>3
  <2>9. (WrittenByStage(r) /\ Preceded(r))'
    BY <2>1, <2>6, <2>7, <2>8 DEF WrittenByStage, Preceded, Returned
  <2> QED
    BY <2>1, <2>4, <2>5, <2>9, OneRequest
<1>4. ASSUME NEW r \in Requests, Connects(r) PROVE SideInv'
  <2>1. /\ stage[r] = "handle" /\ exitAs' = exitAs /\ exitAs # "end" /\ stage' = [stage EXCEPT ![r] = "connect"]
        /\ UNCHANGED <<request, stdout, outcome, entry, ring>>
    BY <1>4 DEF Connects, Alive, Goes, hostVars
  <2>2. SideTypes'
    BY <1>0, <2>1 DEF SideTypes, Working
  <2>3. RequestStep(r)
    BY <1>0, <2>1 DEF RequestStep, SideTypes
  <2>4. stage'[r] = "connect" /\ Written("answer", r) = {}
    BY <1>0, <2>1 DEF SideTypes, WrittenByStage
  <2>5. (WrittenByStage(r) /\ Preceded(r))'
    BY <2>1, <2>4 DEF WrittenByStage, Preceded, Written, HandlerOver
  <2> QED
    BY <2>1, <2>2, <2>3, <2>5, OneRequest
<1>5. ASSUME NEW r \in Requests, Handle(r) PROVE SideInv'
  <2>1. PICK o \in {"answer", "large", "panic"} :
          /\ outcome' = [outcome EXCEPT ![r] = o]
          /\ stage' = [stage EXCEPT ![r] = IF o = "panic" THEN "respond" ELSE AfterHandler(r)]
          /\ IF o # "panic" /\ Accepted(request[r]) /\ request[r].method \in Audited
             THEN auditRecord(r) ELSE UNCHANGED <<stdout>>
    BY <1>5 DEF Handle, Goes
  <2>2. stage[r] \in {"handle", "run"} /\ exitAs' = exitAs /\ exitAs # "end" /\ UNCHANGED <<request, entry, ring>>
    <3>1. UNCHANGED exitAs
      BY <1>5 DEF Handle
    <3> QED
      BY <1>5, <3>1 DEF Handle, Alive
  <2>3. Msg("audit", r, 0) \in Message /\ Msg("audit", r, 0).kind = "audit" /\ Msg("audit", r, 0).of = r
    BY MsgTypes
  <2>4. /\ UNCHANGED stdout \/ Write(Msg("audit", r, 0))
        /\ o # "panic" /\ NeedsAudit(r) => Write(Msg("audit", r, 0))
    BY <2>1 DEF auditRecord, NeedsAudit, Audited
  <2>5. /\ stdout' \in Seq(Message)
        /\ Written("answer", r)' = Written("answer", r)
        /\ Write(Msg("audit", r, 0)) => Written("audit", r)' # {}
    <3>1. CASE UNCHANGED stdout /\ ~Write(Msg("audit", r, 0))
      BY <1>0, <3>1 DEF Written
    <3>2. CASE Write(Msg("audit", r, 0))
      <4> DEFINE m == Msg("audit", r, 0)
      <4>1. \A k : WrittenWith(m, k, r)
        BY <1>0, <2>3, <3>2, MessageWritten
      <4>2. stdout' \in Seq(Message)
        BY <1>0, <2>3, <3>2, MessageWritten
      <4> QED
        BY <2>3, <4>1, <4>2 DEF WrittenWith
    <3> QED
      BY <2>4, <3>1, <3>2
  <2>6. stage'[r] \in {"append", "respond"} /\ outcome'[r] = o
        /\ (stage'[r] = "respond" => o = "panic" \/ ~shouldLogRequest(request[r].method))
    BY <1>0, <2>1 DEF SideTypes, AfterHandler
  <2>7. SideTypes'
    BY <1>0, <2>1, <2>2, <2>5 DEF SideTypes, Working, HandlerOver, AfterHandler
  <2>8. RequestStep(r)
    BY <1>0, <2>1, <2>2, <2>3, <2>4 DEF RequestStep, SideTypes
  <2>9. Written("answer", r)' = {}
    BY <1>0, <2>2, <2>5 DEF WrittenByStage
  <2>10. (WrittenByStage(r) /\ Preceded(r))'
    BY <2>2, <2>4, <2>5, <2>6, <2>9 DEF WrittenByStage, Preceded, Returned, NeedsAudit
  <2> QED
    BY <2>2, <2>7, <2>8, <2>10, OneRequest
<1>6. ASSUME NEW r \in Requests, RingAppend(r) PROVE SideInv'
  <2>1. /\ stage[r] \in {"connect", "append"} /\ exitAs' = exitAs /\ exitAs # "end"
        /\ stage' = [stage EXCEPT ![r] = IF stage[r] = "connect" THEN "connectEvent" ELSE "logEvent"]
        /\ entry' = [entry EXCEPT ![r] = ring.seq + 1] /\ ring'.seq = ring.seq + 1
        /\ UNCHANGED <<request, stdout, outcome>>
    BY <1>6 DEF RingAppend, Alive, Goes, hostVars
  <2>2. SideTypes'
    BY <1>0, <2>1 DEF SideTypes, Working, HandlerOver
  <2>3. RequestStep(r)
    BY <1>0, <2>1 DEF RequestStep, SideTypes
  <2>4. /\ stage'[r] \in {"connectEvent", "logEvent"} /\ Written("answer", r) = {}
        /\ stage'[r] = "logEvent" => stage[r] = "append"
    BY <1>0, <2>1 DEF SideTypes, WrittenByStage
  <2>5. (WrittenByStage(r) /\ Preceded(r))'
    BY <1>0, <2>1, <2>4 DEF WrittenByStage, Preceded, Written, HandlerOver, Returned, NeedsAudit
  <2> QED
    BY <2>1, <2>2, <2>3, <2>5, OneRequest
<1>7. ASSUME NEW r \in Requests, emitEvent(r) PROVE SideInv'
  <2> DEFINE m == Msg("log", r, entry[r])
  <2>1. /\ stage[r] \in {"connectEvent", "logEvent"} /\ exitAs' = exitAs /\ exitAs # "end" /\ Write(m)
        /\ stage' = [stage EXCEPT ![r] = IF stage[r] = "connectEvent" THEN "run" ELSE "respond"]
        /\ UNCHANGED <<request, outcome, entry, ring>>
    BY <1>7 DEF emitEvent, Alive, Goes, hostVars
  <2>2. m \in Message /\ m.kind = "log" /\ m.of = r /\ m.seq = entry[r]
    BY <1>0, MsgTypes DEF SideTypes
  <2> HIDE DEF m
  <2>3. /\ stdout' \in Seq(Message) /\ stdout'[Len(stdout) + 1] = m
        /\ Written("answer", r)' = Written("answer", r) /\ Written("audit", r)' = Written("audit", r)
        /\ Len(stdout) + 1 \in Written("log", r)'
    <3>1. \A k : WrittenWith(m, k, r)
      BY <1>0, <2>1, <2>2, MessageWritten
    <3>2. stdout' \in Seq(Message) /\ stdout'[Len(stdout) + 1] = m
      BY <1>0, <2>1, <2>2, MessageWritten
    <3>3. Written("answer", r)' = Written("answer", r)
      BY <2>2, <3>1 DEF WrittenWith
    <3>5. Written("audit", r)' = Written("audit", r)
      BY <2>2, <3>1 DEF WrittenWith
    <3>4. Written("log", r)' = Written("log", r) \cup {Len(stdout) + 1}
      BY <2>2, <3>1 DEF WrittenWith
    <3> QED
      BY <3>2, <3>3, <3>4, <3>5
  <2>4. SideTypes'
    BY <1>0, <2>1, <2>3 DEF SideTypes, Working, HandlerOver
  <2>5. RequestStep(r)
    BY <1>0, <2>1, <2>2 DEF RequestStep, SideTypes
  <2>6. /\ stage'[r] \in {"run", "respond"} /\ Written("answer", r) = {}
        /\ stage'[r] = "respond" => stage[r] = "logEvent"
    BY <1>0, <2>1 DEF SideTypes, WrittenByStage
  <2>7. \E j \in Written("log", r)' : stdout'[j].seq = entry'[r]
    BY <2>1, <2>2, <2>3
  <2>8. (WrittenByStage(r) /\ Preceded(r))'
    BY <1>0, <2>1, <2>3, <2>6, <2>7 DEF WrittenByStage, Preceded, HandlerOver, Returned, NeedsAudit
  <2> QED
    BY <2>1, <2>4, <2>5, <2>8, OneRequest
<1>8. ASSUME NEW r \in Requests, respond(r) PROVE SideInv'
  <2> DEFINE m == Msg("answer", r, 0)  here == Len(stdout) + 1
  <2>1. /\ stage[r] = "respond" /\ exitAs' = exitAs /\ exitAs # "end"
        /\ IF request[r].hasId /\ outcome[r] # "large" THEN Write(m) ELSE UNCHANGED stdout
        /\ stage' = [stage EXCEPT ![r] = "done"]
        /\ UNCHANGED <<request, outcome, entry, ring>>
    BY <1>8 DEF respond, Alive, Goes, hostVars
  <2>2. m \in Message /\ m.kind = "answer" /\ m.of = r
    BY MsgTypes
  <2> HIDE DEF m
  <2>3. RequestStep(r)
    BY <1>0, <2>1, <2>2 DEF RequestStep, SideTypes
  <2>4. stage'[r] = "done" /\ Written("answer", r) = {}
    BY <1>0, <2>1 DEF SideTypes, WrittenByStage
  <2>5. /\ Returned(r) /\ NeedsAudit(r) => Written("audit", r) # {}
        /\ Returned(r) /\ shouldLogRequest(request[r].method) => \E j \in Written("log", r) : stdout[j].seq = entry[r]
    BY <1>0, <2>1 DEF WrittenByStage, HandlerOver
  <2>6. stdout' \in Seq(Message) /\ (WrittenByStage(r) /\ Preceded(r))'
    <3>1. CASE Write(m)
      <4>1. /\ stdout' \in Seq(Message) /\ Written("answer", r)' = {here}
            /\ \A k \in {"log", "audit"} : /\ Written(k, r)' = Written(k, r)
                                          /\ \A i \in Written(k, r) : i < here /\ stdout'[i] = stdout[i]
        <5>1. /\ \A k : WrittenWith(m, k, r)
              /\ \A k : \A i \in Written(k, r) : i < here /\ stdout'[i] = stdout[i]
          BY <1>0, <2>2, <3>1, MessageWritten
        <5>2. stdout' \in Seq(Message)
          BY <1>0, <2>2, <3>1, MessageWritten
        <5>3. Written("answer", r)' = {here}
          BY <2>2, <2>4, <5>1 DEF WrittenWith
        <5>4. Written("log", r)' = Written("log", r)
          BY <2>2, <5>1 DEF WrittenWith
        <5>5. Written("audit", r)' = Written("audit", r)
          BY <2>2, <5>1 DEF WrittenWith
        <5> QED
          BY <5>1, <5>2, <5>3, <5>4, <5>5
      <4> HIDE DEF here
      <4>2. WrittenByStage(r)'
        BY <2>1, <2>4, <2>5, <4>1 DEF WrittenByStage, Returned, NeedsAudit
      <4>3. Preceded(r)'
        BY <2>1, <2>5, <4>1 DEF Preceded, Returned, NeedsAudit
      <4> QED
        BY <4>1, <4>2, <4>3
    <3>2. CASE UNCHANGED stdout /\ ~(request[r].hasId /\ outcome[r] # "large")
      <4>1. Written("answer", r)' = {}
        BY <2>4, <3>2 DEF Written
      <4>2. \A k : Written(k, r)' = Written(k, r)
        BY <3>2 DEF Written
      <4> QED
        BY <1>0, <2>1, <2>4, <2>5, <3>2, <4>1, <4>2 DEF WrittenByStage, Preceded, Returned, NeedsAudit
    <3> QED
      BY <2>1, <3>1, <3>2
  <2>7. SideTypes'
    BY <1>0, <2>1, <2>6 DEF SideTypes, Idle
  <2> QED
    BY <2>1, <2>3, <2>6, <2>7, OneRequest
<1>9. ASSUME UNCHANGED <<stage, request, outcome, entry, ring>>,
             UNCHANGED stdout \/ Write(Msg("tail", NoMethod, 0)),
             exitAs' = "end" => exitAs = "end" \/ \A r \in Requests : stage[r] \in {"unsent", "skipped", "done"}
      PROVE  SideInv'
  <2>1. Msg("tail", NoMethod, 0) \in Message /\ Msg("tail", NoMethod, 0).kind = "tail"
    BY MsgTypes
  <2>2. stdout' \in Seq(Message)
    BY <1>0, <1>9, <2>1, MessageWritten
  <2>3. \A r \in Requests : (WrittenByStage(r) /\ Preceded(r))'
    BY <1>9, <2>1, RequestKept
  <2>4. SideTypes'
    BY <1>0, <1>9, <2>2 DEF SideTypes
  <2> QED
    BY <1>9, <2>3, <2>4 DEF SideInv, Idle
<1>10. CASE CloseStdin
  BY <1>9, <1>10 DEF CloseStdin
<1>11. CASE Exit
  BY <1>9, <1>11 DEF Exit
<1>12. CASE PanelMounts \/ TailAnswered \/ handleEvent
  BY <1>9, <1>12 DEF PanelMounts, TailAnswered, handleEvent, PanelKeeps, hostVars
<1>13. CASE UNCHANGED sideVars
  BY <1>9, <1>13 DEF sideVars, hostVars
<1> QED
  BY <1>1, <1>2, <1>3, <1>4, <1>5, <1>6, <1>7, <1>8, <1>10, <1>11, <1>12, <1>13 DEF SideNext

LEMMA SideInitInv == SideInit => SideInv
<1> SUFFICES ASSUME SideInit PROVE SideInv
  OBVIOUS
<1>1. \A k, r : Written(k, r) = {}
  <2>1. stdout \in Seq(Message) /\ Len(stdout) = 0
    <3>1. stdout = <<>>
      BY DEF SideInit
    <3> QED
      BY <3>1
  <2>2. DOMAIN stdout = {}
    BY <2>1, LenProperties
  <2> QED
    BY <2>2 DEF Written
<1>2. SideTypes
  <2>1. stdout \in Seq(Message) /\ ring.seq \in Nat
    <3>1. stdout = <<>> /\ ring.seq = 0
      BY DEF SideInit
    <3> QED
      BY <3>1
  <2>2. /\ stage \in [Requests -> Idle \cup Working] /\ entry \in [Requests -> Nat]
        /\ request \in [Requests -> Lines \cup {NoMethod}]
        /\ outcome \in [Requests -> {"none", "answer", "large", "panic"}]
    BY DEF SideInit, Idle
  <2> QED
    BY <2>1, <2>2 DEF SideTypes
<1> QED
  BY <1>1, <1>2 DEF SideInit, SideInv, WrittenByStage, Preceded, HandlerOver

\* Any number of concurrent requests, in any order of their goroutines: no
\* request is answered twice, none is forgotten, and a write is answered
\* after its audit event and its log event, whether or not the store took its
\* record (main.go:150-262, 659-674).
THEOREM RequestsAnsweredOnce == SideSpec => []AnsweredOnce
<1>1. SideInv => AnsweredOnce
  <2> SUFFICES ASSUME SideInv, NEW r \in Requests
               PROVE  /\ Cardinality(Written("answer", r)) <= 1
                      /\ exitAs = "end" /\ request[r] # NoMethod /\ request[r].hasId
                           => Written("answer", r) # {} \/ outcome[r] = "large"
                      /\ \A i \in Written("answer", r) :
                           request[r] # NoMethod /\ outcome[r] # "panic" /\ shouldLogRequest(request[r].method)
                             => /\ \E j \in Written("log", r) : j < i /\ stdout[j].seq = entry[r]
                                /\ request[r].method \in ForwardedWrites /\ Accepted(request[r])
                                     => \E j \in Written("audit", r) : j < i
    BY DEF AnsweredOnce
  <2>1. WrittenByStage(r) /\ Preceded(r) /\ (exitAs = "end" => stage[r] \in Idle)
    BY DEF SideInv
  <2>2. Cardinality(Written("answer", r)) <= 1
    <3>1. CASE Written("answer", r) = {}
      BY <3>1, FS_EmptySet
    <3>2. ASSUME NEW i \in Written("answer", r) PROVE Cardinality(Written("answer", r)) <= 1
      <4>1. Written("answer", r) = {i}
        BY <2>1, <3>2 DEF Preceded
      <4>2. Cardinality(Written("answer", r)) = 1
        BY <4>1, FS_Singleton, Zenon
      <4> QED
        BY <4>2
    <3> QED
      BY <3>1, <3>2
  <2> QED
    BY <2>1, <2>2 DEF WrittenByStage, Preceded, Returned, NeedsAudit, Idle
<1> QED
  BY <1>1, SideInitInv, SideStep, PTL DEF SideSpec
----------------------------------------------------------------------------
(* The request log and the panel that follows it *)

\* The ring holds the last entries, each at its place.
RingInv ==
  /\ ring \in [seq : Nat, buf : [0..(LogMax - 1) -> Nat], next : 0..(LogMax - 1), full : BOOLEAN]
  /\ ring.next <= ring.seq
  /\ IF ring.full THEN LogMax <= ring.seq ELSE ring.next = ring.seq
  /\ \A i \in 0..(LogMax - 1) :
       /\ i < ring.next => ring.buf[i] + ring.next = ring.seq + i + 1
       /\ ring.full /\ ring.next <= i => ring.buf[i] + ring.next + LogMax = ring.seq + i + 1

Announcing == {"connectEvent", "logEvent"}

\* Entry n is on its way to the panel.
Flying(n) ==
  \/ \E r \in Requests : stage[r] \in Announcing /\ entry[r] = n
  \/ \E i \in DOMAIN stdout : i > panel.seen /\ stdout[i].kind = "log" /\ stdout[i].seq = n

\* The entries that the panel is about to show.
Window == {n \in 1..ring.seq : n + LogMax > ring.seq}

\* Fewer than LogMax of the items are newer.
Cut(items) == \A n \in items : Cardinality({m \in items : m > n}) < LogMax

PanelInv ==
  /\ panel \in [mounted : BOOLEAN, items : SUBSET (1..ring.seq), seen : 0..Len(stdout), after : {0},
                backfill : {"none", "asked", "answered", "merged"}, tail : SUBSET (1..ring.seq)]
  /\ Cut(panel.items)
  /\ ~panel.mounted => panel.backfill = "none" /\ panel.items = {}
  /\ \A r \in Requests : stage[r] \in Announcing => entry[r] \in 1..ring.seq
  /\ \A i \in DOMAIN stdout :
       /\ stdout[i].kind = "log" => stdout[i].seq \in 1..ring.seq
       /\ stdout[i].kind = "tail" => panel.backfill \in {"answered", "merged"}
  /\ panel.backfill = "answered" => Window \subseteq panel.items \cup panel.tail \cup {n \in Window : Flying(n)}
  /\ panel.backfill = "merged" => Window \subseteq panel.items \cup {n \in Window : Flying(n)}

FeedInv == SideInv /\ RingInv /\ PanelInv

LEMMA Modulo ==
  /\ \A x \in 0..(LogMax - 1) : x % LogMax = x
  /\ \A x \in LogMax..(2 * LogMax - 1) : x % LogMax = x - LogMax
<1>1. ASSUME NEW x \in 0..(LogMax - 1) PROVE x % LogMax = x
  BY LogAssumption
<1>2. ASSUME NEW x \in LogMax..(2 * LogMax - 1) PROVE x % LogMax = x - LogMax
  BY LogAssumption
<1> QED
  BY <1>1, <1>2

\* How many entries are in an interval of numbers.
LEMMA Between ==
  ASSUME NEW a \in Nat, NEW b \in Nat, NEW S, S \subseteq a..b
  PROVE  /\ IsFiniteSet(S) /\ Cardinality(S) \in Nat
         /\ Cardinality(S) <= IF a <= b THEN b - a + 1 ELSE 0
         /\ a..b \subseteq S => Cardinality(S) = IF a <= b THEN b - a + 1 ELSE 0
<1>1. IsFiniteSet(a..b) /\ Cardinality(a..b) = IF a <= b THEN b - a + 1 ELSE 0
  <2>1. IsFiniteSet(a..b) /\ Cardinality(a..b) = IF a > b THEN 0 ELSE b - a + 1
    BY FS_Interval
  <2> QED
    BY <2>1
<1>2. IsFiniteSet(S) /\ Cardinality(S) <= Cardinality(a..b)
  BY <1>1, FS_Subset
<1>3. Cardinality(S) \in Nat
  BY <1>2, FS_CardinalityType
<1>4. a..b \subseteq S => S = a..b
  OBVIOUS
<1> QED
  BY <1>1, <1>2, <1>3, <1>4

\* The whole past that the ring still has.
LEMMA TailIsWindow == RingInv => TailOf(0, 2 * LogMax) = Window
<1> SUFFICES ASSUME RingInv PROVE TailOf(0, 2 * LogMax) = Window
  OBVIOUS
<1> DEFINE start == IF ring.full THEN ring.next ELSE 0
           count == IF ring.full THEN LogMax ELSE ring.next
           at(i) == ring.buf[(start + i) % LogMax]
           new == {i \in 0..(count - 1) : at(i) > 0}
<1>1. /\ count \in Nat /\ count <= ring.seq /\ count <= LogMax /\ ring.seq \in Nat
      /\ count = LogMax \/ count = ring.seq
  BY LogAssumption DEF RingInv
<1>2. ASSUME NEW i \in 0..(count - 1) PROVE at(i) \in Nat /\ at(i) + count = ring.seq + i + 1
  <2> DEFINE place == (start + i) % LogMax
  <2>1. CASE ~ring.full
    <3>1. place = i /\ i < ring.next /\ count = ring.next /\ i \in 0..(LogMax - 1)
      BY <2>1, Modulo, LogAssumption DEF RingInv
    <3> QED
      BY <2>1, <3>1 DEF RingInv
  <2>5. ring.next \in Nat /\ ring.next < LogMax /\ ring.seq \in Nat /\ LogMax \in Nat /\ LogMax > 0
    BY LogAssumption DEF RingInv
  <2>2. CASE ring.full /\ ring.next + i < LogMax
    <3>1. start = ring.next /\ count = LogMax /\ ring.next + i \in 0..(LogMax - 1)
      BY <2>2, <2>5
    <3>2. place = ring.next + i
      BY <3>1, Modulo
    <3> HIDE DEF place
    <3>3. ring.buf[place] \in Nat /\ ring.buf[place] + ring.next + LogMax = ring.seq + place + 1
      BY <2>2, <2>5, <3>1, <3>2 DEF RingInv
    <3>4. at(i) = ring.buf[place]
      BY DEF place
    <3> HIDE DEF at, start, count
    <3> QED
      BY <2>5, <3>1, <3>2, <3>3, <3>4
  <2>3. CASE ring.full /\ ring.next + i >= LogMax
    <3>1. start = ring.next /\ count = LogMax /\ ring.next + i \in LogMax..(2 * LogMax - 1)
      BY <2>3, <2>5
    <3>2. place = (ring.next + i) - LogMax
      BY <3>1, Modulo
    <3>5. place \in 0..(LogMax - 1) /\ place < ring.next
      BY <2>5, <3>1, <3>2
    <3> HIDE DEF place
    <3>3. ring.buf[place] \in Nat /\ ring.buf[place] + ring.next = ring.seq + place + 1
      BY <3>5 DEF RingInv
    <3>4. at(i) = ring.buf[place]
      BY DEF place
    <3> DEFINE entered == ring.buf[place]
    <3>6. i \in Nat /\ place \in Nat /\ place = (ring.next + i) - LogMax /\ entered \in Nat
          /\ entered + ring.next = ring.seq + place + 1
      BY <2>5, <3>1, <3>2, <3>3, <3>5
    <3> HIDE DEF at, start, count, entered
    <3>7. entered + LogMax = ring.seq + i + 1
      BY <2>5, <3>6
    <3>8. at(i) = entered
      BY <3>4 DEF entered
    <3> QED
      BY <3>1, <3>6, <3>7, <3>8
  <2>4. ring.next \in Nat /\ i \in Nat
    BY LogAssumption DEF RingInv
  <2> QED
    BY <2>1, <2>2, <2>3, <2>4, LogAssumption
<1> HIDE DEF start, count, at
<1>3. new = 0..(count - 1)
  BY <1>1, <1>2
<1>4. {j \in new : Cardinality({k \in new : k < j}) < LogMax} = 0..(count - 1)
  <2>1. ASSUME NEW j \in 0..(count - 1) PROVE Cardinality({k \in 0..(count - 1) : k < j}) < LogMax
    <3>1. CASE j = 0
      <4>1. {k \in 0..(count - 1) : k < j} = {}
        BY <1>1, <3>1
      <4> QED
        BY <4>1, FS_EmptySet, LogAssumption
    <3>2. CASE j > 0
      <4>1. {k \in 0..(count - 1) : k < j} \subseteq 0..(j - 1) /\ j - 1 \in Nat /\ j \in Nat
        BY <1>1, <3>2
      <4>2. Cardinality({k \in 0..(count - 1) : k < j}) <= (j - 1) - 0 + 1
        BY <4>1, Between
      <4>3. Cardinality({k \in 0..(count - 1) : k < j}) \in Nat
        BY <4>1, Between
      <4> QED
        BY <1>1, <4>1, <4>2, <4>3, LogAssumption
    <3> QED
      BY <1>1, <3>1, <3>2
  <2> HIDE DEF new
  <2> QED
    BY <1>3, <2>1
<1>5. TailOf(0, 2 * LogMax) = {at(i) : i \in {j \in new : Cardinality({k \in new : k < j}) < LogMax}}
  <2>1. 2 * LogMax # 0 /\ 2 * LogMax > LogMax
    BY LogAssumption
  <2> QED
    BY <2>1 DEF TailOf, start, count, at
<1>6. {at(i) : i \in 0..(count - 1)} = Window
  <2>1. ASSUME NEW i \in 0..(count - 1) PROVE at(i) \in Window
    BY <1>1, <1>2, LogAssumption DEF Window
  <2>2. ASSUME NEW n \in Window PROVE \E i \in 0..(count - 1) : at(i) = n
    <3>1. n \in 1..ring.seq /\ n + LogMax > ring.seq
      BY DEF Window
    <3>2. n + count > ring.seq
      BY <1>1, <3>1, LogAssumption
    <3> DEFINE j == n + count - ring.seq - 1
    <3>3. j \in 0..(count - 1)
      BY <1>1, <3>1, <3>2
    <3>5. n \in Nat /\ j \in Nat /\ (j + ring.seq) + 1 = n + count
      BY <1>1, <3>1, <3>3
    <3> HIDE DEF j
    <3>6. at(j) \in Nat /\ at(j) + count = ring.seq + j + 1
      BY <1>2, <3>3
    <3>4. at(j) = n
      BY <1>1, <3>5, <3>6
    <3> QED
      BY <3>3, <3>4
  <2> QED
    BY <2>1, <2>2
<1> HIDE DEF new
<1> QED
  BY <1>4, <1>5, <1>6

\* What is merged keeps what is new enough, and is cut.
LEMMA Merged ==
  ASSUME ring.seq \in Nat, NEW items \in SUBSET (1..ring.seq), NEW tail \in SUBSET (1..ring.seq)
  PROVE  /\ mergeLogTail(items, tail) \subseteq items \cup tail
         /\ (items \cup tail) \cap Window \subseteq mergeLogTail(items, tail)
         /\ Cut(mergeLogTail(items, tail))
<1> DEFINE all == items \cup tail
           kept == mergeLogTail(items, tail)
           Newer(n) == {m \in all : m > n}
<1>1. kept = {n \in all : Cardinality(Newer(n)) < LogMax}
  BY DEF mergeLogTail
<1>2. all \subseteq 1..ring.seq
  OBVIOUS
<1> HIDE DEF kept
<1>3. ASSUME NEW n \in all \cap Window PROVE n \in kept
  <2>1. n \in 1..ring.seq /\ n + LogMax > ring.seq
    BY DEF Window
  <2>2. Newer(n) \subseteq (n + 1)..ring.seq /\ n + 1 \in Nat
    <3>1. \A m \in Newer(n) : m \in 1..ring.seq /\ m > n
      BY <1>2
    <3> HIDE DEF Newer
    <3> QED
      BY <2>1, <3>1
  <2>3. Cardinality(Newer(n)) \in Nat
        /\ Cardinality(Newer(n)) <= IF n + 1 <= ring.seq THEN ring.seq - (n + 1) + 1 ELSE 0
    BY <2>2, Between
  <2> HIDE DEF Newer
  <2>4. Cardinality(Newer(n)) < LogMax
    BY <2>1, <2>3, LogAssumption
  <2> QED
    BY <1>1, <2>4
<1>4. ASSUME NEW n \in kept PROVE Cardinality({m \in kept : m > n}) < LogMax
  <2>1. {m \in kept : m > n} \subseteq Newer(n) /\ Newer(n) \subseteq 1..ring.seq
    BY <1>1, <1>2
  <2>2. Cardinality(Newer(n)) < LogMax
    BY <1>1
  <2> HIDE DEF Newer
  <2>3. IsFiniteSet(Newer(n)) /\ Cardinality(Newer(n)) \in Nat
    BY <2>1, Between
  <2>4. Cardinality({m \in kept : m > n}) <= Cardinality(Newer(n)) /\ IsFiniteSet({m \in kept : m > n})
    BY <2>1, <2>3, FS_Subset
  <2>5. Cardinality({m \in kept : m > n}) \in Nat
    BY <2>4, FS_CardinalityType
  <2> QED
    BY <2>2, <2>3, <2>4, <2>5, LogAssumption
<1> QED
  BY <1>1, <1>3, <1>4 DEF Cut, kept

\* A step that the panel and the ring do not see.
Unseeing ==
  /\ UNCHANGED <<ring, panel>>
  /\ UNCHANGED stdout \/ \E m \in Message : Write(m) /\ m.kind \in {"answer", "audit"}
  /\ \A r \in Requests : stage[r] \in Announcing \/ stage'[r] \in Announcing =>
                         UNCHANGED <<stage[r], entry[r]>>

\* Messages are added at the end.
LEMMA StdoutGrows ==
  ASSUME stdout \in Seq(Message), NEW m \in Message, Write(m)
  PROVE  /\ Len(stdout) \in Nat /\ Len(stdout') = Len(stdout) + 1
         /\ DOMAIN stdout = 1..Len(stdout) /\ DOMAIN stdout' = 1..(Len(stdout) + 1)
         /\ \A i \in DOMAIN stdout : stdout'[i] = stdout[i] /\ i < Len(stdout) + 1
         /\ stdout'[Len(stdout) + 1] = m
<1>1. /\ Len(stdout) \in Nat /\ Len(stdout') = Len(stdout) + 1 /\ stdout'[Len(stdout) + 1] = m
      /\ DOMAIN stdout = 1..Len(stdout) /\ DOMAIN stdout' = 1..(Len(stdout) + 1)
      /\ \A i \in 1..Len(stdout) : stdout'[i] = stdout[i]
  BY AppendProperties, LenProperties DEF Write
<1> QED
  BY <1>1

\* What the invariant says of the messages and the panel, when nothing is
\* taken from them.
LEMMA PanelKept ==
  ASSUME FeedInv, Unseeing
  PROVE  PanelInv' /\ RingInv'
<1>0. PanelInv /\ RingInv /\ stdout \in Seq(Message)
  BY DEF FeedInv, SideInv, SideTypes
<1>1. RingInv'
  BY <1>0 DEF Unseeing, RingInv
<1>2. /\ DOMAIN stdout \subseteq DOMAIN stdout' /\ Len(stdout) \in Nat /\ Len(stdout') \in Nat
      /\ Len(stdout) <= Len(stdout')
      /\ \A i \in DOMAIN stdout : stdout'[i] = stdout[i]
      /\ \A i \in DOMAIN stdout' \ DOMAIN stdout : stdout'[i].kind \in {"answer", "audit"}
  <2>1. CASE UNCHANGED stdout
    BY <1>0, <2>1
  <2>2. ASSUME NEW m \in Message, Write(m), m.kind \in {"answer", "audit"}
        PROVE  /\ DOMAIN stdout \subseteq DOMAIN stdout' /\ Len(stdout) \in Nat /\ Len(stdout') \in Nat
               /\ Len(stdout) <= Len(stdout')
               /\ \A i \in DOMAIN stdout : stdout'[i] = stdout[i]
               /\ \A i \in DOMAIN stdout' \ DOMAIN stdout : stdout'[i].kind \in {"answer", "audit"}
    BY <1>0, <2>2, StdoutGrows
  <2> QED
    BY <2>1, <2>2 DEF Unseeing
<1>3. \A n : Flying(n) => Flying(n)'
  BY <1>2 DEF Flying, Unseeing
<1>4. Window' = Window
  BY DEF Window, Unseeing
<1>5. \A r \in Requests : stage'[r] \in Announcing => entry'[r] \in 1..ring.seq
  BY <1>0 DEF PanelInv, Unseeing
<1>6. \A i \in DOMAIN stdout' :
        /\ stdout'[i].kind = "log" => stdout'[i].seq \in 1..ring.seq
        /\ stdout'[i].kind = "tail" => panel.backfill \in {"answered", "merged"}
  BY <1>0, <1>2 DEF PanelInv
<1>7. panel.seen \in 0..Len(stdout')
  BY <1>0, <1>2 DEF PanelInv
<1>8. ring' = ring /\ panel' = panel
  BY DEF Unseeing
<1>9. panel' \in [mounted : BOOLEAN, items : SUBSET (1..ring'.seq), seen : 0..Len(stdout'), after : {0},
                  backfill : {"none", "asked", "answered", "merged"}, tail : SUBSET (1..ring'.seq)]
  BY <1>0, <1>7, <1>8 DEF PanelInv
<1> QED
  BY <1>0, <1>1, <1>3, <1>4, <1>5, <1>6, <1>8, <1>9 DEF PanelInv, Cut

LEMMA RingAppends ==
  ASSUME FeedInv, NEW r \in Requests, RingAppend(r)
  PROVE  RingInv' /\ PanelInv'
<1>0. PanelInv /\ RingInv /\ SideTypes
  BY DEF FeedInv, SideInv
<1> DEFINE L == LogMax
<1>20. PICK n : n = ring.seq + 1
  OBVIOUS
<1>1. /\ L \in Nat /\ L > 0 /\ ring.seq \in Nat /\ ring.next \in Nat /\ ring.next < L /\ ring.next <= ring.seq
      /\ ring.buf \in [0..(L - 1) -> Nat]
  BY <1>0, LogAssumption DEF RingInv
<1>2. RingInv'
  <2> DEFINE next == (ring.next + 1) % LogMax
  <2>1. \/ ring.next + 1 < L /\ next = ring.next + 1
        \/ ring.next + 1 = L /\ next = 0
    <3>1. ring.next + 1 < L => ring.next + 1 \in 0..(LogMax - 1)
      BY <1>1
    <3>2. ring.next + 1 = L => ring.next + 1 \in LogMax..(2 * LogMax - 1) /\ (ring.next + 1) - LogMax = 0
      BY <1>1
    <3> QED
      BY <1>1, <3>1, <3>2, Modulo
  <2>2. ring' = [seq |-> n, buf |-> [ring.buf EXCEPT ![ring.next] = n], next |-> next, full |-> ring.full \/ next = 0]
    BY <1>20 DEF RingAppend
  <2>3. ring'.full \in BOOLEAN
    BY <2>2, Zenon
  <2>4. ring' \in [seq : Nat, buf : [0..(LogMax - 1) -> Nat], next : 0..(LogMax - 1), full : BOOLEAN]
    <3>1. next \in 0..(LogMax - 1) /\ n \in Nat
      BY <1>1, <1>20, <2>1
    <3>2. [ring.buf EXCEPT ![ring.next] = n] \in [0..(LogMax - 1) -> Nat]
      BY <1>1, <1>20
    <3>3. (ring.full \/ next = 0) \in BOOLEAN
      BY Zenon
    <3> HIDE DEF next
    <3> QED
      BY <2>2, <3>1, <3>2, <3>3
  <2> HIDE DEF next
  <2>5. /\ ring'.seq = ring.seq + 1 /\ ring'.next = next /\ (ring'.full <=> ring.full \/ next = 0)
        /\ \A i \in 0..(L - 1) : ring'.buf[i] = IF i = ring.next THEN ring.seq + 1 ELSE ring.buf[i]
    BY <1>1, <1>20, <2>2
  <2>6. ring'.next <= ring'.seq /\ IF ring'.full THEN LogMax <= ring'.seq ELSE ring'.next = ring'.seq
    BY <1>0, <1>1, <2>1, <2>5 DEF RingInv
  <2>7. ASSUME NEW i \in 0..(LogMax - 1)
        PROVE  /\ i < ring'.next => ring'.buf[i] + ring'.next = ring'.seq + i + 1
               /\ ring'.full /\ ring'.next <= i => ring'.buf[i] + ring'.next + LogMax = ring'.seq + i + 1
    <3>1. ring.buf[i] \in Nat
      BY <1>1
    <3>2. /\ i < ring.next => ring.buf[i] + ring.next = ring.seq + i + 1
          /\ ring.full /\ ring.next <= i => ring.buf[i] + ring.next + LogMax = ring.seq + i + 1
      BY <1>0 DEF RingInv
    <3>5. i \in Nat /\ i < L /\ ring'.buf[i] = IF i = ring.next THEN ring.seq + 1 ELSE ring.buf[i]
      BY <1>1, <2>5
    <3> DEFINE old == ring.buf[i]  fresh == ring'.buf[i]
    <3>6. /\ old \in Nat /\ fresh = IF i = ring.next THEN ring.seq + 1 ELSE old
          /\ i < ring.next => old + ring.next = ring.seq + i + 1
          /\ ring.full /\ ring.next <= i => old + ring.next + L = ring.seq + i + 1
      BY <3>1, <3>2, <3>5
    <3> HIDE DEF old, fresh
    <3>7. /\ L \in Nat /\ ring.seq \in Nat /\ ring.next \in Nat /\ i \in Nat /\ i < L
      BY <1>1, <3>5
    <3> HIDE DEF L
    <3>8. ASSUME i < next PROVE fresh + next = (ring.seq + 1) + i + 1
      <4>1. ring.next + 1 < L /\ next = ring.next + 1
        BY <2>1, <3>7, <3>8 DEF L
      <4>2. CASE i = ring.next
        BY <3>6, <3>7, <4>1, <4>2
      <4>3. CASE i < ring.next
        BY <3>6, <3>7, <4>1, <4>3
      <4> QED
        BY <3>7, <3>8, <4>1, <4>2, <4>3
    <3>9. ASSUME ring.full \/ next = 0, next <= i PROVE fresh + next + L = (ring.seq + 1) + i + 1
      <4>1. CASE ring.next + 1 < L /\ next = ring.next + 1
        <5>1. old + ring.next + L = ring.seq + i + 1 /\ fresh = old
          BY <3>6, <3>7, <3>9, <4>1
        <5> QED
          BY <3>6, <3>7, <4>1, <5>1
      <4>2. CASE ring.next + 1 = L /\ next = 0
        <5>1. CASE i = ring.next
          BY <3>6, <3>7, <4>2, <5>1
        <5>2. CASE i < ring.next
          BY <3>6, <3>7, <4>2, <5>2
        <5> QED
          BY <3>7, <4>2, <5>1, <5>2
      <4> QED
        BY <2>1, <4>1, <4>2 DEF L
    <3> QED
      BY <2>5, <3>8, <3>9 DEF fresh, L
  <2> QED
    BY <2>4, <2>6, <2>7 DEF RingInv
<1>3. /\ ring'.seq = n /\ stage[r] \notin Announcing /\ stage'[r] \in Announcing /\ entry'[r] = n
      /\ \A q \in Requests \ {r} : stage'[q] = stage[q] /\ entry'[q] = entry[q]
      /\ UNCHANGED <<stdout, panel>>
  BY <1>0, <1>20 DEF RingAppend, Goes, SideTypes, Announcing
<1> HIDE DEF L
<1>4. \A k : Flying(k) => Flying(k)'
  BY <1>3 DEF Flying
<1>5. Flying(n)'
  BY <1>3 DEF Flying
<1>6. \A k \in Window' : k = n \/ k \in Window
  BY <1>1, <1>3, <1>20, LogAssumption DEF Window
<1>7. \A k \in 1..ring.seq : k \in 1..n
  BY <1>1, <1>20
<1>8. n \in 1..n
  BY <1>1, <1>20
<1>9. panel' \in [mounted : BOOLEAN, items : SUBSET (1..ring'.seq), seen : 0..Len(stdout'), after : {0},
                  backfill : {"none", "asked", "answered", "merged"}, tail : SUBSET (1..ring'.seq)]
  <2>1. panel \in [mounted : BOOLEAN, items : SUBSET (1..n), seen : 0..Len(stdout), after : {0},
                   backfill : {"none", "asked", "answered", "merged"}, tail : SUBSET (1..n)]
    BY <1>0, <1>7 DEF PanelInv
  <2> QED
    BY <1>3, <2>1
<1>10. /\ \A q \in Requests : stage'[q] \in Announcing => entry'[q] \in 1..n
       /\ \A i \in DOMAIN stdout : stdout[i].kind = "log" => stdout[i].seq \in 1..n
  BY <1>0, <1>3, <1>7, <1>8 DEF PanelInv
<1>11. /\ panel.backfill = "answered" => Window' \subseteq panel.items \cup panel.tail \cup {k \in Window' : Flying(k)'}
       /\ panel.backfill = "merged" => Window' \subseteq panel.items \cup {k \in Window' : Flying(k)'}
  BY <1>0, <1>4, <1>5, <1>6 DEF PanelInv
<1>12. PanelInv'
  BY <1>0, <1>3, <1>9, <1>10, <1>11 DEF PanelInv, Cut
<1> QED
  BY <1>2, <1>12

\* The event of an entry is written.
LEMMA EventWritten ==
  ASSUME FeedInv, NEW r \in Requests, emitEvent(r)
  PROVE  RingInv' /\ PanelInv'
<1>0. PanelInv /\ RingInv /\ SideTypes /\ stdout \in Seq(Message)
  BY DEF FeedInv, SideInv, SideTypes
<1> DEFINE m == Msg("log", r, entry[r])
<1>1. /\ stage[r] \in Announcing /\ stage'[r] \notin Announcing /\ Write(m)
      /\ \A q \in Requests \ {r} : stage'[q] = stage[q]
      /\ UNCHANGED <<entry, ring, panel>>
  BY <1>0 DEF emitEvent, Goes, SideTypes, Announcing
<1>2. m \in Message /\ m.kind = "log" /\ m.seq = entry[r]
  BY <1>0, MsgTypes DEF SideTypes
<1> HIDE DEF m
<1>3. /\ Len(stdout) \in Nat /\ Len(stdout') = Len(stdout) + 1
      /\ DOMAIN stdout = 1..Len(stdout) /\ DOMAIN stdout' = 1..(Len(stdout) + 1)
      /\ \A i \in DOMAIN stdout : stdout'[i] = stdout[i] /\ i < Len(stdout) + 1
      /\ stdout'[Len(stdout) + 1] = m
  BY <1>0, <1>1, <1>2, StdoutGrows
<1>4. panel.seen \in 0..Len(stdout)
  BY <1>0 DEF PanelInv
<1>5. \A i \in DOMAIN stdout' : i \in DOMAIN stdout \/ i = Len(stdout) + 1
  BY <1>3
<1>6. Len(stdout) + 1 \in DOMAIN stdout' /\ Len(stdout) + 1 > panel.seen
  BY <1>3, <1>4
<1>7. \A k : Flying(k) => Flying(k)'
  <2> SUFFICES ASSUME NEW k, Flying(k) PROVE Flying(k)'
    OBVIOUS
  <2>1. CASE k = entry[r]
    BY <1>1, <1>2, <1>3, <1>6, <2>1 DEF Flying
  <2>2. CASE k # entry[r]
    BY <1>1, <1>3, <2>2 DEF Flying
  <2> QED
    BY <2>1, <2>2
<1>8. RingInv'
  BY <1>0, <1>1 DEF RingInv
<1>9. \A i \in DOMAIN stdout' :
        /\ stdout'[i].kind = "log" => stdout'[i].seq \in 1..ring.seq
        /\ stdout'[i].kind = "tail" => panel.backfill \in {"answered", "merged"}
  BY <1>0, <1>1, <1>2, <1>3, <1>5 DEF PanelInv
<1>10. panel.seen \in 0..Len(stdout')
  BY <1>3, <1>4
<1>11. ring' = ring /\ panel' = panel /\ Window' = Window
  BY <1>1 DEF Window
<1>12. panel' \in [mounted : BOOLEAN, items : SUBSET (1..ring'.seq), seen : 0..Len(stdout'), after : {0},
                   backfill : {"none", "asked", "answered", "merged"}, tail : SUBSET (1..ring'.seq)]
  BY <1>0, <1>10, <1>11 DEF PanelInv
<1>13. \A q \in Requests : stage'[q] \in Announcing => entry'[q] \in 1..ring.seq
  BY <1>0, <1>1 DEF PanelInv
<1>14. PanelInv'
  BY <1>0, <1>7, <1>9, <1>11, <1>12, <1>13 DEF PanelInv, Cut
<1> QED
  BY <1>8, <1>14

\* The panel asks, and the past is answered.
LEMMA PastAsked ==
  ASSUME FeedInv, PanelMounts
  PROVE  RingInv' /\ PanelInv'
<1>0. PanelInv /\ RingInv /\ SideTypes /\ stdout \in Seq(Message)
  BY DEF FeedInv, SideInv, SideTypes
<1>1. /\ UNCHANGED <<stdout, stage, entry, ring>> /\ ~panel.mounted /\ panel.items = {} /\ panel.backfill = "none"
      /\ Len(stdout) \in Nat
  BY <1>0 DEF PanelMounts, PanelKeeps, PanelInv
<1>2. nextLogCursor(panel.items) = 0
  BY <1>1 DEF nextLogCursor
<1>3. panel' = [panel EXCEPT !.mounted = TRUE, !.seen = Len(stdout), !.backfill = "asked", !.after = 0]
  BY <1>2 DEF PanelMounts
<1> DEFINE Panels == [mounted : BOOLEAN, items : SUBSET (1..ring.seq), seen : 0..Len(stdout), after : {0},
                      backfill : {"none", "asked", "answered", "merged"}, tail : SUBSET (1..ring.seq)]
<1>4. panel' \in Panels /\ panel'.mounted /\ panel'.backfill = "asked" /\ panel'.items = panel.items
  <2>1. panel \in Panels /\ Len(stdout) \in 0..Len(stdout)
    BY <1>0, <1>1 DEF PanelInv
  <2> QED
    BY <1>3, <2>1
<1>5. RingInv'
  BY <1>0, <1>1 DEF RingInv
<1> QED
  BY <1>0, <1>1, <1>4, <1>5 DEF PanelInv, Cut

LEMMA PastAnswered ==
  ASSUME FeedInv, TailAnswered
  PROVE  RingInv' /\ PanelInv'
<1>0. PanelInv /\ RingInv /\ SideTypes /\ stdout \in Seq(Message)
  BY DEF FeedInv, SideInv, SideTypes
<1> DEFINE m == Msg("tail", NoMethod, 0)
<1>1. UNCHANGED <<stage, entry, ring>> /\ panel.backfill = "asked" /\ Write(m) /\ panel.mounted
  BY <1>0 DEF TailAnswered, PanelKeeps, PanelInv
<1>2. m \in Message /\ m.kind = "tail"
  BY MsgTypes
<1> HIDE DEF m
<1>3. /\ Len(stdout) \in Nat /\ Len(stdout') = Len(stdout) + 1
      /\ DOMAIN stdout = 1..Len(stdout) /\ DOMAIN stdout' = 1..(Len(stdout) + 1)
      /\ \A i \in DOMAIN stdout : stdout'[i] = stdout[i] /\ i < Len(stdout) + 1
      /\ stdout'[Len(stdout) + 1] = m
  BY <1>0, <1>1, <1>2, StdoutGrows
<1>4. TailOf(panel.after, 2 * LogMax) = Window
  BY <1>0, TailIsWindow DEF PanelInv
<1>5. panel' = [panel EXCEPT !.backfill = "answered", !.tail = Window]
  BY <1>4 DEF TailAnswered
<1>6. Window \in SUBSET (1..ring.seq)
  BY DEF Window
<1> DEFINE Panels(n) == [mounted : BOOLEAN, items : SUBSET (1..ring.seq), seen : 0..n, after : {0},
                         backfill : {"none", "asked", "answered", "merged"}, tail : SUBSET (1..ring.seq)]
<1>7. /\ panel' \in Panels(Len(stdout'))
      /\ panel'.mounted = panel.mounted /\ panel'.backfill = "answered" /\ panel'.items = panel.items
      /\ panel'.tail = Window
  <2>1. panel \in Panels(Len(stdout)) /\ panel.seen \in 0..Len(stdout')
    BY <1>0, <1>3 DEF PanelInv
  <2> QED
    BY <1>5, <1>6, <2>1
<1>8. RingInv' /\ Window' = Window
  BY <1>0, <1>1 DEF RingInv, Window
<1>9. \A i \in DOMAIN stdout' : i \in DOMAIN stdout \/ i = Len(stdout) + 1
  BY <1>3
<1>10. \A i \in DOMAIN stdout' : stdout'[i].kind = "log" => stdout'[i].seq \in 1..ring.seq
  BY <1>0, <1>2, <1>3, <1>9 DEF PanelInv
<1> QED
  BY <1>0, <1>1, <1>7, <1>8, <1>10 DEF PanelInv, Cut

\* The panel takes the next message: the first that is for it.
LEMMA MessageTaken ==
  ASSUME FeedInv, handleEvent
  PROVE  RingInv' /\ PanelInv'
<1>0. PanelInv /\ RingInv /\ SideTypes /\ stdout \in Seq(Message)
  BY DEF FeedInv, SideInv, SideTypes
<1>1. UNCHANGED <<stdout, stage, entry, ring>> /\ panel.mounted
  BY DEF handleEvent, PanelKeeps
<1>2. DOMAIN stdout = 1..Len(stdout) /\ Len(stdout) \in Nat /\ panel.seen \in Nat /\ ring.seq \in Nat
  BY <1>0, LenProperties DEF PanelInv, RingInv
<1>4. PICK next \in Unseen :
        /\ \A j \in Unseen : next <= j
        /\ panel' = [panel EXCEPT !.seen = next,
                       !.items = mergeLogTail(@, IF stdout[next].kind = "log" THEN {stdout[next].seq} ELSE panel.tail),
                       !.backfill = IF stdout[next].kind = "tail" THEN "merged" ELSE @]
  BY DEF handleEvent
<1> DEFINE m == stdout[next]
           Panels == [mounted : BOOLEAN, items : SUBSET (1..ring.seq), seen : 0..Len(stdout), after : {0},
                      backfill : {"none", "asked", "answered", "merged"}, tail : SUBSET (1..ring.seq)]
<1>5. /\ next \in DOMAIN stdout /\ next \in 0..Len(stdout) /\ next > panel.seen /\ m.kind \in {"log", "tail"}
  BY <1>2 DEF Unseen
<1>6. \A i \in DOMAIN stdout : i > panel.seen /\ stdout[i].kind \in {"log", "tail"} => next <= i
  BY <1>4 DEF Unseen
<1>7. panel \in Panels /\ Cut(panel.items)
  BY <1>0 DEF PanelInv
<1> DEFINE merges == IF m.kind = "log" THEN {m.seq} ELSE panel.tail
<1>8. /\ panel'.items = mergeLogTail(panel.items, merges) /\ panel'.seen = next /\ panel'.mounted
      /\ panel'.after = 0 /\ panel'.tail = panel.tail
      /\ panel'.backfill = IF m.kind = "tail" THEN "merged" ELSE panel.backfill
      /\ panel' \in [mounted : BOOLEAN, items : {panel'.items}, seen : 0..Len(stdout), after : {0},
                     backfill : {"none", "asked", "answered", "merged"}, tail : SUBSET (1..ring.seq)]
  <2>1. panel' = [panel EXCEPT !.seen = next, !.items = mergeLogTail(@, merges),
                               !.backfill = IF m.kind = "tail" THEN "merged" ELSE @]
    BY <1>4
  <2> QED
    BY <1>1, <1>5, <1>7, <2>1
<1>9. merges \in SUBSET (1..ring.seq)
  BY <1>0, <1>5, <1>7 DEF PanelInv
<1>10. /\ panel'.items \subseteq panel.items \cup merges
       /\ (panel.items \cup merges) \cap Window \subseteq panel'.items
       /\ Cut(panel'.items)
  <2>1. panel.items \in SUBSET (1..ring.seq)
    BY <1>7
  <2>2. panel'.items = mergeLogTail(panel.items, merges)
    BY <1>8
  <2> HIDE DEF merges, m
  <2>3. /\ mergeLogTail(panel.items, merges) \subseteq panel.items \cup merges
        /\ (panel.items \cup merges) \cap Window \subseteq mergeLogTail(panel.items, merges)
        /\ Cut(mergeLogTail(panel.items, merges))
    BY <1>2, <1>9, <2>1, Merged
  <2>4. Cut(panel'.items) <=> Cut(mergeLogTail(panel.items, merges))
    BY <2>2 DEF Cut
  <2> QED
    BY <2>2, <2>3, <2>4
<1>11. panel' \in Panels
  <2>1. panel'.items \in SUBSET (1..ring.seq)
    BY <1>7, <1>9, <1>10
  <2> HIDE DEF merges, m
  <2> QED
    BY <1>8, <2>1
<1> HIDE DEF merges, Panels
<1>12. Window' = Window /\ Window \subseteq Window
  BY <1>1 DEF Window
<1>13. ASSUME NEW n, Flying(n) PROVE Flying(n)' \/ (m.kind = "log" /\ n = m.seq)
  <2>1. ASSUME NEW r \in Requests, stage[r] \in Announcing, entry[r] = n PROVE Flying(n)'
    BY <1>1, <2>1 DEF Flying
  <2>2. ASSUME NEW i \in DOMAIN stdout, i > panel.seen, stdout[i].kind = "log", stdout[i].seq = n, i # next
        PROVE  Flying(n)'
    <3>1. i > next
      BY <1>2, <1>5, <1>6, <2>2
    <3> QED
      BY <1>1, <1>8, <2>2, <3>1 DEF Flying
  <2> QED
    BY <1>13, <2>1, <2>2 DEF Flying
<1>14. ASSUME NEW n \in Window, n \in panel.items \/ n \in merges PROVE n \in panel'.items
  BY <1>10, <1>14
<1>15. ASSUME NEW n \in Window, Flying(n) PROVE n \in panel'.items \/ Flying(n)'
  BY <1>13, <1>14, <1>15 DEF merges
<1>16. ASSUME m.kind = "tail" PROVE Window \subseteq panel'.items \cup {n \in Window : Flying(n)'}
  <2>1. panel.backfill \in {"answered", "merged"}
    BY <1>0, <1>5, <1>16 DEF PanelInv
  <2>2. Window \subseteq panel.items \cup panel.tail \cup {n \in Window : Flying(n)}
    BY <1>0, <2>1 DEF PanelInv
  <2>3. merges = panel.tail
    BY <1>16 DEF merges
  <2> QED
    BY <1>14, <1>15, <2>2, <2>3
<1>17. ASSUME m.kind = "log"
       PROVE  /\ panel.backfill = "answered" => Window \subseteq panel'.items \cup panel.tail \cup {n \in Window : Flying(n)'}
              /\ panel.backfill = "merged" => Window \subseteq panel'.items \cup {n \in Window : Flying(n)'}
  BY <1>0, <1>14, <1>15 DEF PanelInv
<1>18. \A i \in DOMAIN stdout :
         /\ stdout[i].kind = "log" => stdout[i].seq \in 1..ring.seq
         /\ stdout[i].kind = "tail" => panel'.backfill \in {"answered", "merged"}
  BY <1>0, <1>8 DEF PanelInv
<1>19. \A r \in Requests : stage[r] \in Announcing => entry[r] \in 1..ring.seq
  BY <1>0 DEF PanelInv
<1>20. RingInv'
  BY <1>0, <1>1 DEF RingInv
<1>21. \/ panel'.backfill = "merged" /\ m.kind = "tail"
       \/ panel'.backfill = panel.backfill /\ m.kind = "log"
  BY <1>5, <1>8
<1>22. /\ panel'.backfill = "answered" => Window' \subseteq panel'.items \cup panel'.tail \cup {n \in Window' : Flying(n)'}
       /\ panel'.backfill = "merged" => Window' \subseteq panel'.items \cup {n \in Window' : Flying(n)'}
  BY <1>8, <1>12, <1>16, <1>17, <1>21
<1> USE DEF Panels
<1> QED
  BY <1>1, <1>8, <1>10, <1>11, <1>18, <1>19, <1>20, <1>22 DEF PanelInv, Cut

LEMMA FeedInit == SideInit => FeedInv
<1> SUFFICES ASSUME SideInit PROVE FeedInv
  OBVIOUS
<1>1. stdout = <<>> /\ ring = [seq |-> 0, buf |-> [i \in 0..(LogMax - 1) |-> 0], next |-> 0, full |-> FALSE]
      /\ panel = [mounted |-> FALSE, items |-> {}, seen |-> 0, backfill |-> "none", after |-> 0, tail |-> {}]
      /\ \A r \in Requests : stage[r] = "unsent"
  BY DEF SideInit
<1>2. RingInv
  <2>1. [i \in 0..(LogMax - 1) |-> 0] \in [0..(LogMax - 1) -> Nat] /\ 0 \in 0..(LogMax - 1)
    BY LogAssumption
  <2>2. ring \in [seq : Nat, buf : [0..(LogMax - 1) -> Nat], next : 0..(LogMax - 1), full : BOOLEAN]
    BY <1>1, <2>1
  <2> QED
    BY <1>1, <2>2 DEF RingInv
<1>3. Len(stdout) = 0 /\ DOMAIN stdout = {}
  <2>1. stdout \in Seq(Message) /\ Len(stdout) = 0
    BY <1>1
  <2> QED
    BY <2>1, LenProperties
<1>4. panel \in [mounted : BOOLEAN, items : SUBSET (1..ring.seq), seen : 0..Len(stdout), after : {0},
                 backfill : {"none", "asked", "answered", "merged"}, tail : SUBSET (1..ring.seq)]
  BY <1>1, <1>3
<1>5. PanelInv
  BY <1>1, <1>3, <1>4 DEF PanelInv, Cut, Announcing
<1> QED
  BY <1>2, <1>5, SideInitInv DEF FeedInv

LEMMA FeedStep == FeedInv /\ [SideNext]_sideVars => FeedInv'
<1> SUFFICES ASSUME FeedInv, [SideNext]_sideVars PROVE RingInv' /\ PanelInv'
  BY SideStep DEF FeedInv
<1>0. SideTypes
  BY DEF FeedInv, SideInv
<1> USE DEF Unseeing, Announcing
<1>1. ASSUME NEW r \in Requests, NEW q \in Lines, decodeRequest(r, q) PROVE Unseeing
  BY <1>0, <1>1 DEF decodeRequest, ReaderAt, Goes, SideTypes
<1>2. ASSUME NEW r \in Requests, SkipLine(r) PROVE Unseeing
  BY <1>0, <1>2 DEF SkipLine, ReaderAt, Goes, SideTypes
<1>3. ASSUME NEW r \in Requests, Initialize(r) PROVE Unseeing
  <2>1. PICK s \in {"done", "skipped"} : stage' = [stage EXCEPT ![r] = s]
    BY <1>3 DEF Initialize, Goes
  <2>2. stage[r] = "unsent" /\ UNCHANGED <<entry, ring, panel>>
    BY <1>3 DEF Initialize, ReaderAt
  <2>3. UNCHANGED stdout \/ Write(Msg("answer", r, 0))
    BY <1>3 DEF Initialize
  <2>4. Msg("answer", r, 0) \in Message /\ Msg("answer", r, 0).kind = "answer"
    BY MsgTypes
  <2> QED
    BY <1>0, <2>1, <2>2, <2>3, <2>4 DEF SideTypes
<1>4. ASSUME NEW r \in Requests, Connects(r) PROVE Unseeing
  BY <1>0, <1>4 DEF Connects, Goes, SideTypes
<1>5. ASSUME NEW r \in Requests, Handle(r) PROVE Unseeing
  <2>1. PICK s \in {"append", "respond"} : stage' = [stage EXCEPT ![r] = s]
    BY <1>5 DEF Handle, Goes, AfterHandler
  <2>2. stage[r] \in {"handle", "run"} /\ UNCHANGED <<entry, ring, panel>>
    BY <1>5 DEF Handle
  <2>3. UNCHANGED stdout \/ Write(Msg("audit", r, 0))
    BY <1>5 DEF Handle, auditRecord
  <2>4. Msg("audit", r, 0) \in Message /\ Msg("audit", r, 0).kind = "audit"
    BY MsgTypes
  <2> QED
    BY <1>0, <2>1, <2>2, <2>3, <2>4 DEF SideTypes
<1>6. ASSUME NEW r \in Requests, respond(r) PROVE Unseeing
  <2>1. stage[r] = "respond" /\ stage' = [stage EXCEPT ![r] = "done"] /\ UNCHANGED <<entry, ring, panel>>
    BY <1>6 DEF respond, Goes
  <2>2. UNCHANGED stdout \/ Write(Msg("answer", r, 0))
    BY <1>6 DEF respond
  <2>3. Msg("answer", r, 0) \in Message /\ Msg("answer", r, 0).kind = "answer"
    BY MsgTypes
  <2> QED
    BY <1>0, <2>1, <2>2, <2>3 DEF SideTypes
<1>7. CASE CloseStdin \/ Exit \/ UNCHANGED sideVars
  <2>1. UNCHANGED <<stage, entry, ring, stdout, panel>>
    BY <1>7 DEF CloseStdin, Exit, sideVars
  <2> QED
    BY <1>0, <2>1, PanelKept
<1> QED
  BY <1>1, <1>2, <1>3, <1>4, <1>5, <1>6, <1>7, PanelKept, RingAppends, EventWritten, PastAsked, PastAnswered, MessageTaken
     DEF SideNext

\* However the events of concurrent requests overtake each other and the past
\* that the panel asked for, it ends with the last entries of the log and no
\* others (logFeed.ts, LogPanelView.vue, logbuf.go:62-98).
THEOREM PanelIsCurrent == SideSpec => []PanelShowsTheLog
<1>1. FeedInv => PanelShowsTheLog
  <2> SUFFICES ASSUME FeedInv, panel.backfill = "merged", Unseen = {},
                      \A r \in Requests : stage[r] \notin Announcing
               PROVE  panel.items = Window
    BY DEF PanelShowsTheLog, Announcing, Window
  <2>1. PanelInv /\ RingInv /\ ring.seq \in Nat /\ LogMax \in Nat /\ LogMax > 0
    BY LogAssumption DEF FeedInv, RingInv
  <2>2. \A n : ~Flying(n)
    BY DEF Flying, Unseen
  <2>3. Window \subseteq panel.items /\ panel.items \subseteq 1..ring.seq
    BY <2>1, <2>2 DEF PanelInv
  <2>4. ASSUME NEW n \in panel.items PROVE n + LogMax > ring.seq
    <3> SUFFICES ASSUME n + LogMax <= ring.seq PROVE FALSE
      BY <2>1, <2>3
    <3> DEFINE oldest == (ring.seq - LogMax) + 1
               newer == {m \in panel.items : m > n}
    <3>1. n \in Nat /\ oldest \in Nat /\ n < oldest /\ oldest + LogMax = ring.seq + 1 /\ oldest > 0
      BY <2>1, <2>3
    <3> HIDE DEF oldest
    <3>2. oldest..ring.seq \subseteq newer
      <4>1. ASSUME NEW k \in oldest..ring.seq PROVE k \in Window /\ k > n
        BY <2>1, <3>1 DEF Window
      <4> QED
        BY <2>3, <4>1
    <3>3. newer \subseteq 1..ring.seq
      BY <2>3
    <3>4. Cardinality(newer) < LogMax
      BY <2>1 DEF PanelInv, Cut
    <3> HIDE DEF newer
    <3>5. IsFiniteSet(newer) /\ Cardinality(newer) \in Nat
      BY <2>1, <3>3, Between
    <3>6. Cardinality(oldest..ring.seq) = LogMax
      <4>1. oldest \in Int /\ ring.seq \in Int /\ oldest <= ring.seq
        BY <2>1, <3>1
      <4>2. Cardinality(oldest..ring.seq) = (ring.seq - oldest) + 1
        BY <4>1, FS_Interval
      <4> QED
        BY <2>1, <3>1, <4>2
    <3>7. Cardinality(oldest..ring.seq) <= Cardinality(newer)
      BY <3>2, <3>5, FS_Subset
    <3> QED
      BY <2>1, <3>4, <3>5, <3>6, <3>7
  <2> QED
    BY <2>3, <2>4 DEF Window
<1> QED
  BY <1>1, FeedInit, FeedStep, PTL DEF SideSpec
=============================================================================
