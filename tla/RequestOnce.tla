---------------------------- MODULE RequestOnce ----------------------------
(***************************************************************************)
(* What the connection layer promises the caller of an LDAP operation, with *)
(* no entry, lock or socket in sight: a call runs, reaches the server some  *)
(* number of times and returns.  A write reaches it at most once, a read at *)
(* most twice, and ok is the answer only of a call that reached it.         *)
(***************************************************************************)
EXTENDS Naturals

CONSTANT Procs

VARIABLE call

NoCall == [st |-> "idle", kind |-> "read", hits |-> 0, answer |-> "none"]

Init == call = [p \in Procs |-> NoCall]

\* Something that is no LDAP operation takes the place of the last call.
Forget(p) ==
  /\ call[p].st # "running"
  /\ call' = [call EXCEPT ![p] = NoCall]

Start(p) ==
  /\ call[p].st # "running"
  /\ \E k \in {"read", "write"} :
       call' = [call EXCEPT ![p] = [st |-> "running", kind |-> k, hits |-> 0, answer |-> "none"]]

\* The server applies the call, but the answer is lost: only a read goes on.
Lose(p) ==
  /\ call[p].st = "running"
  /\ call[p].kind = "read"
  /\ call[p].hits = 0
  /\ call' = [call EXCEPT ![p].hits = 1]

Finish(p) ==
  /\ call[p].st = "running"
  /\ \E n \in 0..1, a \in {"ok", "error"} :
       /\ a = "ok" => n = 1
       /\ call' = [call EXCEPT ![p] =
                      [st |-> "done", kind |-> call[p].kind, hits |-> call[p].hits + n, answer |-> a]]

Next == \E p \in Procs : Forget(p) \/ Start(p) \/ Lose(p) \/ Finish(p)

Spec == Init /\ [][Next]_call
=============================================================================
