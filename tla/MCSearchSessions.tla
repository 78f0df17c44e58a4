-------------------------- MODULE MCSearchSessions --------------------------
(* SearchSessions for TLC: the processes, entries and sessions are interchangeable. *)
EXTENDS SearchSessions, TLC

Interchangeable ==
  Permutations(Procs) \cup Permutations(ConnIds) \cup Permutations(Entries) \cup Permutations(Sessions)
=============================================================================
