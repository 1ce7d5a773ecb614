-------------------------- MODULE MCAuthentication --------------------------
(* Authentication with one user and two sessions, a clock of half seconds, *)
(* and lifetimes of a few ticks.                                           *)
EXTENDS Authentication, TLC

CONSTANTS u1

OneUser == [s \in Sids |-> u1]
Interchangeable == Permutations(Sids) \union Permutations(Requests)

\* Bound: requests in flight at a time are of one session.
OneSessionBusy ==
    \A r, k \in Requests : pc[r] # "idle" /\ pc[k] # "idle" => sid[r] = sid[k]
=============================================================================
