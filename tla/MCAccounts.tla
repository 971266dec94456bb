------------------------------ MODULE MCAccounts -------------------------------
(* A small instance of Accounts for TLC. *)
EXTENDS Accounts, TLC

CONSTANTS s1, s2, s3, h1, h2

ThreeSessions == {s1, s2, s3}
TwoHandlers == {h1, h2}

\* Wrong passwords and long chains of sessions are explored apart: the counters and
\* the sessions share no guard.
FailuresOrSessions ==
  \/ Cardinality({s \in Sessions : family[s] # None}) <= 1
  \/ /\ tries = 0 /\ failed = 0 /\ lock = "none"
     /\ \A h \in Handlers : handlers[h].pc = "verifying" => handlers[h].good
     /\ student => consent

Symmetry == Permutations({s1, s2, s3}) \union Permutations({h1, h2})
=============================================================================
