------------------------------- MODULE MCTenancy -------------------------------
(* Small instances of Tenancy for TLC. *)
EXTENDS Tenancy, TLC

CONSTANTS a, b, root, ann, r1, c1, c2, c3

TwoTenants == {a, b}
TwoUsers == {root, ann}
NoUsers == {}
HomeOf == root :> a @@ ann :> b
HomeOfNobody == <<>>
OneRequest == {r1}
NoRequests == {}
TwoCertificates == {c1, c2}
ThreeCertificates == {c1, c2, c3}
OwnerOf == c1 :> a @@ c2 :> a @@ c3 :> b

\* The worker and the requests meet in the organisations only; they are run apart.
WorkerOrRequests ==
  \/ worker = NoWorker /\ told = {} /\ expired = {} /\ ~mixed /\ ~died
  \/ /\ \A r \in Requests : requests[r] = NoRequest
     /\ \A u \in Users : acting[u] = None
=============================================================================
