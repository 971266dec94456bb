-------------------------------- MODULE Tenancy --------------------------------
(***************************************************************************)
(* Which organisation's rows a request, or the nightly worker, reaches:    *)
(* the middleware of main.py, the context variable of core/tenant.py, the  *)
(* sessions of core/database.py with their two filters (the criteria of    *)
(* the ORM and the row level security of PostgreSQL), the administration   *)
(* of organisations in endpoints/admin_tenants.py, and the tenants that    *)
(* the worker goes through in one transaction.                             *)
(*                                                                         *)
(* The context variable belongs to its task, so that requests meet only in *)
(* the rows, the roles and the cookies.  The criteria follow the variable  *)
(* at each statement; the settings of row level security are written when  *)
(* a transaction begins and stay until it ends or they are set again.      *)
(***************************************************************************)
EXTENDS Naturals, FiniteSets

CONSTANTS
  Tenants,      \* organisations
  Default,      \* the one that is seeded
  Users,        \* accounts that log in
  Home,         \* the organisation of each
  Requests,     \* concurrent requests of the API
  Certificates, \* certificates that may be due
  Owner,        \* the organisation of each
  None,         \* null; no tenant; no token
  Unscoped,     \* _UNSCOPED
  Missing,      \* _MISSING
  Unset         \* _UNSET

ASSUME ConstantsAssumption ==
  /\ Default \in Tenants
  /\ Home \in [Users -> Tenants]
  /\ Owner \in [Certificates -> Tenants]
  /\ {None, Unscoped, Missing, Unset} \intersect (Tenants \union Users) = {}
  /\ None \notin {Unscoped, Missing, Unset}
  /\ Unscoped \notin {Missing, Unset}
  /\ Missing # Unset

Context == Tenants \union {Unscoped, Missing, Unset}

\* What a transaction may see: one organisation, nothing, or everything.
Bypass == Tenants
NoTransaction == [open |-> FALSE, sees |-> {}]

\* The three places that set the variable and reset it on the way out: the
\* middleware, the dependency that opens the session, and a block of the handler.
\* claim: the role in its token; scope: the tenant it is for, touched: the tenants whose
\* rows it saw or wrote (history).
RequestRecord ==
  [pc: {"idle", "arrived", "open"}, user: Users \union {None},
   claim: {"none", "user", "superuser"}, route: {"tenant", "public", "global"},
   middleware: Context \union {None}, dependency: Context \union {None},
   block: Context \union {None}, scope: Tenants \union {None},
   touched: SUBSET Tenants, transaction: [open: BOOLEAN, sees: SUBSET Tenants]]
NoRequest ==
  [pc |-> "idle", user |-> None, claim |-> "none", route |-> "tenant", middleware |-> None,
   dependency |-> None, block |-> None, scope |-> None, touched |-> {},
   transaction |-> NoTransaction]

\* The worker's transaction: certificates to do and done, rows written in memory only.
WorkerRecord ==
  [pc: {"idle", "choosing", "expiring"}, todo: SUBSET Certificates,
   done: SUBSET Certificates, now: Certificates \union {None},
   unflushed: SUBSET Certificates, sees: SUBSET Tenants]
NoWorker ==
  [pc |-> "idle", todo |-> {}, done |-> {}, now |-> None, unflushed |-> {}, sees |-> {}]

VARIABLES
  orgs,        \* rows of tenants
  active,      \* those with is_active
  superusers,  \* users whose role is superuser
  claims,      \* the role in each user's access token, "none" without one
  acting,      \* the cookie acting_tenant of each user
  requests,    \* the requests being served
  expired,     \* certificates whose status is expired
  worker,      \* the run of check_expired_certificates
  told,        \* certificates whose students were told that they expired (history)
  mixed,       \* a run met certificates of two organisations (history)
  died         \* a run was cut off before its commit (history)

accounts == <<orgs, active, superusers, claims, acting>>
nightly == <<expired, worker, told, mixed, died>>
vars == <<accounts, requests, nightly>>

Init ==
  /\ orgs = {Default}
  /\ active = {Default}
  /\ superusers \in SUBSET {u \in Users : Home[u] = Default}
  /\ claims = [u \in Users |-> "none"]
  /\ acting = [u \in Users |-> None]
  /\ requests = [r \in Requests |-> NoRequest]
  /\ expired = {}
  /\ worker = NoWorker
  /\ told = {}
  /\ mixed = FALSE
  /\ died = FALSE

-----------------------------------------------------------------------------
(* Resolving the tenant.                                                   *)

\* Faults of the definitions below: the host goes before the token; the public session is
\* left without a filter after it looked up the default tenant; the settings are those of
\* the moment the session was made; they are not renewed for a tenant; a status is changed
\* without looking for the tenant; the last certificate of a run is not committed.
AfterToken_HostFirst(u, host) == IF host \in orgs THEN host ELSE Home[u]
Dependency_NotReset(route, middleware) ==
  IF route = "global" \/ (route = "public" /\ middleware = Missing) THEN Unscoped ELSE None
Settings_Early(context) == Bypass
SettingsFor_Kept(t) == Bypass
Found_Unchecked(t) == TRUE
Committed_ButLast(w) == w.done \ {w.now}

\* _resolve_tenant_from_token: the cookie, or the header, is honoured for a token of a
\* superuser and a tenant that is active now, but not where tokens are given, renewed and ended
\* (_AUTH_PATHS).
Impersonates(u, auth) ==
  /\ ~auth
  /\ acting[u] # None
  /\ claims[u] = "superuser"
  /\ acting[u] \in active

\* The claim goes before the host.
AfterToken(u, host) == Home[u]

TenantOf(u, host, auth) ==
  IF u # None
    THEN IF Impersonates(u, auth) THEN acting[u] ELSE AfterToken(u, host)
    ELSE IF host \in orgs THEN host ELSE None

\* tenant_context_middleware: no tenant is marked as such.
Middleware(t) == IF t = None THEN Missing ELSE t

\* get_db sets nothing; get_db_public puts the default tenant in place of a missing
\* one; get_db_unscoped lifts the filter.
Dependency(route, middleware) ==
  IF route = "global" THEN Unscoped
  ELSE IF route = "public" /\ middleware = Missing THEN Default
  ELSE None

\* The innermost setting that has not been reset.
Current(q) ==
  IF q.block # None THEN q.block
  ELSE IF q.dependency # None THEN q.dependency
  ELSE IF q.middleware # None THEN q.middleware
  ELSE Unset

\* _with_tenant_criteria: none at all for a missing tenant, no filter without a tenant.
Criteria(context) ==
  IF context \in Tenants THEN {context}
  ELSE IF context = Missing THEN {}
  ELSE Tenants

\* _rls_context_values, at the beginning of a transaction.
Settings(context) ==
  IF context \in Tenants THEN {context}
  ELSE IF context = Missing THEN {}
  ELSE Bypass

\* set_rls_context, in the midst of a transaction.
SettingsFor(t) == {t}

-----------------------------------------------------------------------------
(* Requests.                                                               *)

Update(r, q) == requests' = [requests EXCEPT ![r] = q]

\* A request of a user with a token, or of anybody, for a host of some tenant or of none.  The
\* session of the routes of _AUTH_PATHS is the public one or the one without a filter.
Arrive(r, u, host, route, auth) ==
  /\ requests[r].pc = "idle"
  /\ auth => route # "tenant"
  /\ u # None => claims[u] # "none"
  /\ Update(r, [pc |-> "arrived", user |-> u,
                claim |-> IF u = None THEN "none" ELSE claims[u], route |-> route,
                middleware |-> Middleware(TenantOf(u, host, auth)), dependency |-> None,
                block |-> None, scope |-> TenantOf(u, host, auth), touched |-> {},
                transaction |-> NoTransaction])
  /\ UNCHANGED <<accounts, nightly>>

\* Only public routes and the gateway's notifications do without a user.
OpenSession(r) ==
  LET q == requests[r] IN
  /\ q.pc = "arrived"
  /\ Update(r, [q EXCEPT
       !.pc = "open",
       !.dependency = Dependency(q.route, q.middleware),
       !.scope = IF q.route = "public" /\ q.scope = None THEN Default ELSE q.scope])
  /\ UNCHANGED <<accounts, nightly>>

\* The transaction a statement runs in, begun by it if there is none.
Begun(q) ==
  IF q.transaction.open THEN q.transaction
  ELSE [open |-> TRUE, sees |-> Settings(Current(q))]

\* A query, an update or an insert: both filters apply, and an insert gets the tenant
\* of the context.  Without a tenant nothing is executed: TenantContextRequired.
Execute(r) ==
  LET q == requests[r]
      sees == Criteria(Current(q)) \intersect Begun(q).sees
  IN /\ q.pc = "open"
     /\ Current(q) # Missing
     /\ Update(r, [q EXCEPT !.transaction = Begun(q), !.touched = q.touched \union sees])
     /\ UNCHANGED <<accounts, nightly>>

\* The refresh of a session and a notification find one row without a filter and go on
\* in its tenant, for which they set the transaction again.
EnterTenant(r, t) ==
  LET q == requests[r] IN
  /\ q.pc = "open"
  /\ q.route = "global"
  /\ q.block = None
  /\ q.transaction.open
  /\ t \in orgs
  /\ Update(r, [q EXCEPT !.block = t, !.transaction = [open |-> TRUE, sees |-> SettingsFor(t)]])
  /\ UNCHANGED <<accounts, nightly>>

LeaveTenant(r) ==
  /\ requests[r].pc = "open"
  /\ requests[r].block # None
  /\ Update(r, [requests[r] EXCEPT !.block = None])
  /\ UNCHANGED <<accounts, nightly>>

\* Some handlers commit on their way; the next statement begins anew.
CommitEarly(r) ==
  /\ requests[r].pc = "open"
  /\ requests[r].transaction.open
  /\ Update(r, [requests[r] EXCEPT !.transaction = NoTransaction])
  /\ UNCHANGED <<accounts, nightly>>

\* The session is committed or rolled back and all that was set is reset.
Respond(r) ==
  /\ requests[r].pc # "idle"
  /\ requests[r].block = None
  /\ Update(r, NoRequest)
  /\ UNCHANGED <<accounts, nightly>>

-----------------------------------------------------------------------------
(* Users and organisations.                                                *)

\* A login, or the refresh of a session, puts the role of that moment in the token.
IssueToken(u) ==
  /\ Home[u] \in orgs
  /\ claims' = [claims EXCEPT ![u] = IF u \in superusers THEN "superuser" ELSE "user"]
  /\ UNCHANGED <<orgs, active, superusers, acting, requests, nightly>>

TokenExpires(u) ==
  /\ claims[u] # "none"
  /\ claims' = [claims EXCEPT ![u] = "none"]
  /\ UNCHANGED <<orgs, active, superusers, acting, requests, nightly>>

\* A superuser gives or takes the role; the tokens that are out keep theirs.
SetRole(u, super) ==
  /\ \E s \in superusers : claims[s] # "none" /\ (super \/ s # u)
  /\ superusers' = IF super THEN superusers \union {u} ELSE superusers \ {u}
  /\ UNCHANGED <<orgs, active, claims, acting, requests, nightly>>

\* _require_superuser looks at the row, not at the token.
MayAdminister(u) == claims[u] # "none" /\ u \in superusers

\* The tenant, its administrator, its bot and its settings in one transaction.
CreateTenant(u, t) ==
  /\ MayAdminister(u)
  /\ t \notin orgs
  /\ orgs' = orgs \union {t}
  /\ active' = active \union {t}
  /\ UNCHANGED <<superusers, claims, acting, requests, nightly>>

\* get_or_404.
Found(t) == t \in orgs

UpdateStatus(u, t, isActive) ==
  /\ MayAdminister(u)
  /\ Found(t)
  /\ active' = IF isActive THEN active \union {t} ELSE active \ {t}
  /\ UNCHANGED <<orgs, superusers, claims, acting, requests, nightly>>

Impersonate(u, t) ==
  /\ MayAdminister(u)
  /\ t \in active
  /\ acting' = [acting EXCEPT ![u] = t]
  /\ UNCHANGED <<orgs, active, superusers, claims, requests, nightly>>

\* Anybody who is logged in may drop his cookie; logout drops it as well.
StopImpersonation(u) ==
  /\ claims[u] # "none"
  /\ acting[u] # None
  /\ acting' = [acting EXCEPT ![u] = None]
  /\ UNCHANGED <<orgs, active, superusers, claims, requests, nightly>>

-----------------------------------------------------------------------------
(* The worker: one session for the certificates of every tenant.           *)

\* The query is made without a context, and so without a filter.
WorkerStart(due) ==
  /\ worker.pc = "idle"
  /\ due # {}
  /\ due \subseteq {c \in Certificates \ expired : Owner[c] \in orgs}
  /\ worker' = [NoWorker EXCEPT !.pc = "choosing", !.todo = due, !.sees = Bypass]
  /\ mixed' = (mixed \/ \E c, d \in due : Owner[c] # Owner[d])
  /\ UNCHANGED <<accounts, requests, expired, told, died>>

WorkerNext(c) ==
  /\ worker.pc = "choosing"
  /\ c \in worker.todo
  /\ worker' = [worker EXCEPT !.pc = "expiring", !.todo = worker.todo \ {c}, !.now = c,
                              !.unflushed = worker.unflushed \union {c},
                              !.sees = SettingsFor(Owner[c])]
  /\ UNCHANGED <<accounts, requests, expired, told, mixed, died>>

\* Everything changed so far is written; a row that the settings hide is not found and
\* the run fails, with everything rolled back.
Hidden(w) == \E c \in w.unflushed : Owner[c] \notin w.sees

\* The flush before the mail.  The outcome of the mail is noted in its audit row, which
\* stays to be written with the next flush.
WorkerExpires ==
  /\ worker.pc = "expiring"
  /\ IF Hidden(worker)
       THEN /\ worker' = NoWorker
            /\ UNCHANGED told
       ELSE /\ worker' = [worker EXCEPT !.pc = "choosing", !.done = worker.done \union {worker.now},
                                        !.unflushed = {worker.now}]
            /\ told' = told \union {worker.now}
  /\ UNCHANGED <<accounts, requests, expired, mixed, died>>

\* The last flush and the commit.
Committed(w) == w.done

WorkerCommits ==
  /\ worker.pc = "choosing"
  /\ worker.todo = {}
  /\ expired' = IF Hidden(worker) THEN expired ELSE expired \union Committed(worker)
  /\ worker' = NoWorker
  /\ UNCHANGED <<accounts, requests, told, mixed, died>>

\* The process ends, or the pool gives up the task: what was not committed is lost, and
\* the mails are out.
WorkerDies ==
  /\ worker.pc # "idle"
  /\ worker' = NoWorker
  /\ died' = TRUE
  /\ UNCHANGED <<accounts, requests, expired, told, mixed>>

RequestStep(r) ==
  \/ \E u \in Users \union {None}, host \in Tenants \union {None} :
       \E route \in {"tenant", "public", "global"}, auth \in BOOLEAN :
         Arrive(r, u, host, route, auth)
  \/ OpenSession(r)
  \/ Execute(r)
  \/ \E t \in Tenants : EnterTenant(r, t)
  \/ LeaveTenant(r)
  \/ CommitEarly(r)
  \/ Respond(r)

UserStep(u) ==
  \/ IssueToken(u)
  \/ TokenExpires(u)
  \/ \E super \in BOOLEAN : SetRole(u, super)
  \/ StopImpersonation(u)
  \/ \E t \in Tenants :
       \/ CreateTenant(u, t)
       \/ Impersonate(u, t)
       \/ \E isActive \in BOOLEAN : UpdateStatus(u, t, isActive)

WorkerStep ==
  \/ \E due \in SUBSET Certificates : WorkerStart(due)
  \/ \E c \in Certificates : WorkerNext(c)
  \/ WorkerExpires
  \/ WorkerCommits
  \/ WorkerDies

Next ==
  \/ \E r \in Requests : RequestStep(r)
  \/ \E u \in Users : UserStep(u)
  \/ WorkerStep

Spec == Init /\ [][Next]_vars

-----------------------------------------------------------------------------
(* Properties.                                                             *)

\* Rows, cookies and requests have the values the code gives them; only organisations
\* that exist are active or acted for.
TypeOK ==
  /\ orgs \subseteq Tenants
  /\ active \subseteq orgs
  /\ superusers \subseteq Users
  /\ claims \in [Users -> {"none", "user", "superuser"}]
  /\ acting \in [Users -> orgs \union {None}]
  /\ requests \in [Requests -> RequestRecord]
  /\ expired \subseteq Certificates
  /\ worker \in WorkerRecord
  /\ told \subseteq Certificates
  /\ mixed \in BOOLEAN
  /\ died \in BOOLEAN

\* A request that is not global reaches the rows of the tenant that was resolved for it,
\* and none without one (tenant_context_middleware, get_db, get_db_public).
Isolated ==
  \A r \in Requests :
    requests[r].route # "global" => requests[r].touched \subseteq {requests[r].scope}

\* Whatever host he writes to and whatever cookie he sends, a user whose token is not a
\* superuser's reaches his own organisation's rows only (_resolve_tenant_from_token).
OwnTenantOnly ==
  \A r \in Requests :
    LET q == requests[r] IN
    q.route # "global" /\ q.user # None /\ q.claim # "superuser"
      => q.touched \subseteq {Home[q.user]}

\* Row level security alone confines a request, were the criteria forgotten: every
\* transaction of a route that is not global sees the request's tenant
\* (_set_rls_context_on_begin).
DefenceInDepth ==
  \A r \in Requests :
    LET q == requests[r] IN
    q.route # "global" /\ q.transaction.open => q.transaction.sees = {q.scope}

\* While the refresh of a session or a notification works in a tenant, its transaction
\* sees no other, although it was begun without a filter (set_rls_context).
BlockIsConfined ==
  \A r \in Requests :
    LET q == requests[r] IN
    q.block # None /\ q.transaction.open => q.transaction.sees = {q.block}

\* A student who was told that the certificate expired finds it expired once the run is
\* over, unless a run was cut off (_async_check_expired_certificates).
ToldMeansExpired == worker.pc = "idle" /\ ~died => told \subseteq expired

\* The same, as long as no run has met certificates of two organisations.
ToldMeansExpiredInOneTenant == ~mixed => ToldMeansExpired

-----------------------------------------------------------------------------
(* The inductive invariant.                                                *)

\* Before its session is open a request has touched nothing, and an idle one is blank.
NotYetOpen(q) ==
  q.pc # "open" =>
    /\ q.block = None
    /\ q.dependency = None
    /\ ~q.transaction.open
    /\ q.touched = {}

\* A request that is not global is in the context of its scope, and so is its transaction.
Confined(q) ==
  q.route # "global" =>
    /\ q.block = None
    /\ q.pc # "idle" => Current(q) = Middleware(q.scope)
    /\ q.transaction.open => q.scope # None /\ q.transaction.sees = {q.scope}
    /\ q.touched \subseteq {q.scope}

\* A block is a tenant's, in a global request.
BlockAgrees(q) ==
  q.block # None =>
    /\ q.route = "global"
    /\ q.block \in Tenants
    /\ q.transaction.open => q.transaction.sees = {q.block}

\* The scope of a user who is no superuser is his own organisation.
ScopeIsHome(q) ==
  q.pc # "idle" /\ q.user # None /\ q.claim # "superuser" => q.scope = Home[q.user]

RequestsAgree ==
  \A r \in Requests :
    /\ NotYetOpen(requests[r])
    /\ Confined(requests[r])
    /\ BlockAgrees(requests[r])
    /\ ScopeIsHome(requests[r])

\* In a run of one organisation all that is to be written is visible, and who was told
\* is expired or will be with the commit.
WorkerAgrees ==
  /\ worker.pc = "idle" => worker = NoWorker
  /\ worker.pc = "expiring" => worker.now \in worker.unflushed
  /\ ~mixed =>
       /\ \A c, d \in worker.todo \union worker.unflushed : Owner[c] = Owner[d]
       /\ ~Hidden(worker)
       /\ ~died => told \subseteq expired \union worker.done

IInv == TypeOK /\ RequestsAgree /\ WorkerAgrees
=============================================================================
