---------------------------- MODULE TenancyProofs ----------------------------
(***************************************************************************)
(* Theorems about Tenancy, for any number of organisations, users,         *)
(* requests and certificates: no request reaches the rows of an            *)
(* organisation that is not its own, by the criteria of the ORM or by the  *)
(* row level security alone, and the worker keeps what it told as long as  *)
(* it goes through one organisation.  They rest on one inductive           *)
(* invariant, Tenancy!IInv.                                                *)
(***************************************************************************)
EXTENDS Tenancy, TLAPS

-----------------------------------------------------------------------------
(* Operators.                                                              *)

\* The special values are no organisations and no users.
LEMMA Distinct ==
  /\ None \notin Tenants
  /\ None \notin Users
  /\ Missing \notin Tenants
  /\ Unscoped \notin Tenants
  /\ None # Missing
  /\ None # Unscoped
  /\ Missing # Unscoped
  /\ Default \in Tenants
  /\ Home \in [Users -> Tenants]
  /\ Owner \in [Certificates -> Tenants]
  BY ConstantsAssumption

\* A blank request and a blank run are well formed.
LEMMA Blank == NoRequest \in RequestRecord /\ NoWorker \in WorkerRecord
  BY DEF NoRequest, RequestRecord, NoTransaction, Context, NoWorker, WorkerRecord

\* What is resolved is an organisation or none, and for a token that is not a
\* superuser's the organisation of the user.
LEMMA Resolved ==
  ASSUME TypeOK, NEW u \in Users \union {None}, NEW host \in Tenants \union {None},
         NEW auth \in BOOLEAN
  PROVE  /\ TenantOf(u, host, auth) \in Tenants \union {None}
         /\ u # None /\ claims[u] # "superuser" => TenantOf(u, host, auth) = Home[u]
<1>1. CASE u = None BY <1>1, Distinct DEF TypeOK, TenantOf
<1>2. CASE u # None
  <2>1. u \in Users BY <1>2
  <2>2. Home[u] \in Tenants BY <2>1, Distinct
  <2>3. Impersonates(u, auth) => acting[u] \in Tenants /\ claims[u] = "superuser"
    BY <2>1 DEF TypeOK, Impersonates
  <2> QED BY <1>2, <2>1, <2>2, <2>3 DEF TenantOf, AfterToken
<1> QED BY <1>1, <1>2

\* In the context of an organisation both filters let its rows through, and no other's.
LEMMA OneTenant ==
  ASSUME NEW t \in Tenants
  PROVE  Criteria(t) = {t} /\ Settings(t) = {t} /\ SettingsFor(t) = {t}
  BY DEF Criteria, Settings, SettingsFor

-----------------------------------------------------------------------------
(* Requests.                                                               *)

Agrees(q) == NotYetOpen(q) /\ Confined(q) /\ BlockAgrees(q) /\ ScopeIsHome(q)

\* A step of one request keeps the invariant if its record agrees.
LEMMA RequestKeeps ==
  ASSUME IInv, NEW r \in Requests, NEW x \in RequestRecord, Agrees(x), Update(r, x),
         UNCHANGED <<accounts, nightly>>
  PROVE  IInv'
<1>1. requests' = [requests EXCEPT ![r] = x] BY DEF Update
<1>2. TypeOK'
  <2>1. requests' \in [Requests -> RequestRecord] BY <1>1 DEF IInv, TypeOK
  <2> QED BY <2>1 DEF IInv, TypeOK, accounts, nightly
<1>3. RequestsAgree'
  <2> SUFFICES ASSUME NEW q \in Requests PROVE Agrees(requests'[q])
    BY DEF RequestsAgree, Agrees
  <2>1. CASE q = r
    <3>1. requests'[q] = x BY <1>1, <2>1 DEF IInv, TypeOK
    <3> QED BY <3>1
  <2>2. CASE q # r
    <3>1. requests'[q] = requests[q] BY <1>1, <2>2 DEF IInv, TypeOK
    <3>2. Agrees(requests[q]) BY DEF IInv, RequestsAgree, Agrees
    <3> QED BY <3>1, <3>2
  <2> QED BY <2>1, <2>2
<1>4. WorkerAgrees' BY DEF IInv, WorkerAgrees, nightly, Hidden
<1> QED BY <1>2, <1>3, <1>4 DEF IInv

\* Every request agrees, and has its type.
LEMMA RequestHas ==
  ASSUME IInv, NEW r \in Requests
  PROVE  requests[r] \in RequestRecord /\ Agrees(requests[r])
  BY DEF IInv, TypeOK, RequestsAgree, Agrees

\* A blank request agrees.
LEMMA BlankAgrees == Agrees(NoRequest)
  BY Distinct DEF Agrees, NoRequest, NoTransaction, NotYetOpen, Confined, BlockAgrees, ScopeIsHome

\* The middleware resolves the scope and sets the context to it.
LEMMA ArriveKeeps ==
  ASSUME IInv, NEW r \in Requests, NEW u \in Users \union {None},
         NEW host \in Tenants \union {None}, NEW route \in {"tenant", "public", "global"},
         NEW auth \in BOOLEAN, Arrive(r, u, host, route, auth)
  PROVE  IInv'
<1> DEFINE t == TenantOf(u, host, auth)
           claim == IF u = None THEN "none" ELSE claims[u]
           x == [pc |-> "arrived", user |-> u, claim |-> claim, route |-> route,
                 middleware |-> Middleware(t), dependency |-> None, block |-> None,
                 scope |-> t, touched |-> {}, transaction |-> NoTransaction]
<1>1. t \in Tenants \union {None} BY Resolved DEF IInv
<1>2. claim \in {"none", "user", "superuser"} BY DEF IInv, TypeOK
<1>3. Middleware(t) \in Context \union {None} BY <1>1 DEF Middleware, Context
<1>4. Update(r, x) /\ UNCHANGED <<accounts, nightly>> BY DEF Arrive
<1>5. u # None /\ claim # "superuser" => t = Home[u] BY Resolved DEF IInv
<1>6. Middleware(t) # None BY <1>1, Distinct DEF Middleware
<1> HIDE DEF t, claim
<1>7. x \in RequestRecord
  BY <1>1, <1>2, <1>3 DEF RequestRecord, NoTransaction, Context
<1>8. Agrees(x)
  BY <1>5, <1>6 DEF Agrees, NotYetOpen, Confined, BlockAgrees, ScopeIsHome, Current, NoTransaction
<1> HIDE DEF x
<1> QED BY <1>4, <1>7, <1>8, RequestKeeps

\* The public session puts the default organisation in the place of a missing one, and
\* the scope follows.
LEMMA OpenSessionKeeps ==
  ASSUME IInv, NEW r \in Requests, OpenSession(r)
  PROVE  IInv'
<1> DEFINE q == requests[r]
           dependency == Dependency(q.route, q.middleware)
           scope == IF q.route = "public" /\ q.scope = None THEN Default ELSE q.scope
           x == [q EXCEPT !.pc = "open"]
           y == [x EXCEPT !.dependency = dependency]
           z == [y EXCEPT !.scope = scope]
<1>1. q \in RequestRecord /\ Agrees(q) /\ q.pc = "arrived" BY RequestHas DEF OpenSession
<1>2. Update(r, z) /\ UNCHANGED <<accounts, nightly>> BY DEF OpenSession
<1> HIDE DEF q
<1>3. q.block = None /\ q.dependency = None /\ ~q.transaction.open /\ q.touched = {}
  BY <1>1 DEF Agrees, NotYetOpen
<1>4. dependency \in Context \union {None} BY Distinct DEF Dependency, Context
<1>5. scope \in Tenants \union {None} BY <1>1, Distinct DEF RequestRecord
<1>6. q.route # "global" => q.middleware = Middleware(q.scope)
  <2> SUFFICES ASSUME q.route # "global" PROVE q.middleware = Middleware(q.scope) OBVIOUS
  <2>1. Current(q) = Middleware(q.scope) BY <1>1 DEF Agrees, Confined
  <2>2. Middleware(q.scope) # None /\ Middleware(q.scope) # Unset
    BY <1>1, Distinct, ConstantsAssumption DEF Middleware, RequestRecord
  <2> QED BY <1>3, <2>1, <2>2 DEF Current
<1>7. q.route # "global" =>
        (IF dependency # None THEN dependency ELSE q.middleware) = Middleware(scope)
  BY <1>1, <1>6, Distinct DEF Dependency, Middleware, RequestRecord
<1>8. q.route # "global" => q.middleware # None
  BY <1>6, Distinct DEF Middleware
<1>9. q.user # None /\ q.claim # "superuser" => scope = Home[q.user]
  <2>1. q.user # None /\ q.claim # "superuser" => q.scope = Home[q.user]
    BY <1>1 DEF Agrees, ScopeIsHome
  <2>2. q.user # None => Home[q.user] \in Tenants BY <1>1, Distinct DEF RequestRecord
  <2> QED BY <2>1, <2>2, Distinct
<1> HIDE DEF dependency, scope
<1>10. x \in RequestRecord /\ x.pc = "open" /\ x.user = q.user /\ x.claim = q.claim
         /\ x.route = q.route /\ x.middleware = q.middleware /\ x.block = q.block
         /\ x.touched = q.touched /\ x.transaction = q.transaction
  BY <1>1 DEF RequestRecord
<1> HIDE DEF x
<1>11. y \in RequestRecord /\ y.pc = "open" /\ y.user = q.user /\ y.claim = q.claim
         /\ y.route = q.route /\ y.middleware = q.middleware /\ y.block = q.block
         /\ y.touched = q.touched /\ y.transaction = q.transaction
         /\ y.dependency = dependency
  BY <1>4, <1>10 DEF RequestRecord
<1> HIDE DEF y
<1>12. z \in RequestRecord /\ z.pc = "open" /\ z.user = q.user /\ z.claim = q.claim
         /\ z.route = q.route /\ z.middleware = q.middleware /\ z.block = q.block
         /\ z.touched = q.touched /\ z.transaction = q.transaction
         /\ z.dependency = dependency /\ z.scope = scope
  BY <1>5, <1>11 DEF RequestRecord
<1> HIDE DEF z
<1>13. NotYetOpen(z) BY <1>12 DEF NotYetOpen
<1>14. Confined(z)
  BY <1>3, <1>7, <1>8, <1>12 DEF Confined, Current
<1>15. BlockAgrees(z) BY <1>3, <1>12 DEF BlockAgrees
<1>16. ScopeIsHome(z) BY <1>9, <1>12 DEF ScopeIsHome
<1> QED BY <1>2, <1>12, <1>13, <1>14, <1>15, <1>16, RequestKeeps DEF Agrees

\* A statement sees what the context lets through, in a transaction whose settings are
\* those of the same context.
LEMMA ExecuteKeeps ==
  ASSUME IInv, NEW r \in Requests, Execute(r)
  PROVE  IInv'
<1> DEFINE q == requests[r]
           begun == Begun(q)
           sees == Criteria(Current(q)) \intersect begun.sees
           touched == q.touched \union sees
           x == [q EXCEPT !.transaction = begun]
           y == [x EXCEPT !.touched = touched]
<1>1. q \in RequestRecord /\ Agrees(q) /\ q.pc = "open" /\ Current(q) # Missing
  BY RequestHas DEF Execute
<1>2. Update(r, y) /\ UNCHANGED <<accounts, nightly>> BY DEF Execute
<1> HIDE DEF q
<1>3. begun \in [open: BOOLEAN, sees: SUBSET Tenants] /\ begun.open
  <2>1. Settings(Current(q)) \in SUBSET Tenants BY DEF Settings, Bypass
  <2> QED BY <1>1, <2>1 DEF Begun, RequestRecord
<1>4. touched \in SUBSET Tenants BY <1>1, <1>3 DEF RequestRecord
<1>5. q.route # "global" =>
        q.scope # None /\ begun.sees = {q.scope} /\ touched \subseteq {q.scope}
  <2> SUFFICES ASSUME q.route # "global"
               PROVE  q.scope # None /\ begun.sees = {q.scope} /\ touched \subseteq {q.scope}
    OBVIOUS
  <2>1. Current(q) = Middleware(q.scope) BY <1>1 DEF Agrees, Confined
  <2>2. q.scope # None /\ Current(q) = q.scope BY <1>1, <2>1 DEF Middleware
  <2>3. q.scope \in Tenants BY <1>1, <2>2 DEF RequestRecord
  <2>4. Criteria(q.scope) = {q.scope} /\ Settings(q.scope) = {q.scope} BY <2>3, OneTenant
  <2>5. begun.sees = {q.scope} BY <1>1, <2>2, <2>4 DEF Begun, Agrees, Confined
  <2>6. q.touched \subseteq {q.scope} BY <1>1 DEF Agrees, Confined
  <2> QED BY <2>2, <2>4, <2>5, <2>6
<1>6. q.block # None => begun.sees = {q.block}
  <2> SUFFICES ASSUME q.block # None PROVE begun.sees = {q.block} OBVIOUS
  <2>1. q.block \in Tenants BY <1>1 DEF Agrees, BlockAgrees
  <2>2. Current(q) = q.block BY DEF Current
  <2> QED BY <1>1, <2>1, <2>2, OneTenant DEF Begun, Agrees, BlockAgrees
<1> HIDE DEF begun, touched
<1>7. x \in RequestRecord /\ x.pc = "open" /\ x.user = q.user /\ x.claim = q.claim
        /\ x.route = q.route /\ x.middleware = q.middleware /\ x.block = q.block
        /\ x.dependency = q.dependency /\ x.scope = q.scope /\ x.transaction = begun
  BY <1>1, <1>3 DEF RequestRecord
<1> HIDE DEF x
<1>8. y \in RequestRecord /\ y.pc = "open" /\ y.user = q.user /\ y.claim = q.claim
        /\ y.route = q.route /\ y.middleware = q.middleware /\ y.block = q.block
        /\ y.dependency = q.dependency /\ y.scope = q.scope /\ y.transaction = begun
        /\ y.touched = touched
  BY <1>4, <1>7 DEF RequestRecord
<1> HIDE DEF y
<1>9. NotYetOpen(y) BY <1>8 DEF NotYetOpen
<1>10. Confined(y)
  <2>1. Current(y) = Current(q) BY <1>8 DEF Current
  <2> QED BY <1>1, <1>5, <1>8, <2>1 DEF Agrees, Confined
<1>11. BlockAgrees(y) BY <1>1, <1>6, <1>8 DEF Agrees, BlockAgrees
<1>12. ScopeIsHome(y) BY <1>1, <1>8 DEF Agrees, ScopeIsHome
<1> QED BY <1>2, <1>8, <1>9, <1>10, <1>11, <1>12, RequestKeeps DEF Agrees

\* Whoever enters a tenant renews the settings of the transaction for it.
LEMMA EnterTenantKeeps ==
  ASSUME IInv, NEW r \in Requests, NEW t \in Tenants, EnterTenant(r, t)
  PROVE  IInv'
<1> DEFINE q == requests[r]
           transaction == [open |-> TRUE, sees |-> SettingsFor(t)]
           x == [q EXCEPT !.block = t]
           y == [x EXCEPT !.transaction = transaction]
<1>1. q \in RequestRecord /\ Agrees(q) /\ q.pc = "open" /\ q.route = "global"
  BY RequestHas DEF EnterTenant
<1>2. Update(r, y) /\ UNCHANGED <<accounts, nightly>> BY DEF EnterTenant
<1>3. transaction.sees = {t} BY DEF SettingsFor
<1>4. transaction \in [open: BOOLEAN, sees: SUBSET Tenants] BY DEF SettingsFor
<1> HIDE DEF q, transaction
<1>5. x \in RequestRecord /\ x.pc = "open" /\ x.user = q.user /\ x.claim = q.claim
        /\ x.route = q.route /\ x.block = t /\ x.scope = q.scope
  BY <1>1 DEF RequestRecord, Context
<1> HIDE DEF x
<1>6. y \in RequestRecord /\ y.pc = "open" /\ y.user = q.user /\ y.claim = q.claim
        /\ y.route = q.route /\ y.block = t /\ y.scope = q.scope
        /\ y.transaction = transaction
  BY <1>4, <1>5 DEF RequestRecord
<1> HIDE DEF y
<1>7. Agrees(y)
  BY <1>1, <1>3, <1>6 DEF Agrees, NotYetOpen, Confined, BlockAgrees, ScopeIsHome
<1> QED BY <1>2, <1>6, <1>7, RequestKeeps

\* Leaving it, a global request is without a filter again.
LEMMA LeaveTenantKeeps ==
  ASSUME IInv, NEW r \in Requests, LeaveTenant(r)
  PROVE  IInv'
<1> DEFINE q == requests[r]
           x == [q EXCEPT !.block = None]
<1>1. q \in RequestRecord /\ Agrees(q) /\ q.pc = "open" /\ q.block # None
  BY RequestHas DEF LeaveTenant
<1>2. Update(r, x) /\ UNCHANGED <<accounts, nightly>> BY DEF LeaveTenant
<1> HIDE DEF q
<1>3. q.route = "global" BY <1>1 DEF Agrees, BlockAgrees
<1>4. x \in RequestRecord /\ x.pc = "open" /\ x.user = q.user /\ x.claim = q.claim
        /\ x.route = q.route /\ x.block = None /\ x.scope = q.scope
  BY <1>1 DEF RequestRecord
<1> HIDE DEF x
<1>5. Agrees(x)
  BY <1>1, <1>3, <1>4 DEF Agrees, NotYetOpen, Confined, BlockAgrees, ScopeIsHome
<1> QED BY <1>2, <1>4, <1>5, RequestKeeps

\* A commit on the way ends the transaction only.
LEMMA CommitEarlyKeeps ==
  ASSUME IInv, NEW r \in Requests, CommitEarly(r)
  PROVE  IInv'
<1> DEFINE q == requests[r]
           x == [q EXCEPT !.transaction = NoTransaction]
<1>1. q \in RequestRecord /\ Agrees(q) /\ q.pc = "open" BY RequestHas DEF CommitEarly
<1>2. Update(r, x) /\ UNCHANGED <<accounts, nightly>> BY DEF CommitEarly
<1> HIDE DEF q
<1>3. x \in RequestRecord /\ x.pc = "open" /\ x.user = q.user /\ x.claim = q.claim
        /\ x.route = q.route /\ x.middleware = q.middleware /\ x.block = q.block
        /\ x.dependency = q.dependency /\ x.scope = q.scope /\ x.touched = q.touched
        /\ ~x.transaction.open
  BY <1>1 DEF RequestRecord, NoTransaction
<1> HIDE DEF x
<1>4. Current(x) = Current(q) BY <1>3 DEF Current
<1>5. Agrees(x)
  BY <1>1, <1>3, <1>4 DEF Agrees, NotYetOpen, Confined, BlockAgrees, ScopeIsHome
<1> QED BY <1>2, <1>3, <1>5, RequestKeeps

\* Every step of a request keeps the invariant.
LEMMA RequestStepKeeps ==
  ASSUME IInv, NEW r \in Requests, RequestStep(r)
  PROVE  IInv'
<1>1. CASE Respond(r) BY <1>1, Blank, BlankAgrees, RequestKeeps DEF Respond
<1> QED
  BY <1>1, ArriveKeeps, OpenSessionKeeps, ExecuteKeeps, EnterTenantKeeps, LeaveTenantKeeps,
     CommitEarlyKeeps DEF RequestStep

-----------------------------------------------------------------------------
(* Users and organisations.                                                *)

\* Organisations come, are never removed, and only those that exist are active or
\* acted for; no request that is being served is changed.
LEMMA UserStepKeeps ==
  ASSUME IInv, NEW u \in Users, UserStep(u)
  PROVE  IInv'
<1>1. UNCHANGED <<requests, nightly>>
  BY DEF UserStep, IssueToken, TokenExpires, SetRole, StopImpersonation, CreateTenant,
         Impersonate, UpdateStatus
<1>2. RequestsAgree' BY <1>1 DEF IInv, RequestsAgree
<1>3. WorkerAgrees' BY <1>1 DEF IInv, WorkerAgrees, nightly, Hidden
<1> DEFINE Typed ==
             /\ orgs' \subseteq Tenants /\ active' \subseteq orgs' /\ superusers' \subseteq Users
             /\ claims' \in [Users -> {"none", "user", "superuser"}]
             /\ acting' \in [Users -> orgs' \union {None}]
<1>4. Typed
  <2>0. TypeOK BY DEF IInv
  <2>1. CASE IssueToken(u) BY <2>0, <2>1 DEF TypeOK, IssueToken
  <2>2. CASE TokenExpires(u) BY <2>0, <2>2 DEF TypeOK, TokenExpires
  <2>3. ASSUME NEW super \in BOOLEAN, SetRole(u, super) PROVE Typed
    BY <2>0, <2>3 DEF TypeOK, SetRole
  <2>4. CASE StopImpersonation(u) BY <2>0, <2>4 DEF TypeOK, StopImpersonation
  <2>5. ASSUME NEW t \in Tenants, CreateTenant(u, t) PROVE Typed
    BY <2>0, <2>5 DEF TypeOK, CreateTenant
  <2>6. ASSUME NEW t \in Tenants, Impersonate(u, t) PROVE Typed
    BY <2>0, <2>6 DEF TypeOK, Impersonate
  <2>7. ASSUME NEW t \in Tenants, NEW isActive \in BOOLEAN, UpdateStatus(u, t, isActive)
        PROVE Typed
    BY <2>0, <2>7 DEF TypeOK, UpdateStatus, Found
  <2> QED BY <2>1, <2>2, <2>3, <2>4, <2>5, <2>6, <2>7 DEF UserStep
<1>5. TypeOK' BY <1>1, <1>4 DEF IInv, TypeOK, nightly
<1> QED BY <1>2, <1>3, <1>5 DEF IInv

-----------------------------------------------------------------------------
(* The worker.                                                             *)

\* A step of the worker keeps the invariant if its own part holds afterwards.
LEMMA WorkerKeeps ==
  ASSUME IInv, UNCHANGED <<accounts, requests>>, WorkerAgrees', worker' \in WorkerRecord,
         expired' \subseteq Certificates, told' \subseteq Certificates, mixed' \in BOOLEAN,
         died' \in BOOLEAN
  PROVE  IInv'
  BY DEF IInv, TypeOK, RequestsAgree, accounts

\* The certificates of a run are of one organisation, or the run is mixed.
LEMMA WorkerStartKeeps ==
  ASSUME IInv, NEW due \in SUBSET Certificates, WorkerStart(due)
  PROVE  IInv'
<1> DEFINE w == [pc |-> "choosing", todo |-> due, done |-> {}, now |-> None,
                 unflushed |-> {}, sees |-> Bypass]
<1>1. worker' = w BY DEF WorkerStart, NoWorker
<1>2. w \in WorkerRecord BY DEF WorkerRecord, Bypass
<1>3. mixed' = (mixed \/ \E c, d \in due : Owner[c] # Owner[d]) /\ mixed' \in BOOLEAN
  BY Zenon DEF WorkerStart, IInv, TypeOK
<1>4. worker = NoWorker BY DEF IInv, WorkerAgrees, WorkerStart
<1>5. WorkerAgrees'
  <2>1. worker'.pc = "choosing" /\ worker'.todo = due /\ worker'.unflushed = {}
          /\ worker'.done = {} /\ worker.done = {}
    BY <1>1, <1>4 DEF NoWorker
  <2>2. ~Hidden(worker') BY <2>1 DEF Hidden
  <2>3. ~mixed' => ~mixed /\ \A c, d \in due : Owner[c] = Owner[d] BY <1>3, Zenon
  <2>4. UNCHANGED <<expired, told, died>> BY DEF WorkerStart
  <2> QED BY <2>1, <2>2, <2>3, <2>4 DEF IInv, WorkerAgrees
<1> QED BY <1>1, <1>2, <1>3, <1>5, WorkerKeeps DEF WorkerStart, IInv, TypeOK

\* The next certificate is of the organisation of those that are not flushed yet, unless
\* the run is mixed.
LEMMA WorkerNextKeeps ==
  ASSUME IInv, NEW c \in Certificates, WorkerNext(c)
  PROVE  IInv'
<1> DEFINE todo == worker.todo \ {c}
           unflushed == worker.unflushed \union {c}
           w == [pc |-> "expiring", todo |-> todo, done |-> worker.done, now |-> c,
                 unflushed |-> unflushed, sees |-> {Owner[c]}]
<1>1. worker \in WorkerRecord /\ worker.pc = "choosing" /\ c \in worker.todo
  BY DEF IInv, TypeOK, WorkerNext
<1>2. worker' = w BY <1>1 DEF WorkerNext, WorkerRecord, SettingsFor
<1>3. w \in WorkerRecord BY <1>1, Distinct DEF WorkerRecord
<1>4. WorkerAgrees'
  <2>1. worker'.pc = "expiring" /\ worker'.now = c /\ worker'.todo = todo
          /\ worker'.unflushed = unflushed /\ worker'.done = worker.done
          /\ worker'.sees = {Owner[c]}
    BY <1>2
  <2>2. UNCHANGED <<expired, told, mixed, died>> BY DEF WorkerNext
  <2>3. todo \union unflushed = worker.todo \union worker.unflushed /\ c \in unflushed
    BY <1>1
  <2>4. ~mixed => /\ \A d, e \in todo \union unflushed : Owner[d] = Owner[e]
                  /\ \A d \in unflushed : Owner[d] = Owner[c]
                  /\ ~died => told \subseteq expired \union worker.done
    BY <2>3 DEF IInv, WorkerAgrees
  <2>5. ~mixed => ~Hidden(worker') BY <2>1, <2>4 DEF Hidden
  <2> HIDE DEF todo, unflushed
  <2> QED BY <2>1, <2>2, <2>3, <2>4, <2>5 DEF WorkerAgrees
<1> QED BY <1>2, <1>3, <1>4, WorkerKeeps DEF WorkerNext, IInv, TypeOK

\* The mail is sent for a certificate that is among the done ones then.
LEMMA WorkerExpiresKeeps ==
  ASSUME IInv, WorkerExpires
  PROVE  IInv'
<1>1. worker \in WorkerRecord /\ worker.pc = "expiring" /\ worker.now \in worker.unflushed
  BY DEF IInv, TypeOK, WorkerAgrees, WorkerExpires
<1>2. worker.now \in Certificates BY <1>1 DEF WorkerRecord
<1>3. UNCHANGED <<accounts, requests, expired, mixed, died>> BY DEF WorkerExpires
<1>4. CASE Hidden(worker)
  <2>1. worker' = NoWorker /\ told' = told BY <1>4 DEF WorkerExpires
  <2>2. mixed BY <1>4 DEF IInv, WorkerAgrees
  <2>3. WorkerAgrees' BY <1>3, <2>1, <2>2 DEF WorkerAgrees, NoWorker
  <2> QED BY <1>3, <2>1, <2>3, Blank, WorkerKeeps DEF IInv, TypeOK
<1>5. CASE ~Hidden(worker)
  <2> DEFINE done == worker.done \union {worker.now}
             w == [pc |-> "choosing", todo |-> worker.todo, done |-> done,
                   now |-> worker.now, unflushed |-> {worker.now}, sees |-> worker.sees]
  <2>1. worker' = w /\ told' = told \union {worker.now}
    BY <1>1, <1>5 DEF WorkerExpires, WorkerRecord
  <2>2. w \in WorkerRecord BY <1>1, <1>2 DEF WorkerRecord
  <2>3. WorkerAgrees'
    <3>1. worker'.pc = "choosing" /\ worker'.todo = worker.todo /\ worker'.done = done
            /\ worker'.unflushed = {worker.now} /\ worker'.sees = worker.sees
      BY <2>1
    <3>2. ~Hidden(worker') BY <1>1, <1>5, <3>1 DEF Hidden
    <3>3. ~mixed => \A d, e \in worker'.todo \union worker'.unflushed : Owner[d] = Owner[e]
      BY <1>1, <3>1 DEF IInv, WorkerAgrees
    <3>4. ~mixed /\ ~died => told' \subseteq expired \union done
      BY <2>1 DEF IInv, WorkerAgrees
    <3> QED BY <1>3, <3>1, <3>2, <3>3, <3>4 DEF WorkerAgrees
  <2>4. told' \subseteq Certificates BY <1>2, <2>1 DEF IInv, TypeOK
  <2> QED BY <1>3, <2>1, <2>2, <2>3, <2>4, WorkerKeeps DEF IInv, TypeOK
<1> QED BY <1>4, <1>5

\* A commit makes expired all that was told, or fails in a mixed run.
LEMMA WorkerCommitsKeeps ==
  ASSUME IInv, WorkerCommits
  PROVE  IInv'
<1>1. worker \in WorkerRecord BY DEF IInv, TypeOK
<1>2. worker' = NoWorker /\ UNCHANGED <<accounts, requests, told, mixed, died>>
  BY DEF WorkerCommits
<1>3. expired' \subseteq Certificates
  BY <1>1 DEF IInv, TypeOK, WorkerCommits, Committed, WorkerRecord
<1>4. ~mixed => expired' = expired \union worker.done
  BY DEF IInv, WorkerAgrees, WorkerCommits, Committed
<1>5. WorkerAgrees'
  <2>1. ~mixed /\ ~died => told \subseteq expired' BY <1>4 DEF IInv, WorkerAgrees
  <2> QED BY <1>2, <2>1 DEF WorkerAgrees, NoWorker, Hidden
<1> QED BY <1>2, <1>3, <1>5, Blank, WorkerKeeps DEF IInv, TypeOK

\* Every step of the worker keeps the invariant.
LEMMA WorkerStepKeeps ==
  ASSUME IInv, WorkerStep
  PROVE  IInv'
<1>1. CASE WorkerDies
  <2>1. WorkerAgrees' BY <1>1 DEF WorkerDies, WorkerAgrees, NoWorker, Hidden
  <2> QED BY <1>1, <2>1, Blank, WorkerKeeps DEF WorkerDies, IInv, TypeOK
<1> QED
  BY <1>1, WorkerStartKeeps, WorkerNextKeeps, WorkerExpiresKeeps, WorkerCommitsKeeps
  DEF WorkerStep

-----------------------------------------------------------------------------
(* The invariant and what follows.                                         *)

\* Every initial state satisfies it.
LEMMA InitIInv == Init => IInv
<1> SUFFICES ASSUME Init PROVE IInv OBVIOUS
<1>1. TypeOK BY Blank, Distinct DEF Init, TypeOK
<1>2. RequestsAgree
  <2>1. \A r \in Requests : requests[r] = NoRequest BY DEF Init
  <2> QED BY <2>1, BlankAgrees DEF RequestsAgree, Agrees
<1>3. WorkerAgrees BY DEF Init, WorkerAgrees, NoWorker, Hidden
<1> QED BY <1>1, <1>2, <1>3 DEF IInv

\* Every step, and stuttering, preserves it.
LEMMA NextIInv == IInv /\ [Next]_vars => IInv'
<1> SUFFICES ASSUME IInv, [Next]_vars PROVE IInv' OBVIOUS
<1>1. CASE UNCHANGED vars
  BY <1>1 DEF vars, accounts, nightly, IInv, TypeOK, RequestsAgree, WorkerAgrees, Hidden
<1> QED BY <1>1, RequestStepKeeps, UserStepKeeps, WorkerStepKeeps DEF Next

\* The inductive invariant of Tenancy.
THEOREM TenancyInvariance == Spec => []IInv
  BY InitIInv, NextIInv, PTL DEF Spec

\* Rows, cookies, requests and the run of the worker have their types.
THEOREM TenancyTypeCorrect == Spec => []TypeOK
<1>1. IInv => TypeOK BY DEF IInv
<1> QED BY <1>1, TenancyInvariance, PTL

\* No request that is not global reaches the rows of an organisation that was not
\* resolved for it.
THEOREM RequestsAreIsolated == Spec => []Isolated
<1>1. IInv => Isolated BY DEF IInv, RequestsAgree, Confined, Isolated
<1> QED BY <1>1, TenancyInvariance, PTL

\* No user whose token is not a superuser's reaches another organisation than his own.
THEOREM UsersStayAtHome == Spec => []OwnTenantOnly
<1>1. IInv => OwnTenantOnly
  BY DEF IInv, RequestsAgree, Confined, NotYetOpen, ScopeIsHome, OwnTenantOnly
<1> QED BY <1>1, TenancyInvariance, PTL

\* The settings of row level security confine a request by themselves.
THEOREM RowSecuritySuffices == Spec => []DefenceInDepth
<1>1. IInv => DefenceInDepth BY DEF IInv, RequestsAgree, Confined, DefenceInDepth
<1> QED BY <1>1, TenancyInvariance, PTL

\* In a tenant's block of a global request the transaction sees that tenant alone.
THEOREM BlocksAreConfined == Spec => []BlockIsConfined
<1>1. IInv => BlockIsConfined BY DEF IInv, RequestsAgree, BlockAgrees, BlockIsConfined
<1> QED BY <1>1, TenancyInvariance, PTL

\* Unless a run met two organisations or was cut off, who was told that the
\* certificate expired finds it so.
THEOREM ToldAreExpired == Spec => []ToldMeansExpiredInOneTenant
<1>1. IInv => ToldMeansExpiredInOneTenant
  BY DEF IInv, WorkerAgrees, NoWorker, ToldMeansExpiredInOneTenant, ToldMeansExpired
<1> QED BY <1>1, TenancyInvariance, PTL
=============================================================================
