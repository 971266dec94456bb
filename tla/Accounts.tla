------------------------------- MODULE Accounts --------------------------------
(***************************************************************************)
(* One account and its sessions: endpoints/auth.py, endpoints/users.py,    *)
(* services/user_service.py, refresh_session_service.py and                *)
(* consent_service.py.  Accounts share no rows, so that one stands for all.*)
(*                                                                         *)
(* A request is a transaction that reads, lets others run, and writes at   *)
(* its commit.  Two kinds of row locks order them: the refresh takes its   *)
(* session FOR UPDATE, and an UPDATE of the user's row holds it until the  *)
(* commit.  The UPDATE that revokes many sessions sees the rows that are   *)
(* committed when it starts and then waits for those that are locked; a    *)
(* row inserted meanwhile is not among them.                               *)
(***************************************************************************)
EXTENDS Naturals, FiniteSets

CONSTANTS
  Sessions,     \* refresh sessions, each named by its token
  Handlers,     \* concurrent requests of the API
  MaxFailed,    \* MAX_FAILED_ATTEMPTS
  MaxTries,     \* bound: wrong passwords between two right ones
  MaxChanges,   \* bound: changes of the password
  None          \* null

ASSUME ConstantsAssumption ==
  /\ None \notin Sessions
  /\ MaxFailed \in Nat \ {0}
  /\ MaxTries \in Nat
  /\ MaxChanges \in Nat

\* pc = "registering", "creating": no user with these identifiers was found;
\* "verifying": login read the user and compared the password; "rotating": the
\* refresh holds the lock of its session; "revoking": the family's live sessions are
\* being revoked; "leaving": logout read its session; "changing": a password may be
\* changed; "replacing": the user's row is written and the live sessions are being
\* revoked; "accepting": no consent was found.
\* token, seen: the session presented and the rows the statement found; good, failed,
\* unlocks, password: what login read; alone: no other login overlapped (history).
HandlerRecord ==
  [pc: {"idle", "registering", "creating", "verifying", "rotating", "revoking", "leaving",
        "changing", "replacing", "accepting"},
   token: Sessions \union {None}, seen: SUBSET Sessions, good: BOOLEAN, failed: Nat,
   unlocks: BOOLEAN, password: Nat, alone: BOOLEAN]
At(pc, s, seen) ==
  [pc |-> pc, token |-> s, seen |-> seen, good |-> FALSE, failed |-> 0,
   unlocks |-> FALSE, password |-> 0, alone |-> FALSE]
Idle == At("idle", None, {})

VARIABLES
  account,   \* the row of users: is there one, and is it active?
  student,   \* is its role student?
  password,  \* the number of changes of password_hash
  failed,    \* failed_login_attempts
  lock,      \* locked_until: null, to come, or past
  consent,   \* is the agreement's row in user_consents?
  family,    \* refresh_sessions: the login each session descends from, None without a row
  limit,     \* the login whose ninety days family_expires_at counts
  live,      \* sessions whose revoked_at and replaced_by_id are null
  closed,    \* logins whose ninety days have passed
  handlers,  \* the requests being served
  knows,     \* the password each session's login gave (history)
  tries,     \* wrong passwords since the last right one (history)
  disturbed, \* two logins overlapped since then (history)
  ended,     \* families that a logout or a reuse has ended (history)
  escaped    \* families that grew while they were being revoked (history)

user == <<account, student, password, failed, lock, consent>>
sessions == <<family, limit, live, closed>>
history == <<knows, tries, disturbed, ended, escaped>>
vars == <<user, sessions, handlers, history>>

Init ==
  /\ account = "absent"
  /\ student = FALSE
  /\ password = 0
  /\ failed = 0
  /\ lock = "none"
  /\ consent = FALSE
  /\ family = [s \in Sessions |-> None]
  /\ limit = [s \in Sessions |-> None]
  /\ live = {}
  /\ closed = {}
  /\ handlers = [h \in Handlers |-> Idle]
  /\ knows = [s \in Sessions |-> 0]
  /\ tries = 0
  /\ disturbed = FALSE
  /\ ended = {}
  /\ escaped = {}

Now(h, pc) == handlers[h].pc = pc
Becomes(h, record) == handlers' = [handlers EXCEPT ![h] = record]

\* Is the user's row, or a session's, locked by a transaction?
UserLocked == \E g \in Handlers : Now(g, "replacing")
Locked(s) == \E g \in Handlers : Now(g, "rotating") /\ handlers[g].token = s

Fresh(s) == family[s] = None /\ s \notin live

-----------------------------------------------------------------------------
(* Sessions.                                                               *)

\* Faults of the definitions below: the refresh reads its session without the lock; a
\* reused token revokes itself only; a password change leaves the sessions alone; the
\* count of failures is rolled back with the refusal; the lock is written as a flag.
MayTake_Unlocked(s) == family[s] # None
FamilyOf_Itself(s) == {s} \intersect live
SessionsOfUser_None == {}
Counted_RolledBack(n) == n
LockAfter_Flag(n) == IF n >= MaxFailed THEN "locked" ELSE lock

\* The rows an UPDATE of the family, or of the user, finds.
FamilyOf(s) == {r \in live : family[r] = family[s]}
SessionsOfUser == live

\* A login opens a family; a rotation keeps the family and its limit.
LimitOf(s, new) == limit[s]

\* The new row of a login.
Issue(s, presented) ==
  /\ Fresh(s)
  /\ family' = [family EXCEPT ![s] = s]
  /\ limit' = [limit EXCEPT ![s] = s]
  /\ live' = live \union {s}
  /\ knows' = [knows EXCEPT ![s] = presented]

\* get_by_token with FOR UPDATE: the row is there and nobody holds it.
MayTake(s) == family[s] # None /\ ~Locked(s)

\* A session's own thirty days may have passed at any time: the refresh that finds it
\* so revokes it, and only then does it show.
Expired(s) == limit[s] \in closed

\* A token that was used before: its family is to be revoked.
RefreshReused(h, s) ==
  /\ Now(h, "idle")
  /\ MayTake(s)
  /\ s \notin live
  /\ Becomes(h, At("revoking", s, FamilyOf(s)))
  /\ UNCHANGED <<user, sessions, history>>

\* A session that is expired, or whose user is not active, is revoked alone.
RefreshRefused(h, s) ==
  /\ Now(h, "idle")
  /\ MayTake(s)
  /\ s \in live
  /\ live' = live \ {s}
  /\ UNCHANGED <<user, family, limit, closed, handlers, history>>

RefreshAccepted(h, s) ==
  /\ Now(h, "idle")
  /\ MayTake(s)
  /\ s \in live
  /\ ~Expired(s)
  /\ account = "active"
  /\ Becomes(h, At("rotating", s, {}))
  /\ UNCHANGED <<user, sessions, history>>

\* Another request has found the rows it revokes and will not see a new one of s's
\* family.
BeingEnded(h, s) ==
  \E g \in Handlers \ {h} :
    \/ Now(g, "replacing")
    \/ Now(g, "revoking") /\ family[handlers[g].token] = family[s]
    \/ Now(g, "leaving") /\ handlers[g].token = s

\* The successor's row, the end of its predecessor, and the commit.
Rotate(h, new) ==
  LET s == handlers[h].token IN
  /\ Now(h, "rotating")
  /\ Fresh(new)
  /\ family' = [family EXCEPT ![new] = family[s]]
  /\ limit' = [limit EXCEPT ![new] = LimitOf(s, new)]
  /\ live' = (live \ {s}) \union {new}
  /\ knows' = [knows EXCEPT ![new] = knows[s]]
  /\ escaped' = IF BeingEnded(h, s) THEN escaped \union {family[s]} ELSE escaped
  /\ Becomes(h, Idle)
  /\ UNCHANGED <<user, closed, tries, disturbed, ended>>

\* The UPDATE has waited for the rows it found, and commits.
RevokeFamily(h) ==
  /\ Now(h, "revoking")
  /\ family[handlers[h].token] # None
  /\ \A s \in handlers[h].seen : ~Locked(s)
  /\ live' = live \ handlers[h].seen
  /\ ended' = ended \union {family[handlers[h].token]}
  /\ Becomes(h, Idle)
  /\ UNCHANGED <<user, family, limit, closed, knows, tries, disturbed, escaped>>

\* Logout reads its session without a lock and revokes it whatever became of it.
LogoutRead(h, s) ==
  /\ Now(h, "idle")
  /\ family[s] # None
  /\ Becomes(h, At("leaving", s, {s} \intersect live))
  /\ UNCHANGED <<user, sessions, history>>

LogoutWrite(h) ==
  LET s == handlers[h].token IN
  /\ Now(h, "leaving")
  /\ family[s] # None
  /\ ~Locked(s)
  /\ live' = live \ {s}
  /\ ended' = IF handlers[h].seen = {} THEN ended ELSE ended \union {family[s]}
  /\ Becomes(h, Idle)
  /\ UNCHANGED <<user, family, limit, closed, knows, tries, disturbed, escaped>>

FamilyExpires(s) ==
  /\ family[s] = s
  /\ s \notin closed
  /\ closed' = closed \union {s}
  /\ UNCHANGED <<user, family, limit, live, handlers, history>>

-----------------------------------------------------------------------------
(* Login and its lockout.                                                  *)

\* authenticate reads the user and compares the password.
Login(h, good) ==
  LET alone == \A g \in Handlers : ~Now(g, "verifying") IN
  /\ Now(h, "idle")
  /\ account = "active"
  /\ lock # "until"
  /\ good \/ (tries < MaxTries /\ failed < MaxTries)
  /\ handlers' = [g \in Handlers |->
       IF g = h
         THEN [pc |-> "verifying", token |-> None, seen |-> {}, good |-> good,
               failed |-> failed, unlocks |-> lock # "none", password |-> password,
               alone |-> alone]
         ELSE [handlers[g] EXCEPT !.alone = FALSE]]
  /\ UNCHANGED <<user, sessions, history>>

\* The count that a wrong password writes, and the lock it may set.
Counted(n) == n + 1
LockAfter(n) == IF n >= MaxFailed THEN "until" ELSE lock

\* The refusal is raised after the commit of the count.
LoginFails(h) ==
  LET count == Counted(handlers[h].failed) IN
  /\ Now(h, "verifying")
  /\ ~handlers[h].good
  /\ account # "deleted"
  /\ ~UserLocked
  /\ failed' = count
  /\ lock' = LockAfter(count)
  /\ tries' = tries + 1
  /\ disturbed' = (disturbed \/ ~handlers[h].alone)
  /\ Becomes(h, Idle)
  /\ UNCHANGED <<account, student, password, consent, sessions, knows, ended, escaped>>

\* Only the columns that differ from what was read are written.
LoginSucceeds(h, s) ==
  LET resets == handlers[h].failed # 0 IN
  /\ Now(h, "verifying")
  /\ handlers[h].good
  /\ account # "deleted"
  /\ resets \/ handlers[h].unlocks => ~UserLocked
  /\ failed' = IF resets THEN 0 ELSE failed
  /\ lock' = IF handlers[h].unlocks THEN "none" ELSE lock
  /\ Issue(s, handlers[h].password)
  /\ tries' = 0
  /\ disturbed' = ~handlers[h].alone
  /\ escaped' = IF handlers[h].password # password \/ UserLocked
                  THEN escaped \union {s} ELSE escaped
  /\ Becomes(h, Idle)
  /\ UNCHANGED <<account, student, password, consent, closed, ended>>

\* Fifteen minutes pass.
LockEnds ==
  /\ lock = "until"
  /\ lock' = "past"
  /\ UNCHANGED <<account, student, password, failed, consent, sessions, handlers, history>>

-----------------------------------------------------------------------------
(* The account.                                                            *)

\* POST /auth/register: no user has the e-mail, the identity or the phone number.
Register(h) ==
  /\ Now(h, "idle")
  /\ account = "absent"
  /\ Becomes(h, At("registering", None, {}))
  /\ UNCHANGED <<user, sessions, history>>

\* The user, his consent and his first session in one transaction; whoever comes
\* second is refused by the unique constraints.
RegisterWrite(h, s) ==
  /\ Now(h, "registering")
  /\ account = "absent"
  /\ account' = "active"
  /\ student' = TRUE
  /\ consent' = TRUE
  /\ Issue(s, password)
  /\ Becomes(h, Idle)
  /\ UNCHANGED <<password, failed, lock, closed, tries, disturbed, ended, escaped>>

\* POST /users, by an administrator; a student is asked for his consent later.
CreateUser(h) ==
  /\ Now(h, "idle")
  /\ account = "absent"
  /\ Becomes(h, At("creating", None, {}))
  /\ UNCHANGED <<user, sessions, history>>

CreateUserWrite(h, asStudent) ==
  /\ Now(h, "creating")
  /\ account = "absent"
  /\ account' = "active"
  /\ student' = asStudent
  /\ Becomes(h, Idle)
  /\ UNCHANGED <<password, failed, lock, consent, sessions, history>>

\* get_current_user: a student who has not consented may only consent.
MayAct == account = "active" /\ (student => consent)

AcceptEula(h) ==
  /\ Now(h, "idle")
  /\ account = "active"
  /\ student
  /\ ~consent
  /\ Becomes(h, At("accepting", None, {}))
  /\ UNCHANGED <<user, sessions, history>>

\* The second of two inserts fails alone, in its savepoint, and finds the first.
RecordEula(h) ==
  /\ Now(h, "accepting")
  /\ account # "deleted"
  /\ consent' = TRUE
  /\ Becomes(h, Idle)
  /\ UNCHANGED <<account, student, password, failed, lock, sessions, history>>

\* The user gave his current password.
ChangePassword(h) ==
  /\ Now(h, "idle")
  /\ MayAct
  /\ Becomes(h, At("changing", None, {}))
  /\ UNCHANGED <<user, sessions, history>>

\* Or an administrator sets a new one, for the tenant's administrator or any user.
SetPassword(h) ==
  /\ Now(h, "idle")
  /\ account \in {"active", "inactive"}
  /\ Becomes(h, At("changing", None, {}))
  /\ UNCHANGED <<user, sessions, history>>

\* password_hash is written, which locks the row, and the live sessions are found.
ReplacePassword(h) ==
  /\ Now(h, "changing")
  /\ account # "deleted"
  /\ ~UserLocked
  /\ password < MaxChanges
  /\ Becomes(h, At("replacing", None, SessionsOfUser))
  /\ UNCHANGED <<user, sessions, history>>

CommitPassword(h) ==
  /\ Now(h, "replacing")
  /\ \A s \in handlers[h].seen : ~Locked(s)
  /\ password' = password + 1
  /\ live' = live \ handlers[h].seen
  /\ Becomes(h, Idle)
  /\ UNCHANGED <<account, student, failed, lock, consent, family, limit, closed, history>>

\* An administrator deactivates or reactivates the user; his sessions stay.
UpdateUser(active) ==
  /\ account \in {"active", "inactive"}
  /\ ~UserLocked
  /\ account' = IF active THEN "active" ELSE "inactive"
  /\ UNCHANGED <<student, password, failed, lock, consent, sessions, handlers, history>>

\* The rows of the user go with him.
DeleteUser ==
  /\ account \in {"active", "inactive"}
  /\ ~UserLocked
  /\ \A s \in Sessions : ~Locked(s)
  /\ account' = "deleted"
  /\ consent' = FALSE
  /\ family' = [s \in Sessions |-> None]
  /\ limit' = family'
  /\ live' = {}
  /\ closed' = {}
  /\ UNCHANGED <<student, password, failed, lock, handlers, history>>

\* The request fails: a unique constraint, a deleted row, a lost connection.
Abandon(h) ==
  /\ ~Now(h, "idle")
  /\ Becomes(h, Idle)
  /\ UNCHANGED <<user, sessions, history>>

SessionStep(h) ==
  \/ \E s \in Sessions :
       \/ RefreshReused(h, s)
       \/ RefreshRefused(h, s)
       \/ RefreshAccepted(h, s)
       \/ Rotate(h, s)
       \/ LogoutRead(h, s)
       \/ LoginSucceeds(h, s)
       \/ RegisterWrite(h, s)
  \/ RevokeFamily(h)
  \/ LogoutWrite(h)

AccountStep(h) ==
  \/ \E good \in BOOLEAN : Login(h, good)
  \/ LoginFails(h)
  \/ Register(h)
  \/ CreateUser(h)
  \/ \E asStudent \in BOOLEAN : CreateUserWrite(h, asStudent)
  \/ AcceptEula(h)
  \/ RecordEula(h)
  \/ ChangePassword(h)
  \/ SetPassword(h)
  \/ ReplacePassword(h)
  \/ CommitPassword(h)
  \/ Abandon(h)

Next ==
  \/ \E h \in Handlers : SessionStep(h) \/ AccountStep(h)
  \/ \E s \in Sessions : FamilyExpires(s)
  \/ LockEnds
  \/ \E active \in BOOLEAN : UpdateUser(active)
  \/ DeleteUser

Spec == Init /\ [][Next]_vars

-----------------------------------------------------------------------------
(* Properties.                                                             *)

\* Rows and requests have the values their columns and their code allow.
TypeOK ==
  /\ account \in {"absent", "active", "inactive", "deleted"}
  /\ student \in BOOLEAN
  /\ password \in Nat
  /\ failed \in Nat
  /\ lock \in {"none", "until", "past"}
  /\ consent \in BOOLEAN
  /\ family \in [Sessions -> Sessions \union {None}]
  /\ limit \in [Sessions -> Sessions \union {None}]
  /\ live \subseteq Sessions
  /\ closed \subseteq Sessions
  /\ handlers \in [Handlers -> HandlerRecord]
  /\ knows \in [Sessions -> Nat]
  /\ tries \in Nat
  /\ disturbed \in BOOLEAN
  /\ ended \subseteq Sessions \union {None}
  /\ escaped \subseteq Sessions \union {None}

\* A login lives in one session at a time: two tabs that present the same token at once
\* cannot both get a successor (rotate, and the lock of get_by_token).
OneLivePerFamily ==
  \A r, s \in live : family[r] = family[s] => r = s

\* A family that a logout or a reused token has ended has no session left, unless a
\* rotation committed between the reading of the rows and their revocation
\* (revoke_family, logout).
EndedStaysEnded ==
  \A s \in live : family[s] \in ended => family[s] \in escaped

\* After a change of the password every session has been opened with the new one,
\* unless its login or a rotation was under way during the change
\* (revoke_all_for_user).
PasswordChangeEndsSessions ==
  \A s \in live : knows[s] = password \/ family[s] \in escaped

\* As long as no two logins overlap, every wrong password is counted, and as many as
\* MaxFailed lock the account (authenticate and the commits of login).
FailuresLock ==
  ~disturbed => /\ failed = tries
                /\ tries >= MaxFailed => lock # "none"

-----------------------------------------------------------------------------
(* The inductive invariant.                                                *)

\* A family is named by its first session, and its row stays as long as the user's.
FamiliesAgree ==
  /\ \A s \in live : family[s] # None
  /\ \A s \in Sessions : family[s] # None => family[family[s]] = family[s]
  /\ \A f \in ended : f \in Sessions /\ (family[f] = f \/ account = "deleted")
  /\ account = "deleted" => live = {} /\ \A s \in Sessions : family[s] = None

\* The session of a rotation is live, and nobody else rotates it.
RotationAgrees(h) ==
  Now(h, "rotating") =>
    /\ handlers[h].token \in live
    /\ \A g \in Handlers :
         Now(g, "rotating") /\ handlers[g].token = handlers[h].token => g = h

\* What a revocation did not find grew meanwhile.
RevocationAgrees(h) ==
  Now(h, "revoking") =>
    /\ handlers[h].token \in Sessions
    /\ family[handlers[h].token] # None \/ account = "deleted"
    /\ \A s \in live :
         family[s] = family[handlers[h].token] => s \in handlers[h].seen \/ family[s] \in escaped

\* The same of a logout that found its session live.
LogoutAgrees(h) ==
  Now(h, "leaving") =>
    /\ handlers[h].token \in Sessions
    /\ family[handlers[h].token] # None \/ account = "deleted"
    /\ handlers[h].seen # {} =>
         \A s \in live :
           family[s] = family[handlers[h].token] => s = handlers[h].token \/ family[s] \in escaped

\* The same of a change of the password, which needs an account.
ChangeAgrees(h) ==
  /\ Now(h, "changing") \/ Now(h, "replacing") => account # "absent"
  /\ Now(h, "replacing") => \A s \in live : s \in handlers[h].seen \/ family[s] \in escaped

\* A login that was always alone has read the count as it is.
LoginAgrees(h) ==
  Now(h, "verifying") /\ handlers[h].alone =>
    /\ handlers[h].failed = failed
    /\ \A g \in Handlers : Now(g, "verifying") => g = h

HandlersAgree ==
  \A h \in Handlers :
    RotationAgrees(h) /\ RevocationAgrees(h) /\ LogoutAgrees(h) /\ ChangeAgrees(h) /\ LoginAgrees(h)

SessionsAgree ==
  OneLivePerFamily /\ EndedStaysEnded /\ PasswordChangeEndsSessions /\ FamiliesAgree

IInv == TypeOK /\ SessionsAgree /\ HandlersAgree /\ FailuresLock
=============================================================================
