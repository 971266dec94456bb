---------------------------- MODULE AccountsProofs ----------------------------
(***************************************************************************)
(* Theorems about Accounts, for any number of sessions and concurrent      *)
(* requests and any bounds: a login lives in one session, what was ended   *)
(* by a logout, a reused token or a new password stays ended unless a      *)
(* rotation or a login escaped it, and wrong passwords lock the account.   *)
(* They rest on one inductive invariant, Accounts!IInv.                    *)
(***************************************************************************)
EXTENDS Accounts, TLAPS

\* A request that is given a place, and what it found, is well formed.
LEMMA AtTyped ==
  ASSUME NEW s \in Sessions \union {None}, NEW seen \in SUBSET Sessions,
         NEW pc \in {"idle", "registering", "creating", "rotating", "revoking", "leaving",
                     "changing", "replacing", "accepting"}
  PROVE  /\ At(pc, s, seen) \in HandlerRecord
         /\ At(pc, s, seen).pc = pc
         /\ At(pc, s, seen).token = s
         /\ At(pc, s, seen).seen = seen
  BY DEF At, HandlerRecord

\* An idle request is well formed.
LEMMA IdleTyped == Idle \in HandlerRecord /\ Idle.pc = "idle"
  BY DEF Idle, At, HandlerRecord

\* None is no session.
LEMMA NoneIsNoSession == None \notin Sessions
  BY ConstantsAssumption

\* What a request becomes, and what the others stay.
LEMMA BecomesAt ==
  ASSUME TypeOK, NEW h \in Handlers, NEW r, Becomes(h, r)
  PROVE  /\ handlers'[h] = r
         /\ \A g \in Handlers : g # h => handlers'[g] = handlers[g]
         /\ r \in HandlerRecord => handlers' \in [Handlers -> HandlerRecord]
  BY DEF TypeOK, Becomes

-----------------------------------------------------------------------------
(* What keeps the requests in agreement with the sessions.                 *)

\* Requests end, sessions are revoked that no rotation holds.
LEMMA ShrinkingKeeps ==
  ASSUME TypeOK, HandlersAgree,
         \A g \in Handlers : handlers'[g] = handlers[g] \/ handlers'[g] = Idle,
         failed' = failed \/ \E h \in Handlers : Now(h, "verifying") /\ handlers'[h] = Idle,
         live' \subseteq live, \A s \in live \ live' : ~Locked(s),
         UNCHANGED <<family, escaped>>,
         account' = "deleted" <=> account = "deleted",
         account' = "absent" => account = "absent"
  PROVE  HandlersAgree'
<1> SUFFICES ASSUME NEW h \in Handlers, handlers'[h] = handlers[h]
             PROVE  /\ RotationAgrees(h)' /\ RevocationAgrees(h)' /\ LogoutAgrees(h)'
                    /\ ChangeAgrees(h)' /\ LoginAgrees(h)'
  BY IdleTyped DEF HandlersAgree, RotationAgrees, RevocationAgrees, LogoutAgrees, ChangeAgrees,
     LoginAgrees, Now
<1>1. RotationAgrees(h)'
  BY IdleTyped DEF HandlersAgree, RotationAgrees, Now, Locked
<1>2. RevocationAgrees(h)' BY DEF HandlersAgree, RevocationAgrees, Now
<1>3. LogoutAgrees(h)' BY DEF HandlersAgree, LogoutAgrees, Now
<1>4. ChangeAgrees(h)' BY DEF HandlersAgree, ChangeAgrees, Now
<1>5. LoginAgrees(h)' BY IdleTyped DEF HandlersAgree, LoginAgrees, Now
<1> QED BY <1>1, <1>2, <1>3, <1>4, <1>5

\* One request ends and makes a new session, of a family that is noted as escaped if
\* somebody is revoking it.
LEMMA GrowthKeeps ==
  ASSUME IInv, NEW h \in Handlers, NEW new \in Sessions, NEW f \in Sessions,
         Becomes(h, Idle), Fresh(new), account # "deleted", account' # "deleted",
         account' = "absent" => account = "absent",
         family' = [family EXCEPT ![new] = f], live' \subseteq live \union {new},
         \A s \in live \ live', g \in Handlers :
           Now(g, "rotating") /\ handlers[g].token = s => g = h,
         escaped \subseteq escaped',
         failed' = failed \/ Now(h, "verifying"),
         \A g \in Handlers \ {h} :
           /\ Now(g, "replacing") => f \in escaped'
           /\ Now(g, "revoking") /\ family[handlers[g].token] = f => f \in escaped'
           /\ Now(g, "leaving") /\ handlers[g].seen # {} /\ family[handlers[g].token] = f
                => f \in escaped'
  PROVE  HandlersAgree'
<1>0. TypeOK /\ HandlersAgree BY DEF IInv
<1>1. handlers'[h].pc = "idle" /\ \A g \in Handlers : g # h => handlers'[g] = handlers[g]
  BY <1>0, BecomesAt, IdleTyped
<1> SUFFICES ASSUME NEW g \in Handlers, g # h
             PROVE  /\ RotationAgrees(g)' /\ RevocationAgrees(g)' /\ LogoutAgrees(g)'
                    /\ ChangeAgrees(g)' /\ LoginAgrees(g)'
  BY <1>1 DEF HandlersAgree, RotationAgrees, RevocationAgrees, LogoutAgrees, ChangeAgrees,
     LoginAgrees, Now
<1>2. handlers'[g] = handlers[g] BY <1>1
<1>3. family[new] = None /\ family'[new] = f
        /\ \A s \in Sessions : s # new => family'[s] = family[s]
  BY <1>0 DEF Fresh, TypeOK
<1>4. live \subseteq Sessions /\ new \notin live BY <1>0 DEF TypeOK, Fresh
<1>5. RotationAgrees(g)'
  BY <1>0, <1>1, <1>2 DEF HandlersAgree, RotationAgrees, Now
<1>6. RevocationAgrees(g)'
  <2> SUFFICES ASSUME Now(g, "revoking") PROVE RevocationAgrees(g)'
    BY <1>2 DEF RevocationAgrees, Now
  <2> DEFINE t == handlers[g].token
  <2>1. t \in Sessions /\ family[t] # None BY <1>0 DEF HandlersAgree, RevocationAgrees
  <2>2. family'[t] = family[t] BY <1>3, <2>1
  <2>3. \A s \in live : family[s] = family[t] => s \in handlers[g].seen \/ family[s] \in escaped
    BY <1>0 DEF HandlersAgree, RevocationAgrees
  <2>4. family[t] = f => f \in escaped' OBVIOUS
  <2>5. \A s \in live' : family'[s] = family'[t] => s \in handlers[g].seen \/ family'[s] \in escaped'
    BY <1>3, <1>4, <2>2, <2>3, <2>4
  <2> QED BY <1>2, <2>1, <2>2, <2>5 DEF RevocationAgrees, Now
<1>7. LogoutAgrees(g)'
  <2> SUFFICES ASSUME Now(g, "leaving") PROVE LogoutAgrees(g)'
    BY <1>2 DEF LogoutAgrees, Now
  <2> DEFINE t == handlers[g].token
  <2>1. t \in Sessions /\ family[t] # None BY <1>0 DEF HandlersAgree, LogoutAgrees
  <2>2. family'[t] = family[t] BY <1>3, <2>1
  <2>3. handlers[g].seen # {} =>
          \A s \in live' : family'[s] = family'[t] => s = t \/ family'[s] \in escaped'
    <3> SUFFICES ASSUME handlers[g].seen # {}
                 PROVE  \A s \in live' :
                          family'[s] = family'[t] => s = t \/ family'[s] \in escaped'
      OBVIOUS
    <3>1. \A s \in live : family[s] = family[t] => s = t \/ family[s] \in escaped
      BY <1>0 DEF HandlersAgree, LogoutAgrees
    <3>2. family[t] = f => f \in escaped' OBVIOUS
    <3> QED BY <1>3, <1>4, <2>2, <3>1, <3>2
  <2> QED BY <1>2, <2>1, <2>2, <2>3 DEF LogoutAgrees, Now
<1>8. ChangeAgrees(g)'
  BY <1>0, <1>2, <1>3, <1>4 DEF HandlersAgree, ChangeAgrees, Now
<1>9. LoginAgrees(g)' BY <1>0, <1>1, <1>2 DEF HandlersAgree, LoginAgrees, Now
<1> QED BY <1>5, <1>6, <1>7, <1>8, <1>9

\* The sessions agree as long as none is new, what is ended anew has no live session
\* that did not escape, and those that are left know the password.
LEMMA SessionsKeep ==
  ASSUME TypeOK, SessionsAgree, live' \subseteq live, UNCHANGED <<family, knows, escaped>>,
         account' = "deleted" <=> account = "deleted",
         \A f \in ended' \ ended :
           /\ f \in Sessions
           /\ family[f] = f
           /\ \A s \in live' : family[s] = f => f \in escaped,
         \A s \in live' : knows[s] = password' \/ family[s] \in escaped
  PROVE  SessionsAgree'
<1>1. OneLivePerFamily' BY DEF SessionsAgree, OneLivePerFamily
<1>2. EndedStaysEnded' BY DEF SessionsAgree, EndedStaysEnded
<1>3. PasswordChangeEndsSessions' BY DEF PasswordChangeEndsSessions
<1>4. FamiliesAgree' BY DEF SessionsAgree, FamiliesAgree
<1> QED BY <1>1, <1>2, <1>3, <1>4 DEF SessionsAgree

-----------------------------------------------------------------------------
(* Requests that read and go on in another step.                           *)

\* A request takes a place other than that of a login, with nothing else changed.
LEMMA PlaceKeeps ==
  ASSUME IInv, NEW h \in Handlers, NEW r \in HandlerRecord, Becomes(h, r),
         UNCHANGED <<user, sessions, history>>, r.pc # "verifying",
         RotationAgrees(h)', RevocationAgrees(h)', LogoutAgrees(h)', ChangeAgrees(h)'
  PROVE  IInv'
<1>0. TypeOK /\ HandlersAgree BY DEF IInv
<1>1. /\ handlers'[h] = r /\ \A g \in Handlers : g # h => handlers'[g] = handlers[g]
      /\ handlers' \in [Handlers -> HandlerRecord]
  BY <1>0, BecomesAt
<1>2. TypeOK' BY <1>0, <1>1 DEF TypeOK, user, sessions, history
<1>3. SessionsAgree' /\ FailuresLock'
  BY DEF IInv, SessionsAgree, OneLivePerFamily, EndedStaysEnded, PasswordChangeEndsSessions,
         FamiliesAgree, FailuresLock, user, sessions, history
<1>4. ASSUME NEW g \in Handlers, g # h
      PROVE  /\ RotationAgrees(g)' /\ RevocationAgrees(g)' /\ LogoutAgrees(g)'
             /\ ChangeAgrees(g)' /\ LoginAgrees(g)'
  <2>1. handlers'[g] = handlers[g] BY <1>1, <1>4
  <2>2. RotationAgrees(g)'
    BY <1>0, <1>1, <1>4 DEF HandlersAgree, RotationAgrees, Now, sessions
  <2>3. RevocationAgrees(g)' BY <1>0, <2>1 DEF HandlersAgree, RevocationAgrees, Now, user, sessions, history
  <2>4. LogoutAgrees(g)' BY <1>0, <2>1 DEF HandlersAgree, LogoutAgrees, Now, user, sessions, history
  <2>5. ChangeAgrees(g)' BY <1>0, <2>1 DEF HandlersAgree, ChangeAgrees, Now, user, sessions, history
  <2>6. LoginAgrees(g)' BY <1>0, <1>1, <2>1 DEF HandlersAgree, LoginAgrees, Now, user
  <2> QED BY <2>2, <2>3, <2>4, <2>5, <2>6
<1>5. LoginAgrees(h)' BY <1>1 DEF LoginAgrees, Now
<1>6. HandlersAgree' BY <1>4, <1>5 DEF HandlersAgree
<1> QED BY <1>2, <1>3, <1>6 DEF IInv

\* A place in which nothing of the sessions is held.
LEMMA PlainKeeps ==
  ASSUME IInv, NEW h \in Handlers, UNCHANGED <<user, sessions, history>>,
         NEW pc \in {"idle", "registering", "creating", "changing", "accepting"},
         Becomes(h, At(pc, None, {})), pc = "changing" => account # "absent"
  PROVE  IInv'
<1> DEFINE r == At(pc, None, {})
<1>1. r \in HandlerRecord /\ r.pc = pc BY AtTyped
<1>2. handlers'[h] = r BY BecomesAt DEF IInv
<1> HIDE DEF r
<1>3. RotationAgrees(h)' /\ RevocationAgrees(h)' /\ LogoutAgrees(h)' /\ ChangeAgrees(h)'
  BY <1>1, <1>2 DEF RotationAgrees, RevocationAgrees, LogoutAgrees, ChangeAgrees, Now, user
<1> QED BY <1>1, <1>3, PlaceKeeps DEF r

\* The revocation of a family has found its live sessions.
LEMMA RefreshReusedKeeps ==
  ASSUME IInv, NEW h \in Handlers, NEW s \in Sessions, RefreshReused(h, s)
  PROVE  IInv'
<1> DEFINE r == At("revoking", s, FamilyOf(s))
<1>1. FamilyOf(s) \in SUBSET Sessions BY DEF IInv, TypeOK, FamilyOf
<1>2. r \in HandlerRecord /\ r.pc = "revoking" /\ r.token = s /\ r.seen = FamilyOf(s)
  BY <1>1, AtTyped
<1>3. handlers'[h] = r BY BecomesAt DEF IInv, RefreshReused
<1>4. family[s] # None /\ UNCHANGED <<user, sessions, history>> /\ Becomes(h, r)
  BY DEF RefreshReused, MayTake
<1> HIDE DEF r
<1>5. RevocationAgrees(h)'
  BY <1>2, <1>3, <1>4 DEF RevocationAgrees, Now, FamilyOf, user, sessions, history
<1>6. RotationAgrees(h)' /\ LogoutAgrees(h)' /\ ChangeAgrees(h)'
  BY <1>2, <1>3 DEF RotationAgrees, LogoutAgrees, ChangeAgrees, Now
<1> QED BY <1>2, <1>4, <1>5, <1>6, PlaceKeeps

\* The lock is what makes a rotation the only one of its session.
LEMMA RefreshAcceptedKeeps ==
  ASSUME IInv, NEW h \in Handlers, NEW s \in Sessions, RefreshAccepted(h, s)
  PROVE  IInv'
<1> DEFINE r == At("rotating", s, {})
<1>2. r \in HandlerRecord /\ r.pc = "rotating" /\ r.token = s BY AtTyped
<1>3. handlers'[h] = r /\ \A g \in Handlers : g # h => handlers'[g] = handlers[g]
  BY BecomesAt DEF IInv, RefreshAccepted
<1>4. s \in live /\ ~Locked(s) /\ UNCHANGED <<user, sessions, history>> /\ Becomes(h, r)
  BY DEF RefreshAccepted, MayTake
<1> HIDE DEF r
<1>5. RotationAgrees(h)'
  BY <1>2, <1>3, <1>4 DEF RotationAgrees, Now, Locked, sessions
<1>6. RevocationAgrees(h)' /\ LogoutAgrees(h)' /\ ChangeAgrees(h)'
  BY <1>2, <1>3 DEF RevocationAgrees, LogoutAgrees, ChangeAgrees, Now
<1> QED BY <1>2, <1>4, <1>5, <1>6, PlaceKeeps

\* A logout that finds its session live has found the only one of its family.
LEMMA LogoutReadKeeps ==
  ASSUME IInv, NEW h \in Handlers, NEW s \in Sessions, LogoutRead(h, s)
  PROVE  IInv'
<1> DEFINE r == At("leaving", s, {s} \intersect live)
<1>1. {s} \intersect live \in SUBSET Sessions OBVIOUS
<1>2. r \in HandlerRecord /\ r.pc = "leaving" /\ r.token = s /\ r.seen = {s} \intersect live
  BY <1>1, AtTyped
<1>3. handlers'[h] = r BY BecomesAt DEF IInv, LogoutRead
<1>4. family[s] # None /\ UNCHANGED <<user, sessions, history>> /\ Becomes(h, r)
  BY DEF LogoutRead
<1> HIDE DEF r
<1>5. s \in live => \A q \in live : family[q] = family[s] => q = s
  BY DEF IInv, SessionsAgree, OneLivePerFamily
<1>6. LogoutAgrees(h)'
  BY <1>2, <1>3, <1>4, <1>5 DEF LogoutAgrees, Now, user, sessions, history
<1>7. RotationAgrees(h)' /\ RevocationAgrees(h)' /\ ChangeAgrees(h)'
  BY <1>2, <1>3 DEF RotationAgrees, RevocationAgrees, ChangeAgrees, Now
<1> QED BY <1>2, <1>4, <1>6, <1>7, PlaceKeeps

\* The change of a password has found all live sessions.
LEMMA ReplacePasswordKeeps ==
  ASSUME IInv, NEW h \in Handlers, ReplacePassword(h)
  PROVE  IInv'
<1> DEFINE r == At("replacing", None, live)
<1>1. live \in SUBSET Sessions BY DEF IInv, TypeOK
<1>2. r \in HandlerRecord /\ r.pc = "replacing" /\ r.seen = live BY <1>1, AtTyped
<1>3. handlers'[h] = r BY BecomesAt DEF IInv, ReplacePassword, SessionsOfUser
<1>4. UNCHANGED <<user, sessions, history>> /\ Becomes(h, r)
  BY DEF ReplacePassword, SessionsOfUser
<1>5. account # "absent" BY DEF IInv, HandlersAgree, ChangeAgrees, ReplacePassword
<1> HIDE DEF r
<1>6. ChangeAgrees(h)' BY <1>2, <1>3, <1>4, <1>5 DEF ChangeAgrees, Now, user, sessions, history
<1>7. RotationAgrees(h)' /\ RevocationAgrees(h)' /\ LogoutAgrees(h)'
  BY <1>2, <1>3 DEF RotationAgrees, RevocationAgrees, LogoutAgrees, Now
<1> QED BY <1>2, <1>4, <1>6, <1>7, PlaceKeeps

-----------------------------------------------------------------------------
(* Requests that revoke sessions.                                          *)

\* A refused refresh revokes a session that nobody holds.
LEMMA RefreshRefusedKeeps ==
  ASSUME IInv, NEW h \in Handlers, NEW s \in Sessions, RefreshRefused(h, s)
  PROVE  IInv'
<1>1. /\ live' = live \ {s} /\ ~Locked(s)
      /\ UNCHANGED <<user, family, limit, closed, handlers, history>>
  BY DEF RefreshRefused, MayTake
<1>2. TypeOK' BY <1>1 DEF IInv, TypeOK, user, history
<1>3. FailuresLock' BY <1>1 DEF IInv, FailuresLock, user, history
<1>4. HandlersAgree' BY <1>1, ShrinkingKeeps DEF IInv, user, history
<1>5. SessionsAgree'
  <2>1. \A q \in live' : knows[q] = password' \/ family[q] \in escaped
    BY <1>1 DEF IInv, SessionsAgree, PasswordChangeEndsSessions, user
  <2> QED BY <1>1, <2>1, SessionsKeep DEF IInv, user, history
<1> QED BY <1>2, <1>3, <1>4, <1>5 DEF IInv

\* The sessions of an ended family that were not found have escaped.
LEMMA RevokeFamilyKeeps ==
  ASSUME IInv, NEW h \in Handlers, RevokeFamily(h)
  PROVE  IInv'
<1> DEFINE t == handlers[h].token
<1>1. /\ Now(h, "revoking") /\ family[t] # None /\ Becomes(h, Idle)
      /\ \A s \in handlers[h].seen : ~Locked(s)
      /\ live' = live \ handlers[h].seen
      /\ ended' = ended \union {family[t]}
      /\ UNCHANGED <<user, family, limit, closed, knows, tries, disturbed, escaped>>
  BY DEF RevokeFamily
<1>2. t \in Sessions /\ \A s \in live : family[s] = family[t] => s \in handlers[h].seen \/ family[s] \in escaped
  BY <1>1 DEF IInv, HandlersAgree, RevocationAgrees
<1>3. family[t] \in Sessions /\ family[family[t]] = family[t]
  BY <1>1, <1>2 DEF IInv, TypeOK, SessionsAgree, FamiliesAgree
<1>4. /\ \A g \in Handlers : handlers'[g] = handlers[g] \/ handlers'[g] = Idle
      /\ handlers' \in [Handlers -> HandlerRecord]
  BY <1>1, BecomesAt, IdleTyped DEF IInv
<1>5. TypeOK' BY <1>1, <1>3, <1>4 DEF IInv, TypeOK, user
<1>6. FailuresLock' BY <1>1 DEF IInv, FailuresLock, user
<1>7. HandlersAgree' BY <1>1, <1>4, ShrinkingKeeps DEF IInv, user
<1>8. SessionsAgree'
  <2>1. \A s \in live' : knows[s] = password' \/ family[s] \in escaped
    BY <1>1 DEF IInv, SessionsAgree, PasswordChangeEndsSessions, user
  <2>2. \A f \in ended' \ ended : f = family[t] BY <1>1
  <2>3. \A s \in live' : family[s] = family[t] => family[t] \in escaped BY <1>1, <1>2
  <2> HIDE DEF t
  <2> QED BY <1>1, <1>3, <2>1, <2>2, <2>3, SessionsKeep DEF IInv, user
<1> QED BY <1>5, <1>6, <1>7, <1>8 DEF IInv

\* A logout that found its session live leaves none of its family that did not escape.
LEMMA LogoutWriteKeeps ==
  ASSUME IInv, NEW h \in Handlers, LogoutWrite(h)
  PROVE  IInv'
<1> DEFINE t == handlers[h].token
<1>1. /\ Now(h, "leaving") /\ family[t] # None /\ Becomes(h, Idle) /\ ~Locked(t)
      /\ live' = live \ {t}
      /\ ended' = IF handlers[h].seen = {} THEN ended ELSE ended \union {family[t]}
      /\ UNCHANGED <<user, family, limit, closed, knows, tries, disturbed, escaped>>
  BY DEF LogoutWrite
<1>2. /\ t \in Sessions
      /\ handlers[h].seen # {} =>
           \A s \in live : family[s] = family[t] => s = t \/ family[s] \in escaped
  BY <1>1 DEF IInv, HandlersAgree, LogoutAgrees
<1>3. family[t] \in Sessions /\ family[family[t]] = family[t]
  BY <1>1, <1>2 DEF IInv, TypeOK, SessionsAgree, FamiliesAgree
<1>4. /\ \A g \in Handlers : handlers'[g] = handlers[g] \/ handlers'[g] = Idle
      /\ handlers' \in [Handlers -> HandlerRecord]
  BY <1>1, BecomesAt, IdleTyped DEF IInv
<1>5. TypeOK' BY <1>1, <1>3, <1>4 DEF IInv, TypeOK, user
<1>6. FailuresLock' BY <1>1 DEF IInv, FailuresLock, user
<1>7. HandlersAgree' BY <1>1, <1>4, ShrinkingKeeps DEF IInv, user
<1>8. SessionsAgree'
  <2>1. \A s \in live' : knows[s] = password' \/ family[s] \in escaped
    BY <1>1 DEF IInv, SessionsAgree, PasswordChangeEndsSessions, user
  <2>2. \A f \in ended' \ ended : f = family[t] /\ handlers[h].seen # {} BY <1>1
  <2>3. handlers[h].seen # {} => \A s \in live' : family[s] = family[t] => family[t] \in escaped
    BY <1>1, <1>2
  <2> HIDE DEF t
  <2> QED BY <1>1, <1>3, <2>1, <2>2, <2>3, SessionsKeep DEF IInv, user
<1> QED BY <1>5, <1>6, <1>7, <1>8 DEF IInv

\* After a change of the password all live sessions have escaped.
LEMMA CommitPasswordKeeps ==
  ASSUME IInv, NEW h \in Handlers, CommitPassword(h)
  PROVE  IInv'
<1>1. /\ Now(h, "replacing") /\ Becomes(h, Idle)
      /\ \A s \in handlers[h].seen : ~Locked(s)
      /\ live' = live \ handlers[h].seen
      /\ password' = password + 1
      /\ UNCHANGED <<account, student, failed, lock, consent, family, limit, closed, history>>
  BY DEF CommitPassword
<1>2. \A s \in live : s \in handlers[h].seen \/ family[s] \in escaped
  BY <1>1 DEF IInv, HandlersAgree, ChangeAgrees
<1>3. /\ \A g \in Handlers : handlers'[g] = handlers[g] \/ handlers'[g] = Idle
      /\ handlers' \in [Handlers -> HandlerRecord]
  BY <1>1, BecomesAt, IdleTyped DEF IInv
<1>4. TypeOK' BY <1>1, <1>3 DEF IInv, TypeOK, history
<1>5. FailuresLock' BY <1>1 DEF IInv, FailuresLock, history
<1>6. HandlersAgree' BY <1>1, <1>3, ShrinkingKeeps DEF IInv, history
<1>7. SessionsAgree' BY <1>1, <1>2, SessionsKeep DEF IInv, history
<1> QED BY <1>4, <1>5, <1>6, <1>7 DEF IInv

\* With the user all his rows go, and no rotation holds one of them.
LEMMA DeleteUserKeeps ==
  ASSUME IInv, DeleteUser
  PROVE  IInv'
<1>1. /\ account' = "deleted" /\ live' = {} /\ \A s \in Sessions : ~Locked(s)
      /\ family' = [s \in Sessions |-> None] /\ limit' = family' /\ closed' = {}
      /\ consent' = FALSE
      /\ UNCHANGED <<student, password, failed, lock, handlers, history>>
  BY DEF DeleteUser
<1>2. TypeOK' BY <1>1 DEF IInv, TypeOK, history
<1>3. FailuresLock' BY <1>1 DEF IInv, FailuresLock, history
<1>4. HandlersAgree'
  <2> SUFFICES ASSUME NEW h \in Handlers
               PROVE  /\ RotationAgrees(h)' /\ RevocationAgrees(h)' /\ LogoutAgrees(h)'
                      /\ ChangeAgrees(h)' /\ LoginAgrees(h)'
    BY DEF HandlersAgree
  <2>1. live \subseteq Sessions BY DEF IInv, TypeOK
  <2>2. RotationAgrees(h)' BY <1>1, <2>1 DEF IInv, HandlersAgree, RotationAgrees, Now, Locked
  <2>3. RevocationAgrees(h)' BY <1>1 DEF IInv, HandlersAgree, RevocationAgrees, Now
  <2>4. LogoutAgrees(h)' BY <1>1 DEF IInv, HandlersAgree, LogoutAgrees, Now
  <2>5. ChangeAgrees(h)' BY <1>1 DEF ChangeAgrees
  <2>6. LoginAgrees(h)' BY <1>1 DEF IInv, HandlersAgree, LoginAgrees, Now
  <2> QED BY <2>2, <2>3, <2>4, <2>5, <2>6
<1>5. SessionsAgree'
  BY <1>1 DEF IInv, SessionsAgree, OneLivePerFamily, EndedStaysEnded,
     PasswordChangeEndsSessions, FamiliesAgree, history
<1> QED BY <1>2, <1>3, <1>4, <1>5 DEF IInv

-----------------------------------------------------------------------------
(* New sessions.                                                           *)

\* No family bears the name of a session that is not there yet.
LEMMA FreshNamesNoFamily ==
  ASSUME IInv, NEW s \in Sessions, Fresh(s), account # "deleted"
  PROVE  /\ \A r \in Sessions : family[r] # s
         /\ s \notin ended
<1>1. family[s] = None BY DEF Fresh
<1>2. \A r \in Sessions : family[r] # None => family[family[r]] # None
  BY DEF IInv, SessionsAgree, FamiliesAgree
<1>3. \A r \in Sessions : family[r] # s BY <1>1, <1>2, NoneIsNoSession
<1>4. s \notin ended BY <1>1, NoneIsNoSession DEF IInv, SessionsAgree, FamiliesAgree
<1> QED BY <1>3, <1>4

\* A new family begins in agreement with those that are there.
LEMMA IssueKeeps ==
  ASSUME IInv, NEW h \in Handlers, NEW s \in Sessions, NEW presented \in Nat,
         Issue(s, presented), Becomes(h, Idle), account # "deleted", account' # "deleted",
         account' = "absent" => account = "absent", escaped \subseteq escaped',
         failed' = failed \/ Now(h, "verifying"),
         presented # password \/ (\E g \in Handlers \ {h} : Now(g, "replacing")) => s \in escaped',
         UNCHANGED <<password, closed, ended>>
  PROVE  HandlersAgree' /\ SessionsAgree'
<1>0. TypeOK BY DEF IInv
<1>1. /\ Fresh(s) /\ family' = [family EXCEPT ![s] = s] /\ live' = live \union {s}
      /\ knows' = [knows EXCEPT ![s] = presented]
  BY DEF Issue
<1>2. \A r \in Sessions : family[r] # s /\ s \notin ended BY <1>1, FreshNamesNoFamily
<1>3. family'[s] = s /\ \A r \in Sessions : r # s => family'[r] = family[r]
  BY <1>0, <1>1 DEF TypeOK
<1>4. knows'[s] = presented /\ \A r \in Sessions : r # s => knows'[r] = knows[r]
  BY <1>0, <1>1 DEF TypeOK
<1>5. live \subseteq Sessions /\ s \notin live /\ family[s] = None BY <1>0, <1>1 DEF TypeOK, Fresh
<1>6. HandlersAgree'
  <2>1. \A g \in Handlers :
          (Now(g, "revoking") \/ Now(g, "leaving")) => handlers[g].token \in Sessions
    BY DEF IInv, HandlersAgree, RevocationAgrees, LogoutAgrees
  <2>2. live' \subseteq live \union {s} /\ live \ live' = {} BY <1>1
  <2>3. \A g \in Handlers \ {h} :
          /\ Now(g, "replacing") => s \in escaped'
          /\ Now(g, "revoking") /\ family[handlers[g].token] = s => s \in escaped'
          /\ Now(g, "leaving") /\ handlers[g].seen # {} /\ family[handlers[g].token] = s
               => s \in escaped'
    BY <1>2, <2>1
  <2> QED BY <1>1, <2>2, <2>3, GrowthKeeps
<1>7. OneLivePerFamily'
  BY <1>1, <1>2, <1>3, <1>5 DEF IInv, SessionsAgree, OneLivePerFamily
<1>8. EndedStaysEnded'
  BY <1>1, <1>2, <1>3, <1>5 DEF IInv, SessionsAgree, EndedStaysEnded
<1>9. PasswordChangeEndsSessions'
  BY <1>1, <1>3, <1>4, <1>5 DEF IInv, SessionsAgree, PasswordChangeEndsSessions
<1>10. FamiliesAgree'
  <2>1. \A r \in live' : family'[r] # None
    BY <1>1, <1>3, <1>5, NoneIsNoSession DEF IInv, SessionsAgree, FamiliesAgree
  <2>2. \A r \in Sessions : family'[r] # None => family'[family'[r]] = family'[r]
    <3>1. \A r \in Sessions : family[r] # None => family[family[r]] = family[r]
      BY DEF IInv, SessionsAgree, FamiliesAgree
    <3>2. family \in [Sessions -> Sessions \union {None}] BY <1>0 DEF TypeOK
    <3> QED BY <1>2, <1>3, <3>1, <3>2
  <2>3. \A f \in ended' : f \in Sessions /\ family'[f] = f
    BY <1>2, <1>3 DEF IInv, SessionsAgree, FamiliesAgree
  <2> QED BY <2>1, <2>2, <2>3 DEF FamiliesAgree
<1> QED BY <1>6, <1>7, <1>8, <1>9, <1>10 DEF SessionsAgree

\* A login that overlaps with a change of the password escapes it, and no login that was
\* always alone counts other failures than its own.
LEMMA LoginSucceedsKeeps ==
  ASSUME IInv, NEW h \in Handlers, NEW s \in Sessions, LoginSucceeds(h, s)
  PROVE  IInv'
<1> DEFINE presented == handlers[h].password
<1>0. TypeOK /\ handlers[h] \in HandlerRecord BY DEF IInv, TypeOK
<1>1. presented \in Nat BY <1>0 DEF HandlerRecord
<1>2. /\ Now(h, "verifying") /\ account # "deleted" /\ Issue(s, presented) /\ Becomes(h, Idle)
      /\ failed' = IF handlers[h].failed # 0 THEN 0 ELSE failed
      /\ lock' = IF handlers[h].unlocks THEN "none" ELSE lock
      /\ tries' = 0
      /\ disturbed' = ~handlers[h].alone
      /\ escaped' = IF presented # password \/ UserLocked THEN escaped \union {s} ELSE escaped
      /\ UNCHANGED <<account, student, password, consent, closed, ended>>
  BY Zenon DEF LoginSucceeds
<1>3. handlers' \in [Handlers -> HandlerRecord] BY <1>0, <1>2, BecomesAt, IdleTyped
<1> HIDE DEF presented
<1>4. TypeOK'
  <2>1. disturbed' \in BOOLEAN
    <3>1. handlers[h].alone \in BOOLEAN BY <1>0 DEF HandlerRecord
    <3> QED BY <1>2, <3>1
  <2>2. /\ family' \in [Sessions -> Sessions \union {None}]
        /\ limit' \in [Sessions -> Sessions \union {None}]
        /\ live' \subseteq Sessions /\ knows' \in [Sessions -> Nat]
    BY <1>0, <1>1, <1>2 DEF TypeOK, Issue
  <2>3. failed' \in Nat /\ lock' \in {"none", "until", "past"} /\ tries' \in Nat
          /\ escaped' \subseteq Sessions \union {None}
    BY <1>0, <1>2 DEF TypeOK
  <2> QED BY <1>0, <1>2, <1>3, <2>1, <2>2, <2>3 DEF TypeOK
<1>5. FailuresLock'
  <2> SUFFICES ASSUME ~disturbed' PROVE failed' = tries' /\ (tries' >= MaxFailed => lock' # "none")
    BY DEF FailuresLock
  <2>1. handlers[h].alone BY <1>2
  <2>2. handlers[h].failed = failed BY <1>2, <2>1 DEF IInv, HandlersAgree, LoginAgrees
  <2>3. ~(0 >= MaxFailed) BY ConstantsAssumption
  <2> QED BY <1>2, <2>2, <2>3
<1>7. account' # "deleted" /\ escaped \subseteq escaped' BY <1>2
<1>8. presented # password \/ (\E g \in Handlers \ {h} : Now(g, "replacing")) => s \in escaped'
  BY <1>2 DEF UserLocked
<1>10. HandlersAgree' /\ SessionsAgree' BY <1>1, <1>2, <1>7, <1>8, IssueKeeps
<1> QED BY <1>4, <1>5, <1>10 DEF IInv

\* Whoever registers makes the first session of the account.
LEMMA RegisterWriteKeeps ==
  ASSUME IInv, NEW h \in Handlers, NEW s \in Sessions, RegisterWrite(h, s)
  PROVE  IInv'
<1>0. TypeOK BY DEF IInv
<1>1. /\ account = "absent" /\ account' = "active" /\ student' = TRUE /\ consent' = TRUE
      /\ Issue(s, password) /\ Becomes(h, Idle)
      /\ UNCHANGED <<password, failed, lock, closed, tries, disturbed, ended, escaped>>
  BY DEF RegisterWrite
<1>2. handlers' \in [Handlers -> HandlerRecord] BY <1>0, <1>1, BecomesAt, IdleTyped
<1>3. TypeOK' BY <1>0, <1>1, <1>2 DEF TypeOK, Issue
<1>4. FailuresLock' BY <1>1 DEF IInv, FailuresLock
<1>5. ~\E g \in Handlers : Now(g, "replacing")
  BY <1>1 DEF IInv, HandlersAgree, ChangeAgrees
<1>6. password \in Nat BY <1>0 DEF TypeOK
<1>7. HandlersAgree' /\ SessionsAgree' BY <1>1, <1>5, <1>6, IssueKeeps
<1> QED BY <1>3, <1>4, <1>7 DEF IInv

\* The successor takes the place of the session, which the rotation holds; a family that
\* is being revoked meanwhile is noted.
LEMMA RotateKeeps ==
  ASSUME IInv, NEW h \in Handlers, NEW new \in Sessions, Rotate(h, new)
  PROVE  IInv'
<1> DEFINE s == handlers[h].token
           f == family[s]
<1>0. TypeOK BY DEF IInv
<1>1. /\ Now(h, "rotating") /\ Fresh(new) /\ Becomes(h, Idle)
      /\ family' = [family EXCEPT ![new] = f]
      /\ limit' = [limit EXCEPT ![new] = limit[s]]
      /\ live' = (live \ {s}) \union {new}
      /\ knows' = [knows EXCEPT ![new] = knows[s]]
      /\ escaped' = IF BeingEnded(h, s) THEN escaped \union {f} ELSE escaped
      /\ UNCHANGED <<user, closed, tries, disturbed, ended>>
  BY DEF Rotate, LimitOf
<1>2. s \in live /\ \A g \in Handlers : Now(g, "rotating") /\ handlers[g].token = s => g = h
  BY <1>1 DEF IInv, HandlersAgree, RotationAgrees
<1>3. s \in Sessions /\ f \in Sessions /\ family[f] = f
  BY <1>0, <1>2 DEF TypeOK, IInv, SessionsAgree, FamiliesAgree
<1>4. account # "deleted" BY <1>2 DEF IInv, SessionsAgree, FamiliesAgree
<1>5. handlers' \in [Handlers -> HandlerRecord] BY <1>0, <1>1, BecomesAt, IdleTyped
<1>6. family'[new] = f /\ \A r \in Sessions : r # new => family'[r] = family[r]
  BY <1>0, <1>1 DEF TypeOK
<1>7. knows'[new] = knows[s] /\ \A r \in Sessions : r # new => knows'[r] = knows[r]
  BY <1>0, <1>1 DEF TypeOK
<1>8. live \subseteq Sessions /\ new \notin live /\ family[new] = None
  BY <1>0, <1>1 DEF TypeOK, Fresh
<1>9. \A r \in live : family[r] = f => r = s
  BY <1>2 DEF IInv, SessionsAgree, OneLivePerFamily
<1>10. escaped \subseteq escaped' /\ escaped' \subseteq Sessions \union {None}
  BY <1>0, <1>1, <1>3 DEF TypeOK
<1>11. TypeOK' 
  <2>1. limit[s] \in Sessions \union {None} /\ knows[s] \in Nat BY <1>0, <1>3 DEF TypeOK
  <2> HIDE DEF s, f
  <2>2. /\ family' \in [Sessions -> Sessions \union {None}]
        /\ limit' \in [Sessions -> Sessions \union {None}]
        /\ live' \subseteq Sessions /\ knows' \in [Sessions -> Nat]
    BY <1>0, <1>1, <1>3, <2>1 DEF TypeOK
  <2> QED BY <1>0, <1>1, <1>5, <1>10, <2>2 DEF TypeOK, user
<1>12. FailuresLock' BY <1>1 DEF IInv, FailuresLock, user
<1>13. HandlersAgree'
  <2>1. \A g \in Handlers \ {h} :
          /\ Now(g, "replacing") => f \in escaped'
          /\ Now(g, "revoking") /\ family[handlers[g].token] = f => f \in escaped'
          /\ Now(g, "leaving") /\ handlers[g].seen # {} /\ family[handlers[g].token] = f
               => f \in escaped'
    <3> SUFFICES ASSUME NEW g \in Handlers \ {h}
                 PROVE  /\ Now(g, "replacing") => f \in escaped'
                        /\ Now(g, "revoking") /\ family[handlers[g].token] = f => f \in escaped'
                        /\ Now(g, "leaving") /\ handlers[g].seen # {}
                             /\ family[handlers[g].token] = f => f \in escaped'
      OBVIOUS
    <3>1. BeingEnded(h, s) => f \in escaped' BY <1>1
    <3>2. CASE Now(g, "leaving") /\ handlers[g].seen # {} /\ family[handlers[g].token] = f
      <4>1. s = handlers[g].token \/ f \in escaped
        BY <1>2, <3>2 DEF IInv, HandlersAgree, LogoutAgrees
      <4> QED BY <1>10, <3>1, <3>2, <4>1 DEF BeingEnded, Now
    <3> QED BY <3>1, <3>2 DEF BeingEnded
  <2>2. live' \subseteq live \union {new} /\ live \ live' \subseteq {s} BY <1>1
  <2>3. \A r \in live \ live', g \in Handlers :
          Now(g, "rotating") /\ handlers[g].token = r => g = h
    BY <1>2, <2>2
  <2> HIDE DEF s, f
  <2> QED BY <1>1, <1>3, <1>4, <1>10, <2>1, <2>2, <2>3, GrowthKeeps DEF user
<1>14. OneLivePerFamily'
  BY <1>1, <1>6, <1>8, <1>9 DEF IInv, SessionsAgree, OneLivePerFamily
<1>15. EndedStaysEnded'
  <2>1. f \in ended => f \in escaped BY <1>2 DEF IInv, SessionsAgree, EndedStaysEnded
  <2> QED BY <1>1, <1>6, <1>8, <1>10, <2>1 DEF IInv, SessionsAgree, EndedStaysEnded
<1>16. PasswordChangeEndsSessions'
  <2>1. knows[s] = password \/ f \in escaped
    BY <1>2 DEF IInv, SessionsAgree, PasswordChangeEndsSessions
  <2> QED
    BY <1>1, <1>6, <1>7, <1>8, <1>10, <2>1
    DEF IInv, SessionsAgree, PasswordChangeEndsSessions, user
<1>17. FamiliesAgree'
  <2>0. (\A r \in Sessions : family[r] # new) /\ new \notin ended
    BY <1>1, <1>4, FreshNamesNoFamily
  <2>1. \A r \in live' : family'[r] # None
    BY <1>1, <1>3, <1>6, <1>8, NoneIsNoSession DEF IInv, SessionsAgree, FamiliesAgree
  <2>2. \A r \in Sessions : family'[r] # None => family'[family'[r]] = family'[r]
    <3>1. \A r \in Sessions : family[r] # None => family[family[r]] = family[r]
      BY DEF IInv, SessionsAgree, FamiliesAgree
    <3>2. family \in [Sessions -> Sessions \union {None}] BY <1>0 DEF TypeOK
    <3>3. f # new BY <1>3, <2>0
    <3> HIDE DEF s, f
    <3> QED BY <1>3, <1>6, <2>0, <3>1, <3>2, <3>3
  <2>3. \A r \in ended' : r \in Sessions /\ family'[r] = r
    BY <1>1, <1>4, <1>6, <2>0 DEF IInv, SessionsAgree, FamiliesAgree
  <2> QED BY <1>1, <1>4, <2>1, <2>2, <2>3 DEF FamiliesAgree, user
<1> QED BY <1>11, <1>12, <1>13, <1>14, <1>15, <1>16, <1>17 DEF IInv, SessionsAgree

-----------------------------------------------------------------------------
(* Logins that are counted, and the account.                               *)

\* A login that begins ends the loneliness of all others.
LEMMA LoginKeeps ==
  ASSUME IInv, NEW h \in Handlers, NEW good \in BOOLEAN, Login(h, good)
  PROVE  IInv'
<1> DEFINE alone == \A g \in Handlers : ~Now(g, "verifying")
           r == [pc |-> "verifying", token |-> None, seen |-> {}, good |-> good,
                 failed |-> failed, unlocks |-> lock # "none", password |-> password,
                 alone |-> alone]
           Later(g) == [handlers[g] EXCEPT !.alone = FALSE]
<1>0. TypeOK BY DEF IInv
<1>1. /\ handlers' = [g \in Handlers |-> IF g = h THEN r ELSE Later(g)]
      /\ UNCHANGED <<user, sessions, history>>
  BY DEF Login
<1>2. r \in HandlerRecord /\ r.pc = "verifying" /\ r.failed = failed /\ r.alone = alone
  <2>1. alone \in BOOLEAN /\ (lock # "none") \in BOOLEAN OBVIOUS
  <2>2. failed \in Nat /\ password \in Nat BY <1>0 DEF TypeOK
  <2> HIDE DEF alone
  <2> QED BY <2>1, <2>2 DEF HandlerRecord
<1>3. ASSUME NEW g \in Handlers
      PROVE  /\ Later(g) \in HandlerRecord
             /\ Later(g).pc = handlers[g].pc
             /\ Later(g).token = handlers[g].token
             /\ Later(g).seen = handlers[g].seen
             /\ Later(g).alone = FALSE
  <2>1. handlers[g] \in HandlerRecord BY <1>0 DEF TypeOK
  <2> QED BY <2>1 DEF HandlerRecord
<1> HIDE DEF r, Later
<1>4. handlers'[h] = r /\ \A g \in Handlers : g # h => handlers'[g] = Later(g) BY <1>1
<1>5. TypeOK'
  <2>1. handlers' \in [Handlers -> HandlerRecord] BY <1>1, <1>2, <1>3
  <2> QED BY <1>0, <1>1, <2>1 DEF TypeOK, user, sessions, history
<1>6. SessionsAgree' /\ FailuresLock'
  BY <1>1 DEF IInv, SessionsAgree, OneLivePerFamily, EndedStaysEnded,
     PasswordChangeEndsSessions, FamiliesAgree, FailuresLock, user, sessions, history
<1>7. \A g \in Handlers : g # h =>
        /\ handlers'[g].pc = handlers[g].pc
        /\ handlers'[g].token = handlers[g].token
        /\ handlers'[g].seen = handlers[g].seen
        /\ handlers'[g].alone = FALSE
  BY <1>3, <1>4
<1>8. ASSUME NEW g \in Handlers, g # h
      PROVE  /\ RotationAgrees(g)' /\ RevocationAgrees(g)' /\ LogoutAgrees(g)'
             /\ ChangeAgrees(g)' /\ LoginAgrees(g)'
  <2>1. RotationAgrees(g)'
    BY <1>1, <1>2, <1>4, <1>7, <1>8 DEF IInv, HandlersAgree, RotationAgrees, Now, sessions
  <2>2. RevocationAgrees(g)'
    BY <1>1, <1>7, <1>8 DEF IInv, HandlersAgree, RevocationAgrees, Now, user, sessions, history
  <2>3. LogoutAgrees(g)'
    BY <1>1, <1>7, <1>8 DEF IInv, HandlersAgree, LogoutAgrees, Now, user, sessions, history
  <2>4. ChangeAgrees(g)'
    BY <1>1, <1>7, <1>8 DEF IInv, HandlersAgree, ChangeAgrees, Now, user, sessions, history
  <2>5. LoginAgrees(g)' BY <1>7, <1>8 DEF LoginAgrees
  <2> QED BY <2>1, <2>2, <2>3, <2>4, <2>5
<1>9. RotationAgrees(h)' /\ RevocationAgrees(h)' /\ LogoutAgrees(h)' /\ ChangeAgrees(h)'
  BY <1>2, <1>4 DEF RotationAgrees, RevocationAgrees, LogoutAgrees, ChangeAgrees, Now
<1>10. LoginAgrees(h)'
  <2>1. handlers'[h].alone => \A g \in Handlers : ~Now(g, "verifying") BY <1>2, <1>4, Zenon
  <2>2. handlers'[h].failed = failed' BY <1>1, <1>2, <1>4 DEF user
  <2>3. handlers'[h].alone => \A g \in Handlers : handlers'[g].pc = "verifying" => g = h
    BY <1>7, <2>1 DEF Now
  <2> QED BY <2>2, <2>3 DEF LoginAgrees, Now
<1> QED BY <1>5, <1>6, <1>8, <1>9, <1>10 DEF IInv, HandlersAgree

\* A wrong password is counted on what was read, which is the count if the login was alone.
LEMMA LoginFailsKeeps ==
  ASSUME IInv, NEW h \in Handlers, LoginFails(h)
  PROVE  IInv'
<1> DEFINE count == handlers[h].failed + 1
<1>0. TypeOK /\ handlers[h] \in HandlerRecord BY DEF IInv, TypeOK
<1>1. /\ Now(h, "verifying") /\ Becomes(h, Idle)
      /\ failed' = count
      /\ lock' = IF count >= MaxFailed THEN "until" ELSE lock
      /\ tries' = tries + 1
      /\ UNCHANGED <<account, student, password, consent, sessions, knows, ended, escaped>>
  BY DEF LoginFails, Counted, LockAfter
<1>2. disturbed' = (disturbed \/ ~handlers[h].alone) /\ disturbed' \in BOOLEAN
  BY Zenon DEF LoginFails
<1>3. /\ \A g \in Handlers : handlers'[g] = handlers[g] \/ handlers'[g] = Idle
      /\ handlers'[h] = Idle
      /\ handlers' \in [Handlers -> HandlerRecord]
  BY <1>0, <1>1, BecomesAt, IdleTyped
<1>4. handlers[h].failed \in Nat BY <1>0 DEF HandlerRecord
<1>5. TypeOK'
  <2>1. failed' \in Nat /\ tries' \in Nat /\ lock' \in {"none", "until", "past"}
    BY <1>0, <1>1, <1>4 DEF TypeOK
  <2> QED BY <1>0, <1>1, <1>2, <1>3, <2>1 DEF TypeOK, sessions
<1>6. FailuresLock'
  <2> SUFFICES ASSUME ~disturbed'
               PROVE  failed' = tries' /\ (tries' >= MaxFailed => lock' # "none")
    BY DEF FailuresLock
  <2>1. ~disturbed /\ handlers[h].alone BY <1>2, Zenon
  <2>2. handlers[h].failed = failed BY <1>1, <2>1 DEF IInv, HandlersAgree, LoginAgrees
  <2>3. failed = tries BY <2>1 DEF IInv, FailuresLock
  <2> QED BY <1>1, <2>2, <2>3
<1>7. HandlersAgree' BY <1>0, <1>1, <1>3, ShrinkingKeeps DEF IInv, sessions
<1>8. SessionsAgree'
  BY <1>1 DEF IInv, SessionsAgree, OneLivePerFamily, EndedStaysEnded,
     PasswordChangeEndsSessions, FamiliesAgree, sessions
<1> QED BY <1>5, <1>6, <1>7, <1>8 DEF IInv

\* Steps that change neither the sessions nor the count.
LEMMA AccountKeeps ==
  ASSUME IInv, UNCHANGED <<password, failed, family, live, knows, tries, disturbed, ended, escaped>>,
         \A g \in Handlers : handlers'[g] = handlers[g] \/ handlers'[g] = Idle,
         account' = "deleted" <=> account = "deleted",
         account' = "absent" => account = "absent",
         lock' = "none" => lock = "none",
         TypeOK'
  PROVE  IInv'
<1>1. HandlersAgree' BY ShrinkingKeeps DEF IInv
<1>2. SessionsAgree'
  BY DEF IInv, SessionsAgree, OneLivePerFamily, EndedStaysEnded, PasswordChangeEndsSessions,
         FamiliesAgree
<1>3. FailuresLock' BY DEF IInv, FailuresLock
<1> QED BY <1>1, <1>2, <1>3 DEF IInv

\* A user is created, consents, is deactivated; fifteen minutes or ninety days pass.
LEMMA OtherStepKeeps ==
  ASSUME IInv,
         \/ \E h \in Handlers, asStudent \in BOOLEAN : CreateUserWrite(h, asStudent)
         \/ \E h \in Handlers : RecordEula(h)
         \/ \E active \in BOOLEAN : UpdateUser(active)
         \/ \E s \in Sessions : FamilyExpires(s)
         \/ LockEnds
  PROVE  IInv'
<1>0. TypeOK BY DEF IInv
<1>1. ASSUME NEW h \in Handlers, NEW asStudent \in BOOLEAN, CreateUserWrite(h, asStudent)
      PROVE  IInv'
  <2>1. \A g \in Handlers : handlers'[g] = handlers[g] \/ handlers'[g] = Idle
    BY <1>0, <1>1, BecomesAt DEF CreateUserWrite
  <2>2. handlers' \in [Handlers -> HandlerRecord]
    BY <1>0, <1>1, BecomesAt, IdleTyped DEF CreateUserWrite
  <2>3. TypeOK' BY <1>0, <1>1, <2>2 DEF TypeOK, CreateUserWrite, sessions, history
  <2> QED BY <1>1, <2>1, <2>3, AccountKeeps DEF CreateUserWrite, sessions, history
<1>2. ASSUME NEW h \in Handlers, RecordEula(h) PROVE IInv'
  <2>1. \A g \in Handlers : handlers'[g] = handlers[g] \/ handlers'[g] = Idle
    BY <1>0, <1>2, BecomesAt DEF RecordEula
  <2>2. handlers' \in [Handlers -> HandlerRecord]
    BY <1>0, <1>2, BecomesAt, IdleTyped DEF RecordEula
  <2>3. TypeOK' BY <1>0, <1>2, <2>2 DEF TypeOK, RecordEula, sessions, history
  <2> QED BY <1>2, <2>1, <2>3, AccountKeeps DEF RecordEula, sessions, history
<1>3. ASSUME NEW active \in BOOLEAN, UpdateUser(active) PROVE IInv'
  <2>1. TypeOK' BY <1>0, <1>3 DEF TypeOK, UpdateUser, sessions, history
  <2> QED BY <1>3, <2>1, AccountKeeps DEF UpdateUser, sessions, history
<1>4. ASSUME NEW s \in Sessions, FamilyExpires(s) PROVE IInv'
  <2>1. TypeOK' BY <1>0, <1>4 DEF TypeOK, FamilyExpires, user, history
  <2> QED BY <1>4, <2>1, AccountKeeps DEF FamilyExpires, user, history
<1>5. CASE LockEnds
  <2>1. TypeOK' BY <1>0, <1>5 DEF TypeOK, LockEnds, sessions, history
  <2> QED BY <1>5, <2>1, AccountKeeps DEF LockEnds, sessions, history
<1> QED BY <1>1, <1>2, <1>3, <1>4, <1>5

-----------------------------------------------------------------------------
(* The invariant and what follows.                                         *)

\* Every initial state satisfies it.
LEMMA InitIInv == Init => IInv
<1> SUFFICES ASSUME Init PROVE IInv OBVIOUS
<1>1. TypeOK BY IdleTyped DEF Init, TypeOK
<1>2. SessionsAgree
  BY DEF Init, SessionsAgree, OneLivePerFamily, EndedStaysEnded, PasswordChangeEndsSessions,
         FamiliesAgree
<1>3. HandlersAgree
  BY IdleTyped DEF Init, HandlersAgree, RotationAgrees, RevocationAgrees, LogoutAgrees,
     ChangeAgrees, LoginAgrees, Now
<1>4. FailuresLock BY ConstantsAssumption DEF Init, FailuresLock
<1> QED BY <1>1, <1>2, <1>3, <1>4 DEF IInv

\* Every step of a request about a session preserves it.
LEMMA SessionStepKeeps ==
  ASSUME IInv, NEW h \in Handlers, SessionStep(h)
  PROVE  IInv'
  BY RefreshReusedKeeps, RefreshRefusedKeeps, RefreshAcceptedKeeps, RotateKeeps,
     LogoutReadKeeps, LoginSucceedsKeeps, RegisterWriteKeeps, RevokeFamilyKeeps,
     LogoutWriteKeeps DEF SessionStep

\* And every one about the account.
LEMMA AccountStepKeeps ==
  ASSUME IInv, NEW h \in Handlers, AccountStep(h)
  PROVE  IInv'
<1>1. CASE Register(h) BY <1>1, PlainKeeps DEF Register
<1>2. CASE CreateUser(h) BY <1>2, PlainKeeps DEF CreateUser
<1>3. CASE AcceptEula(h) BY <1>3, PlainKeeps DEF AcceptEula
<1>4. CASE ChangePassword(h) BY <1>4, PlainKeeps DEF ChangePassword, MayAct
<1>5. CASE SetPassword(h) BY <1>5, PlainKeeps DEF SetPassword
<1>6. CASE Abandon(h) BY <1>6, PlainKeeps DEF Abandon, Idle
<1> QED
  BY <1>1, <1>2, <1>3, <1>4, <1>5, <1>6, LoginKeeps, LoginFailsKeeps, OtherStepKeeps,
     ReplacePasswordKeeps, CommitPasswordKeeps DEF AccountStep

\* Every step, and stuttering, preserves it.
LEMMA NextIInv == IInv /\ [Next]_vars => IInv'
<1> SUFFICES ASSUME IInv, [Next]_vars PROVE IInv' OBVIOUS
<1>1. CASE UNCHANGED vars
  <2>1. TypeOK' BY <1>1 DEF IInv, TypeOK, vars, user, sessions, history
  <2> QED BY <1>1, <2>1, AccountKeeps DEF vars, user, sessions, history
<1> QED BY <1>1, SessionStepKeeps, AccountStepKeeps, OtherStepKeeps, DeleteUserKeeps DEF Next

\* The inductive invariant of Accounts.
THEOREM AccountsInvariance == Spec => []IInv
  BY InitIInv, NextIInv, PTL DEF Spec

\* Rows and requests have their types.
THEOREM AccountsTypeCorrect == Spec => []TypeOK
<1>1. IInv => TypeOK BY DEF IInv
<1> QED BY <1>1, AccountsInvariance, PTL

\* No login lives in two sessions: of two refreshes with one token one succeeds.
THEOREM LoginsLiveOnce == Spec => []OneLivePerFamily
<1>1. IInv => OneLivePerFamily BY DEF IInv, SessionsAgree
<1> QED BY <1>1, AccountsInvariance, PTL

\* A family that was ended has no live session, unless a rotation escaped.
THEOREM EndedFamiliesStayEnded == Spec => []EndedStaysEnded
<1>1. IInv => EndedStaysEnded BY DEF IInv, SessionsAgree
<1> QED BY <1>1, AccountsInvariance, PTL

\* After a change of the password every session was opened with the new one, unless its
\* login or a rotation escaped.
THEOREM NewPasswordsEndSessions == Spec => []PasswordChangeEndsSessions
<1>1. IInv => PasswordChangeEndsSessions BY DEF IInv, SessionsAgree
<1> QED BY <1>1, AccountsInvariance, PTL

\* As long as no logins overlap, no wrong password is forgotten and enough of them lock.
THEOREM WrongPasswordsLock == Spec => []FailuresLock
<1>1. IInv => FailuresLock BY DEF IInv
<1> QED BY <1>1, AccountsInvariance, PTL
=============================================================================
