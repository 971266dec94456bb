--------------------- MODULE CertificateLifecycleProofs ---------------------
(***************************************************************************)
(* Theorems about CertificateLifecycle, for any number of certificates and *)
(* of concurrent requests.  They rest on the inductive invariant           *)
(* CertificateLifecycle!IInv: one lemma per action, or per group of        *)
(* actions of the same shape, shows that the action preserves it.          *)
(***************************************************************************)
EXTENDS CertificateLifecycle, TLAPS

USE DEF Status, RowRecord, NoRow, Operation, Layers, NoFile, Clean, Idle, Resting

\* The empty database satisfies the inductive invariant.
LEMMA InitIInv == Init => IInv
<1> SUFFICES ASSUME Init PROVE IInv OBVIOUS
<1>1. TypeOK BY DEF Init, TypeOK, RequestRecord, WorkerRecord
<1>2. MarksAgree BY DEF Init, MarksAgree, Agrees
<1>3. \A h \in Handlers, c \in Certs : handlers[h].cert # {c} BY DEF Init
<1>4. OverlapsKnown /\ RequestsAgree BY <1>3 DEF OverlapsKnown, RequestsAgree
<1>5. WorkerAgrees BY DEF Init, WorkerAgrees, Marked
<1>6. InOrder BY DEF Init, InOrder, RequestInOrder
<1> QED BY <1>1, <1>2, <1>4, <1>5, <1>6 DEF IInv

\* A request that is alone still agrees with its certificate after a step that
\* leaves alone what both have written.
LEMMA RequestUnaffected ==
  ASSUME IInv, NEW g \in Handlers, NEW d \in Certs, handlers[g].cert = {d}, handlers[g].alone,
         handlers'[g].pc = handlers[g].pc, handlers'[g].op = handlers[g].op,
         handlers'[g].seen = handlers[g].seen, handlers'[g].locked = handlers[g].locked,
         handlers'[g].raw = handlers[g].raw,
         rows'[d].status = rows[d].status, bucket'[d] = bucket[d], d \in suspect => d \in suspect'
  PROVE  RequestAgrees(g, d)'
<1>1. RequestAgrees(g, d) BY DEF IInv, RequestsAgree
<1>2. Agrees(d)' <=> Agrees(d) BY DEF Agrees
<1>3. Present(d)' <=> Present(d) BY DEF Present
<1>4. Changes(g)' = Changes(g) BY DEF Changes
<1>5. NewObject(handlers'[g].op, handlers'[g].raw) = NewObject(handlers[g].op, handlers[g].raw)
  OBVIOUS
<1> QED BY <1>1, <1>2, <1>3, <1>4, <1>5 DEF RequestAgrees

\* Whether a request is in order depends on four of its fields.
LEMMA RequestStaysInOrder ==
  ASSUME NEW g \in Handlers, RequestInOrder(g),
         handlers'[g].pc = handlers[g].pc, handlers'[g].op = handlers[g].op,
         handlers'[g].cert = handlers[g].cert, handlers'[g].raw = handlers[g].raw
  PROVE  RequestInOrder(g)'
  BY DEF RequestInOrder

-----------------------------------------------------------------------------
(* Actions that change neither requests nor objects.                       *)

\* As long as no status changes, the renewal requests, the enrolments and the
\* dates of the certificates do not matter.
LEMMA OnlyDetailsChange ==
  ASSUME IInv, UNCHANGED <<bucket, handlers, worker, suspect>>,
         rows' \in [Certs -> RowRecord],
         \A c \in Certs : rows'[c].status = rows[c].status,
         pending' \in [Certs -> {"none", "in_progress", "issued"}], enrolled' \subseteq Certs
  PROVE  IInv'
<1>1. TypeOK' BY DEF IInv, TypeOK
<1>a. \A c \in Certs : (Agrees(c)' <=> Agrees(c)) /\ (Present(c)' <=> Present(c))
  BY DEF Agrees, Present
<1>b. \A c \in Certs : (Untouched(c)' <=> Untouched(c)) BY DEF Untouched, Busy, Marked
<1>2. MarksAgree' BY <1>a, <1>b DEF IInv, MarksAgree
<1>3. OverlapsKnown' BY DEF IInv, OverlapsKnown, Busy, Marked
<1>4. RequestsAgree' BY RequestUnaffected DEF RequestsAgree
<1>5. WorkerAgrees' BY DEF IInv, WorkerAgrees, Marked
<1>6. InOrder' BY DEF IInv, InOrder, RequestInOrder
<1> QED BY <1>1, <1>2, <1>3, <1>4, <1>5, <1>6 DEF IInv

\* Opening and cancelling a renewal, and the passing of time, preserve IInv.
LEMMA DetailsIInv ==
  ASSUME IInv, NEW c \in Certs, StartRenewal(c) \/ CancelRenewal(c) \/ FallDue(c)
  PROVE  IInv'
<1>1. CASE StartRenewal(c) \/ CancelRenewal(c)
  BY <1>1, OnlyDetailsChange DEF StartRenewal, CancelRenewal, IInv, TypeOK
<1>2. CASE FallDue(c)
  BY <1>2, OnlyDetailsChange DEF FallDue, IInv, TypeOK
<1> QED BY <1>1, <1>2

-----------------------------------------------------------------------------
(* Requests.                                                               *)

\* A request ends.  Whatever it did to the row of its certificate, the row and
\* the PDF must agree if it was alone and the certificate is not suspect.
LEMMA RequestEnds ==
  ASSUME IInv, NEW h \in Handlers, NEW c \in Certs, handlers[h].cert = {c},
         handlers' = [handlers EXCEPT ![h] = Idle],
         UNCHANGED <<bucket, worker>>,
         NEW r \in RowRecord, rows' = [rows EXCEPT ![c] = r],
         pending' \in [Certs -> {"none", "in_progress", "issued"}], enrolled' \subseteq Certs,
         \/ suspect' = suspect
         \/ suspect' = suspect \union {c}
         \/ handlers[h].alone /\ suspect' = suspect \ {c},
         handlers[h].alone /\ c \notin suspect' => Agrees(c)'
  PROVE  IInv'
<1>1. TypeOK' BY DEF IInv, TypeOK, RequestRecord
<1>2. \A d \in Certs \ {c} : rows'[d] = rows[d] /\ (d \in suspect' <=> d \in suspect)
  BY DEF IInv, TypeOK
<1>3. \A g \in Handlers : handlers'[g] = IF g = h THEN Idle ELSE handlers[g]
  BY DEF IInv, TypeOK
<1>4. \A d \in Certs \ {c} : Busy(d)' = Busy(d) /\ (Marked(d)' <=> Marked(d))
  BY <1>3 DEF Busy, Marked
<1>5. handlers[h].alone => Busy(c) = {h} /\ ~Marked(c)
  BY DEF IInv, OverlapsKnown
<1>6. ~handlers[h].alone => c \in suspect /\ c \in suspect'
  BY DEF IInv, OverlapsKnown
<1>7. \A g \in Handlers \ {h} : handlers[g].cert = {c} => ~handlers[g].alone /\ ~handlers[h].alone
  BY DEF IInv, OverlapsKnown, Busy
<1>8. MarksAgree'
  <2>1. c \notin suspect' => Agrees(c)' BY <1>6
  <2>2. \A d \in Certs \ {c} : Agrees(d)' <=> Agrees(d) BY <1>2 DEF Agrees
  <2> QED BY <1>2, <1>4, <2>1, <2>2 DEF IInv, MarksAgree, Untouched
<1>9. OverlapsKnown'
  <2> SUFFICES ASSUME NEW g \in Handlers, NEW d \in Certs, handlers'[g].cert = {d}
               PROVE  IF handlers'[g].alone THEN Busy(d)' = {g} /\ ~Marked(d)' ELSE d \in suspect'
    BY DEF OverlapsKnown
  <2>1. g # h /\ handlers'[g] = handlers[g] BY <1>3
  <2>2. CASE d = c BY <1>6, <1>7, <2>1, <2>2
  <2>3. CASE d # c BY <1>2, <1>4, <2>1, <2>3 DEF IInv, OverlapsKnown
  <2> QED BY <2>2, <2>3
<1>10. RequestsAgree'
  <2> SUFFICES ASSUME NEW g \in Handlers, NEW d \in Certs, handlers'[g].cert = {d},
                      handlers'[g].alone
               PROVE  RequestAgrees(g, d)'
    BY DEF RequestsAgree
  <2>1. g # h /\ handlers'[g] = handlers[g] BY <1>3
  <2>2. d # c BY <1>7, <2>1
  <2>3. bucket' = bucket /\ rows'[d] = rows[d] /\ (d \in suspect => d \in suspect')
    BY <1>2, <2>2
  <2> QED BY <2>1, <2>3, RequestUnaffected
<1>11. WorkerAgrees'
  <2>1. \A d \in Certs \ suspect' : Marked(d)' => d # c BY <1>5, <1>6 DEF Marked
  <2> QED BY <1>2, <1>4, <2>1 DEF IInv, WorkerAgrees
<1>12. InOrder' BY <1>3 DEF IInv, InOrder, RequestInOrder
<1> QED BY <1>1, <1>8, <1>9, <1>10, <1>11, <1>12 DEF IInv

\* A commit or an abort does to the row what its PDF calls for.
LEMMA CommitIInv ==
  ASSUME IInv, NEW h \in Handlers, NEW c \in Certs, Commit(h, c)
  PROVE  IInv'
<1> DEFINE m == handlers[h]
<1>a. /\ m \in RequestRecord /\ rows \in [Certs -> RowRecord] /\ rows[c] \in RowRecord
      /\ pending \in [Certs -> {"none", "in_progress", "issued"}] /\ enrolled \subseteq Certs
  BY DEF IInv, TypeOK
<1>b. /\ m.pc = "uploaded" /\ m.cert = {c}
      /\ handlers' = [handlers EXCEPT ![h] = Idle] /\ bucket' = bucket /\ worker' = worker
      /\ suspect' = IF m.alone THEN suspect \ {c} ELSE suspect
  BY DEF Commit, CommitIssue, CommitRevision, CommitRenewal, CommitReproduction, CommitDeletion,
         Finish
<1>c. m.alone \in BOOLEAN BY <1>a DEF RequestRecord
<1>d. \/ suspect' = suspect
      \/ m.alone /\ suspect' = suspect \ {c}
  BY <1>b, <1>c
<1>e. m.alone =>
        /\ m.seen = rows[c].status
        /\ m.op = "renew" => rows[c].status \in {"active", "expired"}
        /\ m.op = "reproduce" => rows[c].status = "active"
        /\ m.op \in {"revoke", "activate", "renew"} => m.locked \in Changes(h)
        /\ bucket[c] = NewObject(m.op, m.raw)
  BY <1>b DEF IInv, RequestsAgree, RequestAgrees
<1>f. m.op = "revoke" => "page" \in m.raw BY <1>b DEF IInv, InOrder, RequestInOrder
<1>g. ASSUME NEW r \in RowRecord, rows' = [rows EXCEPT ![c] = r],
             pending' \in [Certs -> {"none", "in_progress", "issued"}],
             enrolled' \subseteq Certs, m.alone => Agrees(c)'
      PROVE  IInv'
  <2>1. m.alone /\ c \notin suspect' => Agrees(c)' BY <1>g
  <2> QED BY <1>b, <1>d, <1>g, <2>1, RequestEnds
<1>1. CASE CommitIssue(h, c)
  <2>1. PICK due \in BOOLEAN, course \in BOOLEAN :
          /\ rows' = [rows EXCEPT ![c] = [status |-> "active", due |-> due, course |-> course]]
          /\ enrolled' = IF course THEN enrolled \union {c} ELSE enrolled
    BY <1>1 DEF CommitIssue
  <2>2. m.op = "issue" /\ pending' = pending BY <1>1 DEF CommitIssue
  <2>3. m.alone => Agrees(c)' BY <1>a, <1>b, <1>e, <2>1, <2>2 DEF Agrees, NewObject
  <2> QED BY <1>a, <1>g, <2>1, <2>2, <2>3
<1>2. CASE CommitRevision(h, c)
  <2>1. /\ m.op \in {"revoke", "activate"} /\ pending' = pending /\ enrolled' = enrolled
        /\ rows' = IF m.locked THEN [rows EXCEPT ![c].status = Target(m.op)] ELSE rows
    BY <1>2 DEF CommitRevision
  <2> DEFINE q == IF m.locked THEN [rows[c] EXCEPT !.status = Target(m.op)] ELSE rows[c]
  <2>q. /\ q \in RowRecord /\ rows' = [rows EXCEPT ![c] = q]
        /\ q.status = IF m.locked THEN Target(m.op) ELSE rows[c].status
    <3>1. CASE m.locked BY <1>a, <2>1, <3>1 DEF Target
    <3>2. CASE ~m.locked BY <1>a, <2>1, <3>2
    <3> QED BY <3>1, <3>2
  <2>2. PICK r \in RowRecord : /\ rows' = [rows EXCEPT ![c] = r]
                               /\ r.status = IF m.locked THEN Target(m.op) ELSE rows[c].status
    <3> HIDE DEF q
    <3> QED BY <2>q
  <2>3. m.alone => r.status = Target(m.op)
    BY <1>e, <2>1, <2>2 DEF Changes
  <2>4. rows'[c].status = r.status BY <1>a, <2>2
  <2>5. m.alone => Agrees(c)'
    BY <1>b, <1>e, <1>f, <2>1, <2>3, <2>4 DEF Agrees, NewObject, Target
  <2> QED BY <1>a, <1>g, <2>1, <2>2, <2>5
<1>3. CASE CommitRenewal(h, c)
  <2>1. PICK due \in BOOLEAN :
          rows' = IF m.locked
                  THEN [rows EXCEPT ![c].status = Renewed(m.seen, @), ![c].due = due]
                  ELSE rows
    BY <1>3 DEF CommitRenewal
  <2>2. m.op = "renew" /\ pending' = [pending EXCEPT ![c] = "issued"] /\ enrolled' = enrolled
    BY <1>3 DEF CommitRenewal
  <2> DEFINE q == IF m.locked
                  THEN [rows[c] EXCEPT !.status = Renewed(m.seen, rows[c].status), !.due = due]
                  ELSE rows[c]
  <2>q. /\ q \in RowRecord /\ rows' = [rows EXCEPT ![c] = q]
        /\ q.status = IF m.locked THEN Renewed(m.seen, rows[c].status) ELSE rows[c].status
    <3>1. CASE m.locked BY <1>a, <2>1, <3>1 DEF Renewed
    <3>2. CASE ~m.locked BY <1>a, <2>1, <3>2
    <3> QED BY <3>1, <3>2
  <2>3. PICK r \in RowRecord :
          /\ rows' = [rows EXCEPT ![c] = r]
          /\ r.status = IF m.locked THEN Renewed(m.seen, rows[c].status) ELSE rows[c].status
    <3> HIDE DEF q
    <3> QED BY <2>q
  <2>4. m.alone => r.status = "active"
    BY <1>e, <2>2, <2>3 DEF Changes, Renewed, Target
  <2>5. rows'[c].status = r.status BY <1>a, <2>3
  <2>6. m.alone => Agrees(c)' BY <1>b, <1>e, <2>2, <2>4, <2>5 DEF Agrees, NewObject
  <2> QED BY <1>a, <1>g, <2>2, <2>3, <2>6
<1>4. CASE CommitReproduction(h, c)
  <2>1. m.op = "reproduce" /\ rows' = rows /\ pending' = pending /\ enrolled' = enrolled
    BY <1>4 DEF CommitReproduction
  <2>2. rows' = [rows EXCEPT ![c] = rows[c]] BY <1>a, <2>1
  <2>3. m.alone => Agrees(c)' BY <1>b, <1>e, <2>1 DEF Agrees, NewObject
  <2> QED BY <1>a, <1>g, <2>1, <2>2, <2>3
<1>5. CASE CommitDeletion(h, c)
  <2>1. /\ m.op = "delete" /\ rows' = [rows EXCEPT ![c] = NoRow]
        /\ pending' = [pending EXCEPT ![c] = "none"] /\ enrolled' = enrolled
    BY <1>5 DEF CommitDeletion
  <2>2. m.alone => Agrees(c)' BY <1>a, <1>b, <1>e, <2>1 DEF Agrees, NewObject
  <2> QED BY <1>a, <1>g, <2>1, <2>2
<1> QED BY <1>1, <1>2, <1>3, <1>4, <1>5 DEF Commit

\* A batch that keeps a row without its PDF leaves the certificate suspect.
LEMMA BatchKeepsRowIInv ==
  ASSUME IInv, NEW h \in Handlers, NEW c \in Certs, BatchKeepsRow(h, c)
  PROVE  IInv'
<1>1. PICK due \in BOOLEAN :
        rows' = [rows EXCEPT ![c] = [status |-> "active", due |-> due, course |-> FALSE]]
  BY DEF BatchKeepsRow
<1>2. /\ handlers[h].cert = {c} /\ handlers' = [handlers EXCEPT ![h] = Idle]
      /\ suspect' = suspect \union {c} /\ UNCHANGED <<bucket, worker, pending, enrolled>>
  BY DEF BatchKeepsRow
<1>3. pending' \in [Certs -> {"none", "in_progress", "issued"}] /\ enrolled' \subseteq Certs
  BY <1>2 DEF IInv, TypeOK
<1> QED BY <1>1, <1>2, <1>3, RequestEnds

\* An operation that is cut short leaves the certificate suspect if it had
\* replaced the object, and as it was if it had not.
LEMMA AbortIInv ==
  ASSUME IInv, NEW h \in Handlers, Abort(h)
  PROVE  IInv'
<1>1. PICK c \in Certs : handlers[h].cert = {c} BY DEF Abort, IInv, InOrder, RequestInOrder
<1>2. /\ handlers' = [handlers EXCEPT ![h] = Idle]
      /\ suspect' = IF handlers[h].pc = "uploaded" THEN suspect \union {c} ELSE suspect
      /\ UNCHANGED <<rows, bucket, worker, pending, enrolled>>
  BY <1>1 DEF Abort
<1>3. /\ rows[c] \in RowRecord /\ rows' = [rows EXCEPT ![c] = rows[c]]
      /\ pending' \in [Certs -> {"none", "in_progress", "issued"}] /\ enrolled' \subseteq Certs
  BY <1>2 DEF IInv, TypeOK
<1>4. handlers[h].alone /\ c \notin suspect' => Agrees(c)
  BY <1>1, <1>2 DEF IInv, RequestsAgree, RequestAgrees
<1>5. Agrees(c)' <=> Agrees(c) BY <1>2 DEF Agrees
<1>6. suspect' = suspect \/ suspect' = suspect \union {c} BY <1>2
<1>7. handlers[h].alone /\ c \notin suspect' => Agrees(c)' BY <1>4, <1>5
<1>8. PICK r \in RowRecord : rows' = [rows EXCEPT ![c] = r] BY <1>3
<1>9. /\ UNCHANGED <<bucket, worker>> /\ handlers' = [handlers EXCEPT ![h] = Idle]
      /\ pending' \in [Certs -> {"none", "in_progress", "issued"}] /\ enrolled' \subseteq Certs
  BY <1>2, <1>3
<1>10. CASE suspect' = suspect
  BY ONLY IInv, <1>1, <1>7, <1>8, <1>9, <1>10, h \in Handlers, c \in Certs, RequestEnds
<1>11. CASE suspect' = suspect \union {c}
  BY ONLY IInv, <1>1, <1>7, <1>8, <1>9, <1>11, h \in Handlers, c \in Certs, RequestEnds
<1> QED BY <1>6, <1>10, <1>11

\* The flush and the download change nothing but the request.
LEMMA WriteIInv ==
  ASSUME IInv, NEW h \in Handlers, NEW c \in Certs, Write(h, c)
  PROVE  IInv'
<1>1. PICK changed \in Changes(h) :
        handlers' = [handlers EXCEPT ![h].pc = "written", ![h].locked = changed,
                                     ![h].raw = bucket[c]]
  BY DEF Write
<1>2. /\ handlers[h].pc = "loaded" /\ handlers[h].cert = {c}
      /\ handlers[h].op \in {"revoke", "activate", "renew"}
      /\ UNCHANGED <<rows, bucket, pending, enrolled, worker, suspect>>
  BY DEF Write
<1>3. changed \in BOOLEAN BY DEF Changes
<1>4. /\ handlers \in [Handlers -> RequestRecord] /\ handlers' \in [Handlers -> RequestRecord]
      /\ \A g \in Handlers \ {h} : handlers'[g] = handlers[g]
      /\ handlers'[h].pc = "written" /\ handlers'[h].op = handlers[h].op
      /\ handlers'[h].cert = {c} /\ handlers'[h].seen = handlers[h].seen
      /\ handlers'[h].alone = handlers[h].alone /\ handlers'[h].locked = changed
      /\ handlers'[h].raw = bucket[c]
  <2> DEFINE q == [handlers[h] EXCEPT !.pc = "written", !.locked = changed, !.raw = bucket[c]]
  <2>1. handlers \in [Handlers -> RequestRecord] /\ bucket[c] \in SUBSET Layers
    BY DEF IInv, TypeOK
  <2>2. /\ q \in RequestRecord /\ q.pc = "written" /\ q.op = handlers[h].op
        /\ q.cert = handlers[h].cert /\ q.seen = handlers[h].seen
        /\ q.alone = handlers[h].alone /\ q.locked = changed /\ q.raw = bucket[c]
    <3>1. handlers[h] \in RequestRecord BY <2>1
    <3> QED BY ONLY <1>3, <2>1, <3>1 DEF RequestRecord
  <2>3. handlers' = [handlers EXCEPT ![h] = q] BY <1>1
  <2> HIDE DEF q
  <2> QED BY <1>2, <2>1, <2>2, <2>3
<1>5. TypeOK' BY <1>2, <1>4 DEF IInv, TypeOK
<1>6. \A d \in Certs : /\ Busy(d)' = Busy(d) /\ (Marked(d)' <=> Marked(d))
                       /\ (Agrees(d)' <=> Agrees(d)) /\ (Present(d)' <=> Present(d))
  BY <1>2, <1>4 DEF Busy, Marked, Agrees, Present
<1>7. MarksAgree' BY <1>2, <1>6 DEF IInv, MarksAgree, Untouched
<1>8. OverlapsKnown' BY <1>2, <1>4, <1>6 DEF IInv, OverlapsKnown
<1>9. handlers[h].alone => RequestAgrees(h, c)'
  <2>1. Changes(h)' = Changes(h) BY <1>4 DEF Changes
  <2> QED BY <1>2, <1>4, <1>6, <2>1 DEF IInv, RequestsAgree, RequestAgrees
<1>10. RequestsAgree'
  <2> SUFFICES ASSUME NEW g \in Handlers, NEW d \in Certs, handlers'[g].cert = {d},
                      handlers'[g].alone
               PROVE  RequestAgrees(g, d)'
    BY DEF RequestsAgree
  <2>1. CASE g = h
    <3>1. d = c BY <1>4, <2>1
    <3> QED BY <1>4, <1>9, <2>1, <3>1
  <2>2. CASE g # h BY <1>2, <1>4, <2>2, RequestUnaffected
  <2> QED BY <2>1, <2>2
<1>11. WorkerAgrees' BY <1>2, <1>6 DEF IInv, WorkerAgrees
<1>12. InOrder' BY <1>2, <1>4 DEF IInv, InOrder, RequestInOrder
<1> QED BY <1>5, <1>7, <1>8, <1>10, <1>11, <1>12 DEF IInv

\* Replacing the object touches only the certificate of the request, which is
\* suspect unless the request has it for itself.
LEMMA UploadIInv ==
  ASSUME IInv, NEW h \in Handlers, NEW c \in Certs, Upload(h, c)
  PROVE  IInv'
<1>1. /\ handlers[h].cert = {c} /\ handlers[h].pc # "idle"
      /\ handlers[h].op = "revoke" => handlers[h].raw # NoFile
      /\ handlers[h].pc = "written" \/ handlers[h].op \in {"issue", "reproduce", "delete"}
      /\ bucket' = [bucket EXCEPT ![c] = NewObject(handlers[h].op, handlers[h].raw)]
      /\ handlers' = [handlers EXCEPT ![h].pc = "uploaded"]
      /\ UNCHANGED <<rows, pending, enrolled, worker, suspect>>
  BY DEF Upload
<1>2. /\ handlers \in [Handlers -> RequestRecord] /\ handlers' \in [Handlers -> RequestRecord]
      /\ \A g \in Handlers \ {h} : handlers'[g] = handlers[g]
      /\ handlers'[h].pc = "uploaded" /\ handlers'[h].op = handlers[h].op
      /\ handlers'[h].cert = {c} /\ handlers'[h].seen = handlers[h].seen
      /\ handlers'[h].alone = handlers[h].alone /\ handlers'[h].locked = handlers[h].locked
      /\ handlers'[h].raw = handlers[h].raw
  BY <1>1 DEF IInv, TypeOK, RequestRecord
<1>3. /\ bucket' \in [Certs -> SUBSET Layers] /\ \A d \in Certs \ {c} : bucket'[d] = bucket[d]
      /\ bucket'[c] = NewObject(handlers[h].op, handlers[h].raw)
      /\ bucket'[c] # NoFile => "page" \in bucket'[c]
  <2>1. /\ NewObject(handlers[h].op, handlers[h].raw) \in SUBSET Layers
        /\ NewObject(handlers[h].op, handlers[h].raw) # NoFile
             => "page" \in NewObject(handlers[h].op, handlers[h].raw)
    BY <1>1, <1>2 DEF NewObject, RequestRecord, IInv, InOrder, RequestInOrder
  <2> QED BY <1>1, <2>1 DEF IInv, TypeOK
<1>4. TypeOK' BY <1>1, <1>2, <1>3 DEF IInv, TypeOK
<1>5. \A d \in Certs : /\ Busy(d)' = Busy(d) /\ (Marked(d)' <=> Marked(d))
                       /\ (Present(d)' <=> Present(d))
                       /\ d # c => (Agrees(d)' <=> Agrees(d))
  <2> SUFFICES ASSUME NEW d \in Certs
               PROVE  /\ Busy(d)' = Busy(d) /\ (Marked(d)' <=> Marked(d))
                      /\ (Present(d)' <=> Present(d))
                      /\ d # c => (Agrees(d)' <=> Agrees(d))
    OBVIOUS
  <2>1. \A g \in Handlers : handlers'[g].cert = handlers[g].cert BY <1>1, <1>2
  <2>2. rows' = rows /\ worker' = worker BY <1>1
  <2>3. Busy(d)' = Busy(d) BY <2>1 DEF Busy
  <2>4. (Marked(d)' <=> Marked(d)) /\ (Present(d)' <=> Present(d)) BY <2>2 DEF Marked, Present
  <2>5. d # c => (Agrees(d)' <=> Agrees(d)) BY <1>3, <2>2 DEF Agrees
  <2> QED BY <2>3, <2>4, <2>5
<1>6. h \in Busy(c) /\ (c \notin suspect => ~Marked(c)) BY <1>1 DEF Busy, IInv, OverlapsKnown
<1>7. \A g \in Handlers \ {h} : handlers[g].cert = {c} => ~handlers[g].alone
  BY <1>6 DEF IInv, OverlapsKnown
<1>8. MarksAgree' BY <1>1, <1>5, <1>6 DEF IInv, MarksAgree, Untouched
<1>9. OverlapsKnown' BY <1>1, <1>2, <1>5 DEF IInv, OverlapsKnown
<1>10. handlers[h].alone => RequestAgrees(h, c)'
  <2>1. Changes(h)' = Changes(h) BY <1>2 DEF Changes
  <2> QED BY <1>1, <1>2, <1>3, <1>5, <2>1 DEF IInv, RequestsAgree, RequestAgrees
<1>11. RequestsAgree'
  <2> SUFFICES ASSUME NEW g \in Handlers, NEW d \in Certs, handlers'[g].cert = {d},
                      handlers'[g].alone
               PROVE  RequestAgrees(g, d)'
    BY DEF RequestsAgree
  <2>1. CASE g = h
    <3>1. d = c BY <1>2, <2>1
    <3> QED BY <1>2, <1>10, <2>1, <3>1
  <2>2. CASE g # h
    <3>1. d # c BY <1>2, <1>7, <2>2
    <3> QED BY <1>1, <1>2, <1>3, <2>2, <3>1, RequestUnaffected
  <2> QED BY <2>1, <2>2
<1>12. WorkerAgrees' BY <1>1, <1>3, <1>5, <1>6 DEF IInv, WorkerAgrees
<1>13. InOrder' BY <1>1, <1>2, <1>3 DEF IInv, InOrder, RequestInOrder
<1> QED BY <1>4, <1>8, <1>9, <1>11, <1>12, <1>13 DEF IInv

\* Disturbed changes nothing of a request but that it is no longer alone.
LEMMA DisturbedFields ==
  ASSUME IInv, NEW cs \in SUBSET Certs
  PROVE  /\ Disturbed(cs) \in [Handlers -> RequestRecord]
         /\ \A g \in Handlers :
              /\ Disturbed(cs)[g].pc = handlers[g].pc /\ Disturbed(cs)[g].op = handlers[g].op
              /\ Disturbed(cs)[g].cert = handlers[g].cert /\ Disturbed(cs)[g].raw = handlers[g].raw
              /\ Disturbed(cs)[g].seen = handlers[g].seen
              /\ Disturbed(cs)[g].locked = handlers[g].locked
              /\ Disturbed(cs)[g].alone <=>
                   handlers[g].alone /\ \A d \in cs : handlers[g].cert # {d}
<1>1. handlers \in [Handlers -> RequestRecord] BY DEF IInv, TypeOK
<1>2. \A g \in Handlers :
        /\ [handlers[g] EXCEPT !.alone = FALSE] \in RequestRecord
        /\ handlers[g] \in RequestRecord
  BY <1>1 DEF RequestRecord
<1>3. \A g \in Handlers :
        Disturbed(cs)[g] = IF handlers[g].cert \cap cs # {}
                           THEN [handlers[g] EXCEPT !.alone = FALSE] ELSE handlers[g]
  BY DEF Disturbed
<1>4. Disturbed(cs) \in [Handlers -> RequestRecord] BY <1>2 DEF Disturbed
<1>5. \A g \in Handlers : handlers[g].cert = {} \/ \E d \in Certs : handlers[g].cert = {d}
  BY DEF IInv, InOrder, RequestInOrder
<1>6. \A g \in Handlers : handlers[g].cert \cap cs # {} <=> \E d \in cs : handlers[g].cert = {d}
  BY <1>5
<1> SUFFICES ASSUME NEW g \in Handlers
             PROVE  /\ Disturbed(cs)[g].pc = handlers[g].pc
                    /\ Disturbed(cs)[g].op = handlers[g].op
                    /\ Disturbed(cs)[g].cert = handlers[g].cert
                    /\ Disturbed(cs)[g].raw = handlers[g].raw
                    /\ Disturbed(cs)[g].seen = handlers[g].seen
                    /\ Disturbed(cs)[g].locked = handlers[g].locked
                    /\ Disturbed(cs)[g].alone <=>
                         handlers[g].alone /\ \A d \in cs : handlers[g].cert # {d}
  BY <1>4
<1>7. CASE \E d \in cs : handlers[g].cert = {d}
  <2>1. Disturbed(cs)[g] = [handlers[g] EXCEPT !.alone = FALSE] BY <1>3, <1>6, <1>7
  <2> QED BY <1>2, <1>7, <2>1 DEF RequestRecord
<1>8. CASE \A d \in cs : handlers[g].cert # {d}
  BY <1>3, <1>6, <1>8
<1> QED BY <1>7, <1>8

\* The same for one certificate.
LEMMA DisturbedByOne ==
  ASSUME IInv, NEW c \in Certs, NEW g \in Handlers
  PROVE  /\ Disturbed({c})[g].pc = handlers[g].pc /\ Disturbed({c})[g].op = handlers[g].op
         /\ Disturbed({c})[g].cert = handlers[g].cert /\ Disturbed({c})[g].raw = handlers[g].raw
         /\ Disturbed({c})[g].seen = handlers[g].seen
         /\ Disturbed({c})[g].locked = handlers[g].locked
         /\ Disturbed({c})[g].alone => handlers[g].alone
         /\ handlers[g].cert = {c} => ~Disturbed({c})[g].alone
         /\ \A d \in Certs \ {c} : handlers[g].cert = {d} /\ handlers[g].alone
                                     => Disturbed({c})[g].alone
<1> DEFINE cs == {c}
<1>1. cs \in SUBSET Certs /\ c \in cs OBVIOUS
<1>2. \A d \in Certs \ {c} : handlers[g].cert = {d} => \A e \in cs : handlers[g].cert # {e}
  OBVIOUS
<1> SUFFICES /\ Disturbed(cs)[g].pc = handlers[g].pc /\ Disturbed(cs)[g].op = handlers[g].op
             /\ Disturbed(cs)[g].cert = handlers[g].cert /\ Disturbed(cs)[g].raw = handlers[g].raw
             /\ Disturbed(cs)[g].seen = handlers[g].seen
             /\ Disturbed(cs)[g].locked = handlers[g].locked
             /\ Disturbed(cs)[g].alone => handlers[g].alone
             /\ handlers[g].cert = {c} => ~Disturbed(cs)[g].alone
             /\ \A d \in Certs \ {c} : handlers[g].cert = {d} /\ handlers[g].alone
                                         => Disturbed(cs)[g].alone
  OBVIOUS
<1> HIDE DEF cs
<1> QED BY <1>1, <1>2, DisturbedFields

\* A request that starts on an untouched certificate is alone with it and has
\* read the status it has; otherwise all that work on it know of each other.
LEMMA StartIInv ==
  ASSUME IInv, NEW h \in Handlers, NEW op \in Operation, NEW c \in Certs, Start(h, op, c)
  PROVE  IInv'
<1> DEFINE m == [Idle EXCEPT !.pc = "loaded", !.op = op, !.cert = {c},
                             !.seen = rows[c].status, !.alone = Untouched(c)]
<1>1. /\ handlers[h].pc = "idle" /\ handlers' = [Disturbed({c}) EXCEPT ![h] = m]
      /\ op = "issue" => ~Present(c)
      /\ op \in {"revoke", "activate", "delete"} => Present(c)
      /\ op = "renew" => rows[c].status \in {"active", "expired"}
      /\ op = "reproduce" => rows[c].status = "active"
      /\ suspect' = IF Untouched(c) THEN suspect ELSE suspect \union {c}
      /\ UNCHANGED <<rows, bucket, pending, enrolled, worker>>
  BY DEF Start, CanIssue, CanRevise, CanRenew, CanReproduce, CanDelete
<1>2. /\ m \in RequestRecord /\ m.pc = "loaded" /\ m.op = op /\ m.cert = {c}
      /\ m.seen = rows[c].status /\ m.raw = NoFile /\ (m.alone <=> Untouched(c))
  <2>1. rows[c].status \in Status BY DEF IInv, TypeOK
  <2>2. Untouched(c) \in BOOLEAN BY DEF Untouched
  <2> QED BY <2>1, <2>2 DEF RequestRecord
<1> HIDE DEF m
<1>3. /\ handlers' \in [Handlers -> RequestRecord] /\ handlers'[h] = m
      /\ \A g \in Handlers \ {h} :
           /\ handlers'[g].pc = handlers[g].pc /\ handlers'[g].op = handlers[g].op
           /\ handlers'[g].cert = handlers[g].cert /\ handlers'[g].raw = handlers[g].raw
           /\ handlers'[g].seen = handlers[g].seen /\ handlers'[g].locked = handlers[g].locked
           /\ handlers'[g].alone => handlers[g].alone
           /\ handlers[g].cert = {c} => ~handlers'[g].alone
           /\ \A d \in Certs \ {c} : handlers[g].cert = {d} /\ handlers[g].alone
                                       => handlers'[g].alone
  <2>1. Disturbed({c}) \in [Handlers -> RequestRecord] BY DisturbedFields
  <2>2. handlers' = [Disturbed({c}) EXCEPT ![h] = m] BY <1>1
  <2>3. handlers' \in [Handlers -> RequestRecord] /\ handlers'[h] = m BY <1>2, <2>1, <2>2
  <2>4. \A g \in Handlers \ {h} : handlers'[g] = Disturbed({c})[g] BY <2>1, <2>2
  <2> QED BY <2>3, <2>4, DisturbedByOne
<1>4. handlers[h].cert = {} BY <1>1 DEF IInv, InOrder, RequestInOrder
<1>5. TypeOK' BY <1>1, <1>3 DEF IInv, TypeOK
<1>6. \A d \in Certs : /\ (Marked(d)' <=> Marked(d)) /\ (Present(d)' <=> Present(d))
                       /\ (Agrees(d)' <=> Agrees(d))
  BY <1>1 DEF Marked, Present, Agrees
<1>7. Busy(c)' = Busy(c) \union {h} /\ \A d \in Certs \ {c} : Busy(d)' = Busy(d)
  BY <1>2, <1>3, <1>4 DEF Busy
<1>8. MarksAgree' BY <1>1, <1>6, <1>7 DEF IInv, MarksAgree, Untouched
<1>9. OverlapsKnown'
  <2> SUFFICES ASSUME NEW g \in Handlers, NEW d \in Certs, handlers'[g].cert = {d}
               PROVE  IF handlers'[g].alone THEN Busy(d)' = {g} /\ ~Marked(d)' ELSE d \in suspect'
    BY DEF OverlapsKnown
  <2>1. CASE g = h
    <3>1. d = c /\ (handlers'[g].alone <=> Untouched(c)) BY <1>2, <1>3, <2>1
    <3>2. Untouched(c) => Busy(c)' = {h} /\ ~Marked(c)' BY <1>6, <1>7 DEF Untouched
    <3>3. ~Untouched(c) => c \in suspect' BY <1>1
    <3> QED BY <2>1, <3>1, <3>2, <3>3
  <2>2. CASE g # h /\ d = c
    <3>1. g \in Busy(c) /\ ~handlers'[g].alone BY <1>3, <2>2 DEF Busy
    <3> QED BY <1>1, <2>2, <3>1 DEF Untouched
  <2>3. CASE g # h /\ d # c
    <3>1. handlers[g].cert = {d} BY <1>3, <2>3
    <3>2. IF handlers[g].alone THEN Busy(d) = {g} /\ ~Marked(d) ELSE d \in suspect
      BY <3>1 DEF IInv, OverlapsKnown
    <3>3. handlers'[g].alone <=> handlers[g].alone BY <1>3, <2>3, <3>1
    <3>4. d \in suspect => d \in suspect' BY <1>1
    <3> QED BY <1>6, <1>7, <2>3, <3>2, <3>3, <3>4
  <2> QED BY <2>1, <2>2, <2>3
<1>10. RequestsAgree'
  <2> SUFFICES ASSUME NEW g \in Handlers, NEW d \in Certs, handlers'[g].cert = {d},
                      handlers'[g].alone
               PROVE  RequestAgrees(g, d)'
    BY DEF RequestsAgree
  <2>1. CASE g = h
    <3>1. d = c /\ Untouched(c) BY <1>2, <1>3, <2>1
    <3>2. c \notin suspect => Agrees(c) BY <3>1 DEF IInv, MarksAgree
    <3> QED BY <1>1, <1>2, <1>3, <1>6, <2>1, <3>1, <3>2 DEF Present, RequestAgrees
  <2>2. CASE g # h
    <3>1. d # c /\ handlers[g].alone BY <1>3, <2>2
    <3>2. d \in suspect => d \in suspect' BY <1>1
    <3>3. rows'[d].status = rows[d].status /\ bucket'[d] = bucket[d] BY <1>1
    <3>4. handlers[g].cert = {d} BY <1>3, <2>2
    <3> QED BY <1>3, <2>2, <3>1, <3>2, <3>3, <3>4, RequestUnaffected
  <2> QED BY <2>1, <2>2
<1>11. WorkerAgrees' BY <1>1, <1>6 DEF IInv, WorkerAgrees
<1>12. InOrder'
  <2>1. RequestInOrder(h)' BY <1>2, <1>3 DEF RequestInOrder
  <2>2. \A g \in Handlers \ {h} : RequestInOrder(g)'
    BY <1>3, RequestStaysInOrder DEF IInv, InOrder
  <2> QED BY <1>1, <2>1, <2>2 DEF IInv, InOrder
<1> QED BY <1>5, <1>8, <1>9, <1>10, <1>11, <1>12 DEF IInv

\* Deleting the student leaves the certificate suspect and disturbs its requests.
LEMMA DeleteStudentIInv ==
  ASSUME IInv, NEW c \in Certs, DeleteStudent(c)
  PROVE  IInv'
<1>1. /\ rows' = [rows EXCEPT ![c] = NoRow] /\ pending' = [pending EXCEPT ![c] = "none"]
      /\ enrolled' = enrolled \ {c} /\ handlers' = Disturbed({c})
      /\ suspect' = suspect \union {c} /\ UNCHANGED <<bucket, worker>>
  BY DEF DeleteStudent
<1>2. /\ handlers' \in [Handlers -> RequestRecord]
      /\ \A g \in Handlers :
           /\ handlers'[g].pc = handlers[g].pc /\ handlers'[g].op = handlers[g].op
           /\ handlers'[g].cert = handlers[g].cert /\ handlers'[g].raw = handlers[g].raw
           /\ handlers'[g].seen = handlers[g].seen /\ handlers'[g].locked = handlers[g].locked
           /\ handlers'[g].alone => handlers[g].alone
           /\ handlers[g].cert = {c} => ~handlers'[g].alone
           /\ \A d \in Certs \ {c} : handlers[g].cert = {d} /\ handlers[g].alone
                                       => handlers'[g].alone
  <2>1. Disturbed({c}) \in [Handlers -> RequestRecord] BY DisturbedFields
  <2>2. handlers' = Disturbed({c}) BY <1>1
  <2>3. ASSUME NEW g \in Handlers
        PROVE  LET q == Disturbed({c})[g] IN
               /\ q.pc = handlers[g].pc /\ q.op = handlers[g].op
               /\ q.cert = handlers[g].cert /\ q.raw = handlers[g].raw
               /\ q.seen = handlers[g].seen /\ q.locked = handlers[g].locked
               /\ q.alone => handlers[g].alone
               /\ handlers[g].cert = {c} => ~q.alone
               /\ \A d \in Certs \ {c} : handlers[g].cert = {d} /\ handlers[g].alone => q.alone
    BY DisturbedByOne
  <2> QED BY ONLY <2>1, <2>2, <2>3
<1>3. TypeOK' BY <1>1, <1>2 DEF IInv, TypeOK
<1>4. \A d \in Certs : Busy(d)' = Busy(d) /\ (Marked(d)' <=> Marked(d))
  BY <1>1, <1>2 DEF Busy, Marked
<1>5. \A d \in Certs \ {c} : /\ rows'[d] = rows[d] /\ (Agrees(d)' <=> Agrees(d))
                             /\ (Present(d)' <=> Present(d))
  BY <1>1 DEF Agrees, Present, IInv, TypeOK
<1>6. MarksAgree' BY <1>1, <1>4, <1>5 DEF IInv, MarksAgree, Untouched
<1>7. OverlapsKnown'
  <2> SUFFICES ASSUME NEW g \in Handlers, NEW d \in Certs, handlers'[g].cert = {d}
               PROVE  IF handlers'[g].alone THEN Busy(d)' = {g} /\ ~Marked(d)' ELSE d \in suspect'
    BY DEF OverlapsKnown
  <2>1. CASE d = c BY <1>1, <1>2, <2>1
  <2>2. CASE d # c
    <3>1. handlers[g].cert = {d} BY <1>2
    <3>2. IF handlers[g].alone THEN Busy(d) = {g} /\ ~Marked(d) ELSE d \in suspect
      BY <3>1 DEF IInv, OverlapsKnown
    <3>3. handlers'[g].alone <=> handlers[g].alone BY <1>2, <2>2, <3>1
    <3>4. d \in suspect => d \in suspect' BY <1>1
    <3> QED BY <1>4, <3>2, <3>3, <3>4
  <2> QED BY <2>1, <2>2
<1>8. RequestsAgree'
  <2> SUFFICES ASSUME NEW g \in Handlers, NEW d \in Certs, handlers'[g].cert = {d},
                      handlers'[g].alone
               PROVE  RequestAgrees(g, d)'
    BY DEF RequestsAgree
  <2>1. d # c /\ handlers[g].cert = {d} /\ handlers[g].alone BY <1>2
  <2>2. d \in suspect => d \in suspect' BY <1>1
  <2> QED BY <1>1, <1>2, <1>5, <2>1, <2>2, RequestUnaffected
<1>11. WorkerAgrees' BY <1>1, <1>4, <1>5 DEF IInv, WorkerAgrees
<1>12. InOrder' BY <1>1, <1>2, RequestStaysInOrder DEF IInv, InOrder
<1> QED BY <1>3, <1>6, <1>7, <1>8, <1>11, <1>12 DEF IInv

-----------------------------------------------------------------------------
(* The worker.                                                             *)

\* A step of the worker that is confined to the certificates it has marked does
\* not concern the requests.
LEMMA RequestsUnaware ==
  ASSUME IInv, handlers' = handlers, suspect \subseteq suspect',
         \A c \in Certs : ~Marked(c) =>
           ~Marked(c)' /\ rows'[c].status = rows[c].status /\ bucket'[c] = bucket[c]
  PROVE  OverlapsKnown' /\ RequestsAgree' /\ \A h \in Handlers : RequestInOrder(h)'
<1>1. \A c \in Certs : Busy(c)' = Busy(c) BY DEF Busy
<1>2. \A h \in Handlers, c \in Certs : handlers[h].cert = {c} /\ handlers[h].alone => ~Marked(c)
  BY DEF IInv, OverlapsKnown
<1>3. OverlapsKnown' BY <1>1, <1>2 DEF IInv, OverlapsKnown
<1>4. RequestsAgree' BY <1>2, RequestUnaffected DEF RequestsAgree
<1>5. \A h \in Handlers : RequestInOrder(h)' BY RequestStaysInOrder DEF IInv, InOrder
<1> QED BY <1>3, <1>4, <1>5

\* The night's run selects the certificates that are due; those that a request
\* works on are suspect from now on.
LEMMA WorkerStartIInv ==
  ASSUME IInv, WorkerStart
  PROVE  IInv'
<1>1. /\ worker.pc = "idle" /\ worker' = [Resting EXCEPT !.pc = "select", !.todo = DueCerts]
      /\ handlers' = Disturbed(DueCerts)
      /\ suspect' = suspect \union {c \in DueCerts : Busy(c) # {}}
      /\ UNCHANGED <<rows, bucket, pending, enrolled>>
  BY DEF WorkerStart
<1>2. DueCerts \in SUBSET Certs /\ \A c \in DueCerts : rows[c].status = "active"
  BY DEF DueCerts
<1>3. /\ handlers' \in [Handlers -> RequestRecord]
      /\ \A g \in Handlers :
           /\ handlers'[g].pc = handlers[g].pc /\ handlers'[g].op = handlers[g].op
           /\ handlers'[g].cert = handlers[g].cert /\ handlers'[g].raw = handlers[g].raw
           /\ handlers'[g].seen = handlers[g].seen /\ handlers'[g].locked = handlers[g].locked
           /\ handlers'[g].alone <=> handlers[g].alone
                                       /\ \A d \in DueCerts : handlers[g].cert # {d}
  BY <1>1, <1>2, DisturbedFields
<1>4. TypeOK' BY <1>1, <1>2, <1>3 DEF IInv, TypeOK, WorkerRecord
<1>5. \A c \in Certs : /\ ~Marked(c) /\ (Marked(c)' <=> c \in DueCerts)
                       /\ Busy(c)' = Busy(c) /\ (Agrees(c)' <=> Agrees(c))
  BY <1>1, <1>3 DEF IInv, InOrder, Marked, Busy, Agrees
<1>6. \A c \in Certs : c \in suspect => c \in suspect' BY <1>1
<1>7. MarksAgree' BY <1>5, <1>6 DEF IInv, MarksAgree, Untouched
<1>8. OverlapsKnown'
  <2> SUFFICES ASSUME NEW g \in Handlers, NEW d \in Certs, handlers'[g].cert = {d}
               PROVE  IF handlers'[g].alone THEN Busy(d)' = {g} /\ ~Marked(d)' ELSE d \in suspect'
    BY DEF OverlapsKnown
  <2>1. handlers[g].cert = {d} BY <1>3
  <2>2. IF handlers[g].alone THEN Busy(d) = {g} /\ ~Marked(d) ELSE d \in suspect
    BY <2>1 DEF IInv, OverlapsKnown
  <2>3. CASE d \in DueCerts
    <3>1. g \in Busy(d) /\ ~handlers'[g].alone BY <1>3, <2>1, <2>3 DEF Busy
    <3> QED BY <1>1, <2>3, <3>1
  <2>4. CASE d \notin DueCerts
    <3>1. \A e \in DueCerts : handlers[g].cert # {e} BY <2>1, <2>4
    <3>2. handlers'[g].alone <=> handlers[g].alone BY <1>3, <3>1
    <3> QED BY <1>5, <1>6, <2>2, <2>4, <3>2
  <2> QED BY <2>3, <2>4
<1>9. RequestsAgree'
  <2> SUFFICES ASSUME NEW g \in Handlers, NEW d \in Certs, handlers'[g].cert = {d},
                      handlers'[g].alone
               PROVE  RequestAgrees(g, d)'
    BY DEF RequestsAgree
  <2>1. rows'[d].status = rows[d].status /\ bucket'[d] = bucket[d] BY <1>1
  <2>2. handlers[g].cert = {d} /\ handlers[g].alone BY <1>3
  <2> QED BY <1>3, <1>6, <2>1, <2>2, RequestUnaffected
<1>10. WorkerAgrees'
  <2> SUFFICES ASSUME NEW c \in Certs \ suspect', Marked(c)'
               PROVE  rows[c].status = "active" /\ bucket[c] = Clean
    BY <1>1 DEF WorkerAgrees
  <2>1. c \in DueCerts /\ Busy(c) = {} /\ c \notin suspect BY <1>1, <1>5
  <2>2. Agrees(c) BY <1>5, <2>1 DEF IInv, MarksAgree, Untouched
  <2> QED BY <1>2, <2>1, <2>2 DEF Agrees
<1>11. InOrder' BY <1>1, <1>3, RequestStaysInOrder DEF IInv, InOrder
<1> QED BY <1>4, <1>7, <1>8, <1>9, <1>10, <1>11 DEF IInv

\* The watermark of one certificate: download, upload, or neither.
LEMMA WorkerMarksIInv ==
  ASSUME IInv,
         (\E c \in Certs : WorkerDownload(c) \/ WorkerUpload(c)) \/ WorkerMarkFails
  PROVE  IInv'
<1>c. PICK c : \/ c \in Certs /\ (WorkerDownload(c) \/ WorkerUpload(c))
               \/ WorkerMarkFails
  OBVIOUS
<1>1. UNCHANGED <<rows, pending, enrolled, handlers, suspect>>
  BY <1>c DEF WorkerDownload, WorkerUpload, WorkerMarkFails
<1>w. worker \in WorkerRecord BY DEF IInv, TypeOK
<1>2. /\ worker \in WorkerRecord /\ worker' \in WorkerRecord
      /\ worker'.todo = worker.todo /\ worker'.done = worker.done
      /\ worker'.leaving = worker.leaving /\ worker'.cert \subseteq worker'.todo
      /\ worker'.pc # "idle" /\ worker.pc # "idle"
      /\ worker'.raw # NoFile => "page" \in worker'.raw
  <2>1. CASE c \in Certs /\ WorkerDownload(c)
    <3>1. /\ worker.pc = "select" /\ c \in worker.todo
          /\ worker' = [worker EXCEPT !.pc = "marking", !.cert = {c}, !.raw = bucket[c]]
      BY <2>1 DEF WorkerDownload
    <3>2. bucket[c] \in SUBSET Layers /\ (bucket[c] # NoFile => "page" \in bucket[c])
      BY <2>1 DEF IInv, TypeOK, InOrder
    <3> QED BY <1>w, <3>1, <3>2 DEF WorkerRecord
  <2>2. CASE (c \in Certs /\ WorkerUpload(c)) \/ WorkerMarkFails
    <3>1. worker.pc = "marking" /\ worker' = [worker EXCEPT !.pc = "expiring"]
      BY <2>2 DEF WorkerUpload, WorkerMarkFails, AfterFailedMark
    <3>2. worker.cert \subseteq worker.todo /\ (worker.raw # NoFile => "page" \in worker.raw)
      BY DEF IInv, InOrder
    <3> QED BY <1>w, <3>1, <3>2 DEF WorkerRecord
  <2> QED BY <1>c, <2>1, <2>2
<1>3. /\ \A d \in Certs : ~Marked(d) => bucket'[d] = bucket[d]
      /\ bucket' \in [Certs -> SUBSET Layers]
      /\ \A d \in Certs : bucket'[d] # NoFile => "page" \in bucket'[d]
  <2>1. CASE c \in Certs /\ WorkerUpload(c)
    <3>1. c \in worker.todo /\ "page" \in worker.raw /\ worker.raw \in SUBSET Layers
      BY <1>2, <2>1 DEF IInv, InOrder, WorkerUpload, WorkerRecord
    <3> QED BY <2>1, <3>1 DEF WorkerUpload, Marked, IInv, TypeOK, InOrder
  <2>2. CASE (c \in Certs /\ WorkerDownload(c)) \/ WorkerMarkFails
    BY <2>2 DEF WorkerDownload, WorkerMarkFails, IInv, TypeOK, InOrder
  <2> QED BY <1>c, <2>1, <2>2
<1>5. TypeOK' BY <1>1, <1>2, <1>3 DEF IInv, TypeOK
<1>6. \A d \in Certs : (Marked(d)' <=> Marked(d)) /\ Busy(d)' = Busy(d)
  BY <1>1, <1>2 DEF Marked, Busy
<1>7. MarksAgree'
  <2>1. \A d \in Certs : ~Marked(d) => (Agrees(d)' <=> Agrees(d)) BY <1>1, <1>3 DEF Agrees
  <2> QED BY <1>1, <1>6, <2>1 DEF IInv, MarksAgree, Untouched
<1>8. OverlapsKnown' /\ RequestsAgree' /\ \A h \in Handlers : RequestInOrder(h)'
  BY <1>1, <1>3, <1>6, RequestsUnaware
<1>9. WorkerAgrees'
  <2>1. CASE c \in Certs /\ WorkerDownload(c)
    <3>1. /\ worker.pc = "select" /\ worker'.pc = "marking" /\ worker'.cert = {c}
          /\ worker'.raw = bucket[c] /\ bucket' = bucket
      BY <1>w, <2>1 DEF WorkerDownload, WorkerRecord
    <3> QED BY <1>1, <1>2, <1>6, <3>1 DEF IInv, WorkerAgrees
  <2>2. CASE c \in Certs /\ WorkerUpload(c)
    BY <1>1, <1>2, <1>6, <2>2 DEF WorkerUpload, IInv, WorkerAgrees, TypeOK
  <2>3. CASE WorkerMarkFails
    BY <1>1, <1>2, <1>6, <2>3 DEF WorkerMarkFails, AfterFailedMark, IInv, WorkerAgrees
  <2> QED BY <1>c, <2>1, <2>2, <2>3
<1>10. InOrder' BY <1>2, <1>3, <1>8 DEF InOrder
<1> QED BY <1>5, <1>7, <1>8, <1>9, <1>10 DEF IInv

\* Expiring one certificate moves it from todo to done; its PDF is dealt with.
LEMMA WorkerExpireIInv ==
  ASSUME IInv, NEW c \in Certs, WorkerExpire(c)
  PROVE  IInv'
<1>1. /\ worker.pc = "expiring" /\ worker.cert = {c}
      /\ worker' = [worker EXCEPT !.pc = "select", !.todo = @ \ {c}, !.cert = {},
                                  !.done = @ \union {c},
                                  !.leaving = @ \union ({c} \cap enrolled)]
      /\ UNCHANGED <<rows, bucket, pending, enrolled, handlers, suspect>>
  BY DEF WorkerExpire
<1>2. worker \in WorkerRecord /\ c \in worker.todo BY <1>1 DEF IInv, TypeOK, InOrder
<1>3. /\ worker' \in WorkerRecord /\ worker'.pc = "select" /\ worker'.cert = {}
      /\ worker'.raw = worker.raw
      /\ worker'.todo = worker.todo \ {c} /\ worker'.done = worker.done \union {c}
  BY <1>1, <1>2 DEF WorkerRecord
<1>4. TypeOK' BY <1>1, <1>3 DEF IInv, TypeOK
<1>5. \A d \in Certs : /\ (Marked(d)' <=> Marked(d)) /\ Busy(d)' = Busy(d)
                       /\ (Agrees(d)' <=> Agrees(d))
  BY <1>1, <1>2, <1>3 DEF Marked, Busy, Agrees
<1>6. MarksAgree' BY <1>1, <1>5 DEF IInv, MarksAgree, Untouched
<1>7. OverlapsKnown' /\ RequestsAgree' /\ \A h \in Handlers : RequestInOrder(h)'
  BY <1>1, <1>5, RequestsUnaware
<1>8. WorkerAgrees' BY <1>1, <1>3, <1>5 DEF IInv, WorkerAgrees
<1>9. InOrder' BY <1>1, <1>3, <1>7 DEF IInv, InOrder
<1> QED BY <1>4, <1>6, <1>7, <1>8, <1>9 DEF IInv

\* The commit expires what was done, all of which was active and unmarked or
\* marked as expired.
LEMMA WorkerCommitIInv ==
  ASSUME IInv, WorkerCommit
  PROVE  IInv'
<1>1. /\ worker.pc = "select" /\ worker.todo = {} /\ worker' = Resting
      /\ rows' = [c \in Certs |-> IF c \in worker.done
                                  THEN [rows[c] EXCEPT !.status = "expired"] ELSE rows[c]]
      /\ enrolled' = enrolled \ worker.leaving
      /\ UNCHANGED <<bucket, pending, handlers, suspect>>
  BY DEF WorkerCommit
<1>2. \A c \in Certs : /\ rows[c] \in RowRecord /\ rows'[c] \in RowRecord
                       /\ (Marked(c) <=> c \in worker.done) /\ ~Marked(c)'
                       /\ rows'[c].status = IF c \in worker.done THEN "expired" ELSE rows[c].status
  BY <1>1 DEF IInv, TypeOK, Marked
<1>3. rows' \in [Certs -> RowRecord] BY <1>1, <1>2
<1>4. TypeOK' BY <1>1, <1>3 DEF IInv, TypeOK, WorkerRecord
<1>5. OverlapsKnown' /\ RequestsAgree' /\ \A h \in Handlers : RequestInOrder(h)'
  BY <1>1, <1>2, RequestsUnaware
<1>6. MarksAgree'
  <2> SUFFICES ASSUME NEW c \in Certs \ suspect, Busy(c) = {}
               PROVE  Agrees(c)'
    BY <1>1 DEF MarksAgree, Untouched, Busy
  <2>1. CASE c \in worker.done
    BY <1>1, <1>2, <2>1 DEF IInv, WorkerAgrees, Agrees
  <2>2. CASE c \notin worker.done
    <3>1. Agrees(c) BY <1>2, <2>2 DEF IInv, MarksAgree, Untouched
    <3> QED BY <1>1, <1>2, <2>2, <3>1 DEF Agrees
  <2> QED BY <2>1, <2>2
<1>7. WorkerAgrees' BY <1>2 DEF WorkerAgrees
<1>8. InOrder' BY <1>1, <1>5 DEF IInv, InOrder
<1> QED BY <1>4, <1>5, <1>6, <1>7, <1>8 DEF IInv

\* A run that ends without its commit leaves suspect what it may have marked.
LEMMA WorkerRollbackIInv ==
  ASSUME IInv, WorkerRollback
  PROVE  IInv'
<1>1. /\ worker' = Resting
      /\ suspect' = suspect \union worker.done
                      \union (IF worker.pc = "expiring" THEN worker.cert ELSE {})
      /\ UNCHANGED <<rows, bucket, pending, enrolled, handlers>>
  BY DEF WorkerRollback
<1>2. worker \in WorkerRecord BY DEF IInv, TypeOK
<1>3. /\ suspect \subseteq suspect' /\ suspect' \subseteq Certs /\ worker.done \subseteq suspect'
      /\ worker.pc = "expiring" => worker.cert \subseteq suspect'
  BY <1>1, <1>2 DEF IInv, TypeOK, WorkerRecord
<1>4. TypeOK' BY <1>1, <1>3 DEF IInv, TypeOK, WorkerRecord
<1>5. \A c \in Certs : ~Marked(c)' /\ (Agrees(c)' <=> Agrees(c)) /\ Busy(c)' = Busy(c)
  BY <1>1 DEF Marked, Agrees, Busy
<1>6. OverlapsKnown' /\ RequestsAgree' /\ \A h \in Handlers : RequestInOrder(h)'
  BY <1>1, <1>3, <1>5, RequestsUnaware
<1>7. MarksAgree'
  <2> SUFFICES ASSUME NEW c \in Certs, c \notin suspect', Busy(c) = {}
               PROVE  Agrees(c)
    BY <1>5 DEF MarksAgree, Untouched
  <2>1. c \notin suspect /\ c \notin worker.done
    BY <1>3
  <2>2. CASE Marked(c)
    <3>1. worker.pc = "expiring" => worker.cert # {c} BY <1>3
    <3> QED BY <2>1, <2>2, <3>1 DEF IInv, WorkerAgrees, Agrees
  <2>3. CASE ~Marked(c) BY <2>1, <2>3 DEF IInv, MarksAgree, Untouched
  <2> QED BY <2>2, <2>3
<1>8. WorkerAgrees' BY <1>5 DEF WorkerAgrees
<1>9. InOrder' BY <1>1, <1>6 DEF IInv, InOrder
<1> QED BY <1>4, <1>6, <1>7, <1>8, <1>9 DEF IInv

-----------------------------------------------------------------------------
(* The theorems.                                                           *)

\* Every step preserves the inductive invariant.
LEMMA NextIInv == IInv /\ [Next]_vars => IInv'
<1> SUFFICES ASSUME IInv, [Next]_vars PROVE IInv' OBVIOUS
<1>1. ASSUME NEW h \in Handlers, NEW op \in Operation, NEW c \in Certs, Start(h, op, c)
      PROVE  IInv'
  BY <1>1, StartIInv
<1>2. ASSUME NEW h \in Handlers, Step(h)
      PROVE  IInv'
  BY <1>2, WriteIInv, UploadIInv, BatchKeepsRowIInv, CommitIInv, AbortIInv DEF Step
<1>3. ASSUME NEW c \in Certs,
             StartRenewal(c) \/ CancelRenewal(c) \/ DeleteStudent(c) \/ FallDue(c)
      PROVE  IInv'
  BY <1>3, DetailsIInv, DeleteStudentIInv
<1>4. CASE WorkerStep
  <2>1. ASSUME NEW c \in Certs,
               WorkerDownload(c) \/ WorkerUpload(c) \/ WorkerExpire(c) \/ WorkerFails(c)
        PROVE  IInv'
    BY <2>1, WorkerMarksIInv, WorkerExpireIInv, WorkerRollbackIInv DEF WorkerFails
  <2> QED BY <1>4, <2>1, WorkerStartIInv, WorkerMarksIInv, WorkerCommitIInv DEF WorkerStep
<1>5. CASE WorkerCrash BY <1>5, WorkerRollbackIInv DEF WorkerCrash
<1>6. CASE UNCHANGED vars
  BY <1>6, OnlyDetailsChange DEF vars, IInv, TypeOK
<1> QED BY <1>1, <1>2, <1>3, <1>4, <1>5, <1>6 DEF Next

\* The inductive invariant holds in every reachable state.
THEOREM LifecycleInvariance == Spec => []IInv
<1> QED BY InitIInv, NextIInv, PTL DEF Spec

\* Rows, objects, requests and the worker keep to their types: every status is
\* one that the CHECK constraint of the certificates table admits.
THEOREM LifecycleTypeCorrect == Spec => []TypeOK
<1>1. IInv => TypeOK BY DEF IInv
<1> QED BY <1>1, LifecycleInvariance, PTL

\* A certificate that nobody works on shows in its PDF what its row says, unless
\* operations overlapped or one was cut short since the last undisturbed one.
THEOREM RowsAndFilesAgree == Spec => []MarksAgree
<1>1. IInv => MarksAgree BY DEF IInv
<1> QED BY <1>1, LifecycleInvariance, PTL

\* A renewal request is closed as issued only when the certificate is active, or
\* another operation interfered.
THEOREM RenewalsReactivate == Spec => RenewalReactivates
<1> DEFINE A == \A c \in Certs : pending[c] = "in_progress" /\ pending'[c] = "issued"
                  => rows'[c].status = "active" \/ c \in suspect'
<1>1. IInv /\ [Next]_vars => [A]_vars
  <2> SUFFICES ASSUME IInv, Next, NEW c \in Certs, pending[c] = "in_progress",
                      pending'[c] = "issued", c \notin suspect'
               PROVE  rows'[c].status = "active"
    OBVIOUS
  <2>1. pending \in [Certs -> {"none", "in_progress", "issued"}] BY DEF IInv, TypeOK
  <2>2. \E h \in Handlers : CommitRenewal(h, c)
    <3>1. \E h \in Handlers, d \in Certs : CommitRenewal(h, d)
      <4>1. ASSUME NEW h \in Handlers, NEW op \in Operation, NEW d \in Certs, Start(h, op, d)
            PROVE  pending' = pending
        BY <4>1 DEF Start
      <4>2. ASSUME NEW h \in Handlers, NEW d \in Certs,
                   Write(h, d) \/ Upload(h, d) \/ BatchKeepsRow(h, d)
            PROVE  pending' = pending
        BY <4>2 DEF Write, Upload, BatchKeepsRow
      <4>3. ASSUME NEW h \in Handlers, NEW d \in Certs, Commit(h, d), ~CommitRenewal(h, d)
            PROVE  pending' = pending \/ pending' = [pending EXCEPT ![d] = "none"]
        BY <4>3 DEF Commit, CommitIssue, CommitRevision, CommitReproduction, CommitDeletion
      <4>4. ASSUME NEW h \in Handlers, Abort(h) PROVE pending' = pending BY <4>4 DEF Abort
      <4>5. ASSUME NEW d \in Certs,
                   StartRenewal(d) \/ CancelRenewal(d) \/ DeleteStudent(d) \/ FallDue(d)
            PROVE  \/ pending' = pending
                   \/ \E s \in {"none", "in_progress"} : pending' = [pending EXCEPT ![d] = s]
        BY <4>5 DEF StartRenewal, CancelRenewal, DeleteStudent, FallDue
      <4>6. WorkerStep \/ WorkerCrash => pending' = pending
        BY DEF WorkerStep, WorkerStart, WorkerDownload, WorkerUpload, WorkerMarkFails,
               WorkerExpire, WorkerCommit, WorkerFails, WorkerCrash, WorkerRollback
      <4> QED BY <2>1, <4>1, <4>2, <4>3, <4>4, <4>5, <4>6 DEF Next, Step
    <3> QED BY <2>1, <3>1 DEF CommitRenewal
  <2>3. PICK h \in Handlers : CommitRenewal(h, c) BY <2>2
  <2>4. /\ handlers[h].op = "renew" /\ handlers[h].pc = "uploaded" /\ handlers[h].cert = {c}
        /\ handlers[h].alone
    BY <2>3 DEF CommitRenewal, Finish, IInv, OverlapsKnown
  <2>5. /\ handlers[h].seen = rows[c].status /\ rows[c].status \in {"active", "expired"}
        /\ handlers[h].locked \in Changes(h)
    BY <2>4 DEF IInv, RequestsAgree, RequestAgrees
  <2>6. PICK due \in BOOLEAN :
          rows' = IF handlers[h].locked
                  THEN [rows EXCEPT ![c].status = Renewed(handlers[h].seen, @), ![c].due = due]
                  ELSE rows
    BY <2>3 DEF CommitRenewal
  <2>7. rows \in [Certs -> RowRecord] BY DEF IInv, TypeOK
  <2>8. CASE handlers[h].seen = "active" BY <2>5, <2>6, <2>7, <2>8 DEF Renewed
  <2>9. CASE handlers[h].seen = "expired"
    BY <2>4, <2>5, <2>6, <2>7, <2>9 DEF Renewed, Changes, Target
  <2> QED BY <2>5, <2>8, <2>9
<1> QED BY <1>1, LifecycleInvariance, PTL DEF Spec, RenewalReactivates

=============================================================================
