------------------------ MODULE CertificateLifecycle ------------------------
(***************************************************************************)
(* Certificates: services/certificate_lifecycle.py, the endpoints that     *)
(* call it and the nightly worker of workers/tasks.py.                     *)
(*                                                                         *)
(* A certificate is a row in PostgreSQL and a PDF in MinIO under the same  *)
(* uuid.  The row says active, revoked or expired; the PDF, which anybody  *)
(* may open, says it with a watermark.  No transaction spans the two: an   *)
(* operation reads the row, changes it (flush, which takes the row lock),  *)
(* replaces the object, and commits.  SQLAlchemy writes only the columns   *)
(* whose value differs from the one it read, so an operation that finds    *)
(* the status it wants takes no lock; reads never wait and see what was    *)
(* committed last.  Any operation may be cut short: a MinIO or database    *)
(* error or a crash rolls the row back and leaves the object as it is.     *)
(* (A deletion also waits for audit entries that refer to the row and are  *)
(* not committed yet; here it may overtake them, which only adds           *)
(* interleavings.)                                                         *)
(***************************************************************************)
EXTENDS FiniteSets

CONSTANTS
  Certs,      \* certificates (uuids), each of one student and at most one course
  Handlers    \* concurrent requests of the API

Status == {"none", "active", "revoked", "expired"}
RowRecord == [status: Status, due: BOOLEAN, course: BOOLEAN]
NoRow == [status |-> "none", due |-> FALSE, course |-> FALSE]
Operation == {"issue", "revoke", "activate", "renew", "reproduce", "delete"}

\* A PDF is the set of its layers; no layers, no object.
Layers == {"page", "REVOCADO", "EXPIRADO"}
NoFile == {}
Clean == {"page"}

\* pc = "loaded": the row was read; "written": it was flushed, and locked if
\* anything changed; "uploaded": the object was replaced, the commit is due.
\* alone: no other operation on the certificate ran at the same time (history).
RequestRecord == [pc: {"idle", "loaded", "written", "uploaded"}, op: Operation,
                  cert: SUBSET Certs, seen: Status, locked: BOOLEAN,
                  raw: SUBSET Layers, alone: BOOLEAN]
Idle == [pc |-> "idle", op |-> "issue", cert |-> {}, seen |-> "none",
         locked |-> FALSE, raw |-> NoFile, alone |-> TRUE]

\* todo: selected and not yet expired; cert: the one at hand; done: flushed and
\* locked until the commit; leaving: those of done whose enrolment goes.
WorkerRecord == [pc: {"idle", "select", "marking", "expiring"}, todo: SUBSET Certs,
                 cert: SUBSET Certs, raw: SUBSET Layers, done: SUBSET Certs,
                 leaving: SUBSET Certs]
Resting == [pc |-> "idle", todo |-> {}, cert |-> {}, raw |-> NoFile, done |-> {},
            leaving |-> {}]

VARIABLES
  rows,      \* certificates: their status, whether expires_at has passed, and
             \* whether they belong to a course
  bucket,    \* the layers of the PDF in MinIO
  pending,   \* the certificate's renewal request in pending_certificates
  enrolled,  \* certificates whose student is enrolled in their course
  handlers,  \* the requests being served
  worker,    \* check_expired_certificates
  suspect    \* certificates whose row and PDF may disagree (history)

vars == <<rows, bucket, pending, enrolled, handlers, worker, suspect>>

Init ==
  /\ rows = [c \in Certs |-> NoRow]
  /\ bucket = [c \in Certs |-> NoFile]
  /\ pending = [c \in Certs |-> "none"]
  /\ enrolled = {}
  /\ handlers = [h \in Handlers |-> Idle]
  /\ worker = Resting
  /\ suspect = {}

-----------------------------------------------------------------------------
(* Who works on a certificate, and who holds its row lock.                 *)

Busy(c) == {h \in Handlers : handlers[h].cert = {c}}
Marked(c) == c \in worker.todo \union worker.done
Untouched(c) == Busy(c) = {} /\ ~Marked(c)
Locked(c) == c \in worker.done \/ \E h \in Busy(c) : handlers[h].locked
Present(c) == rows[c].status # "none"

\* From here on the operations that work on one of cs overlap.
Disturbed(cs) ==
  [h \in Handlers |-> IF handlers[h].cert \cap cs # {}
                      THEN [handlers[h] EXCEPT !.alone = FALSE] ELSE handlers[h]]

-----------------------------------------------------------------------------
(* Requests read the row, and some of them stop there.                     *)

\* A fresh uuid: one that no row has and nobody knows.  (Bound: a uuid of Certs
\* that fell free stands for the next one, so that they do not run out.)
CanIssue(c) == ~Present(c) /\ Untouched(c)

\* PATCH {status: revoked | active}: the endpoint asks for no particular status.
CanRevise(c) == Present(c)

\* force-issue or, at 100%, maybe_issue_pending, and the guard of renew_certificate.
CanRenew(c) == pending[c] = "in_progress" /\ rows[c].status \in {"active", "expired"}

\* A change of the student's name or identity reproduces the active ones.
CanReproduce(c) == rows[c].status = "active"

CanDelete(c) == Present(c)

Start(h, op, c) ==
  /\ handlers[h].pc = "idle"
  /\ \/ op = "issue" /\ CanIssue(c)
     \/ op \in {"revoke", "activate"} /\ CanRevise(c)
     \/ op = "renew" /\ CanRenew(c)
     \/ op = "reproduce" /\ CanReproduce(c)
     \/ op = "delete" /\ CanDelete(c)
  /\ handlers' = [Disturbed({c}) EXCEPT ![h] =
       [Idle EXCEPT !.pc = "loaded", !.op = op, !.cert = {c},
                    !.seen = rows[c].status, !.alone = Untouched(c)]]
  /\ suspect' = IF Untouched(c) THEN suspect ELSE suspect \union {c}
  /\ UNCHANGED <<rows, bucket, pending, enrolled, worker>>

\* Faults of the definitions below: a status the table does not admit; a
\* revocation that stores the PDF as it was; a renewal that leaves the status
\* alone; a worker that skips the certificate when its watermark fails.
Target_Valid(op) == IF op = "revoke" THEN "revoked" ELSE "valid"
NewObject_Unmarked(op, raw) ==
  CASE op = "delete" -> NoFile [] op = "revoke" -> raw [] OTHER -> Clean
Renewed_DatesOnly(seen, status) == status
AfterFailedMark_Skip(w) == [w EXCEPT !.pc = "select", !.todo = @ \ w.cert, !.cert = {}]

\* The status an operation wants the row to have.
Target(op) == IF op = "revoke" THEN "revoked" ELSE "active"

\* Is there something new to write?  A renewal also writes dates, which are the
\* old ones when its request sets them and was carried out before.
Changes(h) ==
  IF handlers[h].op = "renew" /\ handlers[h].seen = "active"
  THEN BOOLEAN ELSE {Target(handlers[h].op) # handlers[h].seen}

\* The flush: the UPDATE waits for the row lock, and fails if the row is gone.
\* The PDF is downloaded next, which only a revocation makes use of.
Write(h, c) ==
  /\ handlers[h].pc = "loaded"
  /\ handlers[h].cert = {c}
  /\ handlers[h].op \in {"revoke", "activate", "renew"}
  /\ Present(c)
  /\ \E changed \in Changes(h) :
       /\ changed => ~Locked(c)
       /\ handlers' = [handlers EXCEPT ![h].pc = "written", ![h].locked = changed,
                                       ![h].raw = bucket[c]]
  /\ UNCHANGED <<rows, bucket, pending, enrolled, worker, suspect>>

\* The object an operation leaves in the bucket: a watermark goes over the page
\* as downloaded, the other operations generate it anew.
NewObject(op, raw) ==
  CASE op = "delete" -> NoFile
    [] op = "revoke" -> raw \union {"REVOCADO"}
    [] OTHER         -> Clean

Upload(h, c) ==
  /\ handlers[h].cert = {c}
  /\ \/ handlers[h].pc = "written"
     \/ handlers[h].pc = "loaded" /\ handlers[h].op \in {"issue", "reproduce", "delete"}
  /\ handlers[h].op = "revoke" => handlers[h].raw # NoFile
  /\ bucket' = [bucket EXCEPT ![c] = NewObject(handlers[h].op, handlers[h].raw)]
  /\ handlers' = [handlers EXCEPT ![h].pc = "uploaded"]
  /\ UNCHANGED <<rows, pending, enrolled, worker, suspect>>

\* The request ends; if it had the certificate for itself, its row and its PDF
\* agree again.
Finish(h, c) ==
  /\ handlers[h].pc = "uploaded"
  /\ handlers[h].cert = {c}
  /\ handlers' = [handlers EXCEPT ![h] = Idle]
  /\ suspect' = IF handlers[h].alone THEN suspect \ {c} ELSE suspect

\* issue_certificate, for a pending request of an enrolled student or without a
\* course.  A date in the past is accepted, so it may be due already.
CommitIssue(h, c) ==
  /\ handlers[h].op = "issue"
  /\ Finish(h, c)
  /\ \E due, course \in BOOLEAN :
       /\ rows' = [rows EXCEPT ![c] = [status |-> "active", due |-> due, course |-> course]]
       /\ enrolled' = IF course THEN enrolled \union {c} ELSE enrolled
  /\ UNCHANGED <<bucket, pending, worker>>

\* The upload failed, but POST /certificates/batch catches the error and commits
\* what was flushed.
BatchKeepsRow(h, c) ==
  /\ handlers[h].op = "issue"
  /\ handlers[h].pc = "loaded"
  /\ handlers[h].cert = {c}
  /\ \E due \in BOOLEAN :
       rows' = [rows EXCEPT ![c] = [status |-> "active", due |-> due, course |-> FALSE]]
  /\ handlers' = [handlers EXCEPT ![h] = Idle]
  /\ suspect' = suspect \union {c}
  /\ UNCHANGED <<bucket, pending, enrolled, worker>>

\* revoke_certificate and activate_certificate; nothing is written if the row
\* had the status when it was read.
CommitRevision(h, c) ==
  /\ handlers[h].op \in {"revoke", "activate"}
  /\ Present(c)
  /\ Finish(h, c)
  /\ rows' = IF handlers[h].locked
             THEN [rows EXCEPT ![c].status = Target(handlers[h].op)] ELSE rows
  /\ UNCHANGED <<bucket, pending, enrolled, worker>>

\* The status the row has after a renewal that read seen: "active" is written
\* over whatever is there now, unless it was what the renewal had read.
Renewed(seen, status) == IF seen = "active" THEN status ELSE "active"

\* renew_certificate and the end of materialize_pending; the request must still
\* be there (one cancelled and opened again is taken for the same).  Its
\* issued_at_override may date the renewal back.
CommitRenewal(h, c) ==
  /\ handlers[h].op = "renew"
  /\ pending[c] # "none"
  /\ Finish(h, c)
  /\ \E due \in BOOLEAN :
       rows' = IF handlers[h].locked
               THEN [rows EXCEPT ![c].status = Renewed(handlers[h].seen, @), ![c].due = due]
               ELSE rows
  /\ pending' = [pending EXCEPT ![c] = "issued"]
  /\ UNCHANGED <<bucket, enrolled, worker>>

\* reproduce_active_for_student, for one certificate, adds an audit entry, no more.
CommitReproduction(h, c) ==
  /\ handlers[h].op = "reproduce"
  /\ Present(c)
  /\ Finish(h, c)
  /\ UNCHANGED <<rows, bucket, pending, enrolled, worker>>

\* delete_certificate: the files went first; a renewal request of the
\* certificate loses its reference and becomes an ordinary one.
CommitDeletion(h, c) ==
  /\ handlers[h].op = "delete"
  /\ Present(c) /\ ~Locked(c)
  /\ Finish(h, c)
  /\ rows' = [rows EXCEPT ![c] = NoRow]
  /\ pending' = [pending EXCEPT ![c] = "none"]
  /\ UNCHANGED <<bucket, enrolled, worker>>

\* An error or a crash; what was uploaded stays.
Abort(h) ==
  /\ handlers[h].pc # "idle"
  /\ handlers' = [handlers EXCEPT ![h] = Idle]
  /\ suspect' = IF handlers[h].pc = "uploaded" THEN suspect \union handlers[h].cert ELSE suspect
  /\ UNCHANGED <<rows, bucket, pending, enrolled, worker>>

Commit(h, c) ==
  \/ CommitIssue(h, c) \/ CommitRevision(h, c) \/ CommitRenewal(h, c)
  \/ CommitReproduction(h, c) \/ CommitDeletion(h, c)

Step(h) ==
  \/ \E c \in Certs : Write(h, c) \/ Upload(h, c) \/ BatchKeepsRow(h, c) \/ Commit(h, c)
  \/ Abort(h)

-----------------------------------------------------------------------------
(* What takes one short transaction and leaves the bucket alone.           *)

\* start_renewal, by an administrator for any certificate or, through
\* /payments/renew, by the student for an expired one.
StartRenewal(c) ==
  /\ Present(c) /\ rows[c].course
  /\ enrolled' = enrolled \union {c}
  /\ pending' = [pending EXCEPT ![c] = "in_progress"]
  /\ UNCHANGED <<rows, bucket, handlers, worker, suspect>>

\* DELETE /certificates/pending/{id}
CancelRenewal(c) ==
  /\ pending[c] = "in_progress"
  /\ pending' = [pending EXCEPT ![c] = "none"]
  /\ UNCHANGED <<rows, bucket, enrolled, handlers, worker, suspect>>

\* Deleting the student deletes the rows by cascade, and leaves the objects.
DeleteStudent(c) ==
  /\ Present(c) /\ ~Locked(c)
  /\ rows' = [rows EXCEPT ![c] = NoRow]
  /\ pending' = [pending EXCEPT ![c] = "none"]
  /\ enrolled' = enrolled \ {c}
  /\ handlers' = Disturbed({c})
  /\ suspect' = suspect \union {c}
  /\ UNCHANGED <<bucket, worker>>

\* expires_at passes.
FallDue(c) ==
  /\ Present(c) /\ ~rows[c].due
  /\ rows' = [rows EXCEPT ![c].due = TRUE]
  /\ UNCHANGED <<bucket, pending, enrolled, handlers, worker, suspect>>

-----------------------------------------------------------------------------
(* check_expired_certificates: one transaction for all that are due.       *)

DueCerts == {c \in Certs : rows[c].status = "active" /\ rows[c].due}

WorkerStart ==
  /\ worker.pc = "idle"
  /\ DueCerts # {}
  /\ worker' = [Resting EXCEPT !.pc = "select", !.todo = DueCerts]
  /\ handlers' = Disturbed(DueCerts)
  /\ suspect' = suspect \union {c \in DueCerts : Busy(c) # {}}
  /\ UNCHANGED <<rows, bucket, pending, enrolled>>

WorkerDownload(c) ==
  /\ worker.pc = "select"
  /\ c \in worker.todo
  /\ worker' = [worker EXCEPT !.pc = "marking", !.cert = {c}, !.raw = bucket[c]]
  /\ UNCHANGED <<rows, bucket, pending, enrolled, handlers, suspect>>

WorkerUpload(c) ==
  /\ worker.pc = "marking"
  /\ worker.cert = {c}
  /\ worker.raw # NoFile
  /\ bucket' = [bucket EXCEPT ![c] = worker.raw \union {"EXPIRADO"}]
  /\ worker' = [worker EXCEPT !.pc = "expiring"]
  /\ UNCHANGED <<rows, pending, enrolled, handlers, suspect>>

\* The watermark is best effort: the certificate expires without it.
AfterFailedMark(w) == [w EXCEPT !.pc = "expiring"]

WorkerMarkFails ==
  /\ worker.pc = "marking"
  /\ worker' = AfterFailedMark(worker)
  /\ UNCHANGED <<rows, bucket, pending, enrolled, handlers, suspect>>

\* The status is set without another look at the row, and flushed with the
\* deletion of the enrolment.
WorkerExpire(c) ==
  /\ worker.pc = "expiring"
  /\ worker.cert = {c}
  /\ Present(c) /\ ~Locked(c)
  /\ worker' = [worker EXCEPT !.pc = "select", !.todo = @ \ {c}, !.cert = {},
                              !.done = @ \union {c},
                              !.leaving = @ \union ({c} \cap enrolled)]
  /\ UNCHANGED <<rows, bucket, pending, enrolled, handlers, suspect>>

WorkerCommit ==
  /\ worker.pc = "select"
  /\ worker.todo = {}
  /\ rows' = [c \in Certs |-> IF c \in worker.done
                              THEN [rows[c] EXCEPT !.status = "expired"] ELSE rows[c]]
  /\ enrolled' = enrolled \ worker.leaving
  /\ worker' = Resting
  /\ UNCHANGED <<bucket, pending, handlers, suspect>>

\* The run ends without a commit; the objects it replaced stay.
WorkerRollback ==
  /\ worker' = Resting
  /\ suspect' = suspect \union worker.done
                  \union (IF worker.pc = "expiring" THEN worker.cert ELSE {})
  /\ UNCHANGED <<rows, bucket, pending, enrolled, handlers>>

\* A row that is gone fails the flush, and with it the whole run.
Stale(c) == worker.pc = "expiring" /\ worker.cert = {c} /\ ~Present(c)

WorkerFails(c) == Stale(c) /\ WorkerRollback

\* Anything else that ends the run.  (With nothing in hand, it just ends.)
WorkerCrash ==
  /\ worker.pc # "idle"
  /\ worker.todo \union worker.done # {}
  /\ \A c \in Certs : ~Stale(c)
  /\ WorkerRollback

WorkerStep ==
  \/ WorkerStart \/ WorkerMarkFails \/ WorkerCommit
  \/ \E c \in Certs :
       WorkerDownload(c) \/ WorkerUpload(c) \/ WorkerExpire(c) \/ WorkerFails(c)

Next ==
  \/ \E h \in Handlers, op \in Operation, c \in Certs : Start(h, op, c)
  \/ \E h \in Handlers : Step(h)
  \/ \E c \in Certs : StartRenewal(c) \/ CancelRenewal(c) \/ DeleteStudent(c) \/ FallDue(c)
  \/ WorkerStep \/ WorkerCrash

Spec == Init /\ [][Next]_vars

(* The beat starts the worker every night, whatever became of the last run,   *)
(* and from some night on nothing kills it half-way.  PostgreSQL serves those  *)
(* who wait for a row lock in turn.  A request ends, if only by its timeout.   *)
FairSpec ==
  /\ Spec
  /\ WF_vars(WorkerStep)
  /\ \A c \in Certs : SF_vars(WorkerExpire(c))
  /\ <>[][~WorkerCrash]_vars
  /\ \A h \in Handlers : WF_vars(Step(h))

-----------------------------------------------------------------------------
(* Properties.                                                             *)

\* The type invariant: rows hold a status of the CHECK constraint, and the
\* bucket holds PDFs that the watermarks can be laid over.
TypeOK ==
  /\ rows \in [Certs -> RowRecord]
  /\ bucket \in [Certs -> SUBSET Layers]
  /\ pending \in [Certs -> {"none", "in_progress", "issued"}]
  /\ enrolled \subseteq Certs
  /\ handlers \in [Handlers -> RequestRecord]
  /\ worker \in WorkerRecord
  /\ suspect \subseteq Certs

\* What the PDF must say for the row: nothing without a row, no mark on an
\* active one, its mark on a revoked one.  An expired one may lack its mark, but
\* is not shown as revoked.
Agrees(c) ==
  CASE rows[c].status = "none"    -> bucket[c] = NoFile
    [] rows[c].status = "active"  -> bucket[c] = Clean
    [] rows[c].status = "revoked" -> {"page", "REVOCADO"} \subseteq bucket[c]
    [] rows[c].status = "expired" -> "page" \in bucket[c] /\ "REVOCADO" \notin bucket[c]

\* When nobody works on a certificate, its PDF says what its row says, unless
\* operations on it overlapped, one was cut short between the bucket and the
\* database, a batch kept a row whose upload failed, or the student was deleted;
\* and the next operation that has the certificate for itself repairs even that.
MarksAgree == \A c \in Certs \ suspect : Untouched(c) => Agrees(c)

\* What makes MarksAgree inductive.  A request knows whether it is alone with
\* its certificate, and what is not alone leaves the certificate suspect.
OverlapsKnown ==
  \A h \in Handlers, c \in Certs : handlers[h].cert = {c} =>
    IF handlers[h].alone THEN Busy(c) = {h} /\ ~Marked(c) ELSE c \in suspect

\* A request that is alone has read the status the row still has, one that its
\* operation is meant for, and has left in the bucket what its commit calls for.
RequestAgrees(h, c) ==
  /\ handlers[h].seen = rows[c].status
  /\ handlers[h].op = "issue" => rows[c].status = "none"
  /\ handlers[h].op \in {"revoke", "activate", "delete"} => Present(c)
  /\ handlers[h].op = "renew" => rows[c].status \in {"active", "expired"}
  /\ handlers[h].op = "reproduce" => rows[c].status = "active"
  /\ handlers[h].pc \in {"written", "uploaded"} /\ handlers[h].op \in {"revoke", "activate", "renew"}
       => handlers[h].locked \in Changes(h)
  /\ IF handlers[h].pc = "uploaded"
     THEN bucket[c] = NewObject(handlers[h].op, handlers[h].raw)
     ELSE c \notin suspect => Agrees(c)
RequestsAgree ==
  \A h \in Handlers, c \in Certs :
    handlers[h].cert = {c} /\ handlers[h].alone => RequestAgrees(h, c)

\* A certificate that the worker has for itself is still active; its PDF is
\* clean until the worker has dealt with it.
WorkerAgrees ==
  \A c \in Certs \ suspect : Marked(c) =>
    /\ rows[c].status = "active"
    /\ "page" \in bucket[c] /\ "REVOCADO" \notin bucket[c]
    /\ c \notin worker.done /\ (worker.pc = "expiring" => worker.cert # {c}) => bucket[c] = Clean
    /\ worker.pc = "marking" /\ worker.cert = {c} => worker.raw = bucket[c]

\* The records are in order: a watermark lies on a page, a request that is not
\* idle has one certificate, and the worker's one at hand is still to be done.
RequestInOrder(h) ==
  /\ handlers[h].raw # NoFile => "page" \in handlers[h].raw
  /\ handlers[h].pc = "uploaded" /\ handlers[h].op = "revoke" => handlers[h].raw # NoFile
  /\ handlers[h].pc = "idle" => handlers[h].cert = {}
  /\ handlers[h].pc # "idle" => \E c \in Certs : handlers[h].cert = {c}
InOrder ==
  /\ \A c \in Certs : bucket[c] # NoFile => "page" \in bucket[c]
  /\ \A h \in Handlers : RequestInOrder(h)
  /\ worker.raw # NoFile => "page" \in worker.raw
  /\ worker.cert \subseteq worker.todo
  /\ worker.pc = "idle" => worker.todo = {} /\ worker.done = {}

IInv ==
  TypeOK /\ MarksAgree /\ OverlapsKnown /\ RequestsAgree /\ WorkerAgrees /\ InOrder

\* A renewal request is closed as issued only by a renewal that leaves the
\* certificate active, if no other operation came in between.
RenewalReactivates ==
  [][\A c \in Certs : pending[c] = "in_progress" /\ pending'[c] = "issued"
       => rows'[c].status = "active" \/ c \in suspect']_vars

\* A certificate does not stay active for ever after its expiry date, though
\* MinIO may fail for every watermark and any number of runs may be cut short.
DueExpires ==
  \A c \in Certs : (rows[c].status = "active" /\ rows[c].due)
                     ~> ~(rows[c].status = "active" /\ rows[c].due)

-----------------------------------------------------------------------------
(* What the code's own messages and comments say, and it does not do.      *)

\* "Solo pueden renovarse certificados activos o expirados" (renew_certificate):
\* no renewal makes a revoked certificate active.
RevokedIsNotRenewed ==
  [][\A h \in Handlers, c \in Certs :
       CommitRenewal(h, c) => ~(rows[c].status = "revoked" /\ rows'[c].status = "active")]_vars

\* "Reasigna el curso al estudiante ... y deja una solicitud en proceso ... (se
\* renovara al 100%)" (start_renewal): the student of a renewal in progress can
\* take the course.
RenewalKeepsCourse == \A c \in Certs : pending[c] = "in_progress" => c \in enrolled
=============================================================================
