--------------------------- MODULE CourseCompletion ---------------------------
(***************************************************************************)
(* How one student completes one course and gets the certificate: the      *)
(* submissions of endpoints/module_assessments.py and task_submissions.py, *)
(* maybe_issue_pending, and the administrators who open, cancel, renew and *)
(* force the request (pending_certificates).  Students and courses share   *)
(* no rows, so that one of each stands for all.                            *)
(*                                                                         *)
(* A submission is two transactions: the answers or the file are committed *)
(* first; then the request and the progress are read, by several queries   *)
(* that each see what is committed by then, and the certificate is issued  *)
(* or renewed and the request closed.  If anything goes wrong in the       *)
(* second the error is logged and the submission stands.                   *)
(***************************************************************************)
EXTENDS Naturals, FiniteSets

CONSTANTS
  Assessments,   \* the course's assessments with questions
  Tasks,         \* the tasks of its lessons
  Files,         \* PDFs a student may hand in
  Requests,      \* ids of pending_certificates
  Handlers,      \* concurrent requests of the API
  None           \* null

ASSUME ConstantsAssumption == None \notin Requests \union Files \union Tasks

\* pending_certificates; a renewal has renewal_of_certificate_id.
RequestRecord == [id: Requests \union {None}, status: {"none", "in_progress", "issued"},
                  renewal: BOOLEAN]
NoRequest == [id |-> None, status |-> "none", renewal |-> FALSE]

\* pc = "uploading": a task that was found not handed in yet; "recording": its file
\* is stored; "submitted": the submission is committed; "checking": a request in
\* progress was read; "issuing": all assessments were found passed and the tasks
\* in unread are still to be counted, or an administrator forces the issue;
\* "wiping": a renewal has deleted the progress; "renewing": and read the request;
\* "cancelling": a request is about to be deleted.
\* wiped, reopens, enrols: what a renewal deleted, and whether it writes the
\* status and the enrolment.
HandlerRecord == [pc: {"idle", "uploading", "recording", "submitted", "checking",
                       "issuing", "wiping", "renewing", "cancelling"},
                  task: Tasks \union {None}, file: Files \union {None},
                  request: Requests \union {None}, renewal: BOOLEAN, byAdmin: BOOLEAN,
                  unread: SUBSET Tasks,
                  wiped: SUBSET (Assessments \union Tasks), reopens: BOOLEAN, enrols: BOOLEAN]
Idle == [pc |-> "idle", task |-> None, file |-> None, request |-> None,
         renewal |-> FALSE, byAdmin |-> FALSE, unread |-> {}, wiped |-> {},
         reopens |-> FALSE, enrols |-> FALSE]

VARIABLES
  enrolled,     \* is the student enrolled?
  passed,       \* assessments with an attempt that passed
  submissions,  \* task_submissions: the file each was accepted for
  files,        \* the object of each task's submission in MinIO
  request,      \* the row of pending_certificates, at most one
  certified,    \* does the student have a certificate of the course?
  handlers,     \* the requests being served
  copies,       \* certificates issued for the request since it was opened (history)
  excused,      \* nobody will issue the completed request by himself (history)
  doubled       \* tasks handed in by two requests at once (history)

course == <<enrolled, passed, submissions, files>>
vars == <<course, request, certified, handlers, copies, excused, doubled>>

Init ==
  /\ enrolled \in BOOLEAN
  /\ passed = {}
  /\ submissions = [t \in Tasks |-> None]
  /\ files = [t \in Tasks |-> None]
  /\ request = NoRequest
  /\ certified = FALSE
  /\ handlers = [h \in Handlers |-> Idle]
  /\ copies = 0
  /\ excused = FALSE
  /\ doubled = {}

HandedIn == {t \in Tasks : submissions[t] # None}

\* is_course_completed, for a course that has modules: every assessment passed
\* and every task handed in (graded or not).
Completed == passed = Assessments /\ HandedIn = Tasks

-----------------------------------------------------------------------------
(* The student's submissions.                                              *)

\* Faults of the definitions below: the route for tasks forgets the request; a task
\* may be handed in again; a request is closed with a status the table refuses.
AfterTask_Forgets == Idle
MayHandIn_Again(t) == TRUE
Closed_Completed == "completed"

\* What a handler goes on with once its submission is committed.
AfterSubmission == [Idle EXCEPT !.pc = "submitted"]
AfterTask == AfterSubmission

\* POST /assessments/{id}/submit, as often as the student likes; any attempt that
\* passed counts, and a failed one looks at the request as well.  An attempt made
\* after a renewal deleted the older ones survives it.
SubmitAssessment(h, a, passes) ==
  /\ handlers[h].pc = "idle"
  /\ enrolled
  /\ passed' = IF passes THEN passed \union {a} ELSE passed
  /\ handlers' = [g \in Handlers |->
       IF g = h THEN AfterSubmission
       ELSE IF passes THEN [handlers[g] EXCEPT !.wiped = @ \ {a}] ELSE handlers[g]]
  /\ UNCHANGED <<enrolled, submissions, files, request, certified, copies, excused, doubled>>

WorksOn(t) == {h \in Handlers : handlers[h].task = t}

\* Only one attempt, as far as this request can see.
MayHandIn(t) == submissions[t] = None

\* POST /tasks/{id}/submit, up to the upload.
SubmitTask(h, t, f) ==
  /\ handlers[h].pc = "idle"
  /\ enrolled
  /\ MayHandIn(t)
  /\ handlers' = [handlers EXCEPT ![h] = [Idle EXCEPT !.pc = "uploading", !.task = t, !.file = f]]
  /\ doubled' = IF WorksOn(t) = {} THEN doubled ELSE doubled \union {t}
  /\ UNCHANGED <<course, request, certified, copies, excused>>

\* The object's name is the same for every attempt of the student.
UploadTask(h, t) ==
  /\ handlers[h].pc = "uploading"
  /\ handlers[h].task = t
  /\ files' = [files EXCEPT ![t] = handlers[h].file]
  /\ handlers' = [handlers EXCEPT ![h].pc = "recording"]
  /\ UNCHANGED <<enrolled, passed, submissions, request, certified, copies, excused, doubled>>

\* The insert, which the unique constraint may refuse, and its commit.
RecordTask(h, t) ==
  /\ handlers[h].pc = "recording"
  /\ handlers[h].task = t
  /\ submissions[t] = None
  /\ submissions' = [submissions EXCEPT ![t] = handlers[h].file]
  /\ handlers' = [handlers EXCEPT ![h] = AfterTask]
  /\ UNCHANGED <<enrolled, passed, files, request, certified, copies, excused, doubled>>

-----------------------------------------------------------------------------
(* maybe_issue_pending and materialize_pending.                            *)

\* The handler holds a request it read as being in progress.
Holding(pc, byAdmin) == [Idle EXCEPT !.pc = pc, !.request = request.id,
                                    !.renewal = request.renewal, !.byAdmin = byAdmin]

ReadRequest(h) ==
  /\ handlers[h].pc = "submitted"
  /\ handlers' = [handlers EXCEPT ![h] =
       IF request.status = "in_progress" THEN Holding("checking", FALSE) ELSE Idle]
  /\ UNCHANGED <<course, request, certified, copies, excused, doubled>>

ReadAttempts(h) ==
  /\ handlers[h].pc = "checking"
  /\ handlers' = [handlers EXCEPT ![h] =
       IF passed = Assessments THEN [@ EXCEPT !.pc = "issuing", !.unread = Tasks] ELSE Idle]
  /\ UNCHANGED <<course, request, certified, copies, excused, doubled>>

\* The submissions are counted module by module.  (One task is read at a time, in
\* any order, which allows for tasks of one module and of several.)
ReadTask(h, t) ==
  /\ handlers[h].pc = "issuing"
  /\ t \in handlers[h].unread
  /\ handlers' = IF submissions[t] # None THEN [handlers EXCEPT ![h].unread = @ \ {t}]
                 ELSE [handlers EXCEPT ![h] = Idle]
  /\ UNCHANGED <<course, request, certified, copies, excused, doubled>>

\* POST /certificates/pending/{id}/force-issue
ForceIssue(h) ==
  /\ handlers[h].pc = "idle"
  /\ request.status = "in_progress"
  /\ handlers' = [handlers EXCEPT ![h] = Holding("issuing", TRUE)]
  /\ UNCHANGED <<course, request, certified, copies, excused, doubled>>

Closed == "issued"

\* The certificate is inserted or renewed, and the row that was read is closed,
\* whatever became of it meanwhile, in one transaction.
Issue(h) ==
  /\ handlers[h].pc = "issuing"
  /\ handlers[h].unread = {}
  /\ request.id = handlers[h].request
  /\ request' = [request EXCEPT !.status = Closed]
  /\ certified' = TRUE
  /\ copies' = IF handlers[h].renewal THEN copies ELSE copies + 1
  /\ handlers' = [handlers EXCEPT ![h] = Idle]
  /\ excused' = FALSE
  /\ UNCHANGED <<course, doubled>>

\* An error or a crash at any point: the open transaction is rolled back.  A row
\* that is gone and a unique constraint leave nothing else to do.
Fail(h) ==
  /\ handlers[h].pc # "idle"
  /\ handlers' = [handlers EXCEPT ![h] = Idle]
  /\ excused' = (excused \/ (Completed /\ ~handlers[h].byAdmin
        /\ handlers[h].pc \in {"submitted", "checking", "issuing"}))
  /\ UNCHANGED <<course, request, certified, copies, doubled>>

-----------------------------------------------------------------------------
(* Administrators, purchases and the worker.                               *)

\* An enrolment by an administrator, or a purchase that opens no request.
Enrol ==
  /\ ~enrolled
  /\ enrolled' = TRUE
  /\ UNCHANGED <<passed, submissions, files, request, certified, handlers, copies, excused, doubled>>

\* DELETE /course-enrollments/{id}, or the worker when the certificate expires.
Unenrol ==
  /\ enrolled
  /\ enrolled' = FALSE
  /\ UNCHANGED <<passed, submissions, files, request, certified, handlers, copies, excused, doubled>>

\* A new row.  (Bound: an id that nobody holds stands for a new one.)
Fresh(r) == r # request.id /\ \A h \in Handlers : handlers[h].request # r

\* POST /certificates/pending, or a purchase: the request is opened with no look at
\* the progress the student has made already.
OpenRequest(r) ==
  /\ request.status = "none"
  /\ Fresh(r)
  /\ request' = [id |-> r, status |-> "in_progress", renewal |-> FALSE]
  /\ enrolled' = TRUE
  /\ copies' = 0
  /\ excused' = Completed
  /\ UNCHANGED <<passed, submissions, files, certified, handlers, doubled>>

\* DELETE /certificates/pending/{id} finds the request in progress ...
Cancel(h) ==
  /\ handlers[h].pc = "idle"
  /\ request.status = "in_progress"
  /\ handlers' = [handlers EXCEPT ![h] = Holding("cancelling", TRUE)]
  /\ UNCHANGED <<course, request, certified, copies, excused, doubled>>

\* ... and deletes the row, though it may have been issued meanwhile.
CommitCancel(h) ==
  /\ handlers[h].pc = "cancelling"
  /\ request.id = handlers[h].request
  /\ request' = NoRequest
  /\ handlers' = [handlers EXCEPT ![h] = Idle]
  /\ excused' = FALSE
  /\ UNCHANGED <<course, certified, copies, doubled>>

\* start_renewal looks for the enrolment and deletes the progress (not the files),
\* reads the request ...
StartRenewal(h) ==
  /\ handlers[h].pc = "idle"
  /\ certified
  /\ handlers' = [handlers EXCEPT ![h] =
       [Idle EXCEPT !.pc = "wiping", !.byAdmin = TRUE,
                    !.wiped = passed \union HandedIn, !.enrols = ~enrolled]]
  /\ UNCHANGED <<course, request, certified, copies, excused, doubled>>

ReadForRenewal(h) ==
  /\ handlers[h].pc = "wiping"
  /\ handlers' = [handlers EXCEPT
       ![h].pc = "renewing", ![h].request = request.id,
       ![h].reopens = request.status # "in_progress"]
  /\ UNCHANGED <<course, request, certified, copies, excused, doubled>>

\* ... and reopens the row or makes one.  Only columns that differ from what was
\* read are written: a request that was in progress keeps the status it has now.
CommitRenewal(h, r) ==
  /\ handlers[h].pc = "renewing"
  /\ request.id = handlers[h].request
  /\ IF request.id = None THEN Fresh(r) ELSE r = request.id
  /\ handlers[h].enrols => ~enrolled
  /\ request' = [id |-> r, renewal |-> TRUE,
                 status |-> IF handlers[h].reopens THEN "in_progress" ELSE request.status]
  /\ enrolled' = (enrolled \/ handlers[h].enrols)
  /\ passed' = passed \ handlers[h].wiped
  /\ submissions' = [t \in Tasks |-> IF t \in handlers[h].wiped THEN None ELSE submissions[t]]
  /\ handlers' = [handlers EXCEPT ![h] = Idle]
  /\ copies' = IF handlers[h].reopens THEN 0 ELSE copies
  /\ excused' = (Completed' /\ (excused \/ handlers[h].reopens))
  /\ UNCHANGED <<files, certified, doubled>>

Administrator ==
  \/ Enrol \/ Unenrol
  \/ \E r \in Requests : OpenRequest(r)
  \/ \E h \in Handlers : ForceIssue(h) \/ Cancel(h) \/ StartRenewal(h)

Submit(h) ==
  \/ \E a \in Assessments, passes \in BOOLEAN : SubmitAssessment(h, a, passes)
  \/ \E t \in Tasks, f \in Files : SubmitTask(h, t, f)

Step(h) ==
  \/ \E t \in Tasks : UploadTask(h, t) \/ RecordTask(h, t) \/ ReadTask(h, t)
  \/ ReadRequest(h) \/ ReadAttempts(h) \/ Issue(h)
  \/ CommitCancel(h) \/ ReadForRenewal(h) \/ (\E r \in Requests : CommitRenewal(h, r))
  \/ Fail(h)

Next ==
  \/ Administrator
  \/ \E h \in Handlers : Submit(h) \/ Step(h)

Spec == Init /\ [][Next]_vars

(* A request that is being served ends, and the student hands in what is     *)
(* still missing.                                                            *)
FairSpec ==
  /\ Spec
  /\ \A h \in Handlers : WF_vars(Step(h))
  /\ \A t \in Tasks : SF_vars(\E h \in Handlers, f \in Files : SubmitTask(h, t, f))
  /\ \A a \in Assessments : SF_vars(\E h \in Handlers : SubmitAssessment(h, a, TRUE))

-----------------------------------------------------------------------------
(* Properties.                                                             *)

\* The type invariant.
TypeOK ==
  /\ enrolled \in BOOLEAN
  /\ passed \subseteq Assessments
  /\ submissions \in [Tasks -> Files \union {None}]
  /\ files \in [Tasks -> Files \union {None}]
  /\ request \in RequestRecord
  /\ certified \in BOOLEAN
  /\ handlers \in [Handlers -> HandlerRecord]
  /\ copies \in Nat
  /\ excused \in BOOLEAN
  /\ doubled \subseteq Tasks

\* The handler of a submission will find the request in progress, or has found it.
OnItsWay(h) ==
  /\ ~handlers[h].byAdmin
  /\ \/ handlers[h].pc = "submitted"
     \/ handlers[h].pc \in {"checking", "issuing"} /\ handlers[h].request = request.id

\* A course that is complete is not forgotten, though the last parts may be handed
\* in at the same time and every handler looks at what is committed only: while
\* the request is in progress some submission is on its way to issue it, unless
\* one of them failed after the course was complete, or the request was opened
\* when it already was.
NoCompletionMissed ==
  request.status = "in_progress" /\ Completed /\ ~excused => \E h \in Handlers : OnItsWay(h)

\* The file that is graded is the one that was accepted, unless two requests
\* handed in the task at the same time.
GradedFileIsAccepted ==
  \A t \in HandedIn \ doubled : files[t] = submissions[t]

\* What makes NoCompletionMissed inductive: who issues holds a request, and a renewal
\* that found none opens one.
RequestsAgree ==
  /\ request.id = None <=> request.status = "none"
  /\ \A h \in Handlers : handlers[h].pc \in {"checking", "issuing"}
       => handlers[h].request # None
  /\ \A h \in Handlers : handlers[h].pc = "renewing" /\ handlers[h].request = None
       => handlers[h].reopens

\* What makes GradedFileIsAccepted inductive: who works on a task alone works on one
\* that is not handed in, and has stored its file before it records it.
UploadsAgree ==
  \A h \in Handlers, t \in Tasks \ doubled : handlers[h].task = t =>
    /\ WorksOn(t) = {h}
    /\ submissions[t] = None
    /\ handlers[h].pc = "recording" => files[t] = handlers[h].file

IInv == TypeOK /\ NoCompletionMissed /\ GradedFileIsAccepted /\ RequestsAgree /\ UploadsAgree

-----------------------------------------------------------------------------
(* What messages and comments of the code say, and it does not do.         *)

\* "La solicitud ya fue emitida" (force-issue): a request gives one certificate.
IssuedOnce == copies <= 1

\* "Se emitira automaticamente cuando el estudiante complete el curso al 100%"
\* (create_pending_certificate).
CompletedIsIssued ==
  (request.status = "in_progress" /\ Completed) ~> (request.status # "in_progress" \/ ~Completed)
=============================================================================
