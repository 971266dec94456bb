# certify-backend: a verification project

TLA+ models of `CQuiza/certify-backend`, a multi-tenant service for training
courses and certificates (FastAPI, SQLAlchemy async on PostgreSQL, MinIO, Celery,
Mercado Pago). The modules are translated from the code under `src/`;
`PROJECT.json` gives the lines of every definition (`map`), the runs of TLC, the
mutants that show that each property can fail, the hazards and the theorems.

## Files

| module | what it is |
| --- | --- |
| `Purchase` | what the shop promises: the abstract specification of purchases |
| `Payments` | orders, webhooks, polling, materialisation, the gateway |
| `PaymentsProofs` | theorems about `Payments`, among them that it implements `Purchase` |
| `Notifications` | extends `Payments` with the answers of the webhook, what the gateway repeats after them, and the fairness under which payments are delivered |
| `CertificateLifecycle` | certificate rows and their PDFs, requests, the expiry worker |
| `CertificateLifecycleProofs` | theorems about `CertificateLifecycle` |
| `CourseCompletion` | a student's submissions, the completion rule, and the request they close |
| `CourseCompletionProofs` | theorems about `CourseCompletion` |
| `Accounts` | an account, its log-ins and lock, its refresh sessions, its password |
| `AccountsProofs` | theorems about `Accounts` |
| `Tenancy` | the tenant of a request and of the worker: context, criteria, row-level security |
| `TenancyProofs` | theorems about `Tenancy` |
| `CourseContent` | courses and all that is below them, files, images, visibility, grading |
| `CourseContentProofs` | theorems about `CourseContent` |
| `Assessments` | the assessment of a module: edits, deletion, attempts and their score |
| `Reports` | what students and administrators are shown of `Assessments` |
| `ReportsProofs` | theorems about `Assessments` and `Reports` |
| `Billing` | what tenants pay for the platform, with the audit of it |
| `PlatformSettings` | a tenant's settings and logos |
| `Background` | the backup, and the mails sent behind an answer |
| `Platform` | `Billing`, `PlatformSettings` and `Background` side by side; they share no state |
| `PlatformProofs` | theorems about the three, as they run in `Platform` |
| `MC...` | the small instances for TLC: `MCPayments`, `MCNotifications`, `MCCertificateLifecycle`, `MCCourseCompletion`, `MCAccounts`, `MCTenancy`, `MCCourseContent`, `MCReports`, `MCPlatform` |

`tlc -config X.cfg MCPayments` (or another MC module) runs a check,
`tlapm PaymentsProofs.tla` checks the proofs.

## How the system executes

- The API serves requests concurrently, in one or several processes. Every request
  has one database session and, by `get_db` (`core/database.py:162`), one
  transaction. `get_db` is a dependency with `yield`: its commit comes after the
  handler has returned *and the answer was sent*, and after the background tasks of the
  request; an exception rolls back. A client may thus be told of a success that the
  commit then refuses (`CourseContent`, `Background`). A few handlers commit in the middle
  (`submit_assessment`, `submit_task`, `grade_submission`) or before they answer
  (`force_issue_pending_certificate`, `batch_issue_certificates`).
- The isolation level is READ COMMITTED: a read sees what was committed last and
  never waits; an `UPDATE`, a `DELETE` and a `SELECT ... FOR UPDATE` wait for the
  row lock, which is held to the commit.
- Sessions are created with `autoflush=False` and `expire_on_commit=False`, and an
  object that is in the session is not refreshed by a later query
  (`FOR UPDATE` included, unless `populate_existing` is asked for). A flush writes
  the columns whose value was changed, and nothing else.
- What a flush writes is decided when it runs: a change that no flush has written yet is
  written under the settings the transaction has *then* (`Tenancy`).
- MinIO, the mail server and Mercado Pago take no part in the transaction.
- Celery's beat starts two tasks a night (`workers/celery_config.py:25`); a task is
  one process with a session of its own and one commit at the end.

## Inventory

| component | state | operations | interacts through | what is hard | what makes it correct |
| --- | --- | --- | --- | --- | --- |
| Payments (`endpoints/payments.py`, `services/payment_service.py`) | `course_orders`, items, `payment_webhook_events`; enrolments, requests and progress it writes | checkout, renew, webhook, poll, process payment | gateway (calls, notifications), rows shared with completion and worker | repeated, lost, late and reordered notifications; polls on stale sessions; several payments per order; crashes | each payment used once, none swallowed, delivery only against an approved payment, delivery in the end |
| Certificate lifecycle (`services/certificate_lifecycle.py`, `certificate_storage.py`, `certificate_pdf.py`, `endpoints/certificates.py`) | `certificates`, `certificate_audit`, PDF and QR objects in MinIO | issue, batch, revoke, activate, renew, reproduce, delete | row locks, the bucket, requests | no transaction spans row and object; guards on unlocked reads; failure between upload and commit | row and PDF agree; renewed certificates are active; revoked ones stay revoked |
| Expiry worker (`workers/tasks.py`) | one run at a time: selection, downloaded PDF, flushed rows | select, watermark, expire, commit, retry | rows, bucket, enrolments | overwrites what changed since its selection; one commit for the night; failing watermark; deleted rows | due certificates expire; an undisturbed run leaves row and PDF in agreement |
| Renewal requests (`pending_certificates`) | one per student and course: in progress / issued, renewal mark, overrides | start (paid, free, admin), cancel, carry out | payments, completion, lifecycle | started twice, cancelled while carried out, orphaned by a deletion | one renewal at a time; the student can complete it |
| Course completion (`maybe_issue_pending`, `module_assessments.py`, `task_submissions.py`) | progress, attempts, submissions | submit, grade, complete, force-issue | lifecycle, requests | two last submissions at once; issue after the commit, its failure only logged | one certificate per request; 100% leads to a certificate |
| Accounts (`services/user_service.py`) | users, failed logins, `locked_until` | log in, change, delete | lifecycle (reproduction, cascade) | counter without a lock; not reset when a lock ends | N failures lock; a success unlocks |
| Refresh sessions (`services/refresh_session_service.py`) | `refresh_sessions`: hash, family, revoked, successor | create, rotate, revoke one / family / all | login, logout, password | concurrent rotation; reuse of an old token; logout or password change during a rotation | one live token per family; a reuse kills the family |
| Tenant context and RLS (`core/tenant.py`, `core/database.py`) | a context variable, settings of a transaction, loader criteria | set, begin, query, flush | everything | settings fixed at begin, variable changes later | no row of another tenant is read or written |
| Tenant billing (`tenant_billing_service.py`, `admin_tenants.py`) | `tenant_payments`, `security_audit` | record, correct, delete, status | superuser | calendar arithmetic; two corrections that cross | a period is what the plan buys; who has paid is not shown as owing |
| Task submissions | rows and files | submit, replace, grade, delete | MinIO | file before row; two first submissions | the file that is graded is the one of the row |
| Backup task | dump file, object, `worker_audit` | dump, upload, record | `pg_dump`, MinIO | failure between the steps | an audit entry tells the truth |
| E-mail audit | `email_audit` | send, record | SMTP | errors swallowed below the audit | sent means sent |
| Loki handler | queue, thread | emit, flush | HTTP | full queue, shutdown | logging never blocks a request |
| Courses and content (`endpoints/courses.py`, `modules.py`, `lessons.py`, `tasks.py`, `lesson_files.py`, `services/access.py`) | rows from course to submission, files and images in MinIO | create, publish, delete with all below, upload, enrol | bucket, completion, certificates | the commit after the answer; image swapped before it; insertion below what is deleted | nothing without its parent; the image shown exists; listed means visible; deleted means gone |
| Assessments (`module_assessments.py`, `module_assessment_repository.py`, `user_assessment_repository.py`) | one assessment to a module, questions, attempts, answers | create, edit, delete, take | completion, reports | edits that overlap with edits and attempts | questions of one edit; a pass is earned on what is asked |
| Reports (`report_service.py`, progress) | none | progress of a course and of all, seven reports | assessments, tasks, enrolments | the same figure computed in several places | they agree |
| Platform settings (`platform_settings_service.py`, `configuration.py`) | one row per tenant, one object per logo | three forms, two logos, branding | mails, pages, bucket | forms and logos saved at once; object before row | settings are what was saved |
| Perimeter, schemas | | rate limits, captcha, headers, types | | stateless or in libraries | |

`PROJECT.json` lists them all with their status, and under `hazards` what is hard to
test in each, at its line.

## Payments and Purchase

**State.** `orders`, `events`, `enrolled`, `pending`, `completed` and `certs` are the
tables, reduced to the columns that decide something; a seat is a student and a
course. `payments` is the gateway's. A handler is a request between its awaits:
`loaded` (a poll has read its order), `fetched` (it holds a snapshot of a payment).
`grants` is history: how often each payment was materialised.

**Actions.** `Checkout`, `RenewCheckout` and `FreeRenewal` are the endpoints of a
student. `WebhookFetch` resolves a notification by asking the gateway; `PollLoad` and
`PollSearch` are `get_order` and `reconcile_order`. `process_payment` locks the order
and holds the lock to the commit, so that it is one action, of four kinds:
`SkipProcessed`, `RecordRepeated`, `Materialise`, `OverwriteStatus`. The two facts
that make it interesting are kept: the snapshot was fetched *before* the lock, and a
poll goes on with the order status it loaded first (`SeenStatus`), because the locking
query finds the object in the session. `Abort` is every error, crash and collision of
a unique constraint. A lost notification is one that is never fetched, a repeated one
is fetched twice, a late one has its handler wait. `PaymentStarts` and `PaymentMoves`
are the external gateway, as the backend uses it. `CompleteCourse` and
`ExpireCertificate` are what completion and worker do to the shared rows, in one step.

**Properties.** `GrantedOnce`: a payment is materialised at most once.
`NoPaymentSwallowed`: a payment in `payment_webhook_events`, which is never looked at
again, belongs to a delivered order. `ApprovedMeansDelivered`: an order shown as
approved was delivered. `ProgressWipedByRenewalOnly`: a student's progress is wiped by
the start of a renewal and by nothing else, and by a payment only the first time.
`PurchaseSpec`: the shop implements `Purchase` (a payment is owed once approved,
delivered against at most once, only for its own order).

## Notifications

**State.** `notices` adds to `Payments` what became of the notification of each payment's latest
change: `none`, `unanswered`, `answered` or `ignored`.

**Actions.** Those of `Payments`, with what the gateway hears of them. A change of a payment makes
its notice unanswered (`GatewayNotifies`). A webhook that holds the present status answers it
when it commits (`Acknowledges`, `Answered`) and leaves it unanswered when it fails (500) or
dies. `IgnoreNotice` is the other 200: the payment could not be fetched, and the gateway does
not repeat what was acknowledged.

**Properties.** `NotifiedIsDelivered`: a payment that stays approved ends in the delivery of its
order, *unless its notification was ignored*. `PolledIsDelivered`: an order that is asked for
again and again *while it is pending*, and for which a payment stays approved, is delivered,
whatever became of the notifications. Neither covers an ignored notification of an order that a
rejected payment has put to failed: there the code has nothing left (see *Findings*).

## CertificateLifecycle

**State.** `rows` holds the status, whether `expires_at` has passed and whether the
certificate belongs to a course; `bucket` the PDF as the set of its layers (the page and
its watermarks). A request is between its steps: `loaded` (row read), `written` (flushed;
`locked` if a column changed), `uploaded` (object replaced, commit due). `worker` is the
nightly run: selected, at hand, flushed. Two variables are history: `alone` (no other
operation on the certificate overlapped with this request) and `suspect`
(certificates on which operations overlapped or were cut short).

**Actions.** `Start` reads the row and evaluates the guard of the operation; `Write`,
`Upload` and the commits follow in the order of the code, and differ between
operations: a revocation flushes, downloads, watermarks and uploads; a reproduction
uploads without a flush; a deletion removes the object first. `Abort` may come after
every step and leaves the object. `BatchKeepsRow` is the batch endpoint, which commits
a row whose upload failed. The worker's steps are one per certificate:
`WorkerDownload`, `WorkerUpload` or `WorkerMarkFails`, `WorkerExpire`; then
`WorkerCommit`. `WorkerFails` is the flush of a row that is gone, which fails the whole
run; `WorkerCrash` anything else that ends it.

**Properties.** `MarksAgree`: when nobody works on a certificate, its PDF says what its
row says, except where operations overlapped or were cut short between bucket and
database, a batch kept a row without a file, or the student was deleted; and the next
operation that has the certificate for itself repairs even that. The exceptions are not
put in to make it hold: each is a behaviour of the code, listed as a hazard, and
removing any of the places that set `suspect` makes TLC find it.
`RenewalReactivates`: a renewal request that is closed as issued left the certificate
active, if nothing came in between. `DueExpires`: a due certificate is expired, renewed
or gone in the end.

## CourseCompletion

**State.** One student and one course, since neither the submissions nor the requests of
others share a row with them. `passed` and `submissions` are what the completion rule
looks at, `files` the objects in MinIO, `request` the one row of `pending_certificates`
(unique for student and course), `certified` whether there is a certificate to renew.
A handler is between its awaits: `uploading` and `recording` (a task), `submitted` (the
first transaction is committed), `checking` and `issuing` (it holds the request it read;
`unread` are the tasks it has still to count), `wiping` and `renewing` (the start of a
renewal before its commit), `cancelling`. Three variables are history: `copies` (certificates
issued for a request since it was opened), `excused` (nobody is left to issue it by
himself) and `doubled` (tasks that two requests handed in at once).

**Actions.** `SubmitAssessment` is the first transaction of an attempt; `SubmitTask`,
`UploadTask` and `RecordTask` are the look at the earlier submission, the upload and the
insert, which the unique constraint may refuse. Then `ReadRequest`, `ReadAttempts` and
`ReadTask` are the queries of `maybe_issue_pending`, each of which sees what is committed
at that moment, and `Issue` is `materialize_pending` with its commit. `ForceIssue` reads
the request and goes on with `Issue`. `OpenRequest`, `Cancel`/`CommitCancel`,
`StartRenewal`/`ReadForRenewal`/`CommitRenewal`, `Enrol` and `Unenrol` are the
administrators, the shop and the worker. `Fail` is every error and crash: the open transaction
is gone, what was committed or uploaded stays.

**Properties.** `NoCompletionMissed`: while the request is in progress and the course
complete, a submission is on its way that will find both, however the last parts overlap.
The excuses are those of the code: a submission failed after the course was complete, or
the request was opened when it already was. `GradedFileIsAccepted`: the file a teacher
grades is the one that was accepted, though the object is written before the row and
every attempt uses the same name. Tasks that two requests handed in at once are excepted;
there the file is replaced.

## Accounts

**State.** One account stands for all, since accounts share no rows. `account`, `student`,
`password`, `failed`, `lock` and `consent` are the user's row and his consent; `family`,
`limit` and `live` are `refresh_sessions`, where a family is named by the session of its
log-in and `limit` is the log-in whose ninety days count; `closed` are those that are over.
A handler is a request between its read and its commit.

**Actions.** `RefreshAccepted` takes the session `FOR UPDATE` and holds it until `Rotate`;
`RefreshReused` and `RefreshRefused` are the other two answers. `RevokeFamily`, and `CommitPassword`
for all sessions of the user, revoke the rows that were committed when their `UPDATE`
began (`seen`) and wait for those that are locked, which is how PostgreSQL serves an
`UPDATE` under READ COMMITTED: a successor inserted meanwhile is not among them.
`Login` reads and compares; `LoginFails` and `LoginSucceeds` write, each only the columns
that differ from what was read. Registration, creation by an administrator, consent, the
three ways to change a password, deactivation and deletion are the rest.

**Properties.** `OneLivePerFamily`: concurrent rotations of one token never give two live
successors. `EndedStaysEnded`: after a logout or a reuse, no session of the family is live
or comes back, unless a rotation escaped the `UPDATE` while it ran (`escaped` records it:
the code lets it). `PasswordChangeEndsSessions`: a live session belongs to a log-in with the
present password, with the same exception. `FailuresLock`: as many failures as
`MAX_FAILED_ATTEMPTS` lock the account, if no two log-ins overlapped; those that overlap
count as one, a hazard of the code.

## Tenancy

**State.** A request has the tenant the middleware resolved (`scope`), what its dependency
put on top, and the block it is in (`tenant_ctx`), which together are the context variable
(`Current`); its transaction has the settings it was given at its begin (`sees`); `touched`
are the owners of the rows it reached. `orgs`, `active`, `superusers`, and the claims and
cookies of each user are the rows and tokens the resolution looks at. `worker` is the
nightly run, with the certificates whose changes are not flushed yet.

**Actions.** `Arrive` is the middleware: the acting tenant of a superuser if it is active, the
tenant of the token, the tenant of the host, or none. `OpenSession` is one of `get_db`,
`get_db_public`, `get_db_unscoped`. `Execute` is a statement: it begins the transaction if
there is none, and reaches rows that both the criteria of the context and the settings of the transaction
let through. `EnterTenant` and `LeaveTenant` are the blocks of the refresh and of
notifications. `CreateTenant`, `UpdateStatus`, `Impersonate` and `StopImpersonation` are
the superuser's. `WorkerNext` enters a certificate's tenant, `WorkerExpires` flushes, and
`WorkerCommits` commits; a row hidden by the settings fails either.

**Properties.** `Isolated`: a request that is not global reaches the rows of its own tenant
only, none without one. `OwnTenantOnly`: whatever host and cookie, the token of a user who
is no superuser reaches his own tenant. `DefenceInDepth`: the settings of the transaction
alone would have done it. `BlockIsConfined`: in a block of a tenant the transaction sees no
other. `ToldMeansExpiredInOneTenant`: who was told that his certificate expired finds it
expired after the run, as long as no run met certificates of two tenants or was cut off
(`WorkerDies`);
`ToldMeansExpired` without that clause is violated (finding 2).

## CourseContent

**State.** `rows` is the tree of course, module, lesson, task, file and submission; `teacher`
and `published` belong to courses; `enrolled` and `progress` to the one student; `url` is
the object each row names and `objects` the bucket (a task's may be any text, `Given`, since the
client sends it as `file_url`); `grades` are those of submissions, with the score the column holds. `told`
are rows whose deletion was answered, `gone` those that were deleted, `left` images that
could not be removed, and `clashed` rows at which two requests met or one died (history).

**Actions.** Every level has its creation and its deletion; a deletion answers first
(`AnswerDelete`, which removes the file of a lesson file before) and commits later
(`CommitDelete`, with all that is below, unless the ORM has to set the `task_id` of a
submission to NULL). `UploadFile`, `StoreFile`, `SaveFile` are an upload; `UploadImage`,
`StoreImage`, `SwapImage`, `RemoveSuperseded` and `CommitImage` the image of a course, whose
old object goes before the commit; `DeleteImage`, `RemoveImage`, `ForgetImage` its removal.
`CreateTask` and `UpdateTask` store the `file_url` they are given. `Grade` and `WriteGrade` write the
columns that differ; `Passes` compares the float of the request, and `Stored` rounds it to the two
decimals of the column.

**Properties.** `NothingWithoutItsParent`: whatever is inserted while something above it is
deleted. `BucketAgrees`: the image a course names and the file of a lesson exist and no other image is
left in the bucket, but where requests met, died, or the bucket refused; nothing is claimed of
the text a task names. `GradesAgree`: what passed has 70.00 or more and what has more than 70.00
passed, unless gradings overlapped; exactly 70.00 may be either, since 69.996 is rounded up to
it and has not passed. `DeletedIsGoneUnlessSubmitted`: what was answered 204 is
gone, unless it held a submission or met another request; `DeletedIsGone` is violated
(finding 1). `ListedIsVisible`, that what a list offers may be opened and read, compares two
policies and no behaviour: it is a theorem and not in a run.

## Assessments and Reports

**State.** `assessments`, `questions`, `attempts`, `answers`, `submissions` and `enrolled` are the
tables; an assessment is named by the edit that created it. A handler holds the assessment
and the questions it read.

**Actions.** `ReadForEdit`, then `Create`, or `BeginReplace` (the questions to be deleted are
read, with no lock) and `Replace` (their deletion, the new ones, and the score if it differs).
`ReadForDelete` and `Delete`. `Open` reads the assessment, with its passing score, and `Take` its
questions, by a statement of its own, after which the session has both; an edit may commit
between the two (`late` notes it). `Finish` grades the answers on what was read, and the foreign keys
of the answers refuse those to questions that are gone. `Reports` adds operators and no action: `CourseProgress`,
`AllProgress` and `IsCourseCompleted` are the three places where the code computes
completion, and seven reports count attempts, tasks and enrolments of a range of days.

**Properties.** `QuestionsOfOneEdit`: unless another edit committed between an edit's reading
and its commit, in which case the code does mix them. `PassesAsAsked` (an action property):
whatever was edited since the student began, an attempt that passes was earned on the questions that
are asked when it is recorded, and at the passing score in force then; only an edit between the two
`SELECT`s leaves it the passing score of before, for the new questions. `ProgressAgrees`: the three computations
agree, and complete means that all was passed and handed in; since the percent is rounded to
tenths, this is claimed of fewer than 2000 modules. `ReportsAgree`: the reports of
one range agree with one another and with the progress.

## Platform: Billing, PlatformSettings, Background

`Billing` has a calendar of months of given lengths. A correction reads the payment, computes
the end of the period from what it read, writes the columns that differ, and reads the row
again for its audit. `CoverageAgrees`: a period is what its plan buys from its start, unless
two corrections crossed; a day that is paid for is never shown as owing; the last audit entry is
what the payment is.

`PlatformSettings` has one row per tenant, made by whoever needs it first, and *one object per
logo for all tenants* (`_logo_object_key`). `SettingsAreAsSaved`: the row is what the last
form of each kind said, whatever other forms and logos were saved at once; a tenant that
alone has a logo is shown its own, exactly where its settings say so.

`Background` is the backup (dump, upload, two audit rows in one transaction, `CommitBackup`, then
`RemoveFile`; a crash at any point; two messages that begin in one second) and the mail of a
request (answer, mail, audit row in a session of its own, commit). A forced issue and a batch
(`SelfCommitted`) commit before the answer (`CommitFirst`); all others leave it to `get_db`, after
the mail. `RecordedAsItWas`: a recorded success is a whole dump in the bucket; no temporary
file is left but by a crash; what `get_db` commits was tried to be told and is in the audit; no
mail of a forced issue or a batch tells what was taken back; and a mail is missing in the audit
only if its request was cut off. That a crash after a forced issue's commit leaves a certificate nobody
was told of is the code's behaviour, and in the model.

## Runs

| run | instance | states | result |
| --- | --- | --- | --- |
| `payments_safety` | 1 student, 1 course, 2 orders, 2 payments, 2 requests; symmetric | 134 thousand | holds |
| `payments_liveness` | 1 order, 2 payments, 1 request; notifications answered, ignored, repeated (`MCNotifications`) | 51 thousand | holds |
| `lifecycle_safety` | 1 certificate, 2 requests, the worker; symmetric | 1.5 million | holds |
| `lifecycle_liveness` | 1 certificate, 1 request, the worker | 27 thousand | holds |
| `completion_safety` | 1 assessment, 2 tasks, 2 files, 3 request ids, 2 handlers; symmetric | 870 thousand | holds |
| `accounts_safety` | 1 account, 3 sessions, 2 requests, lock after 2 failures; symmetric | 2.1 million | holds |
| `tenancy_safety` | 2 tenants, a user and a superuser, 1 request, 3 certificates, the worker | 280 thousand | holds |
| `worker_tenants` | the same | | violated (finding 2) |
| `content_safety` | 1 course, 1 module, 2 lessons, one of each below, 2 teachers, 3 images, a text for a task's file, scores of 69, 69.996 and 70, 2 requests; symmetric | 287 thousand | holds |
| `content_deleted` | the same | | violated (finding 1) |
| `assessments_safety` | 2 courses, 2 modules, 3 edits, 5 questions of −1 to 3 points, 2 attempts, 2 students and a teacher, 2 days, 2 requests; symmetric | 148 thousand | holds |
| `platform_safety` | 1 payment and 2 corrections over 14 months; 2 tenants, 2 forms, 2 requests; 2 backups in 2 seconds, 2 mails, one of a request that commits itself; symmetric | 307 thousand | holds |

Deadlock is checked, except where the instance really comes to a stop: ids of rows are used once
(`content_safety`, `content_deleted`, `assessments_safety`, `platform_safety`), and an account may
be deleted (`accounts_safety`).

**Why the bounds are enough.** Nothing is counted without limit (`copies` starts anew
with every request), so the constants are the only bounds of the first three modules; those
of the others are named where they are declared (`MaxTries`, `MaxChanges`, `LastDay`,
`LastMonth`, `LastSecond`, ids that are used once). *Payments*: two payments are needed for "rejected, then good" and "paid
twice"; two orders for two renewals of one certificate and for a payment of the
other order; two requests for every race of a webhook with a webhook or a poll. One
seat suffices for these, since a payment touches the seats of its order alone, and the
proofs cover any number of everything. *CertificateLifecycle*: certificates meet
only in the worker's run; two requests and the worker give every overlap of a pair and
those of three parties. *CourseCompletion*: an assessment and two tasks are parts of both
kinds and two parts that are counted separately; two handlers give the two last
submissions at once, or a submission and an administrator; three ids are the row's and
one for each handler that holds a row that is gone, so that a new one is always left.
The safety properties of these three modules are proved for any values of the constants.

*Accounts*: three sessions are a log-in and two rotations, or two families; two requests give
every race of a pair, which is all the locks tell apart. *Tenancy*: requests share nothing
but the users and organisations, so that one at a time shows what a request can reach; two
tenants are one's own and the other. *CourseContent*: one course, since nothing but
a teacher is shared by two, with one row at each level gives insertions above and below what is
deleted; the second lesson is the one in the path of another's file. *Reports*
bounds three subjects apart (`OneSubject`): edits that meet attempts; what is shown of an
assessment and a task; enrolments and tasks over two courses and two days. *Platform*: 14
months from a January hold a short February and a leap one (month 13, with 29 days), and a
plan of one month and one of twelve; the three parts share no state, and `MCSpec` takes
their steps one kind at a time. `Few` bounds tenants that share a logo apart from forms.

One bound matters for `DueExpires`, which is checked for one certificate only. A row
that is deleted during a run fails the run for all (`WorkerFails`). With two
certificates, TLC shows that somebody who issues a due certificate and deletes it during
every single run could keep the other one active for ever. That is a fact about the
code, at `workers/tasks.py:167`; it takes an endless coincidence, so it is a hazard and not a
finding. Nor does `DueExpires` see two tenants, which finding 2 is about.

**Faithful simplifications.** The tasks of a course are counted in any order, one at a
time; the code reads them module by module. Opening a request is one step: what it
reads is guarded by unique constraints. In `CourseCompletion` certificates are not
deleted, and the course's content does not change. A uuid that fell free stands for the next one.
Cancelling a request and opening it again gives the same request (in the code, a new
id). A deletion may overtake uncommitted audit entries that refer to the row, where
PostgreSQL would let it wait. These only add interleavings, and the properties hold
with them. `Payments` has no revoked certificates, which cannot be renewed.
In `Accounts` a session's own thirty days may pass at any time (`RefreshRefused`). In
`CourseContent` the order of siblings is left out, and so is the wipe of submissions by a
renewal, which `CourseCompletion` has. In `Assessments` an option is right or wrong, and
a score is in hundredths, rounded half up where Python rounds half to even; scores in
`CourseContent` are in thousandths, rounded as the column does. In
`Reports` no report reaches its limit of rows, and a month is a day.

## Findings

Two are kept as runs that TLC must find violated.

1. `content_deleted`: a task (or a lesson, module or course with one) that has a submission cannot be
   deleted. The foreign key says `ON DELETE CASCADE`, but the backref of
   `models/task_submission.py:61` makes the ORM set `task_id` to NULL first, which the column
   forbids; the commit fails after the 204 was sent. Deleting a user with submissions fails
   the same way.
2. `worker_tenants`: with certificates of two tenants due in one night and row-level security
   on, the mail audit of the first tenant is flushed under the settings of the second,
   matches no row, and the whole run is rolled back, mails and watermarks excepted. It
   repeats every night.

The properties of these seven are in the modules, and the models have the behaviour. To see one,
name the property as the only one in a copy of the module's `_safety` configuration.

3. `PaidOrderStaysApproved` (`Payments`): the late processing of another payment, or of an
   older snapshot, puts an approved, delivered order back to pending or failed.
4. `RenewalStartsOnce` (`Payments`): two renewal orders placed before either is paid start the
   renewal twice; the second wipes the progress made.
5. `RevokedIsNotRenewed` (`CertificateLifecycle`): a renewal that read an expired row waits for
   the lock of a revocation and then makes the revoked certificate active.
6. `RenewalKeepsCourse` (`CertificateLifecycle`): the worker expires a certificate whose renewal
   an administrator has started, and removes the enrolment the student needs to complete it.
7. `IssuedOnce` (`CourseCompletion`): two force-issues, or one and a last submission, that both
   read the request in progress issue two certificates for it.
8. `CompletedIsIssued` (`CourseCompletion`, with its `FairSpec`): the certificate of a completed
   course is tried once; after an error, or for a request opened when the course was
   complete, nothing issues it "automáticamente".
9. `AuditRecordsTheResult` (`Background`): mail audits always say "sent", since `_dispatch`
   swallows every error, where the docstring says that the result is recorded.

Smaller things met while modelling, which no run is about:

- Polling reconciles pending orders only. After a rejected payment the order is failed, and an
  approved second payment whose notification was lost, or answered 200 because it could not
  be fetched (`endpoints/payments.py:299`), is not delivered; the README of the backend says that it
  does not depend on the webhook. `NotifiedIsDelivered` and `PolledIsDelivered` say what does hold.
- A forced issue or a batch is committed before its answer and its mail: if the process dies between them,
  the student has a certificate nobody told him of.
- A task's `file_url` is whatever the client sent, and may name nothing.
- A task graded with 69.996 is shown with 70.00 and not passed.
- An attempt that begins while an edit commits may be graded at the old passing score on the new
  questions.
- The superuser's role is read from the token (`main.py:414`), so that a user who is no longer
  one acts for tenants until the token expires. Users of a deactivated tenant go on working,
  and the acting cookie of one falls back silently to the own tenant.
- All tenants share the object of a logo; `/branding/logo` and `/public/logo` serve it without
  a look at the row, where their docstrings speak of the tenant's. An error when it is removed
  leaves it served though `has_custom_logo` is false.
- An overlapping grading can leave 40 points with `passed` true; two overlapping edits of an
  assessment leave the questions of both; crossing corrections of a payment leave a period
  that is not what the plan buys.
- Points of a question are not constrained, and the model has them as integers: an assessment of zero
  points can never be passed, a negative question makes more than 100 % possible.
- The deletion of the last missing task or assessment completes a course without issuing.
- The endpoints of lesson files take the permission from the lesson in the path, not from that
  of the file. Deleting a task, lesson or course leaves its objects in the bucket.
- The percent of a course is rounded to tenths: 1999 of 2000 modules would be shown as 100 %, though
  the certificate is not due.
- A backup that succeeded leaves a row "running" next to its "success"; its object may be
  uploaded though the commit of the audit fails.

## Fairness

- *Gateway* (`FairNotices` of `Notifications`): Mercado Pago repeats a notification until it is
  answered with 200, hence strong fairness of the fetch, but only while the notice is
  `unanswered`: one that was ignored is lost for good, and the handler may ignore any. A
  processing that is tried again and again succeeds in the end, since crashes and lost
  connections do not last, and so does the gateway's search.
- *Polling*: none is assumed. That the student's browser asks again and again for an order
  while it is pending is the hypothesis of `PolledIsDelivered`.
- *Worker* (`FairSpec`): beat starts it every night (weak fairness of its steps). It may
  die, but not in every night for ever (`<>[][~WorkerCrash]_vars`); MinIO may fail for
  every watermark. PostgreSQL serves the waiters of a row lock in turn (strong fairness of
  `WorkerExpire`), and a request ends, if only by its timeout.
- *Completion* (`FairSpec`): a request that is being served ends, and the student hands in
  again and again what is missing. This is more than a student owes, and finding 8 shows
  that it is not enough.

## Proofs

All theorems hold for every value of the constants that satisfies the module's assumption,
which TLC evaluates on every run. They say what the code and the schema give:

- `Payments`, `CourseCompletion`, `Accounts`: `None` is not the name of anything; courses with a
  certificate type are courses; an account is locked after one failure at least.
- `Tenancy`: users and certificates have an organisation, and the special values are none.
- `CourseContent`: ids of two tables differ (they are tagged by their table), foreign keys
  refer to the table they are declared for, and scores are numbers, the passing score one with
  two decimals.
- `Assessments`: every edit brings new questions, finitely many and at least one (the rows are
  deleted and inserted anew); points are integers of any sign, as in the schema; passing scores
  are 1 to 100.
- `Billing`: months have 28 to 31 days, plans one month at least, and the bound `LastMonth` lies
  behind what can be bought. `PlatformSettings`: forms of two kinds write no column in common.
- `CertificateLifecycle` needs none; `BackgroundAssumption` is that null is no time and
  that the requests which commit themselves are requests.

Each theorem rests on one inductive invariant, `IInv` (three in `Platform`: `BillingIInv`,
`SettingsIInv`, `BackgroundIInv`), which TLC checked on the instance of the module's run before
it was proved.

**Payments** (`PaymentsProofs`). `GrantedOnce` is not inductive: that an unused payment
is new must follow from the event table, that a delivery is for the right order from what
a handler holds. `IInv` adds that a payment granted is in `events` and was approved
(`PaymentsAgree`), that placed orders have a student (`OrdersAgree`), and that a request
about to open its transaction holds a payment of its own order, with a snapshot that was
true once (`RequestsAgree`). `Invariance` is `Spec => []IInv`, action by action; from it
follow `TypeCorrect`, `PaymentGrantedOnce`, `EventsAreDelivered`, `ApprovedIsDelivered`
and `ProgressIsSafe`. `ImplementsPurchase` shows that every step of `Payments` is a step of
`Purchase` or a stutter: `Materialise` is `Deliver`, the gateway's approval is `Approve`,
all else stutters.

**CertificateLifecycle** (`CertificateLifecycleProofs`). `MarksAgree` speaks of certificates
at rest, and every operation passes through states in which the row and the object
differ. `IInv` therefore says what a request that is alone has in hand
(`RequestsAgree`: it read the status the row still has, and it has left in the bucket what
its commit calls for), what the worker has (`WorkerAgrees`), that one that is not alone
has made the certificate suspect (`OverlapsKnown`), and that watermarks lie on pages
(`InOrder`). `LifecycleInvariance` is `Spec => []IInv`; `LifecycleTypeCorrect`,
`RowsAndFilesAgree` and `RenewalsReactivate` follow.

**CourseCompletion** (`CourseCompletionProofs`). Two independent halves. That no completion is
missed needs that a handler about to issue holds a request, and that a renewal which
found no request opens one (`RequestsAgree`): otherwise a row could be closed or reopened
under nobody's eyes. The steps that only read are treated together (`ReadsFacts`); the heart
is that a handler on its way, in a complete course, stays on its way whatever it reads,
and that any other step that could leave the course complete with nobody on the way is
excused. That the file is the accepted one needs that who works on a task alone works on
one that is not handed in, and has stored its file when it records it (`UploadsAgree`).
`CompletionInvariance` is `Spec => []IInv`; `CompletionTypeCorrect`, `NoCompletionIsMissed`
and `GradedFilesAreAccepted` follow.

**Accounts** (`AccountsProofs`). That a login lives in one session needs to know who holds a
lock: `RotationAgrees` says that the session of a rotation is live and that nobody else rotates
it, `FamiliesAgree` that a family bears the name of its first session, so that no new one
joins it by chance. That what is ended stays ended needs what those who are about to end it have
found: all live sessions of the family, but for those of families noted as escaped
(`RevocationAgrees`, `LogoutAgrees`, `ChangeAgrees`). That failures are counted needs that a
login which was always alone read the count as it is (`LoginAgrees`). `ShrinkingKeeps` and
`GrowthKeeps` do the work for all steps that revoke or make sessions. From `AccountsInvariance`
follow `LoginsLiveOnce`, `EndedFamiliesStayEnded`, `NewPasswordsEndSessions`,
`WrongPasswordsLock` and `AccountsTypeCorrect`.

**Tenancy** (`TenancyProofs`). `Isolated` speaks of what a request touched; what makes it so is the
context it is in, which three places set and reset. `Confined` says that a request which is
not global is in the context of its scope and that its open transaction has the settings of
that context; `NotYetOpen` that nothing is touched before the session is open, `BlockAgrees`
that a block renewed the settings, `ScopeIsHome` that a user's scope is his own. `WorkerAgrees`
has what is to be flushed, of one organisation and visible, and who was told. From
`TenancyInvariance` follow `RequestsAreIsolated`, `UsersStayAtHome`, `RowSecuritySuffices`,
`BlocksAreConfined`, `ToldAreExpired` and `TenancyTypeCorrect`.

**CourseContent** (`CourseContentProofs`). Requests overlap on one row only, so that `IInv` speaks
row by row and excepts the rows in `clashed`. `HandlersAgree` says what a request may be about
and that the objects in its hand are of its row: the name of an object tells the row, whence no
request touches the object of another. `MeetingsAgree` says that two requests about one row are
known to have met, so that on a row that is not excepted there is one request, and
`RequestsAgree` that what this one read is still there and what it stored is in the bucket. With
`NamesAgree` (a row names its own object, and it is there but between its removal and the commit)
the bucket agrees after every step; `RowsKeep` and `BeginKeeps` do the work for all steps that touch
only rows, or only begin. What is above a row is its parent and what is above that (`AboveFacts`),
and a cascade takes all that is below: with `DeletionsAgree` this gives `ForeignKeysHold` and
`AnsweredDeletionsHappen`. From `Invariance` follow also `Types`, `BucketIsAsTheRowsSay` and
`GradesAreOfTheirScores`, which rests on rounding keeping the order of scores (a score rounded up
reaches the passing score at most). `ListsAreOfVisibleCourses` needs no invariant: it compares the list's
policy with the access check's, which the code writes in two services.

**Assessments** (`ReportsProofs`). `QuestionsOfOneEdit` needs that nobody has read anything of an
edit that is not committed (`EditsAgree`), and that what an editor is about to delete is what is
there unless he was overtaken, which he then knows (`ReadingsAgree`). The same part has the
reason why an attempt cannot be graded on questions that are gone: after an edit, *none* of the
questions a student read is asked any more, so that the foreign key refuses every answer of his,
and without an answer nothing is passed, whatever the signs of the points (`FinishPassesAsAsked`, for
the action property `AttemptsPassAsAsked`). An edit between his two readings is noted in `late`, and
then the passing score is the one he read. `AssessmentInvariance`, `AssessmentTypes` and `AssessmentsAreOfOneEdit` are
the others.

**Reports** (`ReportsProofs`). Two computations agree when both count the same rows, and the
lemma for it is `SumsCount`: the sum over groups of how many fall into each is how many there
are. It is proved without induction over data: the counts satisfy the equation of the fold, and of two
functions that satisfy it there is no least set on which they differ (`SumsDiffer`, which `MarksCount` uses for marks and
`WorthFacts` for points of any sign), and a percent is bounded by `Division`. `ProgressIsConsistent` found the bound of
2000 modules: 1999 of 2000 is rounded to 100.0 %.

**Billing, PlatformSettings, Background** (`PlatformProofs`). *Billing*: a correction's row is
what it read unless somebody committed in between, whoever holds the lock has it alone, and the
audit entry was computed from what is there (`BillersAgree`). The calendar is monotone and a period
ends in its last month (`MonthDays`), so that the latest payment, taken as the minimum of a
well-founded order, covers the day whenever one does: `CoverageIsPaidFor`.
*PlatformSettings*: what a request is about decides which columns it writes (`SubjectsAgree`), and
two requests about different things write different columns; hence one that met nobody writes over
what it read (`MeetingsAgree`), and a form that was saved stays (`FormsAgree`):
`SettingsAreWhatWasSaved`. *Background*: a success is recorded at the end, the dump is whole when
it is uploaded, and the file when it is dumped: `BackupsAgree` says each of a backup that is alone
in its second. `NoticesAgree` says how far a request must be for its rows to be committed: those that
commit themselves have done so as soon as they are begun, the others only when their mail is in the
audit. `BackgroundIsRecorded` follows. `PlatformTypes` is the type invariant of all.

**Model-checked only.** `NotifiedIsDelivered`, `PolledIsDelivered` and `DueExpires`, since liveness under fairness is
outside of what the provers handle; and the violations, which are counterexamples. Every other
property of the passing runs is stated by a theorem. No module declares a RECURSIVE operator.

## Not modelled

Prices, commissions, the preference and the signature check of a webhook; QR images, the
wording of PDFs and mails; search and lists; dates of certificates beyond whether they have
passed (so the stale overrides of a reopened renewal, a hazard, are not seen); titles, orders
of siblings and other columns nothing decides by; the reports on certificates, on content by
teacher and on users, and the dashboard, which count rows; certificate and mail
templates (an object or a row that is replaced whole), the test mail, encryption; the seeds of the
start-up, whose races end in a unique constraint; plans and limits of tenants;
the Loki queue, which may lose lines by design; rate limits, captcha and headers, which are
libraries or stateless; schemas and migrations, whose constraints are in the invariants.

## Plan

1. *Done*: `Purchase`, `Payments`, `CertificateLifecycle`, `CourseCompletion` with their proofs.
2. *Done*: `Notifications`, `Accounts`, `Tenancy`, `CourseContent`, `Assessments`, `Reports`, `Billing`,
   `PlatformSettings`, `Background`, `Platform`.
3. *Done*: proofs of every invariant and action property that a run checks.
4. Refinements: an abstract specification of a session family (`Accounts`) and of a certificate's
   status (`CertificateLifecycle`) that the detailed steps implement, as `Payments` does `Purchase`.
5. The composition of `Payments` and `CertificateLifecycle` through requests and enrolments, with
   dates. (The gateway that drops what was acknowledged is done: `Notifications`.)
