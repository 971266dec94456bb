------------------------------- MODULE Background -------------------------------
(***************************************************************************)
(* What happens behind the answers, and what is recorded of it: the        *)
(* nightly backup of workers/tasks.py with its rows of worker_audits, and  *)
(* the mails of utils/email.py that a request sends in the background,     *)
(* with their rows of email_audits.                                        *)
(*                                                                         *)
(* A backup writes a temporary file that is named by the second it began   *)
(* in.  A request's background tasks run after its answer and before       *)
(* get_db commits its session; an error in them rolls it back.  The        *)
(* handlers that force an issue and that issue a batch commit themselves,  *)
(* before they answer.  Any process may die.                               *)
(***************************************************************************)
EXTENDS Naturals

CONSTANTS
  Nights,     \* messages of celery beat that ask for a backup
  LastSecond, \* bound on the clock
  Notices,    \* requests that create an account or issue a certificate, and tell it by mail
  SelfCommitted, \* those among them whose handler commits: forced issues and batches
  Unknown     \* null

ASSUME BackgroundAssumption ==
  LastSecond \in Nat /\ SelfCommitted \subseteq Notices /\ Unknown \notin Nat

Seconds == 0 .. LastSecond
Contents == {"none", "partial", "complete"}

VARIABLES
  second,    \* the clock
  backups,   \* each message: how far its task is, and the second it began in
  files,     \* the temporary file of each second
  dumps,     \* the object in the bucket of each second
  recorded,  \* worker_audits: message and status
  notices,   \* how far each request is
  kept,      \* requests whose rows are committed
  delivered, \* mails the server accepted
  told       \* email_audits

backupVars == <<second, backups, files, dumps, recorded>>
noticeVars == <<notices, kept, delivered, told>>
backgroundVars == <<backupVars, noticeVars>>

BackupRecord ==
  [pc: {"queued", "dumping", "dumped", "uploaded", "failed", "closing", "done", "dead"},
   began: Seconds \union {Unknown}]

BackgroundInit ==
  /\ second = 0
  /\ backups = [n \in Nights |-> [pc |-> "queued", began |-> Unknown]]
  /\ files = [s \in Seconds |-> "none"]
  /\ dumps = [s \in Seconds |-> "none"]
  /\ recorded = {}
  /\ notices = [q \in Notices |-> "idle"]
  /\ kept = {}
  /\ delivered = {}
  /\ told = {}

-----------------------------------------------------------------------------
(* The backup.                                                             *)

BackupAt(n, pc) == backups[n].pc = pc
Goes(n, pc) == backups' = [backups EXCEPT ![n] = [backups[n] EXCEPT !.pc = pc]]
FileOf(n) == files[backups[n].began]

\* Faults of the definitions below: the exit status of pg_dump is not looked at; the session
\* commits before the background tasks run.
AfterBadDump_Unchecked == "dumped"
Committable_AtOnce == {"answered", "tried", "audited"}

\* Messages that waited for the worker begin together.  pg_dump truncates the file.
BeginBackup(n) ==
  /\ BackupAt(n, "queued")
  /\ backups' = [backups EXCEPT ![n] = [pc |-> "dumping", began |-> second]]
  /\ files' = [files EXCEPT ![second] = "partial"]
  /\ UNCHANGED <<second, dumps, recorded, noticeVars>>

\* A file that was removed meanwhile has no name any more; one that another task writes to
\* is not whole.
WrittenAlone(n) == \A m \in Nights \ {n} : ~(BackupAt(m, "dumping") /\ backups[m].began = backups[n].began)
FinishDump(n) ==
  /\ BackupAt(n, "dumping")
  /\ Goes(n, "dumped")
  /\ files' = [files EXCEPT ![backups[n].began] =
       IF FileOf(n) # "none" /\ WrittenAlone(n) THEN "complete" ELSE FileOf(n)]
  /\ UNCHANGED <<second, dumps, recorded, noticeVars>>

\* pg_dump exits with an error: check=True.
AfterBadDump == "failed"
BadDump(n) ==
  /\ BackupAt(n, "dumping")
  /\ Goes(n, AfterBadDump)
  /\ UNCHANGED <<second, files, dumps, recorded, noticeVars>>

Upload(n) ==
  /\ BackupAt(n, "dumped")
  /\ FileOf(n) # "none"
  /\ dumps' = [dumps EXCEPT ![backups[n].began] = FileOf(n)]
  /\ Goes(n, "uploaded")
  /\ UNCHANGED <<second, files, recorded, noticeVars>>

\* There is no file, or the bucket does not answer; the object may be there all the same.
FailUpload(n) ==
  /\ BackupAt(n, "dumped") \/ BackupAt(n, "uploaded")
  /\ Goes(n, "failed")
  /\ UNCHANGED <<second, files, dumps, recorded, noticeVars>>

\* The commit: of one transaction after success, and of a new one after a failure, when the
\* row that says "running" is rolled back.
Outcome(n) ==
  IF BackupAt(n, "uploaded") THEN {<<n, "running">>, <<n, "success">>} ELSE {<<n, "failed">>}
CommitBackup(n, committed) ==
  /\ BackupAt(n, "uploaded") \/ BackupAt(n, "failed")
  /\ recorded' = IF committed THEN recorded \union Outcome(n) ELSE recorded
  /\ Goes(n, "closing")
  /\ UNCHANGED <<second, files, dumps, noticeVars>>

\* The file goes whether the commit succeeded or not.
RemoveFile(n) ==
  /\ BackupAt(n, "closing")
  /\ files' = [files EXCEPT ![backups[n].began] = "none"]
  /\ Goes(n, "done")
  /\ UNCHANGED <<second, dumps, recorded, noticeVars>>

\* A message is acknowledged before its task begins, and is not repeated.
WorkerDies(n) ==
  /\ backups[n].pc \in {"dumping", "dumped", "uploaded", "failed", "closing"}
  /\ Goes(n, "dead")
  /\ UNCHANGED <<second, files, dumps, recorded, noticeVars>>

Tick ==
  /\ second < LastSecond
  /\ second' = second + 1
  /\ UNCHANGED <<backups, files, dumps, recorded, noticeVars>>

-----------------------------------------------------------------------------
(* Mails of requests.                                                      *)

NoticeGoes(q, pc) == notices' = [notices EXCEPT ![q] = pc]

\* A forced issue or a batch: the handler commits before it answers.
CommitFirst(q) ==
  /\ notices[q] = "idle"
  /\ q \in SelfCommitted
  /\ kept' = kept \union {q}
  /\ NoticeGoes(q, "begun")
  /\ UNCHANGED <<backupVars, delivered, told>>

\* The rows are flushed, or committed, and the client has its answer.
MayAnswer(q) == notices[q] = IF q \in SelfCommitted THEN "begun" ELSE "idle"
Answer(q) ==
  /\ MayAnswer(q)
  /\ NoticeGoes(q, "answered")
  /\ UNCHANGED <<backupVars, kept, delivered, told>>

\* _dispatch: without a mail server, a template or a sender nothing is sent, and an error of
\* the server is logged; whoever called it cannot tell.
Dispatch(q, accepted) ==
  /\ notices[q] = "answered"
  /\ delivered' = IF accepted THEN delivered \union {q} ELSE delivered
  /\ NoticeGoes(q, "tried")
  /\ UNCHANGED <<backupVars, kept, told>>

\* send_credentials_with_audit, send_issued_with_audit: in a session of their own.
AuditMail(q) ==
  /\ notices[q] = "tried"
  /\ told' = told \union {<<q, "sent">>}
  /\ NoticeGoes(q, "audited")
  /\ UNCHANGED <<backupVars, kept, delivered>>

\* get_db commits when the background tasks are done.
Committable == {"audited"}
CommitNotice(q) ==
  /\ notices[q] \in Committable
  /\ kept' = kept \union {q}
  /\ NoticeGoes(q, "committed")
  /\ UNCHANGED <<backupVars, delivered, told>>

\* The process dies, the audit cannot be written, or the commit fails: what was committed
\* before stays.
RollBackNotice(q) ==
  /\ notices[q] \in {"begun", "answered", "tried", "audited"}
  /\ NoticeGoes(q, "rolled back")
  /\ UNCHANGED <<backupVars, kept, delivered, told>>

BackgroundNext ==
  \/ \E n \in Nights :
       \/ BeginBackup(n)
       \/ FinishDump(n)
       \/ BadDump(n)
       \/ Upload(n)
       \/ FailUpload(n)
       \/ \E committed \in BOOLEAN : CommitBackup(n, committed)
       \/ RemoveFile(n)
       \/ WorkerDies(n)
  \/ Tick
  \/ \E q \in Notices :
       \/ CommitFirst(q)
       \/ Answer(q)
       \/ \E accepted \in BOOLEAN : Dispatch(q, accepted)
       \/ AuditMail(q)
       \/ CommitNotice(q)
       \/ RollBackNotice(q)

-----------------------------------------------------------------------------
(* Properties.                                                             *)

BackgroundTypeOK ==
  /\ second \in Seconds
  /\ backups \in [Nights -> BackupRecord]
  /\ files \in [Seconds -> Contents]
  /\ dumps \in [Seconds -> Contents]
  /\ recorded \subseteq Nights \X {"running", "success", "failed"}
  /\ notices \in [Notices ->
                   {"idle", "begun", "answered", "tried", "audited", "committed", "rolled back"}]
  /\ kept \subseteq Notices
  /\ delivered \subseteq Notices
  /\ told \subseteq Notices \X {"sent"}

\* No other backup began in the same second.
Alone(n) == \A m \in Nights \ {n} : backups[m].began # backups[n].began

\* A backup that is recorded as a success is in the bucket, and whole, unless another began
\* in the same second; none is recorded both as a success and as a failure; a temporary
\* file is left only by a task that runs, or died.  What get_db commits of a request was tried
\* to be told by mail before, and is in the audit; no mail of a forced issue or a batch, which
\* are committed before, tells what was taken back; and a mail is missing in the audit only
\* if its request was cut off.
RecordedAsItWas ==
  /\ \A n \in Nights :
       /\ <<n, "success">> \in recorded /\ Alone(n) => dumps[backups[n].began] = "complete"
       /\ <<n, "success">> \in recorded => <<n, "failed">> \notin recorded
  /\ \A s \in Seconds :
       files[s] # "none" =>
         \E n \in Nights : backups[n].began = s /\ backups[n].pc # "done"
  /\ \A q \in Notices :
       /\ q \in kept \ SelfCommitted => <<q, "sent">> \in told
       /\ q \in delivered \intersect SelfCommitted => q \in kept
       /\ q \in delivered /\ <<q, "sent">> \notin told => notices[q] \in {"tried", "rolled back"}

\* What the docstring of send_credentials_with_audit says of the audit, and the code does not
\* do: it records the result.  A mail recorded as sent was accepted by a server.
AuditRecordsTheResult == \A q \in Notices : <<q, "sent">> \in told => q \in delivered

-----------------------------------------------------------------------------
(* The inductive invariant.                                                *)

\* A backup that is alone has a file until it is over, a whole one once it is dumped, and
\* the same in the bucket; nothing is recorded before the end.
Over(n) == backups[n].pc \in {"closing", "done", "dead"}
BackupsAgree ==
  \A n \in Nights :
    /\ BackupAt(n, "queued") <=> backups[n].began = Unknown
    /\ BackupAt(n, "dumping") /\ Alone(n) => FileOf(n) # "none"
    /\ BackupAt(n, "dumped") /\ Alone(n) => FileOf(n) = "complete"
    /\ BackupAt(n, "uploaded") /\ Alone(n) => dumps[backups[n].began] = "complete"
    /\ \A status \in {"running", "success", "failed"} :
         <<n, status>> \in recorded => Over(n)

NoticesAgree ==
  \A q \in Notices :
    /\ notices[q] \in {"audited", "committed"} => <<q, "sent">> \in told
    /\ q \in SelfCommitted => (q \in kept <=> notices[q] # "idle")
    /\ q \in kept \ SelfCommitted => notices[q] = "committed"
    /\ notices[q] = "begun" => q \in SelfCommitted
    /\ q \in delivered => notices[q] \in {"tried", "audited", "committed", "rolled back"}

BackgroundIInv == BackgroundTypeOK /\ BackupsAgree /\ NoticesAgree /\ RecordedAsItWas
=============================================================================
