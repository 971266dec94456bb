---------------------------- MODULE PlatformProofs ----------------------------
(***************************************************************************)
(* Theorems about Platform: for any number of backups, seconds and mails,  *)
(* what is recorded of the work in the background is what happened; for    *)
(* any calendar, plans and requests, a tenant's payments cover what was    *)
(* bought; for any tenants, forms and requests, the settings are what was  *)
(* saved.  The three share no variable, and each rests on an inductive     *)
(* invariant of its own: BackgroundIInv, BillingIInv, SettingsIInv.        *)
(***************************************************************************)
EXTENDS Platform, WellFoundedInduction, TLAPS

\* The clock is a number, and null is none.
LEMMA SecondsFacts == Seconds \subseteq Nat /\ Unknown \notin Seconds /\ 0 \in Seconds
  BY BackgroundAssumption DEF Seconds

\* Where a backup that began may be; it goes from one to another and began when it did.
Stages == {"dumping", "dumped", "uploaded", "failed", "closing", "done", "dead"}
LEMMA GoesTo ==
  ASSUME BackgroundTypeOK, NEW n \in Nights,
         NEW pc \in Stages, Goes(n, pc)
  PROVE  /\ backups' \in [Nights -> BackupRecord]
         /\ backups'[n].pc = pc
         /\ \A m \in Nights : backups'[m].began = backups[m].began
         /\ \A m \in Nights : m # n => backups'[m] = backups[m]
<1>1. backups[n] \in BackupRecord BY DEF BackgroundTypeOK
<1> DEFINE b == [backups[n] EXCEPT !.pc = pc]
<1>2. b \in BackupRecord /\ b.pc = pc /\ b.began = backups[n].began BY <1>1 DEF BackupRecord, Stages
<1>3. backups' = [backups EXCEPT ![n] = b] BY DEF Goes
<1> HIDE DEF b
<1> QED BY <1>2, <1>3 DEF BackgroundTypeOK

\* What holds of backups after a step in which nobody begins and the backup n goes on:
\* the others keep what they have if n touches only what it began.
LEMMA OthersKeep ==
  ASSUME BackgroundIInv, NEW n \in Nights, backups[n].began # Unknown,
         NEW pc \in Stages, Goes(n, pc),
         \A s \in Seconds : s # backups[n].began => files'[s] = files[s] /\ dumps'[s] = dumps[s],
         pc = "dumping" /\ Alone(n) => files'[backups[n].began] # "none",
         pc = "dumped" /\ Alone(n) => files'[backups[n].began] = "complete",
         pc = "uploaded" /\ Alone(n) => dumps'[backups[n].began] = "complete",
         \A m \in Nights, status \in {"running", "success", "failed"} :
           <<m, status>> \in recorded' => <<m, status>> \in recorded \/ (m = n /\ pc = "closing"),
         Over(n) => pc \in {"closing", "done", "dead"}
  PROVE  BackupsAgree' /\ \A m \in Nights : Alone(m)' <=> Alone(m)
<1>1. /\ backups'[n].pc = pc
      /\ \A m \in Nights : backups'[m].began = backups[m].began
      /\ \A m \in Nights : m # n => backups'[m] = backups[m]
  BY GoesTo DEF BackgroundIInv
<1>2. \A m \in Nights : Alone(m)' <=> Alone(m) BY <1>1 DEF Alone
<1>3. \A m \in Nights : BackupAt(m, "queued") <=> backups[m].began = Unknown
  BY DEF BackgroundIInv, BackupsAgree
<1>4. \A m \in Nights : backups[m].began \in Seconds \union {Unknown}
  BY DEF BackgroundIInv, BackgroundTypeOK, BackupRecord
<1>5. ASSUME NEW m \in Nights, m # n
      PROVE  /\ BackupAt(m, "queued")' <=> backups'[m].began = Unknown
             /\ BackupAt(m, "dumping")' /\ Alone(m)' => FileOf(m)' # "none"
             /\ BackupAt(m, "dumped")' /\ Alone(m)' => FileOf(m)' = "complete"
             /\ BackupAt(m, "uploaded")' /\ Alone(m)' => dumps'[backups'[m].began] = "complete"
             /\ \A status \in {"running", "success", "failed"} :
                  <<m, status>> \in recorded' => Over(m)'
  <2>1. backups'[m] = backups[m] BY <1>1, <1>5
  <2>2. Alone(m) /\ ~BackupAt(m, "queued") =>
          /\ files'[backups[m].began] = files[backups[m].began]
          /\ dumps'[backups[m].began] = dumps[backups[m].began]
    BY <1>3, <1>4, <1>5 DEF Alone
  <2> QED BY <1>2, <1>5, <2>1, <2>2 DEF BackgroundIInv, BackupsAgree, BackupAt, Over, FileOf
<1>6. /\ BackupAt(n, "queued")' <=> backups'[n].began = Unknown
      /\ BackupAt(n, "dumping")' /\ Alone(n)' => FileOf(n)' # "none"
      /\ BackupAt(n, "dumped")' /\ Alone(n)' => FileOf(n)' = "complete"
      /\ BackupAt(n, "uploaded")' /\ Alone(n)' => dumps'[backups'[n].began] = "complete"
      /\ \A status \in {"running", "success", "failed"} :
           <<n, status>> \in recorded' => Over(n)'
  BY <1>1, <1>2 DEF BackgroundIInv, BackupsAgree, BackupAt, Over, FileOf, Stages
<1> QED BY <1>2, <1>5, <1>6 DEF BackupsAgree

\* A backup begins, in a second that then may be another's no more.
LEMMA BeginBackupKeeps ==
  ASSUME BackgroundIInv, NEW n \in Nights, BeginBackup(n)
  PROVE  BackgroundIInv'
<1> DEFINE b == [pc |-> "dumping", began |-> second]
<1>0. BackgroundTypeOK BY DEF BackgroundIInv
<1>1. /\ BackupAt(n, "queued")
      /\ backups' = [backups EXCEPT ![n] = b]
      /\ files' = [files EXCEPT ![second] = "partial"]
      /\ UNCHANGED <<second, dumps, recorded, notices, kept, delivered, told>>
  BY DEF BeginBackup, noticeVars
<1>2. second \in Seconds /\ second # Unknown BY <1>0, SecondsFacts DEF BackgroundTypeOK
<1>3. b \in BackupRecord BY <1>2 DEF BackupRecord
<1>4. BackgroundTypeOK' BY <1>0, <1>1, <1>2, <1>3 DEF BackgroundTypeOK, Contents
<1>5. /\ backups'[n] = b /\ backups[n].began = Unknown
      /\ \A m \in Nights : m # n => backups'[m] = backups[m]
  BY <1>0, <1>1 DEF BackgroundTypeOK, BackgroundIInv, BackupsAgree
<1>6. files'[second] = "partial" /\ \A s \in Seconds : s # second => files'[s] = files[s]
  BY <1>0, <1>1, <1>2 DEF BackgroundTypeOK
<1>7. \A m \in Nights : backups[m].began \in Seconds \union {Unknown}
  BY <1>0 DEF BackgroundTypeOK, BackupRecord
<1>8. \A m \in Nights : m # n /\ Alone(m)' /\ backups[m].began # Unknown =>
        Alone(m) /\ backups[m].began # second
  BY <1>5 DEF Alone
<1>9. \A m \in Nights : BackupAt(m, "queued") <=> backups[m].began = Unknown
  BY DEF BackgroundIInv, BackupsAgree
<1>10. \A status \in {"running", "success", "failed"} : <<n, status>> \notin recorded
  BY <1>1 DEF BackgroundIInv, BackupsAgree, BackupAt, Over
<1>11. BackupsAgree'
  <2> SUFFICES ASSUME NEW m \in Nights
               PROVE  /\ BackupAt(m, "queued")' <=> backups'[m].began = Unknown
                      /\ BackupAt(m, "dumping")' /\ Alone(m)' => FileOf(m)' # "none"
                      /\ BackupAt(m, "dumped")' /\ Alone(m)' => FileOf(m)' = "complete"
                      /\ BackupAt(m, "uploaded")' /\ Alone(m)'
                           => dumps'[backups'[m].began] = "complete"
                      /\ \A status \in {"running", "success", "failed"} :
                           <<m, status>> \in recorded' => Over(m)'
    BY DEF BackupsAgree
  <2>1. CASE m = n
    BY <1>1, <1>2, <1>5, <1>6, <1>10, <2>1 DEF BackupAt, Over, FileOf
  <2>2. CASE m # n
    BY <1>1, <1>5, <1>6, <1>7, <1>8, <1>9, <2>2
    DEF BackgroundIInv, BackupsAgree, BackupAt, Over, FileOf
  <2> QED BY <2>1, <2>2
<1>12. NoticesAgree' BY <1>1 DEF BackgroundIInv, NoticesAgree
<1>13. RecordedAsItWas'
  <2>1. ASSUME NEW m \in Nights
        PROVE  /\ <<m, "success">> \in recorded' /\ Alone(m)'
                    => dumps'[backups'[m].began] = "complete"
               /\ <<m, "success">> \in recorded' => <<m, "failed">> \notin recorded'
    <3>1. CASE m = n BY <1>1, <1>10, <3>1
    <3>2. CASE m # n
      <4>1. <<m, "success">> \in recorded => Over(m)
        BY DEF BackgroundIInv, BackupsAgree
      <4>2. <<m, "success">> \in recorded => backups[m].began # Unknown
        BY <1>9, <4>1 DEF BackupAt, Over
      <4> QED BY <1>1, <1>5, <1>8, <3>2, <4>2 DEF BackgroundIInv, RecordedAsItWas
    <3> QED BY <3>1, <3>2
  <2>2. ASSUME NEW s \in Seconds, files'[s] # "none"
        PROVE  \E m \in Nights : backups'[m].began = s /\ backups'[m].pc # "done"
    <3>1. CASE s = second BY <1>5, <3>1
    <3>2. CASE s # second
      <4>1. PICK m \in Nights : backups[m].began = s /\ backups[m].pc # "done"
        BY <1>6, <2>2, <3>2 DEF BackgroundIInv, RecordedAsItWas
      <4> QED BY <1>5, <4>1, SecondsFacts
    <3> QED BY <3>1, <3>2
  <2> QED BY <1>1, <2>1, <2>2 DEF BackgroundIInv, RecordedAsItWas
<1> QED BY <1>4, <1>11, <1>12, <1>13 DEF BackgroundIInv

\* A backup goes on; what it records it records once, when it commits.
LEMMA BackupGoesOnKeeps ==
  ASSUME BackgroundIInv, NEW n \in Nights,
         \/ FinishDump(n) \/ BadDump(n) \/ Upload(n) \/ FailUpload(n) \/ WorkerDies(n)
         \/ RemoveFile(n) \/ \E committed \in BOOLEAN : CommitBackup(n, committed)
  PROVE  BackgroundIInv'
<1>0. BackgroundTypeOK BY DEF BackgroundIInv
<1> DEFINE t == backups[n].began
           Committing == BackupAt(n, "uploaded") \/ BackupAt(n, "failed")
<1>1. ~BackupAt(n, "queued") /\ backups[n].pc \notin {"done", "dead"}
  BY DEF BackupAt, FinishDump, BadDump, Upload, FailUpload, WorkerDies, RemoveFile, CommitBackup
<1>2. t \in Seconds /\ t # Unknown
  BY <1>0, <1>1 DEF BackgroundTypeOK, BackupRecord, BackgroundIInv, BackupsAgree
<1>3. UNCHANGED <<second, notices, kept, delivered, told>>
  BY DEF FinishDump, BadDump, Upload, FailUpload, WorkerDies, RemoveFile, CommitBackup, noticeVars
<1>4. files \in [Seconds -> Contents] /\ dumps \in [Seconds -> Contents]
  BY <1>0 DEF BackgroundTypeOK
<1>5. ASSUME NEW pc \in Stages, Goes(n, pc),
             NEW file \in Contents, NEW dump \in Contents,
             files' = [files EXCEPT ![t] = file], dumps' = [dumps EXCEPT ![t] = dump],
             \/ recorded' = recorded
             \/ pc = "closing" /\ Committing /\ recorded' = recorded \union Outcome(n),
             pc = "dumped" /\ Alone(n) => file = "complete",
             pc = "uploaded" /\ Alone(n) => dump = "complete",
             pc # "dumping",
             pc \in {"closing", "done", "dead"} => dump = dumps[t],
             pc = "done" => file = "none",
             BackupAt(n, "closing") => pc \in {"done", "dead"},
             file # "none" => files[t] # "none"
      PROVE  BackgroundIInv'
  <2>1. /\ files'[t] = file /\ dumps'[t] = dump
        /\ \A s \in Seconds : s # t => files'[s] = files[s] /\ dumps'[s] = dumps[s]
        /\ files' \in [Seconds -> Contents] /\ dumps' \in [Seconds -> Contents]
    BY <1>2, <1>4, <1>5
  <2>2. /\ backups' \in [Nights -> BackupRecord]
        /\ backups'[n].pc = pc
        /\ \A m \in Nights : backups'[m].began = backups[m].began
        /\ \A m \in Nights : m # n => backups'[m] = backups[m]
    BY <1>0, <1>5, GoesTo
  <2>3. Outcome(n) \in {{<<n, "running">>, <<n, "success">>}, {<<n, "failed">>}}
          /\ (<<n, "success">> \in Outcome(n) => BackupAt(n, "uploaded"))
    BY DEF Outcome
  <2>4. recorded' \subseteq Nights \X {"running", "success", "failed"}
    <3>1. \A status \in {"running", "success", "failed"} :
            <<n, status>> \in Nights \X {"running", "success", "failed"}
      OBVIOUS
    <3>2. Outcome(n) \subseteq Nights \X {"running", "success", "failed"} BY <2>3, <3>1
    <3>3. recorded \subseteq Nights \X {"running", "success", "failed"}
      BY <1>0 DEF BackgroundTypeOK
    <3> QED BY <1>5, <3>2, <3>3
  <2>5. BackgroundTypeOK' BY <1>0, <1>3, <2>1, <2>2, <2>4 DEF BackgroundTypeOK
  <2>6. \A m \in Nights, status \in {"running", "success", "failed"} :
          <<m, status>> \in recorded' => <<m, status>> \in recorded \/ (m = n /\ pc = "closing")
    BY <1>5, <2>3
  <2>7. BackupsAgree' /\ \A m \in Nights : Alone(m)' <=> Alone(m)
    BY <1>1, <1>2, <1>5, <2>1, <2>6, OthersKeep DEF Over, BackupAt
  <2>8. NoticesAgree' BY <1>3 DEF BackgroundIInv, NoticesAgree
  <2>9. Committing =>
          \A status \in {"running", "success", "failed"} : <<n, status>> \notin recorded
    BY DEF BackgroundIInv, BackupsAgree, BackupAt, Over
  <2>10. ASSUME NEW m \in Nights
         PROVE  /\ <<m, "success">> \in recorded' /\ Alone(m)'
                     => dumps'[backups'[m].began] = "complete"
                /\ <<m, "success">> \in recorded' => <<m, "failed">> \notin recorded'
    <3>1. CASE m = n
      <4>1. CASE recorded' = recorded
        <5>1. <<n, "success">> \in recorded => pc \in {"done", "dead"}
          BY <1>1, <1>5 DEF BackgroundIInv, BackupsAgree, BackupAt, Over
        <5>2. /\ <<n, "success">> \in recorded /\ Alone(n) => dumps[t] = "complete"
              /\ <<n, "success">> \in recorded => <<n, "failed">> \notin recorded
          BY DEF BackgroundIInv, RecordedAsItWas
        <5> QED BY <1>5, <2>1, <2>2, <2>7, <3>1, <4>1, <5>1, <5>2
      <4>2. CASE pc = "closing" /\ Committing /\ recorded' = recorded \union Outcome(n)
        <5>1. <<n, "success">> \in recorded' => BackupAt(n, "uploaded") BY <2>3, <2>9, <4>2
        <5>2. BackupAt(n, "uploaded") /\ Alone(n) => dumps[t] = "complete"
          BY DEF BackgroundIInv, BackupsAgree
        <5>3. <<n, "success">> \in recorded' => <<n, "failed">> \notin recorded'
          BY <2>3, <2>9, <4>2
        <5> QED BY <1>5, <2>1, <2>2, <2>7, <3>1, <4>2, <5>1, <5>2, <5>3
      <4> QED BY <1>5, <4>1, <4>2
    <3>2. CASE m # n
      <4>1. <<m, "success">> \in recorded' => <<m, "success">> \in recorded
        BY <1>5, <2>3, <3>2
      <4>2. <<m, "failed">> \in recorded' => <<m, "failed">> \in recorded
        BY <1>5, <2>3, <3>2
      <4>3. <<m, "success">> \in recorded => backups[m].began \in Seconds
        <5>1. <<m, "success">> \in recorded => ~BackupAt(m, "queued")
          BY DEF BackgroundIInv, BackupsAgree, BackupAt, Over
        <5>2. backups[m].began # Unknown => backups[m].began \in Seconds
          BY <1>0 DEF BackgroundTypeOK, BackupRecord
        <5> QED BY <5>1, <5>2 DEF BackgroundIInv, BackupsAgree
      <4>4. Alone(m) => backups[m].began # t BY <3>2 DEF Alone
      <4>5. <<m, "success">> \in recorded /\ Alone(m)
              => dumps'[backups'[m].began] = dumps[backups[m].began]
        BY <2>1, <2>2, <4>3, <4>4
      <4>6. /\ <<m, "success">> \in recorded /\ Alone(m) => dumps[backups[m].began] = "complete"
            /\ <<m, "success">> \in recorded => <<m, "failed">> \notin recorded
        BY DEF BackgroundIInv, RecordedAsItWas
      <4>7. Alone(m)' <=> Alone(m) BY <2>7
      <4> QED BY <4>1, <4>2, <4>5, <4>6, <4>7
    <3> QED BY <3>1, <3>2
  <2>11. ASSUME NEW s \in Seconds, files'[s] # "none"
         PROVE  \E m \in Nights : backups'[m].began = s /\ backups'[m].pc # "done"
    <3>1. CASE s = t /\ pc # "done" BY <2>2, <3>1
    <3>2. CASE s = t /\ pc = "done" BY <1>5, <2>1, <2>11, <3>2
    <3>3. CASE s # t
      <4>1. PICK m \in Nights : backups[m].began = s /\ backups[m].pc # "done"
        BY <2>1, <2>11, <3>3 DEF BackgroundIInv, RecordedAsItWas
      <4>2. m # n BY <3>3, <4>1
      <4> QED BY <2>2, <4>1, <4>2
    <3> QED BY <3>1, <3>2, <3>3
  <2>12. RecordedAsItWas' BY <1>3, <2>10, <2>11 DEF BackgroundIInv, RecordedAsItWas
  <2> QED BY <2>5, <2>7, <2>8, <2>12 DEF BackgroundIInv
<1>6. [files EXCEPT ![t] = files[t]] = files /\ [dumps EXCEPT ![t] = dumps[t]] = dumps
        /\ files[t] \in Contents /\ dumps[t] \in Contents
        /\ {"none", "complete"} \subseteq Contents
  BY <1>2, <1>4 DEF Contents
<1>7. CASE FinishDump(n)
  <2> DEFINE file == IF files[t] # "none" /\ WrittenAlone(n) THEN "complete" ELSE files[t]
  <2>1. /\ Goes(n, "dumped") /\ BackupAt(n, "dumping") /\ files' = [files EXCEPT ![t] = file]
        /\ UNCHANGED <<dumps, recorded>>
    BY <1>7 DEF FinishDump, FileOf
  <2>2. Alone(n) => files[t] # "none" /\ WrittenAlone(n)
    BY <2>1 DEF BackgroundIInv, BackupsAgree, FileOf, Alone, WrittenAlone
  <2>3. file \in Contents /\ (file # "none" => files[t] # "none") BY <1>6
  <2>4. Alone(n) => file = "complete" BY <2>2
  <2>5. "dumped" \in Stages /\ ~BackupAt(n, "closing") BY <2>1 DEF Stages, BackupAt
  <2> HIDE DEF file, t, Committing
  <2> QED BY <1>5, <1>6, <2>1, <2>3, <2>4, <2>5
<1>8. CASE BadDump(n) \/ FailUpload(n) \/ WorkerDies(n)
  <2>1. PICK pc \in {"failed", "dead"} : /\ Goes(n, pc) /\ UNCHANGED <<files, dumps, recorded>>
                                         /\ BackupAt(n, "closing") => pc = "dead"
    BY <1>8 DEF BadDump, FailUpload, WorkerDies, AfterBadDump, BackupAt
  <2>2. pc \in Stages BY DEF Stages
  <2> HIDE DEF t, Committing
  <2> QED BY <1>5, <1>6, <2>1, <2>2
<1>9. CASE Upload(n)
  <2>1. /\ Goes(n, "uploaded") /\ BackupAt(n, "dumped") /\ dumps' = [dumps EXCEPT ![t] = files[t]]
        /\ UNCHANGED <<files, recorded>>
    BY <1>9 DEF Upload, FileOf
  <2>2. Alone(n) => files[t] = "complete" BY <2>1 DEF BackgroundIInv, BackupsAgree, FileOf
  <2>3. "uploaded" \in Stages /\ ~BackupAt(n, "closing") BY <2>1 DEF Stages, BackupAt
  <2> HIDE DEF t, Committing
  <2> QED BY <1>5, <1>6, <2>1, <2>2, <2>3
<1>10. ASSUME NEW committed \in BOOLEAN, CommitBackup(n, committed) PROVE BackgroundIInv'
  <2>1. /\ Goes(n, "closing") /\ UNCHANGED <<files, dumps>> /\ ~BackupAt(n, "closing")
        /\ Committing
        /\ recorded' = recorded \/ recorded' = recorded \union Outcome(n)
    BY <1>10 DEF CommitBackup, BackupAt
  <2>2. "closing" \in Stages BY DEF Stages
  <2> HIDE DEF t, Committing
  <2> QED BY <1>5, <1>6, <2>1, <2>2
<1>11. CASE RemoveFile(n)
  <2>1. /\ Goes(n, "done") /\ files' = [files EXCEPT ![t] = "none"]
        /\ UNCHANGED <<dumps, recorded>>
    BY <1>11 DEF RemoveFile
  <2>2. "done" \in Stages BY DEF Stages
  <2> HIDE DEF t, Committing
  <2> QED BY <1>5, <1>6, <2>1, <2>2
<1> QED BY <1>7, <1>8, <1>9, <1>10, <1>11

\* A second passes, and a request goes on with its mail.
LEMMA NoticeKeeps ==
  ASSUME BackgroundIInv, NEW q \in Notices,
         \/ CommitFirst(q) \/ Answer(q) \/ AuditMail(q) \/ CommitNotice(q) \/ RollBackNotice(q)
         \/ \E accepted \in BOOLEAN : Dispatch(q, accepted)
  PROVE  BackgroundIInv'
<1>0. BackgroundTypeOK /\ NoticesAgree BY DEF BackgroundIInv
<1>1. UNCHANGED backupVars
  BY DEF CommitFirst, Answer, AuditMail, CommitNotice, RollBackNotice, Dispatch
<1>2. /\ notices' \in [Notices -> {"idle", "begun", "answered", "tried", "audited",
                                   "committed", "rolled back"}]
      /\ kept' \subseteq Notices /\ delivered' \subseteq Notices
      /\ told' \subseteq Notices \X {"sent"}
  <2>1. CASE AuditMail(q)
    <3>1. <<q, "sent">> \in Notices \X {"sent"} OBVIOUS
    <3>2. told' \subseteq Notices \X {"sent"} BY <1>0, <2>1, <3>1 DEF BackgroundTypeOK, AuditMail
    <3> QED BY <1>0, <2>1, <3>2 DEF BackgroundTypeOK, AuditMail, NoticeGoes
  <2>2. CASE ~AuditMail(q)
    BY <1>0, <2>2 DEF BackgroundTypeOK, CommitFirst, Answer, CommitNotice, RollBackNotice,
       Dispatch, NoticeGoes
  <2> QED BY <2>1, <2>2
<1>3. BackgroundTypeOK' BY <1>0, <1>1, <1>2 DEF BackgroundTypeOK, backupVars
<1>4. BackupsAgree'
  BY <1>1 DEF BackgroundIInv, BackupsAgree, BackupAt, Over, FileOf, Alone, backupVars
<1>5. NoticesAgree'
  <2> SUFFICES ASSUME NEW p \in Notices
               PROVE  /\ notices'[p] \in {"audited", "committed"} => <<p, "sent">> \in told'
                      /\ p \in SelfCommitted => (p \in kept' <=> notices'[p] # "idle")
                      /\ p \in kept' \ SelfCommitted => notices'[p] = "committed"
                      /\ notices'[p] = "begun" => p \in SelfCommitted
                      /\ p \in delivered' =>
                           notices'[p] \in {"tried", "audited", "committed", "rolled back"}
    BY DEF NoticesAgree
  <2>0. /\ notices \in [Notices -> {"idle", "begun", "answered", "tried", "audited",
                                    "committed", "rolled back"}]
        /\ notices[p] \in {"audited", "committed"} => <<p, "sent">> \in told
        /\ p \in SelfCommitted => (p \in kept <=> notices[p] # "idle")
        /\ p \in kept \ SelfCommitted => notices[p] = "committed"
        /\ notices[p] = "begun" => p \in SelfCommitted
        /\ p \in delivered => notices[p] \in {"tried", "audited", "committed", "rolled back"}
    BY <1>0 DEF NoticesAgree, BackgroundTypeOK
  <2>1. CASE CommitFirst(q) BY <2>0, <2>1 DEF CommitFirst, NoticeGoes
  <2>2. CASE Answer(q) BY <2>0, <2>2 DEF Answer, MayAnswer, NoticeGoes
  <2>3. CASE AuditMail(q) BY <2>0, <2>3 DEF AuditMail, NoticeGoes
  <2>4. CASE CommitNotice(q) BY <2>0, <2>4 DEF CommitNotice, NoticeGoes, Committable
  <2>5. CASE RollBackNotice(q) BY <2>0, <2>5 DEF RollBackNotice, NoticeGoes
  <2>6. CASE \E accepted \in BOOLEAN : Dispatch(q, accepted)
    BY <2>0, <2>6 DEF Dispatch, NoticeGoes
  <2> QED BY <2>1, <2>2, <2>3, <2>4, <2>5, <2>6
<1>6. ASSUME NEW p \in Notices, p \in delivered', <<p, "sent">> \notin told'
      PROVE  notices'[p] \in {"tried", "rolled back"}
  BY <1>5, <1>6 DEF NoticesAgree
<1>7. \A p \in Notices : /\ p \in kept' \ SelfCommitted => <<p, "sent">> \in told'
                         /\ p \in delivered' \intersect SelfCommitted => p \in kept'
  BY <1>5 DEF NoticesAgree
<1>8. RecordedAsItWas'
  BY <1>1, <1>6, <1>7 DEF BackgroundIInv, RecordedAsItWas, Alone, backupVars
<1> QED BY <1>3, <1>4, <1>5, <1>8 DEF BackgroundIInv

\* Every step of the background preserves its invariant, and so does every other.
LEMMA BackgroundKeeps == BackgroundIInv /\ [Next]_vars => BackgroundIInv'
<1> SUFFICES ASSUME BackgroundIInv, [Next]_vars PROVE BackgroundIInv' OBVIOUS
<1>1. CASE UNCHANGED backgroundVars
  BY <1>1 DEF BackgroundIInv, BackgroundTypeOK, BackupsAgree, BackupAt, Over, FileOf, Alone,
     NoticesAgree, RecordedAsItWas, backgroundVars, backupVars, noticeVars
<1>2. CASE BackgroundNext
  <2>1. CASE Tick
    <3>1. second' \in Seconds
      <4>1. second \in 0 .. LastSecond BY DEF BackgroundIInv, BackgroundTypeOK, Seconds
      <4>2. second < LastSecond /\ second' = second + 1 BY <2>1 DEF Tick
      <4> QED BY <4>1, <4>2, BackgroundAssumption DEF Seconds
    <3> QED
      BY <2>1, <3>1 DEF Tick, BackgroundIInv, BackgroundTypeOK, BackupsAgree, BackupAt, Over, FileOf,
         Alone, NoticesAgree, RecordedAsItWas, noticeVars
  <2> QED BY <1>2, <2>1, BeginBackupKeeps, BackupGoesOnKeeps, NoticeKeeps DEF BackgroundNext
<1> QED BY <1>1, <1>2 DEF Next, BillingStep, SettingsStep, BackgroundStep, vars

\* It holds at the start.
LEMMA BackgroundBegins == Init => BackgroundIInv
<1> SUFFICES ASSUME BackgroundInit PROVE BackgroundIInv BY DEF Init
<1>1. BackgroundTypeOK
  BY SecondsFacts DEF BackgroundInit, BackgroundTypeOK, BackupRecord, Contents
<1>2. BackupsAgree BY DEF BackgroundInit, BackupsAgree, BackupAt
<1>3. NoticesAgree BY DEF BackgroundInit, NoticesAgree
<1>4. RecordedAsItWas BY DEF BackgroundInit, RecordedAsItWas
<1> QED BY <1>1, <1>2, <1>3, <1>4 DEF BackgroundIInv

\* The inductive invariant of Background, in Platform.
THEOREM BackgroundInvariance == Spec => []BackgroundIInv
  BY BackgroundBegins, BackgroundKeeps, PTL DEF Spec

\* A recorded backup is whole and no temporary file is left by a task that ended.  What get_db
\* commits was tried to be told before; what a forced issue or a batch commits itself may stay
\* untold, and is committed before its mail.
THEOREM BackgroundIsRecorded == Spec => []RecordedAsItWas
<1>1. BackgroundIInv => RecordedAsItWas BY DEF BackgroundIInv
<1> QED BY <1>1, BackgroundInvariance, PTL

-----------------------------------------------------------------------------
(* What tenants pay.                                                       *)

\* Null is no plan and no start, and the end of a period is a date.
LEMMA PeriodFacts ==
  /\ Null \notin Plans /\ Null \notin Starts
  /\ \A p \in Plans, s \in Starts : PeriodEnd(p, s) \in Dates
<1> SUFFICES ASSUME NEW p \in Plans, NEW s \in Starts PROVE PeriodEnd(p, s) \in Dates
  BY BillingAssumption
<1> DEFINE month == s[1] + PlanMonths[p]
           last == MonthDays[month]
           day == IF s[2] <= last THEN s[2] ELSE last
<1>1. PeriodEnd(p, s) = <<month, day>> BY DEF PeriodEnd, AddMonths
<1>2. s[1] \in 0 .. LastMonth /\ s[2] \in 1 .. 31 BY BillingAssumption DEF Dates
<1>3. PlanMonths[p] \in Nat /\ LastMonth \in Nat /\ month <= LastMonth BY BillingAssumption
<1>4. month \in 0 .. LastMonth BY <1>2, <1>3
<1>5. last \in 28 .. 31 BY <1>4, BillingAssumption
<1> HIDE DEF month, last
<1>6. day \in 1 .. 31 /\ day <= last BY <1>2, <1>5
<1> HIDE DEF day
<1> QED BY <1>1, <1>4, <1>6 DEF Dates, last

\* A payment is no null.
LEMMA PaymentFacts ==
  /\ NoPayment \notin PaymentRow
  /\ \A row \in PaymentRow :
       row.plan \in Plans /\ row.start \in Starts /\ row.end \in Dates
         /\ row = [plan |-> row.plan, start |-> row.start, end |-> row.end]
  BY PeriodFacts DEF PaymentRow, NoPayment

\* Dates are in order.
LEMMA DatesOrdered ==
  ASSUME NEW d \in Dates, NEW e \in Dates, NEW f \in Dates
  PROVE  ~Earlier(d, e) /\ ~Earlier(e, f) => ~Earlier(d, f)
<1>1. \A x \in Dates : x[1] \in Nat /\ x[2] \in Nat BY DEF Dates
<1> QED BY <1>1 DEF Earlier

\* Whoever has paid has a payment that ends last.
LEMMA LatestEndsLast ==
  ASSUME BillingTypeOK, NEW t, PaymentsOf(t) # {}
  PROVE  /\ Latest(t) \in PaymentsOf(t)
         /\ \A q \in PaymentsOf(t) : ~Earlier(payments[Latest(t)].end, payments[q].end)
<1> DEFINE end(p) == payments[p].end
           weight(p) == 32 * end(p)[1] + end(p)[2]
           top == 32 * LastMonth + 31
           left == {top - weight(p) : p \in PaymentsOf(t)}
<1>1. \A p \in PaymentsOf(t) :
        end(p)[1] \in Nat /\ end(p)[1] <= LastMonth /\ end(p)[2] \in 1 .. 31
  <2> SUFFICES ASSUME NEW p \in PaymentsOf(t)
               PROVE  end(p)[1] \in Nat /\ end(p)[1] <= LastMonth /\ end(p)[2] \in 1 .. 31
    OBVIOUS
  <2>1. payments[p] \in PaymentRow BY DEF BillingTypeOK, PaymentsOf
  <2>2. end(p) \in Dates BY <2>1, PaymentFacts
  <2> QED BY <2>2 DEF Dates
<1>2. LastMonth \in Nat BY BillingAssumption
<1>3. \A p \in PaymentsOf(t) : weight(p) \in Nat /\ weight(p) <= top
  <2> SUFFICES ASSUME NEW p \in PaymentsOf(t) PROVE weight(p) \in Nat /\ weight(p) <= top
    OBVIOUS
  <2> DEFINE m == end(p)[1]
             d == end(p)[2]
  <2>1. m \in Nat /\ m <= LastMonth /\ d \in 1 .. 31 BY <1>1
  <2> HIDE DEF m, d, end
  <2>2. 32 * m + d \in Nat /\ 32 * m + d <= 32 * LastMonth + 31 BY <1>2, <2>1
  <2> QED BY <2>2 DEF m, d
<1> HIDE DEF end
<1>4. left \subseteq Nat /\ left # {}
  <2> HIDE DEF weight
  <2>1. top \in Nat BY <1>2
  <2> HIDE DEF top
  <2> QED BY <1>3, <2>1
<1>5. PICK n \in left : \A k \in left : ~(k < n)
  <2>1. IsWellFoundedOn(OpToRel(<, Nat), Nat) BY NatLessThanWellFounded
  <2>2. PICK n \in left : \A k \in left : <<k, n>> \notin OpToRel(<, Nat)
    <3> HIDE DEF left
    <3> QED BY <1>4, <2>1, WFMin
  <2>3. \A k \in left : k < n => <<k, n>> \in OpToRel(<, Nat)
    <3> HIDE DEF left
    <3> QED BY <1>4, <2>2 DEF OpToRel
  <2> QED BY <2>2, <2>3
<1>6. PICK p \in PaymentsOf(t) : n = top - weight(p) BY <1>5
<1>7. ASSUME NEW q \in PaymentsOf(t), Earlier(end(p), end(q)) PROVE FALSE
  <2> DEFINE m == end(p)[1]
             d == end(p)[2]
             k == end(q)[1]
             e == end(q)[2]
  <2>1. m \in Nat /\ k \in Nat /\ d \in 1 .. 31 /\ e \in 1 .. 31 BY <1>1
  <2>2. m < k \/ (m = k /\ d < e) BY <1>7 DEF Earlier
  <2>3. weight(p) = 32 * m + d /\ weight(q) = 32 * k + e OBVIOUS
  <2> HIDE DEF m, d, k, e
  <2>4. 32 * m + d < 32 * k + e BY <2>1, <2>2
  <2> HIDE DEF weight
  <2>5. weight(p) \in Nat /\ weight(q) \in Nat /\ top \in Nat BY <1>2, <1>3
  <2> HIDE DEF top
  <2>6. top - weight(q) < n BY <1>6, <2>3, <2>4, <2>5
  <2> QED BY <1>5, <2>6
<1>8. \A q \in PaymentsOf(t) : ~Earlier(payments[p].end, payments[q].end) BY <1>7 DEF end
<1> QED BY <1>8 DEF Latest

\* A tenant with a payment that covers the day owes nothing.
LEMMA CoveredOwesNothing ==
  ASSUME BillingTypeOK, NEW p \in Payments, payments[p] # NoPayment, NEW today \in Turns,
         ~Earlier(payments[p].end, today)
  PROVE  BillingStatus(PayerOf[p], today) \in {"por_vencer", "al_dia"}
<1> DEFINE t == PayerOf[p]
<1>1. p \in PaymentsOf(t) BY DEF PaymentsOf
<1>2. /\ Latest(t) \in PaymentsOf(t)
      /\ ~Earlier(payments[Latest(t)].end, payments[p].end)
  BY <1>1, LatestEndsLast
<1>3. \A q \in Payments : payments[q] # NoPayment =>
        payments[q].start \in Dates /\ payments[q].end \in Dates
  <2>1. \A q \in Payments : payments[q] # NoPayment => payments[q] \in PaymentRow
    BY DEF BillingTypeOK
  <2> QED BY <2>1, PaymentFacts, BillingAssumption
<1>4. today \in Dates BY <1>3 DEF Turns
<1>5. ~Earlier(payments[Latest(t)].end, today)
  BY <1>2, <1>3, <1>4, DatesOrdered DEF PaymentsOf
<1> QED BY <1>1, <1>5 DEF BillingStatus

\* A request that is not served is about no payment that could matter.
LEMMA NoBillerFacts ==
  /\ NoBiller \in BillerRecord /\ NoBiller.pc = "idle" /\ ~NoBiller.locks /\ ~NoBiller.deletes
  BY DEF NoBiller, BillerRecord

\* A correction makes a payment of a payment.
LEMMA CorrectedFacts ==
  ASSUME BillingTypeOK, NEW b \in Billers, billers[b].row \in PaymentRow,
         billers[b].payment \in Payments
  PROVE  /\ Corrected(b) \in PaymentRow
         /\ payments[billers[b].payment] # NoPayment => Written(b) \in PaymentRow
         /\ billers[b].plan = Null /\ billers[b].start = Null => Corrected(b) = billers[b].row
         /\ Recalculates(b) =>
              Corrected(b).end = PeriodEnd(Corrected(b).plan, Corrected(b).start)
         /\ billers[b].row = payments[billers[b].payment] => Written(b) = Corrected(b)
         /\ Corrected(b) = billers[b].row /\ payments[billers[b].payment] # NoPayment
              => Written(b) = payments[billers[b].payment]
<1> DEFINE q == billers[b]
           now == payments[q.payment]
           new == Corrected(b)
           plan == IF q.plan = Null THEN q.row.plan ELSE q.plan
           start == IF q.start = Null THEN q.row.start ELSE q.start
           end == IF Recalculates(b) THEN PeriodEnd(plan, start) ELSE q.row.end
<1>1. q \in BillerRecord /\ now \in PaymentRow \union {NoPayment} BY DEF BillingTypeOK
<1>2. plan \in Plans /\ start \in Starts /\ q.row.end \in Dates
  BY <1>1, PaymentFacts DEF BillerRecord
<1>3. end \in Dates BY <1>2, PeriodFacts
<1>4. new = [plan |-> plan, start |-> start, end |-> end] BY DEF Corrected
<1>5. /\ new.plan = plan /\ new.start = start /\ new.end = end
      /\ new = [plan |-> new.plan, start |-> new.start, end |-> new.end]
  BY <1>4
<1>6. new \in PaymentRow BY <1>2, <1>3, <1>4 DEF PaymentRow
<1>7. q.plan = Null /\ q.start = Null => new = q.row
  BY <1>4, PaymentFacts DEF Recalculates
<1>8. Recalculates(b) => new.end = PeriodEnd(new.plan, new.start) BY <1>5
<1>9. Written(b) = [plan |-> IF new.plan # q.row.plan THEN new.plan ELSE now.plan,
                    start |-> IF new.start # q.row.start THEN new.start ELSE now.start,
                    end |-> IF new.end # q.row.end THEN new.end ELSE now.end]
  BY DEF Written
<1> HIDE DEF now, new, plan, start, end
<1>10. now # NoPayment => Written(b) \in PaymentRow
  BY <1>1, <1>6, <1>9, PaymentFacts DEF PaymentRow
<1>11. q.row = now => Written(b) = new BY <1>5, <1>9
<1>12. new = q.row /\ now # NoPayment => Written(b) = now BY <1>1, <1>9, PaymentFacts
<1> QED BY <1>6, <1>7, <1>8, <1>10, <1>11, <1>12 DEF new, now

\* A payment is recorded that nobody knew.
LEMMA CreatePaymentKeeps ==
  ASSUME BillingIInv, NEW p \in Payments, NEW plan \in Plans, NEW start \in Starts,
         CreatePayment(p, plan, start)
  PROVE  BillingIInv'
<1> DEFINE row == [plan |-> plan, start |-> start, end |-> PeriodEnd(plan, start)]
<1>0. BillingTypeOK /\ BillersAgree /\ PeriodsAgree /\ AuditAgrees BY DEF BillingIInv
<1>1. /\ p \notin entered /\ payments' = [payments EXCEPT ![p] = row]
      /\ audited' = [audited EXCEPT ![p] = row] /\ entered' = entered \union {p}
      /\ UNCHANGED <<billers, crossed, outdated>>
  BY DEF CreatePayment
<1>2. row \in PaymentRow BY PeriodFacts DEF PaymentRow
<1>3. BillingTypeOK' BY <1>0, <1>1, <1>2 DEF BillingTypeOK
<1>4. /\ payments'[p] = row /\ audited'[p] = row
      /\ \A q \in Payments : q # p => payments'[q] = payments[q] /\ audited'[q] = audited[q]
  BY <1>0, <1>1 DEF BillingTypeOK
<1>5. \A q \in Payments : payments'[q] # NoPayment => q \in entered'
  BY <1>1, <1>4 DEF BillingIInv
<1>6. BillersAgree'
  <2> SUFFICES ASSUME NEW b \in Billers
               PROVE  LET q == billers[b]
                          now == payments'[q.payment]
                      IN
                      /\ q.pc # "idle" => q.payment \in entered' /\ q.row \in PaymentRow
                      /\ q.deletes => q.plan = Null /\ q.start = Null
                      /\ q.pc = "read" => ~q.slack /\ (~q.late => q.row = now)
                      /\ q.pc = "flushed" =>
                           /\ q.locks <=> q.deletes \/ Corrected(b)' # q.row
                           /\ ~q.slack =>
                                /\ ~q.late => q.row = now
                                /\ ~q.deletes => now # NoPayment
                                /\ q.after = IF q.deletes THEN NoPayment ELSE Written(b)'
                      /\ q.locks =>
                           /\ q.pc = "flushed" /\ ~q.slack
                           /\ \A c \in Billers \ {b} :
                                billers[c].locks => billers[c].payment # q.payment
    BY <1>1 DEF BillersAgree
  <2>1. CASE billers[b].pc = "idle" BY <1>0, <2>1 DEF BillersAgree
  <2>2. CASE billers[b].pc # "idle"
    <3>1. billers[b].payment \in entered /\ entered \subseteq Payments
      BY <1>0, <2>2 DEF BillersAgree, BillingTypeOK
    <3>2. payments'[billers[b].payment] = payments[billers[b].payment] BY <1>1, <1>4, <3>1
    <3>3. Corrected(b)' = Corrected(b) BY <1>1 DEF Corrected, Recalculates
    <3>4. Written(b)' = Written(b) BY <1>1, <3>2, <3>3 DEF Written
    <3> QED BY <1>0, <1>1, <3>1, <3>2, <3>3, <3>4 DEF BillersAgree
  <2> QED BY <2>1, <2>2
<1>7. PeriodsAgree'
  <2>1. row.end = PeriodEnd(row.plan, row.start) OBVIOUS
  <2> HIDE DEF row
  <2> QED BY <1>0, <1>1, <1>4, <2>1 DEF PeriodsAgree
<1>8. AuditAgrees' BY <1>0, <1>1, <1>4 DEF AuditAgrees
<1> QED BY <1>3, <1>5, <1>6, <1>7, <1>8 DEF BillingIInv

\* A request goes on, and nothing is written.
LEMMA BillerGoesOnKeeps ==
  ASSUME BillingIInv, NEW b \in Billers,
         \/ FlushPayment(b) \/ FailPayment(b)
         \/ \E p \in Payments, d \in BOOLEAN, plan \in Plans \union {Null},
               s \in Starts \union {Null} : ReadPayment(b, p, d, plan, s)
  PROVE  BillingIInv'
<1>0. BillingTypeOK /\ BillersAgree /\ PeriodsAgree /\ AuditAgrees BY DEF BillingIInv
<1>1. ASSUME NEW q \in BillerRecord, billers' = [billers EXCEPT ![b] = q],
             UNCHANGED <<payments, entered, audited, crossed, outdated>>,
             q.pc # "idle" => q.payment \in entered /\ q.row \in PaymentRow,
             q.deletes => q.plan = Null /\ q.start = Null,
             q.pc = "read" => ~q.slack /\ (~q.late => q.row = payments[q.payment]),
             q.pc = "flushed" =>
               /\ q.locks <=> q.deletes \/ Corrected(b)' # q.row
               /\ ~q.slack =>
                    /\ ~q.late => q.row = payments[q.payment]
                    /\ ~q.deletes => payments[q.payment] # NoPayment
                    /\ q.after = IF q.deletes THEN NoPayment ELSE Written(b)',
             q.locks =>
               /\ q.pc = "flushed" /\ ~q.slack
               /\ \A c \in Billers : billers[c].locks => billers[c].payment # q.payment
      PROVE  BillingIInv'
  <2>1. BillingTypeOK' BY <1>0, <1>1 DEF BillingTypeOK
  <2>2. billers'[b] = q /\ \A c \in Billers : c # b => billers'[c] = billers[c]
    BY <1>0, <1>1 DEF BillingTypeOK
  <2>3. BillersAgree'
    <3> SUFFICES ASSUME NEW k \in Billers
                 PROVE  LET r == billers'[k]
                            now == payments[r.payment]
                        IN
                        /\ r.pc # "idle" => r.payment \in entered /\ r.row \in PaymentRow
                        /\ r.deletes => r.plan = Null /\ r.start = Null
                        /\ r.pc = "read" => ~r.slack /\ (~r.late => r.row = now)
                        /\ r.pc = "flushed" =>
                             /\ r.locks <=> r.deletes \/ Corrected(k)' # r.row
                             /\ ~r.slack =>
                                  /\ ~r.late => r.row = now
                                  /\ ~r.deletes => now # NoPayment
                                  /\ r.after = IF r.deletes THEN NoPayment ELSE Written(k)'
                        /\ r.locks =>
                             /\ r.pc = "flushed" /\ ~r.slack
                             /\ \A c \in Billers \ {k} :
                                  billers'[c].locks => billers'[c].payment # r.payment
      BY <1>1 DEF BillersAgree
    <3>1. CASE k = b
      <4>1. \A c \in Billers \ {b} : billers'[c] = billers[c] BY <2>2
      <4> QED BY <1>1, <2>2, <3>1, <4>1
    <3>2. CASE k # b
      <4>1. billers'[k] = billers[k] BY <2>2, <3>2
      <4>2. Corrected(k)' = Corrected(k) BY <4>1 DEF Corrected, Recalculates
      <4>3. Written(k)' = Written(k) BY <1>1, <4>1, <4>2 DEF Written
      <4>4. billers[k].locks => \A c \in Billers \ {k} :
              billers'[c].locks => billers'[c].payment # billers[k].payment
        <5> SUFFICES ASSUME billers[k].locks, NEW c \in Billers \ {k}, billers'[c].locks
                     PROVE  billers'[c].payment # billers[k].payment
          OBVIOUS
        <5>1. CASE c = b BY <1>1, <2>2, <5>1
        <5>2. CASE c # b BY <1>0, <2>2, <5>2 DEF BillersAgree
        <5> QED BY <5>1, <5>2
      <4> QED BY <1>0, <4>1, <4>2, <4>3, <4>4 DEF BillersAgree
    <3> QED BY <3>1, <3>2
  <2> QED BY <1>0, <1>1, <2>1, <2>3 DEF BillingIInv, PeriodsAgree, AuditAgrees
<1>2. CASE FailPayment(b)
  <2>1. billers' = [billers EXCEPT ![b] = NoBiller]
          /\ UNCHANGED <<payments, entered, audited, crossed, outdated>>
    BY <1>2 DEF FailPayment
  <2> QED BY <1>1, <2>1, NoBillerFacts
<1>3. ASSUME NEW p \in Payments, NEW d \in BOOLEAN, NEW plan \in Plans \union {Null},
             NEW s \in Starts \union {Null}, ReadPayment(b, p, d, plan, s)
      PROVE  BillingIInv'
  <2> DEFINE q == [NoBiller EXCEPT !.pc = "read", !.payment = p, !.deletes = d, !.plan = plan,
                                   !.start = s, !.row = payments[p]]
  <2>1. /\ payments[p] # NoPayment /\ (d => plan = Null /\ s = Null)
        /\ billers' = [billers EXCEPT ![b] = q]
        /\ UNCHANGED <<payments, entered, audited, crossed, outdated>>
    BY <1>3 DEF ReadPayment
  <2>2. payments[p] \in PaymentRow /\ p \in entered
    BY <1>0, <2>1 DEF BillingTypeOK, BillingIInv
  <2>3. /\ q \in BillerRecord
        /\ q.pc = "read" /\ q.payment = p /\ q.row = payments[p] /\ ~q.slack /\ ~q.late
        /\ ~q.locks /\ q.deletes = d /\ q.plan = plan /\ q.start = s
    BY <2>2 DEF NoBiller, BillerRecord
  <2> HIDE DEF q
  <2> QED BY <1>1, <2>1, <2>2, <2>3
<1>4. CASE FlushPayment(b)
  <2> DEFINE old == billers[b]
             p == old.payment
             locks == old.deletes \/ Corrected(b) # old.row
             after == IF old.deletes THEN NoPayment ELSE Written(b)
             q == [old EXCEPT !.pc = "flushed", !.locks = locks, !.after = after]
  <2>1. /\ old.pc = "read" /\ (locks => ~PaymentLocked(p))
        /\ ~old.deletes => payments[p] # NoPayment
        /\ billers' = [billers EXCEPT ![b] = q]
        /\ UNCHANGED <<payments, entered, audited, crossed, outdated>>
    BY <1>4 DEF FlushPayment
  <2>2. /\ old \in BillerRecord /\ p \in entered /\ p \in Payments /\ old.row \in PaymentRow
        /\ old.deletes => old.plan = Null /\ old.start = Null
        /\ ~old.slack /\ (~old.late => old.row = payments[p])
    BY <1>0, <2>1 DEF BillersAgree, BillingTypeOK
  <2>3. after \in PaymentRow \union {NoPayment} BY <1>0, <2>1, <2>2, CorrectedFacts
  <2>4. locks \in BOOLEAN BY <2>2 DEF BillerRecord
  <2> HIDE DEF locks, after, old
  <2>5. /\ q \in BillerRecord
        /\ q.pc = "flushed" /\ q.payment = p /\ q.row = old.row /\ q.slack = old.slack
        /\ q.late = old.late /\ q.locks = locks /\ q.deletes = old.deletes /\ q.plan = old.plan
        /\ q.start = old.start /\ q.after = after
    BY <2>2, <2>3, <2>4 DEF BillerRecord
  <2>6. billers'[b] = q BY <1>0, <2>1 DEF BillingTypeOK
  <2> HIDE DEF q
  <2>7. Corrected(b)' = Corrected(b) BY <2>5, <2>6 DEF Corrected, Recalculates, old
  <2>8. Written(b)' = Written(b) BY <2>1, <2>5, <2>6, <2>7 DEF Written, old
  <2>9. locks => \A c \in Billers : billers[c].locks => billers[c].payment # p
    BY <2>1 DEF PaymentLocked
  <2>10. q.locks <=> q.deletes \/ Corrected(b)' # q.row BY <2>5, <2>7 DEF locks, old
  <2>11. q.after = IF q.deletes THEN NoPayment ELSE Written(b)' BY <2>5, <2>8 DEF after, old
  <2> QED BY <1>1, <2>1, <2>2, <2>5, <2>9, <2>10, <2>11
<1> QED BY <1>2, <1>3, <1>4

\* A correction or a deletion is committed: the others are told, if it changed anything.
LEMMA CommitPaymentKeeps ==
  ASSUME BillingIInv, NEW b \in Billers, CommitPayment(b)
  PROVE  BillingIInv'
<1> DEFINE old == billers[b]
           p == old.payment
           new == IF old.deletes THEN NoPayment
                  ELSE IF old.locks THEN Written(b) ELSE payments[p]
           changed == new # payments[p]
           Told(r) == [r EXCEPT !.late = @ \/ (changed /\ r.pc = "read"),
                                !.slack = @ \/ (changed /\ r.pc = "flushed")]
<1>0. BillingTypeOK /\ BillersAgree /\ PeriodsAgree /\ AuditAgrees BY DEF BillingIInv
<1>1. /\ old.pc = "flushed"
      /\ payments' = [payments EXCEPT ![p] = new]
      /\ audited' = [audited EXCEPT ![p] = old.after]
      /\ crossed' = IF ~Recalculates(b) \/ old.slack THEN crossed
                    ELSE IF old.late THEN crossed \union {p} ELSE crossed \ {p}
      /\ outdated' = IF old.slack THEN outdated \union {p} ELSE outdated \ {p}
      /\ billers' = [c \in Billers |->
           IF c = b THEN NoBiller
           ELSE IF billers[c].payment # p THEN billers[c] ELSE Told(billers[c])]
      /\ UNCHANGED entered
  BY DEF CommitPayment
<1>2. /\ old \in BillerRecord /\ p \in entered /\ p \in Payments /\ old.row \in PaymentRow
      /\ old.deletes => old.plan = Null /\ old.start = Null
      /\ old.locks <=> old.deletes \/ Corrected(b) # old.row
      /\ ~old.slack => /\ ~old.late => old.row = payments[p]
                       /\ ~old.deletes => payments[p] # NoPayment
                       /\ old.after = IF old.deletes THEN NoPayment ELSE Written(b)
      /\ old.locks =>
           /\ ~old.slack
           /\ \A c \in Billers \ {b} : billers[c].locks => billers[c].payment # p
  BY <1>0, <1>1 DEF BillersAgree, BillingTypeOK
<1>3. /\ Corrected(b) \in PaymentRow
      /\ payments[p] # NoPayment => Written(b) \in PaymentRow
      /\ old.plan = Null /\ old.start = Null => Corrected(b) = old.row
      /\ Recalculates(b) => Corrected(b).end = PeriodEnd(Corrected(b).plan, Corrected(b).start)
      /\ old.row = payments[p] => Written(b) = Corrected(b)
      /\ Corrected(b) = old.row /\ payments[p] # NoPayment => Written(b) = payments[p]
  BY <1>0, <1>2, CorrectedFacts
<1>4. payments[p] \in PaymentRow \union {NoPayment} /\ NoPayment \notin PaymentRow
  BY <1>0, <1>2, PaymentFacts DEF BillingTypeOK
<1>5. /\ new \in PaymentRow \union {NoPayment}
      /\ new # NoPayment => payments[p] # NoPayment
      /\ changed => old.locks
  BY <1>2, <1>3, <1>4
<1>6. /\ payments'[p] = new /\ audited'[p] = old.after
      /\ \A q \in Payments : q # p => payments'[q] = payments[q] /\ audited'[q] = audited[q]
  <2> HIDE DEF new
  <2> QED BY <1>0, <1>1, <1>2 DEF BillingTypeOK
<1>7. ASSUME NEW r \in BillerRecord
      PROVE  /\ Told(r) \in BillerRecord
             /\ Told(r).pc = r.pc /\ Told(r).payment = r.payment /\ Told(r).deletes = r.deletes
             /\ Told(r).plan = r.plan /\ Told(r).start = r.start /\ Told(r).row = r.row
             /\ Told(r).after = r.after /\ Told(r).locks = r.locks
             /\ Told(r).late <=> r.late \/ (changed /\ r.pc = "read")
             /\ Told(r).slack <=> r.slack \/ (changed /\ r.pc = "flushed")
  <2> DEFINE late == r.late \/ (changed /\ r.pc = "read")
             slack == r.slack \/ (changed /\ r.pc = "flushed")
  <2>1. late \in BOOLEAN /\ slack \in BOOLEAN BY DEF BillerRecord
  <2>2. Told(r) = [r EXCEPT !.late = late, !.slack = slack] OBVIOUS
  <2> HIDE DEF late, slack, Told
  <2>3. /\ Told(r) \in BillerRecord
        /\ Told(r).pc = r.pc /\ Told(r).payment = r.payment /\ Told(r).deletes = r.deletes
        /\ Told(r).plan = r.plan /\ Told(r).start = r.start /\ Told(r).row = r.row
        /\ Told(r).after = r.after /\ Told(r).locks = r.locks
        /\ Told(r).late = late /\ Told(r).slack = slack
    BY <2>1, <2>2 DEF BillerRecord
  <2> QED BY <2>3 DEF late, slack
<1>8. /\ billers'[b] = NoBiller
      /\ \A c \in Billers : c # b /\ billers[c].payment # p => billers'[c] = billers[c]
      /\ \A c \in Billers : c # b /\ billers[c].payment = p => billers'[c] = Told(billers[c])
  <2> HIDE DEF Told
  <2> QED BY <1>1
<1> HIDE DEF Told
<1>9. \A c \in Billers : billers[c] \in BillerRecord BY <1>0 DEF BillingTypeOK
<1>10. BillingTypeOK'
  <2>1. billers' \in [Billers -> BillerRecord]
    <3>1. \A c \in Billers : billers'[c] \in BillerRecord BY <1>7, <1>8, <1>9, NoBillerFacts
    <3>2. billers' = [c \in Billers |-> billers'[c]] BY <1>1
    <3> QED BY <3>1, <3>2
  <2>2. old.after \in PaymentRow \union {NoPayment} BY <1>2 DEF BillerRecord
  <2> HIDE DEF new, old
  <2> QED BY <1>0, <1>1, <1>2, <1>5, <2>1, <2>2 DEF BillingTypeOK
<1>11. \A q \in Payments : payments'[q] # NoPayment => q \in entered'
  BY <1>1, <1>2, <1>6 DEF BillingIInv
<1>12. BillersAgree'
  <2> SUFFICES ASSUME NEW k \in Billers
               PROVE  LET r == billers'[k]
                          now == payments'[r.payment]
                      IN
                      /\ r.pc # "idle" => r.payment \in entered /\ r.row \in PaymentRow
                      /\ r.deletes => r.plan = Null /\ r.start = Null
                      /\ r.pc = "read" => ~r.slack /\ (~r.late => r.row = now)
                      /\ r.pc = "flushed" =>
                           /\ r.locks <=> r.deletes \/ Corrected(k)' # r.row
                           /\ ~r.slack =>
                                /\ ~r.late => r.row = now
                                /\ ~r.deletes => now # NoPayment
                                /\ r.after = IF r.deletes THEN NoPayment ELSE Written(k)'
                      /\ r.locks =>
                           /\ r.pc = "flushed" /\ ~r.slack
                           /\ \A c \in Billers \ {k} :
                                billers'[c].locks => billers'[c].payment # r.payment
    BY <1>1 DEF BillersAgree
  <2> DEFINE r == billers[k]
             s == billers'[k]
             now == payments[r.payment]
             then == payments'[r.payment]
  <2>1. CASE k = b BY <1>8, <2>1, NoBillerFacts
  <2>2. CASE k # b
    <3>1. /\ s.pc = r.pc /\ s.payment = r.payment /\ s.deletes = r.deletes
          /\ s.plan = r.plan /\ s.start = r.start /\ s.row = r.row
          /\ s.after = r.after /\ s.locks = r.locks
          /\ r.late => s.late
          /\ r.slack => s.slack
          /\ s.slack => r.slack \/ (r.pc = "flushed" /\ changed /\ r.payment = p)
      BY <1>7, <1>8, <1>9, <2>2
    <3>2. r.pc = "read" /\ ~s.late => ~r.late /\ then = now
      BY <1>0, <1>6, <1>7, <1>8, <1>9, <2>2 DEF BillersAgree, BillingTypeOK
    <3>3. r.pc = "flushed" /\ ~s.slack => ~r.slack /\ then = now
      BY <1>0, <1>6, <1>7, <1>8, <1>9, <2>2 DEF BillersAgree, BillingTypeOK
    <3>4. Corrected(k)' = Corrected(k) BY <3>1 DEF Corrected, Recalculates
    <3>5. then = now => Written(k)' = Written(k) BY <3>1, <3>4 DEF Written
    <3>6. \A c \in Billers \ {k} :
            billers'[c].locks => billers[c].locks /\ billers[c].payment = billers'[c].payment
      BY <1>7, <1>8, <1>9, NoBillerFacts
    <3>7. r.locks => ~s.slack
      <4>1. r.locks /\ r.payment = p => ~old.locks BY <1>2, <2>2
      <4>2. r.locks => ~r.slack BY <1>0 DEF BillersAgree
      <4> QED BY <1>5, <3>1, <4>1, <4>2
    <3>8. /\ r.pc # "idle" => r.payment \in entered /\ r.row \in PaymentRow
          /\ r.deletes => r.plan = Null /\ r.start = Null
          /\ r.pc = "read" => ~r.slack /\ (~r.late => r.row = now)
          /\ r.pc = "flushed" =>
               /\ r.locks <=> r.deletes \/ Corrected(k) # r.row
               /\ ~r.slack =>
                    /\ ~r.late => r.row = now
                    /\ ~r.deletes => now # NoPayment
                    /\ r.after = IF r.deletes THEN NoPayment ELSE Written(k)
          /\ r.locks =>
               /\ r.pc = "flushed" /\ ~r.slack
               /\ \A c \in Billers \ {k} : billers[c].locks => billers[c].payment # r.payment
      BY <1>0 DEF BillersAgree
    <3>9. s.locks => \A c \in Billers \ {k} : billers'[c].locks => billers'[c].payment # s.payment
      BY <3>1, <3>6, <3>8
    <3>10. s.pc = "read" => ~s.slack /\ (~s.late => s.row = then) BY <3>1, <3>2, <3>8
    <3>11. s.pc = "flushed" /\ ~s.slack =>
             /\ ~s.late => s.row = then
             /\ ~s.deletes => then # NoPayment
             /\ s.after = IF s.deletes THEN NoPayment ELSE Written(k)'
      BY <3>1, <3>3, <3>5, <3>8
    <3>12. s.pc = "flushed" => (s.locks <=> s.deletes \/ Corrected(k)' # s.row)
      BY <3>1, <3>4, <3>8
    <3>13. /\ s.pc # "idle" => s.payment \in entered /\ s.row \in PaymentRow
           /\ s.deletes => s.plan = Null /\ s.start = Null
           /\ s.locks => s.pc = "flushed" /\ ~s.slack
      BY <3>1, <3>7, <3>8
    <3> HIDE DEF r, then
    <3>14. then = payments'[s.payment] BY <3>1 DEF then
    <3> QED BY <3>9, <3>10, <3>11, <3>12, <3>13, <3>14
  <2> QED BY <2>1, <2>2
<1>13. PeriodsAgree'
  <2> SUFFICES ASSUME NEW q \in Payments, q \notin crossed', payments'[q] # NoPayment
               PROVE  payments'[q].end = PeriodEnd(payments'[q].plan, payments'[q].start)
    BY DEF PeriodsAgree
  <2>1. CASE q # p \/ new = payments[p]
    <3>1. payments'[q] = payments[q] BY <1>6, <2>1
    <3>2. CASE q \notin crossed BY <1>0, <3>1, <3>2 DEF PeriodsAgree
    <3>3. CASE q \in crossed
      <4>1. q = p /\ Recalculates(b) /\ ~old.slack /\ ~old.late BY <1>1, <3>3
      <4>2. old.row = payments[p] /\ payments[p] # NoPayment BY <1>2, <3>1, <4>1
      <4>3. ~old.deletes BY <1>2, <4>1 DEF Recalculates
      <4>4. payments[p] = Corrected(b)
        BY <1>2, <1>3, <2>1, <4>1, <4>2, <4>3
      <4> QED BY <1>3, <3>1, <4>1, <4>4
    <3> QED BY <3>2, <3>3
  <2>2. CASE q = p /\ new # payments[p]
    <3>1. old.locks /\ ~old.slack BY <1>2, <1>5, <2>2
    <3>2. ~old.deletes BY <1>6, <2>2
    <3>3. Corrected(b) # old.row BY <1>2, <3>1, <3>2
    <3>4. Recalculates(b) BY <1>3, <3>3 DEF Recalculates
    <3>5. ~old.late BY <1>1, <2>2, <3>1, <3>4
    <3>6. new = Corrected(b) BY <1>2, <1>3, <3>1, <3>2, <3>5
    <3> QED BY <1>3, <1>6, <2>2, <3>4, <3>6
  <2> QED BY <2>1, <2>2
<1>14. AuditAgrees'
  <2> SUFFICES ASSUME NEW q \in Payments, q \notin outdated'
               PROVE  audited'[q] = payments'[q]
    BY DEF AuditAgrees
  <2>1. CASE q # p
    <3>1. q \notin outdated BY <1>1, <2>1
    <3> QED BY <1>0, <1>6, <2>1, <3>1 DEF AuditAgrees
  <2>2. CASE q = p
    <3>1. ~old.slack BY <1>1, <2>2
    <3>2. old.after = new BY <1>2, <1>3, <3>1
    <3> QED BY <1>6, <2>2, <3>2
  <2> QED BY <2>1, <2>2
<1> QED BY <1>10, <1>11, <1>12, <1>13, <1>14 DEF BillingIInv

\* Every step preserves the invariant, and it holds at the start.
LEMMA BillingKeeps == BillingIInv /\ [Next]_vars => BillingIInv'
<1> SUFFICES ASSUME BillingIInv, [Next]_vars PROVE BillingIInv' OBVIOUS
<1>1. CASE UNCHANGED billingVars
  BY <1>1 DEF BillingIInv, BillingTypeOK, BillersAgree, PeriodsAgree, AuditAgrees, Corrected,
     Recalculates, Written, billingVars
<1>2. CASE BillingNext
  BY <1>2, CreatePaymentKeeps, BillerGoesOnKeeps, CommitPaymentKeeps DEF BillingNext, BillerStep
<1> QED BY <1>1, <1>2 DEF Next, BillingStep, SettingsStep, BackgroundStep, vars

LEMMA BillingBegins == Init => BillingIInv
<1> SUFFICES ASSUME BillingInit PROVE BillingIInv BY DEF Init
<1>1. BillingTypeOK BY NoBillerFacts DEF BillingInit, BillingTypeOK
<1>2. BillersAgree BY NoBillerFacts DEF BillingInit, BillersAgree
<1>3. PeriodsAgree /\ AuditAgrees BY DEF BillingInit, PeriodsAgree, AuditAgrees
<1> QED BY <1>1, <1>2, <1>3 DEF BillingIInv, BillingInit

\* The inductive invariant of Billing, in Platform.
THEOREM BillingInvariance == Spec => []BillingIInv
  BY BillingBegins, BillingKeeps, PTL DEF Spec

\* Whatever requests are made at once, a payment covers what its plan buys, who has paid
\* for a day owes nothing that day, and the audit ends with what there is.
THEOREM CoverageIsPaidFor == Spec => []CoverageAgrees
<1>1. BillingIInv => CoverageAgrees
  BY CoveredOwesNothing DEF BillingIInv, CoverageAgrees
<1> QED BY <1>1, BillingInvariance, PTL

-----------------------------------------------------------------------------
(* The settings.                                                           *)

\* Logos and forms have columns of their own, and null is none of what it stands beside.
LEMMA ColumnFacts ==
  /\ Variants = {"normal", "dark"} /\ Variants \union {"ink"} \subseteq Columns
  /\ FormColumns \subseteq Columns /\ (Variants \union {"ink"}) \intersect FormColumns = {}
  /\ Columns = Variants \union {"ink"} \union FormColumns
  /\ DefaultRow \in Rows /\ NoRow \notin Rows
  /\ \A v \in Variants : DefaultRow[v] = FALSE
  /\ \A l \in Logos : l.of \in Tenants /\ l # NoLogo
<1>1. /\ Variants = {"normal", "dark"} /\ Variants \union {"ink"} \subseteq Columns
      /\ FormColumns \subseteq Columns /\ Columns = Variants \union {"ink"} \union FormColumns
  BY DEF Variants, Columns
<1>2. (Variants \union {"ink"}) \intersect FormColumns = {}
  BY SettingsAssumption DEF FormColumns
<1>3. Nothing \in Values BY SettingsAssumption
<1>4. DefaultRow \in Rows BY <1>3 DEF DefaultRow, Rows
<1>5. \A v \in Variants : DefaultRow[v] = FALSE BY <1>1, <1>2 DEF DefaultRow
<1>6. NoRow \notin Rows
  <2>1. DOMAIN NoRow = {} BY DEF NoRow
  <2>2. \A r \in Rows : DOMAIN r = Columns BY DEF Rows
  <2> QED BY <1>1, <2>1, <2>2
<1>7. \A l \in Logos : l.of \in Tenants /\ l # NoLogo BY SettingsAssumption DEF Logos, NoLogo
<1> QED BY <1>1, <1>2, <1>4, <1>5, <1>6, <1>7

\* A request is about a logo or about a form, and not about both.
LEMMA SubjectFacts ==
  /\ \A v \in Variants : <<Nothing, v>> \in LogoSubjects /\ <<Nothing, v>> \in Subjects
  /\ \A t \in Tenants, f \in Forms :
       <<t, GroupOf[f]>> \in FormSubjects /\ <<t, GroupOf[f]>> \in Subjects
  /\ LogoSubjects \intersect FormSubjects = {}
  /\ NoSubject \notin Subjects
  /\ \A s \in FormSubjects : s[1] \in Tenants
  /\ \A s \in Subjects : s \in LogoSubjects \/ s \in FormSubjects
  BY SettingsAssumption DEF LogoSubjects, FormSubjects, Subjects, NoSubject, Variants

\* What uploading and removing a logo write.
LEMMA FlagFacts ==
  ASSUME NEW v \in Variants, NEW dark \in BOOLEAN
  PROVE  /\ DOMAIN Flagged(v, dark) = {v} \union (IF v = "normal" THEN {"ink"} ELSE {})
         /\ Flagged(v, dark)[v] = TRUE /\ (v = "normal" => Flagged(v, dark)["ink"] = dark)
         /\ DOMAIN Unflagged(v) = {v} /\ Unflagged(v)[v] = FALSE
         /\ Flagged(v, dark) # Unflagged(v)
<1>1. v # "ink" BY DEF Variants
<1>2. /\ DOMAIN Flagged(v, dark) = {v} \union (IF v = "normal" THEN {"ink"} ELSE {})
      /\ Flagged(v, dark)[v] = TRUE /\ (v = "normal" => Flagged(v, dark)["ink"] = dark)
  BY <1>1 DEF Flagged
<1>3. DOMAIN Unflagged(v) = {v} /\ Unflagged(v)[v] = FALSE BY DEF Unflagged
<1> QED BY <1>2, <1>3

\* What may be written fits the columns.
LEMMA WritingFacts ==
  ASSUME NEW w \in Writings
  PROVE  /\ DOMAIN w \subseteq Columns
         /\ \A c \in DOMAIN w : w[c] \in IF c \in FormColumns THEN Values ELSE BOOLEAN
<1>1. ASSUME NEW v \in Variants, NEW dark \in BOOLEAN, w = Flagged(v, dark)
      PROVE  /\ DOMAIN w \subseteq Columns
             /\ \A c \in DOMAIN w : w[c] \in IF c \in FormColumns THEN Values ELSE BOOLEAN
  <2>1. \A c \in DOMAIN w : w[c] \in BOOLEAN BY <1>1 DEF Flagged
  <2>2. DOMAIN w \subseteq Variants \union {"ink"} BY <1>1 DEF Flagged
  <2> QED BY <2>1, <2>2, ColumnFacts
<1>2. ASSUME NEW v \in Variants, w = Unflagged(v)
      PROVE  /\ DOMAIN w \subseteq Columns
             /\ \A c \in DOMAIN w : w[c] \in IF c \in FormColumns THEN Values ELSE BOOLEAN
  <2>1. DOMAIN w = {v} /\ w[v] = FALSE BY <1>2 DEF Unflagged
  <2> QED BY <2>1, ColumnFacts
<1>3. ASSUME NEW f \in Forms, w = Fields[f]
      PROVE  /\ DOMAIN w \subseteq Columns
             /\ \A c \in DOMAIN w : w[c] \in IF c \in FormColumns THEN Values ELSE BOOLEAN
  <2>1. DOMAIN w \subseteq FormColumns BY <1>3 DEF FormColumns
  <2> QED BY <1>3, <2>1, ColumnFacts, SettingsAssumption
<1>4. CASE w = NoFields BY <1>4 DEF NoFields
<1> QED BY <1>1, <1>2, <1>3, <1>4 DEF Writings

\* A request that is not being served.
LEMMA NoSaverFacts ==
  NoSaver \in SaverRecord /\ NoSaver.pc = "idle" /\ NoSaver.subject = NoSubject
  BY ColumnFacts DEF NoSaver, SaverRecord, Writings

\* A tenant always has a row to show.
LEMMA RowFacts ==
  ASSUME SettingsTypeOK, NEW t \in Tenants
  PROVE  RowOf(t) \in Rows /\ (settings[t] # NoRow => RowOf(t) = settings[t])
  BY ColumnFacts DEF SettingsTypeOK, RowOf

\* Of a row, only the columns that are written change; they change to what is written if it
\* was read as it is.
LEMMA MergedFacts ==
  ASSUME NEW read \in Rows, NEW now \in Rows, NEW w \in Writings
  PROVE  /\ Merged(read, w, now) \in Rows
         /\ \A c \in Columns \ DOMAIN w : Merged(read, w, now)[c] = now[c]
         /\ \A c \in DOMAIN w : read[c] = now[c] => Merged(read, w, now)[c] = w[c]
<1> DEFINE row == Merged(read, w, now)
<1>1. row = [c \in Columns |->
               IF c \in DOMAIN w /\ (w[c] # read[c] \/ w[c] \in Secrets) THEN w[c] ELSE now[c]]
  BY DEF Merged
<1> HIDE DEF row
<1>2. DOMAIN w \subseteq Columns BY WritingFacts
<1>3. \A c \in Columns : row[c] \in IF c \in FormColumns THEN Values ELSE BOOLEAN
  BY <1>1, WritingFacts DEF Rows
<1>4. row \in Rows BY <1>1, <1>3 DEF Rows
<1>5. \A c \in Columns \ DOMAIN w : row[c] = now[c] BY <1>1
<1>6. \A c \in DOMAIN w : read[c] = now[c] => row[c] = w[c] BY <1>1, <1>2
<1> QED BY <1>4, <1>5, <1>6 DEF row

\* What LogoAgrees says of a row.
LEMMA LogoAgreesOf ==
  ASSUME SettingsTypeOK, NEW t \in Tenants, NEW v \in Variants
  PROVE  LogoAgrees(t, v) <=>
           /\ RowOf(t)[v] <=> logos[v] # NoLogo
           /\ RowOf(t)[v] => /\ logos[v].of = t
                             /\ v = "normal" => RowOf(t)["ink"] = logos[v].dark
<1>1. settings[t] = NoRow => ~RowOf(t)[v] BY ColumnFacts DEF RowOf
<1>2. settings[t] # NoRow => RowOf(t) = settings[t] BY DEF RowOf
<1> QED BY <1>1, <1>2 DEF LogoAgrees, HasLogo, ServedLogo, MailLogo

\* Requests about different subjects write different columns of a tenant.
LEMMA OthersColumns ==
  ASSUME SettingsIInv, NEW g \in Savers, NEW h \in Savers, Serving(g), Serving(h),
         savers[g].tenant = savers[h].tenant, savers[g].subject # savers[h].subject
  PROVE  DOMAIN savers[g].fields \intersect DOMAIN savers[h].fields = {}
<1> DEFINE Columned(k) ==
             \/ \E v \in Variants :
                  /\ About(k, v)
                  /\ DOMAIN savers[k].fields
                       \subseteq {v} \union (IF v = "normal" THEN {"ink"} ELSE {})
             \/ /\ savers[k].form \in Forms
                /\ savers[k].subject = <<savers[k].tenant, GroupOf[savers[k].form]>>
                /\ savers[k].fields = Fields[savers[k].form]
<1>1. ASSUME NEW k \in Savers, Serving(k)
      PROVE  Columned(k)
  <2>1. \/ \E v \in Variants :
             /\ About(k, v)
             /\ \/ savers[k].fields = Unflagged(v)
                \/ \E dark \in BOOLEAN : savers[k].fields = Flagged(v, dark)
        \/ /\ savers[k].form \in Forms
           /\ savers[k].subject = <<savers[k].tenant, GroupOf[savers[k].form]>>
           /\ savers[k].fields = Fields[savers[k].form]
    BY <1>1 DEF SettingsIInv, SubjectsAgree
  <2>2. ASSUME NEW v \in Variants,
               \/ savers[k].fields = Unflagged(v)
               \/ \E dark \in BOOLEAN : savers[k].fields = Flagged(v, dark)
        PROVE  DOMAIN savers[k].fields \subseteq {v} \union (IF v = "normal" THEN {"ink"} ELSE {})
    <3>1. CASE savers[k].fields = Unflagged(v)
      <4>1. DOMAIN Unflagged(v) = {v} BY DEF Unflagged
      <4> QED BY <3>1, <4>1
    <3>2. ASSUME NEW dark \in BOOLEAN, savers[k].fields = Flagged(v, dark)
          PROVE  DOMAIN savers[k].fields
                   \subseteq {v} \union (IF v = "normal" THEN {"ink"} ELSE {})
      BY <3>2 DEF Flagged
    <3> QED BY <2>2, <3>1, <3>2
  <2> QED BY <2>1, <2>2
<1>2. Columned(g) /\ Columned(h) BY <1>1
<1>3. \A f \in Forms : DOMAIN Fields[f] \subseteq FormColumns BY DEF FormColumns
<1>4. (Variants \union {"ink"}) \intersect FormColumns = {} /\ Variants = {"normal", "dark"}
  BY ColumnFacts
<1>5. ASSUME NEW v \in Variants, NEW w \in Variants, About(g, v), About(h, w)
      PROVE  ({v} \union (IF v = "normal" THEN {"ink"} ELSE {}))
               \intersect ({w} \union (IF w = "normal" THEN {"ink"} ELSE {})) = {}
  <2>1. v # w BY <1>5 DEF About
  <2> QED BY <1>4, <2>1
<1>6. ASSUME NEW e \in Forms, NEW f \in Forms,
             savers[g].subject = <<savers[g].tenant, GroupOf[e]>>,
             savers[h].subject = <<savers[h].tenant, GroupOf[f]>>
      PROVE  DOMAIN Fields[e] \intersect DOMAIN Fields[f] = {}
  <2>1. GroupOf[e] # GroupOf[f] BY <1>6
  <2> QED BY <2>1, SettingsAssumption
<1>7. ASSUME NEW v \in Variants, NEW f \in Forms
      PROVE  ({v} \union (IF v = "normal" THEN {"ink"} ELSE {}))
               \intersect DOMAIN Fields[f] = {}
  BY <1>3, <1>4
<1> QED BY <1>2, <1>5, <1>6, <1>7

\* A request begins that touches only what it is about; who is about the same has met it.
LEMMA BeginSavingKeeps ==
  ASSUME SettingsIInv, NEW h \in Savers, NEW q \in SaverRecord, BeginSaving(h, q),
         q.pc # "idle", q.tenant \in Tenants,
         logos' \in [Variants -> Logos \union {NoLogo}],
         sharers' \in [Variants -> SUBSET Tenants],
         \A v \in Variants : q.subject # <<Nothing, v>> =>
           logos'[v] = logos[v] /\ sharers'[v] = sharers[v],
         \A v \in Variants : sharers[v] \subseteq sharers'[v],
         UNCHANGED <<settings, asked, torn>>,
         \/ \E v \in Variants :
              /\ q.subject = <<Nothing, v>>
              /\ q.tenant \in sharers'[v]
              /\ \/ q.pc = "removing" /\ q.fields = Unflagged(v)
                 \/ \E dark \in BOOLEAN :
                      /\ q.pc = "uploaded"
                      /\ q.fields = Flagged(v, dark)
                      /\ logos'[v] = [of |-> q.tenant, dark |-> dark]
         \/ /\ q.pc = "read" /\ q.form \in Forms
            /\ q.subject = <<q.tenant, GroupOf[q.form]>>
            /\ q.fields = Fields[q.form],
         q.pc # "uploaded" => q.row = RowOf(q.tenant)
  PROVE  SettingsIInv'
<1> DEFINE others == {g \in Savers : savers[g].subject = q.subject}
           p == [q EXCEPT !.met = others # {}]
           Met(g) == [savers[g] EXCEPT !.met = TRUE]
<1>0. SettingsTypeOK /\ SubjectsAgree /\ MeetingsAgree /\ FormsAgree /\ SettingsAreAsSaved
  BY DEF SettingsIInv
<1>1. savers' = [g \in Savers |-> IF g = h THEN p
                                  ELSE IF g \in others THEN Met(g) ELSE savers[g]]
  BY DEF BeginSaving
<1>2. /\ p \in SaverRecord /\ (p.met <=> others # {})
      /\ p.pc = q.pc /\ p.tenant = q.tenant /\ p.subject = q.subject /\ p.form = q.form
      /\ p.fields = q.fields /\ p.row = q.row
  <2> DEFINE met == others # {}
  <2>1. met \in BOOLEAN OBVIOUS
  <2> HIDE DEF met
  <2>2. [q EXCEPT !.met = met] \in SaverRecord /\ [q EXCEPT !.met = met].met = met
    BY <2>1 DEF SaverRecord
  <2> QED BY <2>2 DEF met, SaverRecord
<1>3. \A g \in Savers :
        /\ savers[g] \in SaverRecord /\ Met(g) \in SaverRecord /\ Met(g).met
        /\ Met(g).pc = savers[g].pc /\ Met(g).tenant = savers[g].tenant
        /\ Met(g).subject = savers[g].subject /\ Met(g).form = savers[g].form
        /\ Met(g).fields = savers[g].fields /\ Met(g).row = savers[g].row
  BY <1>0 DEF SettingsTypeOK, SaverRecord
<1> HIDE DEF p, Met
<1>4. /\ savers'[h] = p
      /\ \A g \in Savers : g # h =>
           /\ savers'[g].pc = savers[g].pc /\ savers'[g].tenant = savers[g].tenant
           /\ savers'[g].subject = savers[g].subject /\ savers'[g].form = savers[g].form
           /\ savers'[g].fields = savers[g].fields /\ savers'[g].row = savers[g].row
           /\ ~savers'[g].met => ~savers[g].met /\ savers[g].subject # q.subject
  BY <1>1, <1>3
<1>5. SettingsTypeOK'
  <2>1. savers' \in [Savers -> SaverRecord] BY <1>1, <1>2, <1>3
  <2> QED BY <1>0, <2>1 DEF SettingsTypeOK
<1>6. \A t \in Tenants : RowOf(t)' = RowOf(t) BY DEF RowOf
<1>7. savers[h].pc = "idle" /\ savers[h].subject = NoSubject /\ q.subject \in Subjects
  <2>1. savers[h].pc = "idle" BY DEF BeginSaving
  <2>2. q.subject \in Subjects
    <3>1. \/ \E v \in Variants : q.subject = <<Nothing, v>>
          \/ q.form \in Forms /\ q.tenant \in Tenants /\ q.subject = <<q.tenant, GroupOf[q.form]>>
      OBVIOUS
    <3> QED BY ONLY <3>1, SubjectFacts
  <2> QED BY <1>0, <2>1, <2>2 DEF SubjectsAgree, Serving
<1>8. SubjectsAgree'
  <2> SUFFICES ASSUME NEW g \in Savers
               PROVE  LET r == savers'[g] IN
                      IF r.pc = "idle" THEN r.subject = NoSubject
                      ELSE /\ r.tenant \in Tenants
                           /\ \/ \E v \in Variants :
                                  /\ r.subject = <<Nothing, v>>
                                  /\ r.tenant \in sharers'[v]
                                  /\ \/ r.fields = Unflagged(v)
                                     \/ \E dark \in BOOLEAN : r.fields = Flagged(v, dark)
                              \/ /\ r.pc = "read" /\ r.form \in Forms
                                 /\ r.subject = <<r.tenant, GroupOf[r.form]>>
                                 /\ r.fields = Fields[r.form]
    BY DEF SubjectsAgree, Serving, About
  <2>1. CASE g = h
    <3>1. /\ savers'[g].pc = q.pc /\ savers'[g].tenant = q.tenant /\ savers'[g].form = q.form
          /\ savers'[g].subject = q.subject /\ savers'[g].fields = q.fields
      BY <1>2, <1>4, <2>1
    <3>2. CASE q.pc = "read" /\ q.form \in Forms /\ q.subject = <<q.tenant, GroupOf[q.form]>>
                 /\ q.fields = Fields[q.form]
      BY <3>1, <3>2
    <3>3. ASSUME NEW v \in Variants, q.subject = <<Nothing, v>>, q.tenant \in sharers'[v],
                 q.fields = Unflagged(v) \/ \E dark \in BOOLEAN : q.fields = Flagged(v, dark)
          PROVE  \E w \in Variants :
                   /\ q.subject = <<Nothing, w>>
                   /\ q.tenant \in sharers'[w]
                   /\ q.fields = Unflagged(w) \/ \E dark \in BOOLEAN : q.fields = Flagged(w, dark)
      BY <3>3
    <3>4. \/ q.pc = "read" /\ q.form \in Forms /\ q.subject = <<q.tenant, GroupOf[q.form]>>
               /\ q.fields = Fields[q.form]
          \/ \E w \in Variants :
               /\ q.subject = <<Nothing, w>>
               /\ q.tenant \in sharers'[w]
               /\ q.fields = Unflagged(w) \/ \E dark \in BOOLEAN : q.fields = Flagged(w, dark)
      BY <3>3
    <3> QED BY <3>1, <3>4
  <2>2. CASE g # h BY <1>0, <1>4, <2>2 DEF SubjectsAgree, Serving, About
  <2> QED BY <2>1, <2>2
<1>9. MeetingsAgree'
  <2> SUFFICES ASSUME NEW g \in Savers, savers'[g].pc # "idle", ~savers'[g].met
               PROVE  LET r == savers'[g] IN
                      /\ \A k \in Savers \ {g} : savers'[k].subject # r.subject
                      /\ r.pc # "uploaded" =>
                           \A c \in DOMAIN r.fields : r.row[c] = RowOf(r.tenant)[c]
                      /\ \A v \in Variants :
                           /\ r.subject = <<Nothing, v>> /\ r.pc \in {"uploaded", "read"} =>
                                \/ r.fields = Unflagged(v) /\ logos'[v] = NoLogo
                                \/ \E dark \in BOOLEAN :
                                     /\ r.fields = Flagged(v, dark)
                                     /\ logos'[v] = [of |-> r.tenant, dark |-> dark]
                           /\ r.subject = <<Nothing, v>> /\ r.pc = "removing"
                                => r.fields = Unflagged(v)
    <3>1. \A t : RowOf(t)' = RowOf(t) BY DEF RowOf
    <3> QED BY <3>1 DEF MeetingsAgree, Serving, About
  <2>1. CASE g = h
    <3>1. others = {} BY <1>2, <1>4, <2>1
    <3>2. \A k \in Savers \ {h} : savers'[k].subject # q.subject BY <1>4, <3>1
    <3>3. \A v \in Variants : q.subject = <<Nothing, v>> =>
            ~(q.form \in Forms /\ q.subject = <<q.tenant, GroupOf[q.form]>>)
      BY SubjectFacts
    <3>4. /\ savers'[g].pc = q.pc /\ savers'[g].tenant = q.tenant /\ savers'[g].row = q.row
          /\ savers'[g].subject = q.subject /\ savers'[g].fields = q.fields
      BY <1>2, <1>4, <2>1
    <3>5. ASSUME NEW v \in Variants, q.subject = <<Nothing, v>>
          PROVE  /\ q.pc \in {"uploaded", "read"} =>
                      \/ q.fields = Unflagged(v) /\ logos'[v] = NoLogo
                      \/ \E dark \in BOOLEAN :
                           /\ q.fields = Flagged(v, dark)
                           /\ logos'[v] = [of |-> q.tenant, dark |-> dark]
                 /\ q.pc = "removing" => q.fields = Unflagged(v)
      <4>1. PICK w \in Variants :
              /\ q.subject = <<Nothing, w>>
              /\ \/ q.pc = "removing" /\ q.fields = Unflagged(w)
                 \/ \E dark \in BOOLEAN :
                      /\ q.pc = "uploaded"
                      /\ q.fields = Flagged(w, dark)
                      /\ logos'[w] = [of |-> q.tenant, dark |-> dark]
        BY <3>3, <3>5
      <4>2. w = v BY <3>5, <4>1
      <4> QED BY <4>1, <4>2
    <3> QED BY <2>1, <3>2, <3>4, <3>5
  <2>2. CASE g # h
    <3>1. /\ savers[g].pc # "idle" /\ ~savers[g].met /\ savers[g].subject # q.subject
      BY <1>4, <2>2
    <3>2. \A k \in Savers \ {g} : savers'[k].subject # savers[g].subject
      BY <1>0, <1>2, <1>4, <3>1 DEF MeetingsAgree, Serving
    <3>3. \A v \in Variants : savers[g].subject = <<Nothing, v>> => logos'[v] = logos[v]
      BY <3>1
    <3> DEFINE r == savers[g]
    <3>4. /\ r.pc # "uploaded" => \A c \in DOMAIN r.fields : r.row[c] = RowOf(r.tenant)[c]
          /\ \A v \in Variants :
               /\ r.subject = <<Nothing, v>> /\ r.pc \in {"uploaded", "read"} =>
                    \/ r.fields = Unflagged(v) /\ logos[v] = NoLogo
                    \/ \E dark \in BOOLEAN :
                         r.fields = Flagged(v, dark) /\ logos[v] = [of |-> r.tenant, dark |-> dark]
               /\ r.subject = <<Nothing, v>> /\ r.pc = "removing" => r.fields = Unflagged(v)
      BY <1>0, <3>1 DEF MeetingsAgree, Serving, About
    <3>5. /\ savers'[g].pc = r.pc /\ savers'[g].tenant = r.tenant /\ savers'[g].row = r.row
          /\ savers'[g].subject = r.subject /\ savers'[g].fields = r.fields
      BY <1>4, <2>2
    <3> HIDE DEF r
    <3>6. \A k \in Savers \ {g} : savers'[k].subject # r.subject BY <3>2 DEF r
    <3>7. \A v \in Variants : r.subject = <<Nothing, v>> => logos'[v] = logos[v] BY <3>3 DEF r
    <3> QED BY <3>4, <3>5, <3>6, <3>7
  <2> QED BY <2>1, <2>2
<1>10. FormsAgree' BY <1>0 DEF FormsAgree
<1>11. SettingsAreAsSaved'
  <2>1. ASSUME NEW t \in Tenants, NEW v \in Variants, sharers'[v] \subseteq {t},
               <<Nothing, v>> \notin torn \union {savers'[g].subject : g \in Savers}
        PROVE  LogoAgrees(t, v)'
    <3>1. q.subject # <<Nothing, v>> BY <1>2, <1>4, <2>1
    <3>2. logos'[v] = logos[v] /\ sharers'[v] = sharers[v] BY <3>1
    <3>3. <<Nothing, v>> \notin {savers[g].subject : g \in Savers}
      <4>1. \A g \in Savers : g # h => savers[g].subject # <<Nothing, v>> BY <1>4, <2>1
      <4>2. savers[h].subject # <<Nothing, v>> BY <1>7, SubjectFacts
      <4> QED BY <4>1, <4>2
    <3>4. LogoAgrees(t, v) BY <1>0, <2>1, <3>2, <3>3 DEF SettingsAreAsSaved
    <3>5. /\ RowOf(t)[v] <=> logos[v] # NoLogo
          /\ RowOf(t)[v] => /\ logos[v].of = t
                            /\ v = "normal" => RowOf(t)["ink"] = logos[v].dark
      BY <1>0, <3>4, LogoAgreesOf
    <3> QED BY <3>2, <3>4, <3>5
        DEF LogoAgrees, HasLogo, ServedLogo, MailLogo, RowOf
  <2>2. \A s \in FormSubjects \ torn : FormAgrees(s)'
    BY <1>0 DEF SettingsAreAsSaved, FormAgrees
  <2> QED BY <2>1, <2>2 DEF SettingsAreAsSaved
<1> QED BY <1>5, <1>8, <1>9, <1>10, <1>11 DEF SettingsIInv

\* A request about a logo has done its work in the bucket, or read the row, and is to write.
LEMMA SaverGoesOnKeeps ==
  ASSUME SettingsIInv, NEW h \in Savers, NEW q \in SaverRecord,
         savers' = [savers EXCEPT ![h] = q],
         savers[h].pc \in {"uploaded", "removing"}, q.pc = "read",
         q.tenant = savers[h].tenant, q.subject = savers[h].subject, q.form = savers[h].form,
         q.fields = savers[h].fields, savers[h].met => q.met,
         logos' \in [Variants -> Logos \union {NoLogo}],
         \A v \in Variants : ~About(h, v) => logos'[v] = logos[v],
         ~q.met =>
           /\ \A c \in DOMAIN q.fields : q.row[c] = RowOf(q.tenant)[c]
           /\ \A v \in Variants :
                About(h, v) =>
                  \/ q.fields = Unflagged(v) /\ logos'[v] = NoLogo
                  \/ \E dark \in BOOLEAN :
                       q.fields = Flagged(v, dark) /\ logos'[v] = [of |-> q.tenant, dark |-> dark],
         UNCHANGED <<settings, asked, sharers, torn>>
  PROVE  SettingsIInv'
<1>0. SettingsTypeOK /\ SubjectsAgree /\ MeetingsAgree /\ FormsAgree /\ SettingsAreAsSaved
  BY DEF SettingsIInv
<1>1. savers'[h] = q /\ \A g \in Savers : g # h => savers'[g] = savers[g]
  BY <1>0 DEF SettingsTypeOK
<1>2. SettingsTypeOK' BY <1>0 DEF SettingsTypeOK
<1>3. \A t : RowOf(t)' = RowOf(t) BY DEF RowOf
<1>4. \A g \in Savers : savers'[g].subject = savers[g].subject BY <1>1
<1>5. SubjectsAgree'
  <2> SUFFICES ASSUME NEW g \in Savers
               PROVE  LET r == savers'[g] IN
                      IF r.pc = "idle" THEN r.subject = NoSubject
                      ELSE /\ r.tenant \in Tenants
                           /\ \/ \E v \in Variants :
                                  /\ r.subject = <<Nothing, v>>
                                  /\ r.tenant \in sharers[v]
                                  /\ \/ r.fields = Unflagged(v)
                                     \/ \E dark \in BOOLEAN : r.fields = Flagged(v, dark)
                              \/ /\ r.pc = "read" /\ r.form \in Forms
                                 /\ r.subject = <<r.tenant, GroupOf[r.form]>>
                                 /\ r.fields = Fields[r.form]
    BY DEF SubjectsAgree, Serving, About
  <2> DEFINE k == savers[g]
  <2>1. /\ savers'[g].tenant = k.tenant /\ savers'[g].subject = k.subject
        /\ savers'[g].form = k.form /\ savers'[g].fields = k.fields
        /\ savers'[g].pc = k.pc \/ (savers'[g].pc = "read" /\ k.pc # "idle")
    <3>1. CASE g = h BY <1>1, <3>1
    <3>2. CASE g # h BY <1>1, <3>2
    <3> QED BY <3>1, <3>2
  <2>2. IF k.pc = "idle" THEN k.subject = NoSubject
        ELSE /\ k.tenant \in Tenants
             /\ \/ \E v \in Variants :
                    /\ k.subject = <<Nothing, v>>
                    /\ k.tenant \in sharers[v]
                    /\ \/ k.fields = Unflagged(v)
                       \/ \E dark \in BOOLEAN : k.fields = Flagged(v, dark)
                \/ /\ k.pc = "read" /\ k.form \in Forms
                   /\ k.subject = <<k.tenant, GroupOf[k.form]>>
                   /\ k.fields = Fields[k.form]
    BY <1>0 DEF SubjectsAgree, Serving, About
  <2> HIDE DEF k
  <2> QED BY <2>1, <2>2
<1>6. MeetingsAgree'
  <2> SUFFICES ASSUME NEW g \in Savers, savers'[g].pc # "idle", ~savers'[g].met
               PROVE  LET r == savers'[g] IN
                      /\ \A k \in Savers \ {g} : savers[k].subject # r.subject
                      /\ r.pc # "uploaded" =>
                           \A c \in DOMAIN r.fields : r.row[c] = RowOf(r.tenant)[c]
                      /\ \A v \in Variants :
                           /\ r.subject = <<Nothing, v>> /\ r.pc \in {"uploaded", "read"} =>
                                \/ r.fields = Unflagged(v) /\ logos'[v] = NoLogo
                                \/ \E dark \in BOOLEAN :
                                     /\ r.fields = Flagged(v, dark)
                                     /\ logos'[v] = [of |-> r.tenant, dark |-> dark]
                           /\ r.subject = <<Nothing, v>> /\ r.pc = "removing"
                                => r.fields = Unflagged(v)
    BY <1>3, <1>4 DEF MeetingsAgree, Serving, About
  <2>1. CASE g = h
    <3>1. savers'[g] = q /\ ~savers[h].met BY <1>1, <2>1
    <3>2. \A k \in Savers \ {h} : savers[k].subject # q.subject
      BY <1>0, <3>1 DEF MeetingsAgree, Serving
    <3> QED BY <2>1, <3>1, <3>2 DEF About
  <2>2. CASE g # h
    <3> DEFINE r == savers[g]
    <3>1. savers'[g] = r /\ r.pc # "idle" /\ ~r.met BY <1>1, <2>2
    <3>2. /\ \A k \in Savers \ {g} : savers[k].subject # r.subject
          /\ r.pc # "uploaded" => \A c \in DOMAIN r.fields : r.row[c] = RowOf(r.tenant)[c]
          /\ \A v \in Variants :
               /\ r.subject = <<Nothing, v>> /\ r.pc \in {"uploaded", "read"} =>
                    \/ r.fields = Unflagged(v) /\ logos[v] = NoLogo
                    \/ \E dark \in BOOLEAN :
                         r.fields = Flagged(v, dark) /\ logos[v] = [of |-> r.tenant, dark |-> dark]
               /\ r.subject = <<Nothing, v>> /\ r.pc = "removing" => r.fields = Unflagged(v)
      BY <1>0, <3>1 DEF MeetingsAgree, Serving, About
    <3>3. \A v \in Variants : r.subject = <<Nothing, v>> => logos'[v] = logos[v]
      BY <2>2, <3>2 DEF About
    <3> HIDE DEF r
    <3>4. ASSUME NEW v \in Variants, r.subject = <<Nothing, v>>
          PROVE  /\ r.pc \in {"uploaded", "read"} =>
                      \/ r.fields = Unflagged(v) /\ logos'[v] = NoLogo
                      \/ \E dark \in BOOLEAN :
                           /\ r.fields = Flagged(v, dark)
                           /\ logos'[v] = [of |-> r.tenant, dark |-> dark]
                 /\ r.pc = "removing" => r.fields = Unflagged(v)
      <4>1. logos'[v] = logos[v] BY <3>3, <3>4
      <4> QED BY <3>2, <3>4, <4>1
    <3>5. \A k \in Savers \ {g} : savers[k].subject # r.subject BY <3>2
    <3>6. r.pc # "uploaded" => \A c \in DOMAIN r.fields : r.row[c] = RowOf(r.tenant)[c] BY <3>2
    <3> QED BY <3>1, <3>4, <3>5, <3>6
  <2> QED BY <2>1, <2>2
<1>7. FormsAgree' BY <1>0 DEF FormsAgree
<1>8. SettingsAreAsSaved'
  <2>1. ASSUME NEW t \in Tenants, NEW v \in Variants, sharers[v] \subseteq {t},
               <<Nothing, v>> \notin torn \union {savers'[g].subject : g \in Savers}
        PROVE  LogoAgrees(t, v)'
    <3>1. \A g \in Savers : savers[g].subject # <<Nothing, v>> BY <1>4, <2>1
    <3>2. logos'[v] = logos[v] BY <3>1 DEF About
    <3>3. LogoAgrees(t, v) BY <1>0, <2>1, <3>1 DEF SettingsAreAsSaved
    <3>4. /\ RowOf(t)[v] <=> logos[v] # NoLogo
          /\ RowOf(t)[v] => /\ logos[v].of = t
                            /\ v = "normal" => RowOf(t)["ink"] = logos[v].dark
      BY <1>0, <3>3, LogoAgreesOf
    <3> QED BY <3>2, <3>3, <3>4 DEF LogoAgrees, HasLogo, ServedLogo, MailLogo, RowOf
  <2>2. \A s \in FormSubjects \ torn : FormAgrees(s)'
    BY <1>0 DEF SettingsAreAsSaved, FormAgrees
  <2> QED BY <2>1, <2>2 DEF SettingsAreAsSaved
<1> QED BY <1>2, <1>5, <1>6, <1>7, <1>8 DEF SettingsIInv

\* A row that is made, or a request that gives up, changes nothing that is shown.
LEMMA GiveUpKeeps ==
  ASSUME SettingsIInv, NEW h \in Savers, GiveUpSaving(h)
  PROVE  SettingsIInv'
<1>0. SettingsTypeOK /\ SubjectsAgree /\ MeetingsAgree /\ FormsAgree /\ SettingsAreAsSaved
  BY DEF SettingsIInv
<1>1. /\ savers' = [savers EXCEPT ![h] = NoSaver] /\ UNCHANGED <<settings, logos, asked, sharers>>
      /\ torn' = torn \union ({savers[h].subject} \intersect LogoSubjects)
      /\ savers[h].pc # "idle"
  BY DEF GiveUpSaving
<1>2. /\ NoSaver \in SaverRecord /\ NoSaver.pc = "idle" /\ NoSaver.subject = NoSubject
  BY NoSaverFacts
<1>3. savers'[h] = NoSaver /\ \A g \in Savers : g # h => savers'[g] = savers[g]
  BY <1>0, <1>1 DEF SettingsTypeOK
<1>4. SettingsTypeOK'
  <2>1. LogoSubjects \subseteq Subjects BY DEF Subjects
  <2> QED BY <1>0, <1>1, <1>2, <2>1 DEF SettingsTypeOK
<1>5. \A t : RowOf(t)' = RowOf(t) BY <1>1 DEF RowOf
<1>6. SubjectsAgree'
  BY <1>0, <1>1, <1>2, <1>3 DEF SubjectsAgree, Serving, About
<1>7. MeetingsAgree'
  <2> SUFFICES ASSUME NEW g \in Savers, savers'[g].pc # "idle", ~savers'[g].met
               PROVE  LET r == savers'[g] IN
                      /\ \A k \in Savers \ {g} : savers'[k].subject # r.subject
                      /\ r.pc # "uploaded" =>
                           \A c \in DOMAIN r.fields : r.row[c] = RowOf(r.tenant)[c]
                      /\ \A v \in Variants :
                           /\ r.subject = <<Nothing, v>> /\ r.pc \in {"uploaded", "read"} =>
                                \/ r.fields = Unflagged(v) /\ logos[v] = NoLogo
                                \/ \E dark \in BOOLEAN :
                                     /\ r.fields = Flagged(v, dark)
                                     /\ logos[v] = [of |-> r.tenant, dark |-> dark]
                           /\ r.subject = <<Nothing, v>> /\ r.pc = "removing"
                                => r.fields = Unflagged(v)
    BY <1>1 DEF MeetingsAgree, Serving, About, RowOf
  <2>1. g # h /\ savers'[g] = savers[g] BY <1>2, <1>3
  <2>2. savers[g].subject # NoSubject
    <3>1. /\ savers[g].tenant \in Tenants
          /\ \/ \E v \in Variants : savers[g].subject = <<Nothing, v>>
             \/ /\ savers[g].form \in Forms
                /\ savers[g].subject = <<savers[g].tenant, GroupOf[savers[g].form]>>
      BY <1>0, <2>1 DEF SubjectsAgree, Serving, About
    <3> QED BY <3>1, SubjectFacts
  <2>3. \A k \in Savers \ {g} : savers'[k].subject # savers[g].subject
    BY <1>0, <1>2, <1>3, <2>1, <2>2 DEF MeetingsAgree, Serving
  <2> QED BY <1>0, <2>1, <2>3 DEF MeetingsAgree, Serving, About
<1>8. FormsAgree' BY <1>0, <1>1 DEF FormsAgree
<1>9. SettingsAreAsSaved'
  <2>1. ASSUME NEW t \in Tenants, NEW v \in Variants, sharers[v] \subseteq {t},
               <<Nothing, v>> \notin torn' \union {savers'[g].subject : g \in Savers}
        PROVE  LogoAgrees(t, v)'
    <3>1. \A g \in Savers : savers[g].subject # <<Nothing, v>>
      BY <1>1, <1>3, <2>1, SubjectFacts
    <3>2. LogoAgrees(t, v) BY <1>0, <1>1, <2>1, <3>1 DEF SettingsAreAsSaved
    <3> QED BY <1>1, <3>2 DEF LogoAgrees, HasLogo, ServedLogo, MailLogo, RowOf
  <2>2. \A s \in FormSubjects \ torn' : FormAgrees(s)'
    BY <1>0, <1>1 DEF SettingsAreAsSaved, FormAgrees
  <2> QED BY <1>1, <2>1, <2>2 DEF SettingsAreAsSaved
<1> QED BY <1>4, <1>6, <1>7, <1>8, <1>9 DEF SettingsIInv

LEMMA VisitKeeps ==
  ASSUME SettingsIInv, NEW t \in Tenants, Visit(t)
  PROVE  SettingsIInv'
<1>0. SettingsTypeOK /\ SubjectsAgree /\ MeetingsAgree /\ FormsAgree /\ SettingsAreAsSaved
  BY DEF SettingsIInv
<1>1. /\ settings[t] = NoRow /\ settings' = [settings EXCEPT ![t] = DefaultRow]
      /\ UNCHANGED <<logos, savers, asked, sharers, torn>>
  BY DEF Visit
<1>2. SettingsTypeOK' BY <1>0, <1>1, ColumnFacts DEF SettingsTypeOK
<1>3. settings'[t] = DefaultRow /\ \A u \in Tenants : u # t => settings'[u] = settings[u]
  BY <1>0, <1>1 DEF SettingsTypeOK
<1>4. \A u \in Tenants : RowOf(u)' = RowOf(u) BY <1>1, <1>3 DEF RowOf
<1>5. SubjectsAgree' BY <1>0, <1>1 DEF SubjectsAgree, Serving, About
<1>6. MeetingsAgree'
  <2>1. \A g \in Savers : savers[g].pc # "idle" => savers[g].tenant \in Tenants
    BY <1>0 DEF SubjectsAgree, Serving
  <2>2. \A g \in Savers : savers[g].pc # "idle" => RowOf(savers[g].tenant)' = RowOf(savers[g].tenant)
    BY <1>1, <1>4, <2>1 DEF RowOf
  <2> SUFFICES ASSUME NEW g \in Savers, savers[g].pc # "idle", ~savers[g].met
               PROVE  /\ \A k \in Savers \ {g} : savers[k].subject # savers[g].subject
                      /\ savers[g].pc # "uploaded" =>
                           \A c \in DOMAIN savers[g].fields :
                             savers[g].row[c] = RowOf(savers[g].tenant)[c]
                      /\ \A v \in Variants :
                           /\ About(g, v) /\ savers[g].pc \in {"uploaded", "read"} =>
                                \/ savers[g].fields = Unflagged(v) /\ logos[v] = NoLogo
                                \/ \E dark \in BOOLEAN :
                                     /\ savers[g].fields = Flagged(v, dark)
                                     /\ logos[v] = [of |-> savers[g].tenant, dark |-> dark]
                           /\ About(g, v) /\ savers[g].pc = "removing"
                                => savers[g].fields = Unflagged(v)
    BY <1>1, <2>2 DEF MeetingsAgree, Serving, About
  <2> QED BY <1>0 DEF MeetingsAgree, Serving
<1>7. FormsAgree'
  <2>1. DefaultRow # NoRow BY ColumnFacts
  <2> QED BY <1>0, <1>1, <1>3, <2>1, SubjectFacts DEF FormsAgree
<1>8. SettingsAreAsSaved'
  <2>1. ASSUME NEW u \in Tenants, NEW v \in Variants, sharers[v] \subseteq {u},
               <<Nothing, v>> \notin torn \union {savers[g].subject : g \in Savers}
        PROVE  LogoAgrees(u, v)'
    <3>1. LogoAgrees(u, v) BY <1>0, <2>1 DEF SettingsAreAsSaved
    <3>2. /\ RowOf(u)[v] <=> logos[v] # NoLogo
          /\ RowOf(u)[v] => /\ logos[v].of = u
                            /\ v = "normal" => RowOf(u)["ink"] = logos[v].dark
      BY <1>0, <3>1, LogoAgreesOf
    <3>3. LogoAgrees(u, v)' <=>
            /\ RowOf(u)'[v] <=> logos'[v] # NoLogo
            /\ RowOf(u)'[v] => /\ logos'[v].of = u
                               /\ v = "normal" => RowOf(u)'["ink"] = logos'[v].dark
      <4>1. settings'[u] = NoRow => ~RowOf(u)'[v] BY ColumnFacts DEF RowOf
      <4>2. settings'[u] # NoRow => RowOf(u)' = settings'[u] BY DEF RowOf
      <4> QED BY <4>1, <4>2 DEF LogoAgrees, HasLogo, ServedLogo, MailLogo
    <3> QED BY <1>1, <1>4, <3>2, <3>3
  <2>2. ASSUME NEW s \in FormSubjects \ torn PROVE FormAgrees(s)'
    <3>1. s[1] \in Tenants BY SubjectFacts
    <3>2. asked[s] # Nothing => s[1] # t BY <1>0, <1>1 DEF FormsAgree
    <3>3. FormAgrees(s) BY <1>0 DEF SettingsAreAsSaved
    <3> QED BY <1>1, <1>3, <3>1, <3>2, <3>3 DEF FormAgrees
  <2> QED BY <1>1, <2>1, <2>2 DEF SettingsAreAsSaved
<1> QED BY <1>2, <1>5, <1>6, <1>7, <1>8 DEF SettingsIInv

\* A request saves: it writes its own columns, and of them what it meant to if it met nobody.
LEMMA SaveSettingsKeeps ==
  ASSUME SettingsIInv, NEW h \in Savers, SaveSettings(h)
  PROVE  SettingsIInv'
<1>0. SettingsTypeOK /\ SubjectsAgree /\ MeetingsAgree /\ FormsAgree /\ SettingsAreAsSaved
  BY DEF SettingsIInv
<1>1. \A a, b \in Rows, x \in Writings :
        /\ Merged(a, x, b) \in Rows
        /\ \A c \in Columns \ DOMAIN x : Merged(a, x, b)[c] = b[c]
        /\ \A c \in DOMAIN x : a[c] = b[c] => Merged(a, x, b)[c] = x[c]
  BY MergedFacts
<1>2. PICK q \in SaverRecord : q = savers[h] BY <1>0 DEF SettingsTypeOK
<1>3. q.pc = "read" /\ q.tenant \in Tenants
  BY <1>0, <1>2 DEF SaveSettings, SubjectsAgree, Serving
<1>4. PICK t \in Tenants : t = q.tenant BY <1>3
<1>5. PICK s \in Subjects \union {NoSubject} : s = q.subject BY DEF SaverRecord
<1>6. PICK w \in Writings : w = q.fields BY DEF SaverRecord
<1>7. PICK read \in Rows : read = q.row BY DEF SaverRecord
<1>8. PICK old \in Rows : old = RowOf(t) BY <1>0, RowFacts
<1>9. PICK new \in Rows : new = Merged(read, w, old) BY <1>1
<1>10. settings' = [settings EXCEPT ![t] = new]
  BY <1>2, <1>4, <1>6, <1>7, <1>8, <1>9 DEF SaveSettings
<1>11. /\ settings' = [settings EXCEPT ![t] = new]
       /\ asked' = IF s \in LogoSubjects THEN asked ELSE [asked EXCEPT ![s] = q.form]
       /\ torn' = IF q.met THEN torn \union {s} ELSE torn \ {s}
       /\ savers' = [savers EXCEPT ![h] = NoSaver]
       /\ UNCHANGED <<logos, sharers>>
  BY <1>10, <1>2, <1>4, <1>5 DEF SaveSettings
<1>12. /\ NoSaver \in SaverRecord /\ NoSaver.pc = "idle" /\ NoSaver.subject = NoSubject
  BY NoSaverFacts
<1>13. savers'[h] = NoSaver /\ \A g \in Savers : g # h => savers'[g] = savers[g]
  BY <1>0, <1>11 DEF SettingsTypeOK
<1>14. \/ \E v \in Variants :
            /\ s = <<Nothing, v>>
            /\ t \in sharers[v]
            /\ w = Unflagged(v) \/ \E dark \in BOOLEAN : w = Flagged(v, dark)
       \/ q.form \in Forms /\ s = <<t, GroupOf[q.form]>> /\ w = Fields[q.form]
  BY <1>0, <1>3, <1>2, <1>4, <1>5, <1>6 DEF SubjectsAgree, Serving, About
<1>15. ~q.met => /\ \A g \in Savers \ {h} : savers[g].subject # s
                 /\ \A c \in DOMAIN w : read[c] = old[c]
                 /\ \A v \in Variants : s = <<Nothing, v>> =>
                      \/ w = Unflagged(v) /\ logos[v] = NoLogo
                      \/ \E dark \in BOOLEAN :
                           w = Flagged(v, dark) /\ logos[v] = [of |-> t, dark |-> dark]
  BY <1>0, <1>3, <1>2, <1>4, <1>5, <1>6, <1>7, <1>8 DEF MeetingsAgree, Serving, About
<1>16. /\ new # NoRow
       /\ \A c \in Columns \ DOMAIN w : new[c] = old[c]
       /\ \A c \in DOMAIN w : read[c] = old[c] => new[c] = w[c]
  <2>1. new # NoRow BY ColumnFacts
  <2> DEFINE merged == Merged(read, w, old)
  <2>2. /\ \A c \in Columns \ DOMAIN w : merged[c] = old[c]
        /\ \A c \in DOMAIN w : read[c] = old[c] => merged[c] = w[c]
    BY <1>1
  <2>3. new = merged BY <1>9
  <2> HIDE DEF merged
  <2> QED BY <2>1, <2>2, <2>3
<1>17. /\ settings'[t] = new
       /\ \A u \in Tenants : u # t => settings'[u] = settings[u]
       /\ RowOf(t)' = new
       /\ \A u \in Tenants : u # t => RowOf(u)' = RowOf(u)
  <2>1. settings'[t] = new /\ \A u \in Tenants : u # t => settings'[u] = settings[u]
    BY <1>0, <1>11 DEF SettingsTypeOK
  <2> QED BY <1>16, <2>1 DEF RowOf
<1>18. SettingsTypeOK'
  <2>1. s \in Subjects BY <1>14, SubjectFacts
  <2>2. s \notin LogoSubjects => s \in FormSubjects /\ q.form \in Forms
    BY <1>14, SubjectFacts
  <2>3. settings' \in [Tenants -> Rows \union {NoRow}] BY <1>0, <1>11 DEF SettingsTypeOK
  <2>4. asked' \in [FormSubjects -> Forms \union {Nothing}]
    BY <1>0, <1>11, <2>2 DEF SettingsTypeOK
  <2>5. savers' \in [Savers -> SaverRecord] /\ torn' \subseteq Subjects
    BY <1>0, <1>11, <1>12, <2>1 DEF SettingsTypeOK
  <2> QED BY <1>0, <1>11, <2>3, <2>4, <2>5 DEF SettingsTypeOK
<1>19. SubjectsAgree'
  BY <1>0, <1>11, <1>12, <1>13 DEF SubjectsAgree, Serving, About
<1>20. MeetingsAgree'
  <2> SUFFICES ASSUME NEW g \in Savers, savers'[g].pc # "idle", ~savers'[g].met
               PROVE  /\ \A k \in Savers \ {g} : savers'[k].subject # savers'[g].subject
                      /\ savers'[g].pc # "uploaded" =>
                           \A c \in DOMAIN savers'[g].fields :
                             savers'[g].row[c] = RowOf(savers[g].tenant)'[c]
                      /\ \A v \in Variants :
                           /\ /\ savers'[g].subject = <<Nothing, v>>
                              /\ savers'[g].pc \in {"uploaded", "read"}
                              =>
                                \/ savers'[g].fields = Unflagged(v) /\ logos'[v] = NoLogo
                                \/ \E dark \in BOOLEAN :
                                     /\ savers'[g].fields = Flagged(v, dark)
                                     /\ logos'[v] = [of |-> savers'[g].tenant, dark |-> dark]
                           /\ savers'[g].subject = <<Nothing, v>> /\ savers'[g].pc = "removing"
                                => savers'[g].fields = Unflagged(v)
    BY DEF MeetingsAgree, Serving, About, RowOf
  <2>1. g # h /\ savers'[g] = savers[g] BY <1>12, <1>13
  <2> PICK r \in SaverRecord : r = savers[g] BY <1>0 DEF SettingsTypeOK
  <2>2. /\ \A k \in Savers \ {g} : savers[k].subject # r.subject
        /\ r.pc # "uploaded" => \A c \in DOMAIN r.fields : r.row[c] = RowOf(r.tenant)[c]
        /\ \A v \in Variants :
             /\ r.subject = <<Nothing, v>> /\ r.pc \in {"uploaded", "read"} =>
                  \/ r.fields = Unflagged(v) /\ logos[v] = NoLogo
                  \/ \E dark \in BOOLEAN :
                       r.fields = Flagged(v, dark) /\ logos[v] = [of |-> r.tenant, dark |-> dark]
             /\ r.subject = <<Nothing, v>> /\ r.pc = "removing" => r.fields = Unflagged(v)
    BY <1>0, <2>1 DEF MeetingsAgree, Serving, About
  <2>3. r.tenant \in Tenants /\ r.subject # NoSubject
    <3>1. /\ r.tenant \in Tenants
          /\ \/ \E v \in Variants : r.subject = <<Nothing, v>>
             \/ r.form \in Forms /\ r.subject = <<r.tenant, GroupOf[r.form]>>
      BY <1>0, <2>1 DEF SubjectsAgree, Serving, About
    <3> QED BY <3>1, SubjectFacts
  <2>4. \A k \in Savers \ {g} : savers'[k].subject # r.subject
    BY <1>12, <1>13, <2>1, <2>2, <2>3
  <2>5. r.tenant = t => DOMAIN r.fields \intersect DOMAIN w = {}
    <3>1. savers[g].subject # savers[h].subject BY <2>1, <2>2
    <3>2. Serving(g) /\ Serving(h) BY <1>2, <1>3, <2>1 DEF Serving
    <3>3. savers[h] = q /\ w = q.fields /\ t = q.tenant BY <1>2, <1>4, <1>6
    <3> QED BY <3>1, <3>2, <3>3, OthersColumns
  <2>6. DOMAIN r.fields \subseteq Columns BY WritingFacts DEF SaverRecord
  <2>7. r.pc # "uploaded" => \A c \in DOMAIN r.fields : r.row[c] = RowOf(r.tenant)'[c]
    <3>1. CASE r.tenant = t
      <4>1. RowOf(r.tenant)' = new /\ RowOf(r.tenant) = old BY <1>8, <1>17, <3>1
      <4> QED BY <1>16, <2>2, <2>5, <2>6, <3>1, <4>1
    <3>2. CASE r.tenant # t
      <4>1. RowOf(r.tenant)' = RowOf(r.tenant) BY <1>17, <2>3, <3>2
      <4> QED BY <2>2, <4>1
    <3> QED BY <3>1, <3>2
  <2>8. r.pc # "uploaded" =>
          \A c \in DOMAIN r.fields : r.row[c] = RowOf(savers[g].tenant)'[c]
    <3>1. CASE g = h BY <2>1, <3>1
    <3>2. savers'[g].tenant = r.tenant BY <2>1
    <3>3. RowOf(savers[g].tenant)' = RowOf(r.tenant)' BY <3>2 DEF RowOf
    <3> QED BY <2>7, <3>3
  <2>9. \A v \in Variants :
          /\ r.subject = <<Nothing, v>> /\ r.pc \in {"uploaded", "read"} =>
               \/ r.fields = Unflagged(v) /\ logos'[v] = NoLogo
               \/ \E dark \in BOOLEAN :
                    r.fields = Flagged(v, dark) /\ logos'[v] = [of |-> r.tenant, dark |-> dark]
          /\ r.subject = <<Nothing, v>> /\ r.pc = "removing" => r.fields = Unflagged(v)
    BY <1>11, <2>2
  <2>10. savers'[g] = r BY <2>1
  <2> QED BY <2>4, <2>8, <2>9, <2>10
<1>21. FormsAgree'
  <2> SUFFICES ASSUME NEW f \in FormSubjects, asked'[f] # Nothing
               PROVE  GroupOf[asked'[f]] = f[2] /\ settings'[f[1]] # NoRow
    BY DEF FormsAgree
  <2>1. CASE f = s
    <3>1. f = <<t, GroupOf[q.form]>> /\ s \notin LogoSubjects BY <1>14, <2>1, SubjectFacts
    <3>2. asked'[f] = q.form BY <1>0, <1>11, <2>1, <3>1 DEF SettingsTypeOK
    <3> QED BY <1>16, <1>17, <3>1, <3>2
  <2>2. CASE f # s
    <3>1. asked'[f] = asked[f] BY <1>0, <1>11, <2>2 DEF SettingsTypeOK
    <3>2. f[1] \in Tenants BY SubjectFacts
    <3> QED BY <1>0, <1>16, <1>17, <3>1, <3>2 DEF FormsAgree
  <2> QED BY <2>1, <2>2
<1>22. ASSUME NEW u \in Tenants, NEW v \in Variants, sharers'[v] \subseteq {u},
              <<Nothing, v>> \notin torn' \union {savers'[g].subject : g \in Savers}
       PROVE  LogoAgrees(u, v)'
  <2>1. LogoAgrees(u, v)' <=>
          /\ RowOf(u)'[v] <=> logos'[v] # NoLogo
          /\ RowOf(u)'[v] => /\ logos'[v].of = u
                             /\ v = "normal" => RowOf(u)'["ink"] = logos'[v].dark
    <3>1. settings'[u] = NoRow => ~RowOf(u)'[v] BY ColumnFacts DEF RowOf
    <3>2. settings'[u] # NoRow => RowOf(u)' = settings'[u] BY DEF RowOf
    <3> QED BY <3>1, <3>2 DEF LogoAgrees, HasLogo, ServedLogo, MailLogo
  <2>2. CASE s = <<Nothing, v>>
    <3>1. ~q.met BY <1>11, <1>22, <2>2
    <3>2. s \in LogoSubjects BY <2>2, SubjectFacts
    <3>3. t \in sharers[v] BY <1>14, <2>2, <3>2, SubjectFacts
    <3>4. RowOf(u)' = new BY <1>11, <1>17, <1>22, <3>3
    <3>5. \A c \in DOMAIN w : new[c] = w[c] BY <1>15, <1>16, <3>1
    <3>6. CASE w = Unflagged(v) /\ logos[v] = NoLogo
      <4>1. DOMAIN w = {v} /\ w[v] = FALSE BY <3>6 DEF Unflagged
      <4> QED BY <1>11, <2>1, <3>4, <3>5, <3>6, <4>1
    <3>7. ASSUME NEW dark \in BOOLEAN,
                 w = Flagged(v, dark), logos[v] = [of |-> t, dark |-> dark]
          PROVE  LogoAgrees(u, v)'
      <4>1. /\ v \in DOMAIN w /\ w[v] = TRUE
            /\ v = "normal" => "ink" \in DOMAIN w /\ w["ink"] = dark
        <5>1. /\ DOMAIN Flagged(v, dark) = {v} \union (IF v = "normal" THEN {"ink"} ELSE {})
              /\ Flagged(v, dark)[v] = TRUE
              /\ v = "normal" => Flagged(v, dark)["ink"] = dark
          BY FlagFacts
        <5> QED BY <3>7, <5>1
      <4>2. logos[v].of = t /\ logos[v].dark = dark /\ logos[v] # NoLogo /\ u = t
        <5>1. [of |-> t, dark |-> dark] \in Logos BY DEF Logos
        <5> QED BY <1>11, <1>22, <3>3, <3>7, <5>1, ColumnFacts
      <4> QED BY <1>11, <2>1, <3>4, <3>5, <4>1, <4>2
    <3> QED BY <1>15, <2>2, <3>1, <3>6, <3>7
  <2>3. CASE s # <<Nothing, v>>
    <3>1. <<Nothing, v>> \notin torn \union {savers[g].subject : g \in Savers}
      BY <1>2, <1>5, <1>11, <1>13, <1>22, <2>3
    <3>2. LogoAgrees(u, v) BY <1>0, <1>11, <1>22, <3>1 DEF SettingsAreAsSaved
    <3>3. /\ RowOf(u)[v] <=> logos[v] # NoLogo
          /\ RowOf(u)[v] => /\ logos[v].of = u
                            /\ v = "normal" => RowOf(u)["ink"] = logos[v].dark
      BY <1>0, <3>2, LogoAgreesOf
    <3>4. v \notin DOMAIN w /\ (v = "normal" => "ink" \notin DOMAIN w)
      <4>1. CASE q.form \in Forms /\ w = Fields[q.form]
        <5>1. DOMAIN w \subseteq FormColumns BY <4>1 DEF FormColumns
        <5> QED BY <5>1, ColumnFacts
      <4>2. ASSUME NEW x \in Variants, s = <<Nothing, x>>,
                   w = Unflagged(x) \/ \E dark \in BOOLEAN : w = Flagged(x, dark)
            PROVE  v \notin DOMAIN w /\ (v = "normal" => "ink" \notin DOMAIN w)
        <5>1. x # v BY <2>3, <4>2
        <5>2. DOMAIN w \subseteq {x} \union (IF x = "normal" THEN {"ink"} ELSE {})
          <6>1. CASE w = Unflagged(x) BY <6>1 DEF Unflagged
          <6>2. ASSUME NEW dark \in BOOLEAN, w = Flagged(x, dark)
                PROVE  DOMAIN w \subseteq {x} \union (IF x = "normal" THEN {"ink"} ELSE {})
            BY <6>2, FlagFacts
          <6> QED BY <4>2, <6>1, <6>2
        <5> QED BY <5>1, <5>2 DEF Variants
      <4> QED BY <1>14, <4>1, <4>2
    <3>5. RowOf(u)'[v] = RowOf(u)[v] /\ (v = "normal" => RowOf(u)'["ink"] = RowOf(u)["ink"])
      <4>1. CASE u = t
        <5>1. RowOf(u)' = new /\ RowOf(u) = old BY <1>8, <1>17, <4>1
        <5> QED BY <1>16, <3>4, <5>1, ColumnFacts
      <4>2. CASE u # t BY <1>17, <4>2
      <4> QED BY <4>1, <4>2
    <3> QED BY <1>11, <2>1, <3>3, <3>5
  <2> QED BY <2>2, <2>3
<1>23. ASSUME NEW f \in FormSubjects \ torn' PROVE FormAgrees(f)'
  <2> SUFFICES ASSUME asked'[f] # Nothing, NEW c \in DOMAIN Fields[asked'[f]]
               PROVE  settings'[f[1]][c] = Fields[asked'[f]][c]
    BY DEF FormAgrees
  <2>1. CASE f = s
    <3>1. f = <<t, GroupOf[q.form]>> /\ s \notin LogoSubjects /\ w = Fields[q.form]
      BY <1>14, <2>1, SubjectFacts
    <3>2. asked'[f] = q.form BY <1>0, <1>11, <2>1, <3>1 DEF SettingsTypeOK
    <3>3. ~q.met BY <1>11, <1>23, <2>1
    <3> QED BY <1>15, <1>16, <1>17, <3>1, <3>2, <3>3
  <2>2. CASE f # s
    <3>1. asked'[f] = asked[f] BY <1>0, <1>11, <2>2 DEF SettingsTypeOK
    <3>2. f[1] \in Tenants /\ f = <<f[1], f[2]>> BY SubjectFacts DEF FormSubjects
    <3>3. f \notin torn BY <1>11, <1>23, <2>2
    <3>4. settings[f[1]][c] = Fields[asked[f]][c]
      BY <1>0, <3>1, <3>3 DEF SettingsAreAsSaved, FormAgrees
    <3>5. GroupOf[asked[f]] = f[2] /\ settings[f[1]] # NoRow /\ asked[f] \in Forms
      BY <1>0, <3>1 DEF FormsAgree, SettingsTypeOK
    <3>6. CASE f[1] = t
      <4>1. old = settings[t] BY <1>8, <3>5, <3>6 DEF RowOf
      <4>2. c \notin DOMAIN w /\ c \in Columns
        <5>1. c \in FormColumns BY <3>1, <3>5 DEF FormColumns
        <5>2. CASE q.form \in Forms /\ s = <<t, GroupOf[q.form]>> /\ w = Fields[q.form]
          <6>1. GroupOf[q.form] # GroupOf[asked[f]] BY <2>2, <3>2, <3>5, <3>6, <5>2
          <6> QED BY <3>1, <3>5, <5>1, <5>2, <6>1, SettingsAssumption, ColumnFacts
        <5>3. ASSUME NEW x \in Variants,
                     w = Unflagged(x) \/ \E dark \in BOOLEAN : w = Flagged(x, dark)
              PROVE  c \notin DOMAIN w
          <6>1. DOMAIN w \subseteq Variants \union {"ink"}
            <7>1. CASE w = Unflagged(x) BY <7>1 DEF Unflagged
            <7>2. ASSUME NEW dark \in BOOLEAN, w = Flagged(x, dark)
                  PROVE  DOMAIN w \subseteq Variants \union {"ink"}
              BY <7>2 DEF Flagged
            <7> QED BY <5>3, <7>1, <7>2
          <6> QED BY <5>1, <6>1, ColumnFacts
        <5> QED BY <1>14, <5>1, <5>2, <5>3, ColumnFacts
      <4> QED BY <1>16, <1>17, <3>1, <3>4, <3>6, <4>1, <4>2
    <3>7. CASE f[1] # t BY <1>17, <3>1, <3>2, <3>4, <3>7
    <3> QED BY <3>6, <3>7
  <2> QED BY <2>1, <2>2
<1>24. SettingsAreAsSaved' BY <1>22, <1>23 DEF SettingsAreAsSaved
<1> QED BY <1>18, <1>19, <1>20, <1>21, <1>24 DEF SettingsIInv

\* A logo is put into the bucket.
LEMMA UploadLogoKeeps ==
  ASSUME SettingsIInv, NEW h \in Savers, NEW t \in Tenants, NEW v \in Variants,
         NEW dark \in BOOLEAN, UploadLogo(h, t, v, dark)
  PROVE  SettingsIInv'
<1> DEFINE q == [NoSaver EXCEPT !.pc = "uploaded", !.tenant = t, !.subject = <<Nothing, v>>,
                                !.fields = Flagged(v, dark)]
           logo == [of |-> t, dark |-> dark]
<1>1. /\ BeginSaving(h, q) /\ logos' = [logos EXCEPT ![v] = logo]
      /\ sharers' = [sharers EXCEPT ![v] = @ \union {t}] /\ UNCHANGED <<settings, asked, torn>>
  BY DEF UploadLogo
<1>2. /\ q.pc = "uploaded" /\ q.tenant = t /\ q.subject = <<Nothing, v>>
      /\ q.fields = Flagged(v, dark) /\ q \in SaverRecord
  <2>1. NoSaver \in SaverRecord BY NoSaverFacts
  <2>2. <<Nothing, v>> \in Subjects /\ Flagged(v, dark) \in Writings
    BY SubjectFacts DEF Writings
  <2> QED BY <2>1, <2>2 DEF SaverRecord
<1>3. logo \in Logos BY DEF Logos
<1> HIDE DEF q, logo
<1>4. /\ logos \in [Variants -> Logos \union {NoLogo}] /\ sharers \in [Variants -> SUBSET Tenants]
  BY DEF SettingsIInv, SettingsTypeOK
<1>5. /\ logos' \in [Variants -> Logos \union {NoLogo}] /\ logos'[v] = logo
      /\ sharers' \in [Variants -> SUBSET Tenants] /\ t \in sharers'[v]
      /\ \A x \in Variants : x # v => logos'[x] = logos[x] /\ sharers'[x] = sharers[x]
      /\ \A x \in Variants : sharers[x] \subseteq sharers'[x]
  BY <1>1, <1>3, <1>4
<1>6. \A x \in Variants : q.subject # <<Nothing, x>> =>
        logos'[x] = logos[x] /\ sharers'[x] = sharers[x]
  BY <1>2, <1>5
<1>7. \E x \in Variants :
        /\ q.subject = <<Nothing, x>>
        /\ q.tenant \in sharers'[x]
        /\ \E d \in BOOLEAN : /\ q.pc = "uploaded" /\ q.fields = Flagged(x, d)
                              /\ logos'[x] = [of |-> q.tenant, dark |-> d]
  BY <1>2, <1>5 DEF logo
<1> QED BY <1>1, <1>2, <1>5, <1>6, <1>7, BeginSavingKeeps

\* A row is read, to remove a logo or to save a form.
LEMMA ReadToRemoveKeeps ==
  ASSUME SettingsIInv, NEW h \in Savers, NEW t \in Tenants, NEW v \in Variants,
         ReadToRemove(h, t, v)
  PROVE  SettingsIInv'
<1> DEFINE q == [NoSaver EXCEPT !.pc = "removing", !.tenant = t, !.subject = <<Nothing, v>>,
                                !.fields = Unflagged(v), !.row = RowOf(t),
                                !.inserts = settings[t] = NoRow]
<1>1. /\ BeginSaving(h, q) /\ sharers' = [sharers EXCEPT ![v] = @ \union {t}]
      /\ UNCHANGED <<settings, logos, asked, torn>>
  BY DEF ReadToRemove
<1>2. SettingsTypeOK BY DEF SettingsIInv
<1>3. RowOf(t) \in Rows BY <1>2, RowFacts
<1>4. /\ q.pc = "removing" /\ q.tenant = t /\ q.subject = <<Nothing, v>>
      /\ q.fields = Unflagged(v) /\ q.row = RowOf(t) /\ q \in SaverRecord
  <2>1. NoSaver \in SaverRecord BY NoSaverFacts
  <2>2. <<Nothing, v>> \in Subjects /\ Unflagged(v) \in Writings BY SubjectFacts DEF Writings
  <2> QED BY <1>3, <2>1, <2>2 DEF SaverRecord
<1> HIDE DEF q
<1>5. /\ sharers' \in [Variants -> SUBSET Tenants] /\ t \in sharers'[v]
      /\ \A x \in Variants : x # v => sharers'[x] = sharers[x]
      /\ \A x \in Variants : sharers[x] \subseteq sharers'[x]
      /\ logos' \in [Variants -> Logos \union {NoLogo}]
  BY <1>1, <1>2 DEF SettingsTypeOK
<1>6. \A x \in Variants : q.subject # <<Nothing, x>> =>
        logos'[x] = logos[x] /\ sharers'[x] = sharers[x]
  BY <1>1, <1>4, <1>5
<1>7. \E x \in Variants :
        /\ q.subject = <<Nothing, x>> /\ q.tenant \in sharers'[x]
        /\ q.pc = "removing" /\ q.fields = Unflagged(x)
  BY <1>4, <1>5
<1> QED BY <1>1, <1>4, <1>5, <1>6, <1>7, BeginSavingKeeps

LEMMA ReadToSaveKeeps ==
  ASSUME SettingsIInv, NEW h \in Savers, NEW t \in Tenants, NEW f \in Forms, ReadToSave(h, t, f)
  PROVE  SettingsIInv'
<1> DEFINE q == [NoSaver EXCEPT !.pc = "read", !.tenant = t, !.subject = <<t, GroupOf[f]>>,
                                !.form = f, !.fields = Fields[f], !.row = RowOf(t),
                                !.inserts = settings[t] = NoRow]
<1>1. BeginSaving(h, q) /\ UNCHANGED <<settings, logos, asked, sharers, torn>>
  BY DEF ReadToSave
<1>2. SettingsTypeOK BY DEF SettingsIInv
<1>3. RowOf(t) \in Rows BY <1>2, RowFacts
<1>4. /\ q.pc = "read" /\ q.tenant = t /\ q.subject = <<t, GroupOf[f]>> /\ q.form = f
      /\ q.fields = Fields[f] /\ q.row = RowOf(t) /\ q \in SaverRecord
  <2>1. NoSaver \in SaverRecord BY NoSaverFacts
  <2>2. <<t, GroupOf[f]>> \in Subjects /\ Fields[f] \in Writings BY SubjectFacts DEF Writings
  <2> QED BY <1>3, <2>1, <2>2 DEF SaverRecord
<1> HIDE DEF q
<1>5. /\ sharers' \in [Variants -> SUBSET Tenants] /\ logos' \in [Variants -> Logos \union {NoLogo}]
      /\ \A x \in Variants : logos'[x] = logos[x] /\ sharers'[x] = sharers[x]
  BY <1>1, <1>2 DEF SettingsTypeOK
<1> QED BY <1>1, <1>4, <1>5, BeginSavingKeeps

\* The row is read after the upload, or the logo is removed after the row was read.
LEMMA ReadToFlagKeeps ==
  ASSUME SettingsIInv, NEW h \in Savers, ReadToFlag(h)
  PROVE  SettingsIInv'
<1> DEFINE q == [savers[h] EXCEPT !.pc = "read", !.row = RowOf(savers[h].tenant),
                                  !.inserts = settings[savers[h].tenant] = NoRow]
<1>1. /\ savers[h].pc = "uploaded" /\ savers' = [savers EXCEPT ![h] = q]
      /\ UNCHANGED <<settings, logos, asked, sharers, torn>>
  BY DEF ReadToFlag
<1>2. SettingsTypeOK /\ savers[h] \in SaverRecord BY DEF SettingsIInv, SettingsTypeOK
<1>3. savers[h].tenant \in Tenants BY <1>1 DEF SettingsIInv, SubjectsAgree, Serving
<1>4. RowOf(savers[h].tenant) \in Rows BY <1>2, <1>3, RowFacts
<1>5. /\ q \in SaverRecord /\ q.pc = "read" /\ q.tenant = savers[h].tenant
      /\ q.subject = savers[h].subject /\ q.form = savers[h].form
      /\ q.fields = savers[h].fields /\ q.met = savers[h].met
      /\ q.row = RowOf(savers[h].tenant)
  BY <1>2, <1>4 DEF SaverRecord
<1> HIDE DEF q
<1>6. logos' \in [Variants -> Logos \union {NoLogo}] BY <1>1, <1>2 DEF SettingsTypeOK
<1>7. ~savers[h].met =>
        \A v \in Variants : About(h, v) =>
          \/ savers[h].fields = Unflagged(v) /\ logos[v] = NoLogo
          \/ \E dark \in BOOLEAN : /\ savers[h].fields = Flagged(v, dark)
                                   /\ logos[v] = [of |-> savers[h].tenant, dark |-> dark]
  BY <1>1 DEF SettingsIInv, MeetingsAgree, Serving
<1> QED BY <1>1, <1>5, <1>6, <1>7, SaverGoesOnKeeps

LEMMA RemoveLogoKeeps ==
  ASSUME SettingsIInv, NEW h \in Savers, NEW removed \in BOOLEAN, RemoveLogo(h, removed)
  PROVE  SettingsIInv'
<1> DEFINE q == [savers[h] EXCEPT !.pc = "read", !.met = @ \/ ~removed]
<1>1. /\ savers[h].pc = "removing" /\ savers' = [savers EXCEPT ![h] = q]
      /\ logos' = IF removed THEN [logos EXCEPT ![savers[h].subject[2]] = NoLogo] ELSE logos
      /\ UNCHANGED <<settings, asked, sharers, torn>>
  BY DEF RemoveLogo
<1>2. SettingsTypeOK /\ savers[h] \in SaverRecord BY DEF SettingsIInv, SettingsTypeOK
<1>3. savers[h].met \in BOOLEAN BY <1>2 DEF SaverRecord
<1>4. /\ q \in SaverRecord /\ q.pc = "read" /\ q.tenant = savers[h].tenant
      /\ q.subject = savers[h].subject /\ q.form = savers[h].form
      /\ q.fields = savers[h].fields /\ q.row = savers[h].row
      /\ q.met <=> savers[h].met \/ ~removed
  <2> DEFINE met == savers[h].met \/ ~removed
  <2>1. met \in BOOLEAN OBVIOUS
  <2> HIDE DEF met
  <2>2. [savers[h] EXCEPT !.pc = "read", !.met = met] \in SaverRecord
    BY <1>2, <2>1 DEF SaverRecord
  <2> QED BY <1>2, <2>2 DEF met, SaverRecord
<1> HIDE DEF q
<1>5. savers[h].tenant \in Tenants /\ \E v \in Variants : About(h, v)
  BY <1>1 DEF SettingsIInv, SubjectsAgree, Serving
<1>6. PICK v \in Variants : About(h, v) BY <1>5
<1>7. /\ \A x \in Variants : About(h, x) => x = v
      /\ savers[h].subject[2] = v
  BY <1>6 DEF About
<1>8. /\ logos' \in [Variants -> Logos \union {NoLogo}]
      /\ removed => logos'[v] = NoLogo
      /\ \A x \in Variants : x # v => logos'[x] = logos[x]
  BY <1>1, <1>2, <1>7 DEF SettingsTypeOK
<1>9. ~savers[h].met =>
        /\ \A c \in DOMAIN savers[h].fields : savers[h].row[c] = RowOf(savers[h].tenant)[c]
        /\ savers[h].fields = Unflagged(v)
  BY <1>1, <1>6 DEF SettingsIInv, MeetingsAgree, Serving
<1>10. \A x \in Variants : ~About(h, x) => logos'[x] = logos[x] BY <1>6, <1>8
<1>11. ~q.met => \A x \in Variants : About(h, x) => q.fields = Unflagged(x) /\ logos'[x] = NoLogo
  BY <1>4, <1>7, <1>8, <1>9
<1>12. ~q.met => \A c \in DOMAIN q.fields : q.row[c] = RowOf(q.tenant)[c] BY <1>4, <1>9
<1> QED BY <1>1, <1>4, <1>8, <1>10, <1>11, <1>12, SaverGoesOnKeeps

\* Every step preserves the invariant, and it holds at the start.
LEMMA SettingsKeeps == SettingsIInv /\ [Next]_vars => SettingsIInv'
<1> SUFFICES ASSUME SettingsIInv, [Next]_vars PROVE SettingsIInv' OBVIOUS
<1>1. CASE UNCHANGED settingsVars
  <2>1. SettingsTypeOK' /\ SubjectsAgree' /\ MeetingsAgree' /\ FormsAgree'
    BY <1>1 DEF SettingsIInv, SettingsTypeOK, SubjectsAgree, MeetingsAgree, FormsAgree, About,
       Serving, RowOf, settingsVars
  <2>2. SettingsAreAsSaved'
    BY <1>1 DEF SettingsIInv, SettingsAreAsSaved, LogoAgrees, FormAgrees, HasLogo, ServedLogo,
       MailLogo, RowOf, settingsVars
  <2> QED BY <2>1, <2>2 DEF SettingsIInv
<1>2. CASE SettingsNext
  <2>1. "normal" \in Variants /\ "dark" \in Variants /\ TRUE \in BOOLEAN BY DEF Variants
  <2> QED
    BY <1>2, <2>1, VisitKeeps, UploadLogoKeeps, ReadToRemoveKeeps, ReadToSaveKeeps,
       ReadToFlagKeeps, RemoveLogoKeeps, SaveSettingsKeeps, GiveUpKeeps DEF SettingsNext
<1> QED BY <1>1, <1>2 DEF Next, BillingStep, SettingsStep, BackgroundStep, vars

LEMMA SettingsBegin == Init => SettingsIInv
<1> SUFFICES ASSUME SettingsInit PROVE SettingsIInv BY DEF Init
<1>1. /\ NoSaver \in SaverRecord /\ NoSaver.pc = "idle" /\ NoSaver.subject = NoSubject
  BY NoSaverFacts
<1>2. SettingsTypeOK BY <1>1, ColumnFacts DEF SettingsInit, SettingsTypeOK
<1>3. SubjectsAgree /\ MeetingsAgree
  BY <1>1 DEF SettingsInit, SubjectsAgree, MeetingsAgree, Serving
<1>4. FormsAgree BY DEF SettingsInit, FormsAgree
<1>5. ASSUME NEW t \in Tenants, NEW v \in Variants PROVE LogoAgrees(t, v)
  <2>1. RowOf(t) = DefaultRow BY DEF SettingsInit, RowOf
  <2>2. ~RowOf(t)[v] /\ logos[v] = NoLogo BY <2>1, ColumnFacts DEF SettingsInit
  <2> QED BY <1>2, <2>2, LogoAgreesOf
<1>6. SettingsAreAsSaved BY <1>5 DEF SettingsInit, SettingsAreAsSaved, FormAgrees
<1> QED BY <1>2, <1>3, <1>4, <1>6 DEF SettingsIInv

\* The inductive invariant of PlatformSettings, in Platform.
THEOREM SettingsInvariance == Spec => []SettingsIInv
  BY SettingsBegin, SettingsKeeps, PTL DEF Spec

\* Whatever requests save at once, a tenant that alone has a logo is shown its own, and the
\* settings are what the last form of each kind said, unless two about the same met.
THEOREM SettingsAreWhatWasSaved == Spec => []SettingsAreAsSaved
<1>1. SettingsIInv => SettingsAreAsSaved BY DEF SettingsIInv
<1> QED BY <1>1, SettingsInvariance, PTL

-----------------------------------------------------------------------------
\* The rows and the requests of the three have the values they may have.
THEOREM PlatformTypes == Spec => []TypeOK
<1>1. BillingIInv /\ SettingsIInv /\ BackgroundIInv => TypeOK
  BY DEF BillingIInv, SettingsIInv, BackgroundIInv, TypeOK
<1> QED BY <1>1, BillingInvariance, SettingsInvariance, BackgroundInvariance, PTL
=============================================================================
