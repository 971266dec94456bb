------------------------ MODULE CourseCompletionProofs ------------------------
(***************************************************************************)
(* Theorems about CourseCompletion, for any number of assessments, tasks,  *)
(* files and concurrent requests: no completed course is forgotten and the *)
(* file that is graded is the one that was accepted.  They rest on one     *)
(* inductive invariant, CourseCompletion!IInv, of two independent halves,  *)
(* the request and the uploads.                                            *)
(***************************************************************************)
EXTENDS CourseCompletion, TLAPS

USE DEF Idle, NoRequest

\* Every initial state satisfies the inductive invariant.
LEMMA InitIInv == Init => IInv
<1> SUFFICES ASSUME Init PROVE IInv OBVIOUS
<1>1. TypeOK BY DEF Init, TypeOK, HandlerRecord, RequestRecord
<1>2. NoCompletionMissed /\ RequestsAgree
  BY DEF Init, NoCompletionMissed, RequestsAgree
<1>3. GradedFileIsAccepted BY DEF Init, GradedFileIsAccepted, HandedIn
<1>4. UploadsAgree BY ConstantsAssumption DEF Init, UploadsAgree
<1> QED BY <1>1, <1>2, <1>3, <1>4 DEF IInv

\* The steps of a handler that read the request and the progress, or start
\* something an administrator asks for: nothing else changes.
Reads(h) == ReadRequest(h) \/ ReadAttempts(h) \/ (\E t \in Tasks : ReadTask(h, t))
              \/ ForceIssue(h) \/ Cancel(h) \/ StartRenewal(h) \/ ReadForRenewal(h)

\* The cases of Next.
Cases ==
  \/ Enrol \/ Unenrol \/ (\E r \in Requests : OpenRequest(r))
  \/ \E h \in Handlers :
       \/ Reads(h) \/ Issue(h) \/ Fail(h) \/ CommitCancel(h)
       \/ \E r \in Requests : CommitRenewal(h, r)
       \/ \E a \in Assessments, passes \in BOOLEAN : SubmitAssessment(h, a, passes)
       \/ \E t \in Tasks, f \in Files : SubmitTask(h, t, f)
       \/ \E t \in Tasks : UploadTask(h, t) \/ RecordTask(h, t)

\* Next is what its cases say.
LEMMA NextCases == Next => Cases
  BY DEF Next, Cases, Administrator, Submit, Step, Reads

\* A handler that reads turns into another well-formed one and leaves the rest alone.
LEMMA ReadsFacts ==
  ASSUME TypeOK, NEW h \in Handlers, Reads(h)
  PROVE  \E r \in HandlerRecord :
           /\ handlers' = [handlers EXCEPT ![h] = r]
           /\ r.task = None \/ (r.task = handlers[h].task /\ r.pc # "recording")
           /\ UNCHANGED <<course, request, certified, copies, excused, doubled>>
<1>1. handlers[h] \in HandlerRecord /\ request \in RequestRecord /\ HandedIn \subseteq Tasks
  BY DEF TypeOK, HandedIn
<1>t. handlers \in [Handlers -> HandlerRecord] BY DEF TypeOK
<1>2. passed \subseteq Assessments BY DEF TypeOK
<1>3. Idle \in HandlerRecord BY DEF HandlerRecord
<1>4. \A pc \in {"checking", "issuing", "cancelling"}, b \in BOOLEAN :
        Holding(pc, b) \in HandlerRecord /\ Holding(pc, b).task = None
  <2>1. request.id \in Requests \union {None} /\ request.renewal \in BOOLEAN
    BY <1>1 DEF RequestRecord
  <2> SUFFICES ASSUME NEW pc \in {"checking", "issuing", "cancelling"}, NEW b \in BOOLEAN
               PROVE  Holding(pc, b) \in HandlerRecord /\ Holding(pc, b).task = None
    OBVIOUS
  <2> DEFINE x == [Idle EXCEPT !.pc = pc, !.request = request.id]
             y == [x EXCEPT !.renewal = request.renewal]
             z == [y EXCEPT !.byAdmin = b]
  <2>2. x \in HandlerRecord /\ x.task = None BY <2>1 DEF HandlerRecord
  <2>3. Holding(pc, b) = z BY DEF Holding
  <2> HIDE DEF x
  <2>4. y \in HandlerRecord /\ y.task = None BY <2>1, <2>2 DEF HandlerRecord
  <2> HIDE DEF y
  <2>5. z \in HandlerRecord /\ z.task = None BY <2>4 DEF HandlerRecord
  <2> QED BY <2>3, <2>5
<1>5. CASE ReadRequest(h)
  <2>1. CASE request.status = "in_progress"
    <3>1. Holding("checking", FALSE) \in HandlerRecord /\ Holding("checking", FALSE).task = None
      BY <1>4
    <3> QED BY <1>5, <2>1, <3>1 DEF ReadRequest
  <2>2. CASE request.status # "in_progress" BY <1>3, <1>5, <2>2 DEF ReadRequest
  <2> QED BY <2>1, <2>2
<1>6. CASE ForceIssue(h)
  <2>1. Holding("issuing", TRUE) \in HandlerRecord /\ Holding("issuing", TRUE).task = None
    BY <1>4
  <2> QED BY <1>6, <2>1 DEF ForceIssue
<1>7. CASE Cancel(h) BY <1>4, <1>7 DEF Cancel
<1>8. CASE ReadAttempts(h)
  <2> DEFINE x == [handlers[h] EXCEPT !.pc = "issuing"]
             r == [x EXCEPT !.unread = Tasks]
  <2>1. CASE passed = Assessments
    <3>1. handlers' = [handlers EXCEPT ![h] = r] BY <1>8, <2>1 DEF ReadAttempts
    <3>2. x \in HandlerRecord /\ x.task = handlers[h].task /\ x.pc = "issuing"
      BY <1>1 DEF HandlerRecord
    <3> HIDE DEF x
    <3>3. r \in HandlerRecord /\ r.task = x.task /\ r.pc = x.pc BY <3>2 DEF HandlerRecord
    <3> HIDE DEF r
    <3> QED BY <1>8, <3>1, <3>2, <3>3 DEF ReadAttempts
  <2>2. CASE passed # Assessments BY <1>3, <1>8, <2>2 DEF ReadAttempts
  <2> QED BY <2>1, <2>2
<1>9. ASSUME NEW t \in Tasks, ReadTask(h, t)
      PROVE  \E r \in HandlerRecord :
               /\ handlers' = [handlers EXCEPT ![h] = r]
               /\ r.task = None \/ (r.task = handlers[h].task /\ r.pc # "recording")
               /\ UNCHANGED <<course, request, certified, copies, excused, doubled>>
  <2> DEFINE less == handlers[h].unread \ {t}
  <2>1. less \in SUBSET Tasks BY <1>1 DEF HandlerRecord
  <2>2. [handlers[h] EXCEPT !.unread = less] \in HandlerRecord
          /\ [handlers[h] EXCEPT !.unread = less].task = handlers[h].task
          /\ [handlers[h] EXCEPT !.unread = less].pc = "issuing"
    BY <1>1, <1>9, <2>1 DEF HandlerRecord, ReadTask
  <2>3. CASE submissions[t] # None
    <3>1. handlers' = [handlers EXCEPT ![h] = [handlers[h] EXCEPT !.unread = less]]
      BY <1>9, <2>3 DEF ReadTask
    <3> HIDE DEF less
    <3> QED BY <1>9, <2>2, <3>1 DEF ReadTask
  <2>4. CASE submissions[t] = None BY <1>3, <1>9, <2>4 DEF ReadTask
  <2> QED BY <2>3, <2>4
<1>10. CASE StartRenewal(h)
  <2> DEFINE x == [Idle EXCEPT !.pc = "wiping", !.byAdmin = TRUE]
             y == [x EXCEPT !.wiped = passed \union HandedIn]
             r == [y EXCEPT !.enrols = ~enrolled]
  <2>1. passed \union HandedIn \in SUBSET (Assessments \union Tasks) BY <1>1, <1>2
  <2>2. (~enrolled) \in BOOLEAN OBVIOUS
  <2>3. handlers' = [handlers EXCEPT ![h] = r] BY <1>10 DEF StartRenewal
  <2>4. x \in HandlerRecord /\ x.task = None BY DEF HandlerRecord
  <2> HIDE DEF x
  <2>5. y \in HandlerRecord /\ y.task = None BY <2>1, <2>4 DEF HandlerRecord
  <2> HIDE DEF y
  <2>6. r \in HandlerRecord /\ r.task = None BY <2>2, <2>5 DEF HandlerRecord
  <2> HIDE DEF r
  <2> QED BY <1>10, <2>3, <2>6 DEF StartRenewal
<1>11. CASE ReadForRenewal(h)
  <2> DEFINE x == [handlers[h] EXCEPT !.pc = "renewing", !.request = request.id]
             r == [x EXCEPT !.reopens = request.status # "in_progress"]
  <2>1. request.id \in Requests \union {None} BY <1>1 DEF RequestRecord
  <2>2. (request.status # "in_progress") \in BOOLEAN OBVIOUS
  <2>3. handlers' = [handlers EXCEPT ![h] = r] BY <1>t, <1>11 DEF ReadForRenewal
  <2>4. x \in HandlerRecord /\ x.task = handlers[h].task /\ x.pc = "renewing"
    BY <1>1, <2>1 DEF HandlerRecord
  <2> HIDE DEF x
  <2>5. r \in HandlerRecord /\ r.task = x.task /\ r.pc = x.pc BY <2>2, <2>4 DEF HandlerRecord
  <2> HIDE DEF r
  <2> QED BY <1>11, <2>3, <2>4, <2>5 DEF ReadForRenewal
<1> QED BY <1>5, <1>6, <1>7, <1>8, <1>9, <1>10, <1>11 DEF Reads

-----------------------------------------------------------------------------
(* Types.                                                                  *)

\* Every step keeps the types.
LEMMA TypeKept == TypeOK /\ [Next]_vars => TypeOK'
<1> SUFFICES ASSUME TypeOK, [Next]_vars PROVE TypeOK' OBVIOUS
<1> USE DEF course
<1>i. Idle \in HandlerRecord /\ AfterSubmission \in HandlerRecord /\ AfterTask \in HandlerRecord
  BY DEF HandlerRecord, AfterSubmission, AfterTask
<1>1. CASE UNCHANGED vars BY <1>1 DEF vars, TypeOK
<1>2. CASE Enrol \/ Unenrol BY <1>2 DEF Enrol, Unenrol, TypeOK
<1>3. ASSUME NEW r \in Requests, OpenRequest(r) PROVE TypeOK'
  <2>1. request' \in RequestRecord BY <1>3 DEF OpenRequest, RequestRecord
  <2>2. excused' \in BOOLEAN BY <1>3 DEF OpenRequest, Completed
  <2> QED BY <1>3, <2>1, <2>2 DEF OpenRequest, TypeOK
<1>4. ASSUME NEW h \in Handlers, Reads(h) PROVE TypeOK'
  BY <1>4, ReadsFacts DEF TypeOK
<1>5. ASSUME NEW h \in Handlers, Issue(h) PROVE TypeOK'
  <2>1. request' \in RequestRecord BY <1>5 DEF Issue, TypeOK, RequestRecord, Closed
  <2>2. copies' \in Nat BY <1>5 DEF Issue, TypeOK
  <2> QED BY <1>i, <1>5, <2>1, <2>2 DEF Issue, TypeOK
<1>6. ASSUME NEW h \in Handlers, Fail(h) PROVE TypeOK'
  <2>1. excused' \in BOOLEAN BY <1>6 DEF Fail
  <2> QED BY <1>i, <1>6, <2>1 DEF Fail, TypeOK
<1>7. ASSUME NEW h \in Handlers, CommitCancel(h) PROVE TypeOK'
  BY <1>i, <1>7 DEF CommitCancel, TypeOK, RequestRecord
<1>8. ASSUME NEW h \in Handlers, NEW r \in Requests, CommitRenewal(h, r) PROVE TypeOK'
  <2>1. request' \in RequestRecord BY <1>8 DEF CommitRenewal, TypeOK, RequestRecord
  <2>2. submissions' \in [Tasks -> Files \union {None}] /\ passed' \subseteq Assessments
    BY <1>8 DEF CommitRenewal, TypeOK
  <2>3. copies' \in Nat BY <1>8 DEF CommitRenewal, TypeOK
  <2>4. excused' \in BOOLEAN /\ enrolled' \in BOOLEAN BY <1>8 DEF CommitRenewal
  <2> QED BY <1>i, <1>8, <2>1, <2>2, <2>3, <2>4 DEF CommitRenewal, TypeOK
<1>9. ASSUME NEW h \in Handlers, NEW a \in Assessments, NEW passes \in BOOLEAN,
             SubmitAssessment(h, a, passes)
      PROVE  TypeOK'
  <2>1. \A g \in Handlers : [handlers[g] EXCEPT !.wiped = @ \ {a}] \in HandlerRecord
    BY DEF TypeOK, HandlerRecord
  <2>2. handlers' \in [Handlers -> HandlerRecord]
    BY <1>i, <1>9, <2>1 DEF SubmitAssessment, TypeOK
  <2> QED BY <1>9, <2>2 DEF SubmitAssessment, TypeOK
<1>10. ASSUME NEW h \in Handlers, NEW t \in Tasks, NEW f \in Files, SubmitTask(h, t, f)
       PROVE  TypeOK'
  <2>1. [Idle EXCEPT !.pc = "uploading", !.task = t, !.file = f] \in HandlerRecord
    BY DEF HandlerRecord
  <2> QED BY <1>10, <2>1 DEF SubmitTask, TypeOK
<1>11. ASSUME NEW h \in Handlers, NEW t \in Tasks, UploadTask(h, t) PROVE TypeOK'
  <2>1. handlers[h] \in HandlerRecord BY DEF TypeOK
  <2>2. [handlers[h] EXCEPT !.pc = "recording"] \in HandlerRecord /\ handlers[h].file \in Files \union {None}
    BY <2>1 DEF HandlerRecord
  <2> QED BY <1>11, <2>2 DEF UploadTask, TypeOK
<1>12. ASSUME NEW h \in Handlers, NEW t \in Tasks, RecordTask(h, t) PROVE TypeOK'
  <2>1. handlers[h].file \in Files \union {None} BY DEF TypeOK, HandlerRecord
  <2> QED BY <1>i, <1>12, <2>1 DEF RecordTask, TypeOK
<1> QED BY NextCases, <1>1, <1>2, <1>3, <1>4, <1>5, <1>6, <1>7, <1>8, <1>9, <1>10, <1>11,
           <1>12 DEF Cases

-----------------------------------------------------------------------------
(* The request.                                                            *)

\* A handler that is on its way stays so if it and the request's id stay the same.
LEMMA StaysOnItsWay ==
  ASSUME NEW g, OnItsWay(g), handlers'[g].pc = handlers[g].pc,
         handlers'[g].request = handlers[g].request,
         handlers'[g].byAdmin = handlers[g].byAdmin, request'.id = request.id
  PROVE  OnItsWay(g)'
  BY DEF OnItsWay

\* Every step keeps the promise that a completed course is not forgotten.
LEMMA RequestKept == IInv /\ [Next]_vars => NoCompletionMissed' /\ RequestsAgree'
<1> SUFFICES ASSUME IInv, [Next]_vars PROVE NoCompletionMissed' /\ RequestsAgree'
  OBVIOUS
<1> USE DEF course
<1>t. handlers \in [Handlers -> HandlerRecord] /\ passed \subseteq Assessments /\ request \in RequestRecord
  BY DEF IInv, TypeOK
<1>m. NoCompletionMissed /\ RequestsAgree BY DEF IInv
<1>s. ASSUME AfterSubmission = AfterTask, NEW h \in Handlers, handlers'[h] = AfterSubmission
      PROVE  NoCompletionMissed'
  BY <1>s DEF AfterSubmission, OnItsWay, NoCompletionMissed
<1>1. CASE UNCHANGED vars
  BY <1>1, <1>m DEF vars, NoCompletionMissed, RequestsAgree, Completed, HandedIn, OnItsWay
<1>2. CASE Enrol \/ Unenrol
  BY <1>2, <1>m DEF Enrol, Unenrol, NoCompletionMissed, RequestsAgree, Completed, HandedIn, OnItsWay
<1>3. ASSUME NEW r \in Requests, OpenRequest(r) PROVE NoCompletionMissed' /\ RequestsAgree'
  BY <1>3, <1>m, ConstantsAssumption
  DEF OpenRequest, NoCompletionMissed, RequestsAgree, Completed, HandedIn
<1>4. ASSUME NEW h \in Handlers, Reads(h) PROVE NoCompletionMissed' /\ RequestsAgree'
  <2>1. UNCHANGED <<course, request, excused>>
    BY <1>4 DEF Reads, ReadRequest, ReadAttempts, ReadTask, ForceIssue, Cancel, StartRenewal,
           ReadForRenewal
  <2>2. \A g \in Handlers : g # h => handlers'[g] = handlers[g]
    BY <1>4, <1>t DEF Reads, ReadRequest, ReadAttempts, ReadTask, ForceIssue, Cancel, StartRenewal,
           ReadForRenewal
  <2>3. /\ handlers'[h].pc = "renewing" /\ handlers'[h].request = None => handlers'[h].reopens
        /\ handlers'[h].pc \in {"checking", "issuing"} => handlers'[h].request # None
    <3>1. CASE ReadRequest(h) BY <1>t, <1>m, <3>1 DEF ReadRequest, Holding, RequestsAgree
    <3>2. CASE ForceIssue(h) BY <1>t, <1>m, <3>2 DEF ForceIssue, Holding, RequestsAgree
    <3>3. CASE Cancel(h) BY <1>t, <1>m, <3>3 DEF Cancel, Holding, RequestsAgree
    <3>4. CASE ReadAttempts(h)
      BY <1>t, <1>m, <3>4 DEF ReadAttempts, HandlerRecord, RequestsAgree
    <3>5. ASSUME NEW t \in Tasks, ReadTask(h, t)
          PROVE  handlers'[h].pc \in {"idle", "issuing"}
                   /\ (handlers'[h].pc = "issuing" => handlers'[h].request # None)
      BY <1>t, <1>m, <3>5 DEF ReadTask, HandlerRecord, RequestsAgree
    <3>6. CASE StartRenewal(h) BY <1>t, <3>6 DEF StartRenewal
    <3>7. CASE ReadForRenewal(h)
      <4>1. handlers'[h].request = request.id /\ handlers'[h].pc = "renewing"
        BY <1>t, <3>7 DEF ReadForRenewal, HandlerRecord
      <4>2. handlers'[h].reopens = (request.status # "in_progress")
        BY <1>t, <3>7 DEF ReadForRenewal, HandlerRecord
      <4>3. request.id = None => request.status = "none" BY <1>m DEF RequestsAgree
      <4> QED BY <4>1, <4>2, <4>3
    <3> QED BY <1>4, <3>1, <3>2, <3>3, <3>4, <3>5, <3>6, <3>7 DEF Reads
  <2>4. ASSUME request.status = "in_progress", Completed, OnItsWay(h) PROVE OnItsWay(h)'
    <3>1. handlers[h].pc \in {"submitted", "checking", "issuing"} BY <2>4 DEF OnItsWay
    <3>2. CASE ReadRequest(h)
      BY <1>t, <2>4, <3>2 DEF ReadRequest, Holding, OnItsWay, HandlerRecord
    <3>3. CASE ReadAttempts(h)
      BY <1>t, <2>4, <3>3 DEF ReadAttempts, OnItsWay, Completed, HandlerRecord
    <3>4. ASSUME NEW t \in Tasks, ReadTask(h, t) PROVE OnItsWay(h)'
      BY <1>t, <2>4, <3>4 DEF ReadTask, OnItsWay, Completed, HandedIn, HandlerRecord
    <3> QED BY <1>4, <3>1, <3>2, <3>3, <3>4 DEF Reads, ForceIssue, Cancel, StartRenewal,
           ReadForRenewal
  <2>5. NoCompletionMissed'
    BY <1>m, <2>1, <2>2, <2>4 DEF NoCompletionMissed, Completed, HandedIn, OnItsWay
  <2>6. RequestsAgree' BY <1>m, <2>1, <2>2, <2>3 DEF RequestsAgree
  <2> QED BY <2>5, <2>6
<1>5. ASSUME NEW h \in Handlers, Issue(h) PROVE NoCompletionMissed' /\ RequestsAgree'
  <2>2. request'.id = request.id /\ request'.status = "issued"
    BY <1>5, <1>t DEF Issue, Closed, RequestRecord
  <2>3. request.id # None BY <1>5, <1>m DEF Issue, RequestsAgree
  <2> QED BY <1>5, <1>t, <1>m, <2>2, <2>3 DEF Issue, NoCompletionMissed, RequestsAgree
<1>6. ASSUME NEW h \in Handlers, Fail(h) PROVE NoCompletionMissed' /\ RequestsAgree'
  <2>1. \A g \in Handlers : g # h => handlers'[g] = handlers[g] BY <1>6, <1>t DEF Fail
  <2>2. Completed' = Completed /\ UNCHANGED request BY <1>6 DEF Fail, Completed, HandedIn
  <2>3. OnItsWay(h) /\ Completed => excused' BY <1>6 DEF Fail, OnItsWay
  <2>4. excused => excused' BY <1>6 DEF Fail
  <2>5. NoCompletionMissed'
    BY <1>m, <2>1, <2>2, <2>3, <2>4 DEF NoCompletionMissed, OnItsWay
  <2>6. handlers'[h].pc = "idle" BY <1>6, <1>t DEF Fail
  <2> QED BY <1>m, <2>1, <2>2, <2>5, <2>6 DEF RequestsAgree
<1>7. ASSUME NEW h \in Handlers, CommitCancel(h) PROVE NoCompletionMissed' /\ RequestsAgree'
  BY <1>7, <1>t, <1>m DEF CommitCancel, NoCompletionMissed, RequestsAgree
<1>8. ASSUME NEW h \in Handlers, NEW r \in Requests, CommitRenewal(h, r)
      PROVE  NoCompletionMissed' /\ RequestsAgree'
  <2>1. \A g \in Handlers : g # h => handlers'[g] = handlers[g]
    BY <1>8, <1>t DEF CommitRenewal
  <2>2. handlers'[h].pc = "idle" BY <1>8, <1>t DEF CommitRenewal
  <2>3. request'.id = r /\ r # None /\ request'.status # "none"
    BY <1>8, <1>t, <1>m, ConstantsAssumption DEF CommitRenewal, RequestsAgree
  <2>4. ASSUME handlers[h].reopens PROVE NoCompletionMissed'
    <3>1. excused' = (Completed' /\ (excused \/ handlers[h].reopens)) BY <1>8 DEF CommitRenewal
    <3>2. Completed' => excused' BY <2>4, <3>1
    <3> QED BY <3>2 DEF NoCompletionMissed
  <2>5. ASSUME ~handlers[h].reopens PROVE NoCompletionMissed'
    <3>1. request.id # None BY <1>8, <2>5, <1>m DEF CommitRenewal, RequestsAgree
    <3>2. request'.id = request.id /\ request'.status = request.status
      BY <1>8, <2>5, <3>1 DEF CommitRenewal
    <3>3. Completed' => Completed
      <4>1. ASSUME passed' = Assessments PROVE passed = Assessments
        BY <1>8, <1>t, <4>1 DEF CommitRenewal
      <4>2. ASSUME HandedIn' = Tasks PROVE HandedIn = Tasks
        BY <1>8, <4>2 DEF CommitRenewal, HandedIn
      <4> QED BY <4>1, <4>2 DEF Completed
    <3>4. excused' = (Completed' /\ (excused \/ handlers[h].reopens)) BY <1>8 DEF CommitRenewal
    <3>5. ~excused' /\ Completed' => ~excused BY <3>4
    <3>6. ~OnItsWay(h) BY <1>8 DEF CommitRenewal, OnItsWay
    <3>7. ASSUME NEW g \in Handlers, OnItsWay(g) PROVE OnItsWay(g)'
      BY <2>1, <3>2, <3>6, <3>7 DEF OnItsWay
    <3> QED BY <1>m, <3>2, <3>3, <3>5, <3>7 DEF NoCompletionMissed
  <2>6. RequestsAgree' BY <1>m, <2>1, <2>2, <2>3 DEF RequestsAgree
  <2> QED BY <2>4, <2>5, <2>6
<1>9. ASSUME NEW h \in Handlers, NEW a \in Assessments, NEW passes \in BOOLEAN,
             SubmitAssessment(h, a, passes)
      PROVE  NoCompletionMissed' /\ RequestsAgree'
  <2>1. handlers'[h] = AfterSubmission BY <1>9 DEF SubmitAssessment
  <2>2. \A g \in Handlers : g # h =>
          /\ handlers'[g].pc = handlers[g].pc
          /\ handlers'[g].request = handlers[g].request
          /\ handlers'[g].reopens = handlers[g].reopens
    BY <1>9, <1>t DEF SubmitAssessment, HandlerRecord
  <2>3. NoCompletionMissed' BY <1>s, <2>1 DEF AfterTask
  <2> QED BY <1>9, <1>m, <2>1, <2>2, <2>3 DEF SubmitAssessment, RequestsAgree, AfterSubmission
<1>10. ASSUME NEW h \in Handlers, NEW t \in Tasks, NEW f \in Files, SubmitTask(h, t, f)
       PROVE  NoCompletionMissed' /\ RequestsAgree'
  <2>1. \A g \in Handlers : g # h => handlers'[g] = handlers[g] BY <1>10, <1>t DEF SubmitTask
  <2>2. handlers[h].pc = "idle" /\ handlers'[h].pc = "uploading" BY <1>10, <1>t DEF SubmitTask
  <2>3. UNCHANGED <<course, request, excused>> BY <1>10 DEF SubmitTask
  <2> QED BY <1>m, <2>1, <2>2, <2>3
          DEF NoCompletionMissed, RequestsAgree, Completed, HandedIn, OnItsWay
<1>11. ASSUME NEW h \in Handlers, NEW t \in Tasks, UploadTask(h, t)
       PROVE  NoCompletionMissed' /\ RequestsAgree'
  <2>1. \A g \in Handlers : g # h => handlers'[g] = handlers[g] BY <1>11, <1>t DEF UploadTask
  <2>2. handlers[h].pc = "uploading" /\ handlers'[h].pc = "recording"
    BY <1>11, <1>t DEF UploadTask, HandlerRecord
  <2>3. UNCHANGED <<enrolled, passed, submissions, request, excused>> BY <1>11 DEF UploadTask
  <2> QED BY <1>m, <2>1, <2>2, <2>3
          DEF NoCompletionMissed, RequestsAgree, Completed, HandedIn, OnItsWay
<1>12. ASSUME NEW h \in Handlers, NEW t \in Tasks, RecordTask(h, t)
       PROVE  NoCompletionMissed' /\ RequestsAgree'
  <2>1. \A g \in Handlers : g # h => handlers'[g] = handlers[g] BY <1>12, <1>t DEF RecordTask
  <2>2. handlers'[h] = AfterSubmission BY <1>12, <1>t DEF RecordTask, AfterTask
  <2>3. UNCHANGED request BY <1>12 DEF RecordTask
  <2>4. NoCompletionMissed' BY <1>s, <2>2 DEF AfterTask
  <2> QED BY <1>m, <2>1, <2>2, <2>3, <2>4 DEF RequestsAgree, AfterSubmission
<1> QED BY NextCases, <1>1, <1>2, <1>3, <1>4, <1>5, <1>6, <1>7, <1>8, <1>9, <1>10, <1>11,
           <1>12 DEF Cases

-----------------------------------------------------------------------------
(* The uploads.                                                            *)

\* Nothing is disturbed while no handler takes up a task or stores a file, and no
\* task is handed in.
LEMMA UploadsUndisturbed ==
  ASSUME IInv, UNCHANGED <<files, doubled>>,
         \A t \in Tasks : submissions'[t] = submissions[t] \/ submissions'[t] = None,
         \A g \in Handlers :
           \/ handlers'[g].task = None
           \/ /\ handlers'[g].task = handlers[g].task
              /\ handlers'[g].pc = "recording"
                   => handlers[g].pc = "recording" /\ handlers'[g].file = handlers[g].file
  PROVE  GradedFileIsAccepted' /\ UploadsAgree'
<1>1. GradedFileIsAccepted' BY DEF IInv, GradedFileIsAccepted, HandedIn
<1>2. ASSUME NEW g \in Handlers, NEW t \in Tasks \ doubled', handlers'[g].task = t
      PROVE  /\ WorksOn(t)' = {g}
             /\ submissions'[t] = None
             /\ handlers'[g].pc = "recording" => files'[t] = handlers'[g].file
  <2>1. t # None /\ t \in Tasks \ doubled BY <1>2, ConstantsAssumption
  <2>2. handlers[g].task = t BY <1>2, <2>1
  <2>3. /\ WorksOn(t) = {g} /\ submissions[t] = None
        /\ handlers[g].pc = "recording" => files[t] = handlers[g].file
    BY <2>1, <2>2 DEF IInv, UploadsAgree
  <2>4. \A x \in Handlers : handlers'[x].task = t => x = g BY <2>1, <2>3 DEF WorksOn
  <2>5. WorksOn(t)' = {g} BY <1>2, <2>4 DEF WorksOn
  <2> QED BY <1>2, <2>1, <2>3, <2>5
<1> QED BY <1>1, <1>2 DEF UploadsAgree

\* Every step keeps the files and the tasks in agreement.
LEMMA UploadsKept == IInv /\ [Next]_vars => GradedFileIsAccepted' /\ UploadsAgree'
<1> SUFFICES ASSUME IInv, [Next]_vars PROVE GradedFileIsAccepted' /\ UploadsAgree'
  OBVIOUS
<1> USE DEF course
<1>t. /\ handlers \in [Handlers -> HandlerRecord] /\ submissions \in [Tasks -> Files \union {None}]
      /\ files \in [Tasks -> Files \union {None}]
  BY DEF IInv, TypeOK
<1>m. GradedFileIsAccepted /\ UploadsAgree BY DEF IInv
<1>1. CASE UNCHANGED vars BY <1>1, UploadsUndisturbed DEF vars
<1>2. CASE Enrol \/ Unenrol BY <1>2, UploadsUndisturbed DEF Enrol, Unenrol
<1>3. ASSUME NEW r \in Requests, OpenRequest(r) PROVE GradedFileIsAccepted' /\ UploadsAgree'
  BY <1>3, UploadsUndisturbed DEF OpenRequest
<1>4. ASSUME NEW h \in Handlers, Reads(h) PROVE GradedFileIsAccepted' /\ UploadsAgree'
  <2>1. TypeOK BY DEF IInv
  <2>2. PICK r \in HandlerRecord :
          /\ handlers' = [handlers EXCEPT ![h] = r]
          /\ r.task = None \/ (r.task = handlers[h].task /\ r.pc # "recording")
          /\ UNCHANGED <<course, request, certified, copies, excused, doubled>>
    BY <1>4, <2>1, ReadsFacts
  <2> QED BY <1>t, <2>2, UploadsUndisturbed
<1>5. ASSUME NEW h \in Handlers, Issue(h) \/ Fail(h) \/ CommitCancel(h)
      PROVE  GradedFileIsAccepted' /\ UploadsAgree'
  <2>1. handlers' = [handlers EXCEPT ![h] = Idle] /\ UNCHANGED <<submissions, files, doubled>>
    BY <1>5 DEF Issue, Fail, CommitCancel
  <2> QED BY <1>t, <2>1, UploadsUndisturbed
<1>8. ASSUME NEW h \in Handlers, NEW r \in Requests, CommitRenewal(h, r)
      PROVE  GradedFileIsAccepted' /\ UploadsAgree'
  <2>1. handlers' = [handlers EXCEPT ![h] = Idle] /\ UNCHANGED <<files, doubled>>
    BY <1>8 DEF CommitRenewal
  <2>2. \A t \in Tasks : submissions'[t] = submissions[t] \/ submissions'[t] = None
    BY <1>8 DEF CommitRenewal
  <2> QED BY <1>t, <2>1, <2>2, UploadsUndisturbed
<1>9. ASSUME NEW h \in Handlers, NEW a \in Assessments, NEW passes \in BOOLEAN,
             SubmitAssessment(h, a, passes)
      PROVE  GradedFileIsAccepted' /\ UploadsAgree'
  <2>1. \A g \in Handlers :
          \/ handlers'[g].task = None
          \/ /\ handlers'[g].task = handlers[g].task
             /\ handlers'[g].pc = handlers[g].pc /\ handlers'[g].file = handlers[g].file
    BY <1>9, <1>t DEF SubmitAssessment, AfterSubmission, HandlerRecord
  <2> QED BY <1>9, <2>1, UploadsUndisturbed DEF SubmitAssessment
<1>10. ASSUME NEW h \in Handlers, NEW t \in Tasks, NEW f \in Files, SubmitTask(h, t, f)
       PROVE  GradedFileIsAccepted' /\ UploadsAgree'
  <2>1. \A g \in Handlers : g # h => handlers'[g] = handlers[g] BY <1>10, <1>t DEF SubmitTask
  <2>2. handlers'[h].task = t /\ handlers'[h].pc = "uploading" BY <1>10, <1>t DEF SubmitTask
  <2>3. UNCHANGED <<submissions, files>> /\ doubled \subseteq doubled' BY <1>10 DEF SubmitTask
  <2>4. GradedFileIsAccepted' BY <1>m, <2>3 DEF GradedFileIsAccepted, HandedIn
  <2>5. ASSUME NEW g \in Handlers, NEW u \in Tasks \ doubled', handlers'[g].task = u
        PROVE  /\ WorksOn(u)' = {g}
               /\ submissions'[u] = None
               /\ handlers'[g].pc = "recording" => files'[u] = handlers'[g].file
    <3>1. CASE u = t
      <4>1. WorksOn(t) = {} BY <1>10, <2>5, <3>1 DEF SubmitTask
      <4>2. g = h BY <2>1, <2>5, <3>1, <4>1 DEF WorksOn
      <4>3. WorksOn(t)' = {h} BY <2>1, <2>2, <4>1 DEF WorksOn
      <4>4. submissions[t] = None BY <1>10 DEF SubmitTask, MayHandIn
      <4> QED BY <2>2, <2>3, <3>1, <4>2, <4>3, <4>4
    <3>2. CASE u # t
      <4>1. g # h /\ handlers[g].task = u BY <2>1, <2>2, <2>5, <3>2
      <4>2. /\ WorksOn(u) = {g} /\ submissions[u] = None
            /\ handlers[g].pc = "recording" => files[u] = handlers[g].file
        BY <1>m, <2>3, <4>1 DEF UploadsAgree
      <4>3. WorksOn(u)' = {g} BY <2>1, <2>2, <2>5, <3>2, <4>2 DEF WorksOn
      <4> QED BY <2>1, <2>3, <4>1, <4>2, <4>3
    <3> QED BY <3>1, <3>2
  <2> QED BY <2>4, <2>5 DEF UploadsAgree
<1>11. ASSUME NEW h \in Handlers, NEW t \in Tasks, UploadTask(h, t)
       PROVE  GradedFileIsAccepted' /\ UploadsAgree'
  <2>1. \A g \in Handlers : g # h => handlers'[g] = handlers[g] BY <1>11, <1>t DEF UploadTask
  <2>2. /\ handlers[h].task = t /\ handlers'[h].task = t
        /\ handlers'[h].file = handlers[h].file /\ files'[t] = handlers[h].file
    BY <1>11, <1>t DEF UploadTask, HandlerRecord
  <2>3. UNCHANGED <<submissions, doubled>> BY <1>11 DEF UploadTask
  <2>4. \A u \in Tasks : u # t => files'[u] = files[u] BY <1>11, <1>t DEF UploadTask
  <2>5. t \notin doubled => submissions[t] = None /\ WorksOn(t) = {h}
    BY <1>m, <2>2 DEF UploadsAgree
  <2>6. GradedFileIsAccepted' BY <1>m, <2>3, <2>4, <2>5 DEF GradedFileIsAccepted, HandedIn
  <2>7. \A u \in Tasks : WorksOn(u)' = WorksOn(u) BY <2>1, <2>2 DEF WorksOn
  <2>8. ASSUME NEW g \in Handlers, NEW u \in Tasks \ doubled', handlers'[g].task = u
        PROVE  /\ WorksOn(u)' = {g}
               /\ submissions'[u] = None
               /\ handlers'[g].pc = "recording" => files'[u] = handlers'[g].file
    <3>1. handlers[g].task = u BY <2>1, <2>2, <2>8
    <3>2. /\ WorksOn(u) = {g} /\ submissions[u] = None
          /\ handlers[g].pc = "recording" => files[u] = handlers[g].file
      BY <1>m, <2>3, <3>1 DEF UploadsAgree
    <3>3. CASE g = h BY <2>2, <2>3, <2>7, <2>8, <3>2, <3>3
    <3>4. CASE g # h
      <4>1. u # t BY <2>2, <3>2, <3>4 DEF WorksOn
      <4> QED BY <2>1, <2>3, <2>4, <2>7, <3>2, <3>4, <4>1
    <3> QED BY <3>3, <3>4
  <2> QED BY <2>6, <2>8 DEF UploadsAgree
<1>12. ASSUME NEW h \in Handlers, NEW t \in Tasks, RecordTask(h, t)
       PROVE  GradedFileIsAccepted' /\ UploadsAgree'
  <2>1. \A g \in Handlers : g # h => handlers'[g] = handlers[g] BY <1>12, <1>t DEF RecordTask
  <2>2. handlers'[h].task = None BY <1>12, <1>t DEF RecordTask, AfterTask, AfterSubmission
  <2>3. UNCHANGED <<files, doubled>> BY <1>12 DEF RecordTask
  <2>4. \A u \in Tasks : u # t => submissions'[u] = submissions[u]
    BY <1>12, <1>t DEF RecordTask
  <2>5. submissions'[t] = handlers[h].file BY <1>12, <1>t DEF RecordTask
  <2>6. t \notin doubled => files[t] = handlers[h].file /\ WorksOn(t) = {h}
    BY <1>12, <1>m DEF RecordTask, UploadsAgree
  <2>7. GradedFileIsAccepted'
    BY <1>m, <2>3, <2>4, <2>5, <2>6 DEF GradedFileIsAccepted, HandedIn
  <2>8. ASSUME NEW g \in Handlers, NEW u \in Tasks \ doubled', handlers'[g].task = u
        PROVE  /\ WorksOn(u)' = {g}
               /\ submissions'[u] = None
               /\ handlers'[g].pc = "recording" => files'[u] = handlers'[g].file
    <3>1. g # h /\ handlers[g].task = u BY <2>1, <2>2, <2>8, ConstantsAssumption
    <3>2. /\ WorksOn(u) = {g} /\ submissions[u] = None
          /\ handlers[g].pc = "recording" => files[u] = handlers[g].file
      BY <1>m, <2>3, <3>1 DEF UploadsAgree
    <3>3. u # t BY <2>3, <2>6, <3>1, <3>2
    <3>4. WorksOn(u)' = {g} BY <2>1, <2>2, <2>8, <3>1, <3>2, ConstantsAssumption DEF WorksOn
    <3> QED BY <2>1, <2>3, <2>4, <3>1, <3>2, <3>3, <3>4
  <2> QED BY <2>7, <2>8 DEF UploadsAgree
<1> QED BY NextCases, <1>1, <1>2, <1>3, <1>4, <1>5, <1>8, <1>9, <1>10, <1>11, <1>12 DEF Cases

-----------------------------------------------------------------------------
(* The theorems.                                                           *)

\* The inductive invariant: types, the promise about completed courses, the files,
\* and what the handlers that are at work have read.
THEOREM CompletionInvariance == Spec => []IInv
<1>1. IInv /\ [Next]_vars => IInv'
  <2>1. IInv => TypeOK BY DEF IInv
  <2> QED BY <2>1, TypeKept, RequestKept, UploadsKept DEF IInv
<1> QED BY InitIInv, <1>1, PTL DEF Spec

\* Type correctness: no handler writes a row the tables would refuse.
THEOREM CompletionTypeCorrect == Spec => []TypeOK
<1>1. IInv => TypeOK BY DEF IInv
<1> QED BY <1>1, CompletionInvariance, PTL

\* While a request is in progress and its course complete, some submission is on its
\* way to issue the certificate, however the last submissions overlap, unless one of
\* them failed or the request was opened when the course already was complete.
THEOREM NoCompletionIsMissed == Spec => []NoCompletionMissed
<1>1. IInv => NoCompletionMissed BY DEF IInv
<1> QED BY <1>1, CompletionInvariance, PTL

\* The file stored for a task that is handed in is the file of the submission, unless
\* two requests handed in the task at once.
THEOREM GradedFilesAreAccepted == Spec => []GradedFileIsAccepted
<1>1. IInv => GradedFileIsAccepted BY DEF IInv
<1> QED BY <1>1, CompletionInvariance, PTL
=============================================================================
