------------------------------ MODULE Assessments ------------------------------
(***************************************************************************)
(* The assessment of a module, its edits and attempts, and what is told    *)
(* about them: endpoints/module_assessments.py, the repositories           *)
(* module_assessment and user_assessment, and the reports of               *)
(* services/report_service.py on attempts, tasks and enrolments.           *)
(*                                                                         *)
(* An edit replaces all questions by new ones; which ones to delete it has *)
(* read before it takes any lock, and the passing score is written only if *)
(* it differs from the one it read.  An attempt is graded on the           *)
(* assessment as its request read it, first the row and then its           *)
(* questions; the foreign keys of its answers are looked up when they are  *)
(* inserted.  Any request may be cut short and is rolled back.             *)
(***************************************************************************)
EXTENDS Integers, FiniteSetsExt

CONSTANTS
  Courses, Modules, Tasks,
  CourseOf,     \* the course of each module
  ModuleOf,     \* the module of each task, through its lesson
  Edits,        \* requests that create or edit an assessment, each made once
  Questions,    \* rows of questions, used once
  Asked,        \* the questions each edit writes
  Points,       \* of each question, of any sign
  Scores,       \* passing scores an editor may choose
  Attempts,     \* ids of attempts, in the order they are started
  Students,
  Teacher,      \* administrators and the owner, who may also take an assessment
  LastDay,      \* bound on the days
  Handlers,     \* concurrent requests of the API
  None          \* null

Days == 1 .. LastDay
Users == Students \union {Teacher}

ASSUME ConstantsAssumption ==
  /\ CourseOf \in [Modules -> Courses]
  /\ ModuleOf \in [Tasks -> Modules]
  /\ Asked \in [Edits -> SUBSET Questions]
  /\ \A d \in Edits : Asked[d] # {} /\ IsFiniteSet(Asked[d])
  /\ \A d, e \in Edits : d # e => Asked[d] \intersect Asked[e] = {}
  /\ Points \in [Questions -> Int]
  /\ Scores \subseteq 1 .. 100
  /\ Attempts \subseteq Nat \ {0}
  /\ IsFiniteSet(Modules) /\ IsFiniteSet(Tasks)
  /\ LastDay \in Nat \ {0}
  /\ None \notin Edits \union Nat \union Modules \union Users

\* An assessment is known by the edit that created it.
AssessmentRecord == [id: Edits \union {None}, score: Scores \union {None}]
NoAssessment == [id |-> None, score |-> None]

\* A score in hundredths of a percent, of three digits before the point.
Columns == -99999 .. 99999
AttemptRecord ==
  [user: Users, module: Modules, score: Columns, passed: BOOLEAN, finished: Days]
Attempt(u, m, s, p, d) == [user |-> u, module |-> m, score |-> s, passed |-> p, finished |-> d]

\* pc = "editing": the assessment was read, or that there is none; "replacing": its
\* present questions were read and are being replaced; "deleting": it was read, and the
\* commit of its deletion is due; "opening": it was read for an attempt; "taking": so were
\* its questions, and the attempt has an id.
\* read: the assessment it read; questions: those it read; edit, score: what an editor
\* writes; late: an edit was committed between an editor's reading of the questions and
\* his commit, or between a student's readings of the two (history).
HandlerRecord ==
  [pc: {"idle", "editing", "replacing", "deleting", "opening", "taking"}, module: Modules \union {None},
   read: AssessmentRecord, questions: SUBSET Questions, edit: Edits \union {None},
   score: Scores \union {None}, user: Users \union {None}, attempt: Attempts \union {None},
   late: BOOLEAN]
Idle ==
  [pc |-> "idle", module |-> None, read |-> NoAssessment, questions |-> {}, edit |-> None,
   score |-> None, user |-> None, attempt |-> None, late |-> FALSE]

VARIABLES
  assessments,  \* module_assessments of each module
  questions,    \* assessment_questions of each module
  attempts,     \* user_assessment_attempts, by id
  answers,      \* user_assessment_answers: attempt, question and is_correct
  submissions,  \* task_submissions: user, task and day
  enrolled,     \* course_enrollments: user, course and day
  today,
  handlers,     \* the requests being served
  edited,       \* edits that were made (bound)
  started,      \* the last id of an attempt
  tangled       \* modules with questions of two edits that missed one another (history)

tests == <<assessments, questions>>
results == <<attempts, answers, started>>
students == <<submissions, enrolled, today>>
vars == <<tests, results, students, handlers, edited, tangled>>

NoAttempts == [a \in {} |-> None]

Init ==
  /\ assessments = [m \in Modules |-> NoAssessment]
  /\ questions = [m \in Modules |-> {}]
  /\ attempts = NoAttempts
  /\ answers = {}
  /\ submissions = {}
  /\ enrolled = {}
  /\ today = 1
  /\ handlers = [h \in Handlers |-> Idle]
  /\ edited = {}
  /\ started = 0
  /\ tangled = {}

Now(h, pc) == handlers[h].pc = pc
Becomes(h, record) == handlers' = [handlers EXCEPT ![h] = record]

\* The assessment a request read is still there.
Stands(h) == assessments[handlers[h].module].id = handlers[h].read.id /\ handlers[h].read.id # None

\* A request dies or is refused, and nothing of it stays.
Fail(h) ==
  /\ ~Now(h, "idle")
  /\ Becomes(h, Idle)
  /\ UNCHANGED <<tests, results, students, edited, tangled>>

-----------------------------------------------------------------------------
(* The editor.                                                             *)

\* Fault of the definitions below: an edit replaces the questions it read first.
Replaced_FirstRead(h) == handlers[h].questions

\* POST /modules/{id}/assessment: what is there is read, with its questions.
ReadForEdit(h, m, e, score) ==
  /\ Now(h, "idle")
  /\ e \notin edited
  /\ edited' = edited \union {e}
  /\ Becomes(h, [Idle EXCEPT !.pc = "editing", !.module = m, !.read = assessments[m],
                             !.questions = questions[m], !.edit = e, !.score = score])
  /\ UNCHANGED <<tests, results, students, tangled>>

\* create_with_questions: one assessment to a module, or the request fails.
Create(h) ==
  LET m == handlers[h].module IN
  /\ Now(h, "editing")
  /\ handlers[h].read = NoAssessment
  /\ assessments[m] = NoAssessment
  /\ assessments' = [assessments EXCEPT ![m] =
       [id |-> handlers[h].edit, score |-> handlers[h].score]]
  /\ questions' = [questions EXCEPT ![m] = Asked[handlers[h].edit]]
  /\ Becomes(h, Idle)
  /\ UNCHANGED <<results, students, edited, tangled>>

\* The questions to be deleted are read once more.
Replaced(h) == questions[handlers[h].module]

\* update_with_questions, up to the flush, which comes after this reading.
BeginReplace(h) ==
  /\ Now(h, "editing")
  /\ Stands(h)
  /\ Becomes(h, [handlers[h] EXCEPT !.pc = "replacing", !.questions = Replaced(h)])
  /\ UNCHANGED <<tests, results, students, edited, tangled>>

\* The passing score goes to the database if it is not the one that was read.
Writes(h) == handlers[h].score # handlers[h].read.score

\* The rest, and the commit.  Rows that somebody else deleted are passed over.
Replace(h) ==
  LET m == handlers[h].module
      old == handlers[h].questions
  IN
  /\ Now(h, "replacing")
  /\ Stands(h)
  /\ assessments' = [assessments EXCEPT ![m].score = IF Writes(h) THEN handlers[h].score ELSE @]
  /\ questions' = [questions EXCEPT ![m] = (@ \ old) \union Asked[handlers[h].edit]]
  /\ answers' = {r \in answers : r.question \notin old}
  /\ tangled' = IF handlers[h].late THEN tangled \union {m} ELSE tangled \ {m}
  /\ handlers' = [g \in Handlers |->
       IF g = h THEN Idle
       ELSE IF handlers[g].module = m /\ handlers[g].pc \in {"replacing", "opening"}
            THEN [handlers[g] EXCEPT !.late = TRUE]
            ELSE handlers[g]]
  /\ UNCHANGED <<attempts, started, students, edited>>

\* DELETE /assessments/{id}; the session commits after the answer was sent.
ReadForDelete(h, m) ==
  /\ Now(h, "idle")
  /\ assessments[m] # NoAssessment
  /\ Becomes(h, [Idle EXCEPT !.pc = "deleting", !.module = m, !.read = assessments[m]])
  /\ UNCHANGED <<tests, results, students, edited, tangled>>

\* The questions and attempts go with it.
AttemptsAt(m) == {a \in DOMAIN attempts : attempts[a].module = m}
Delete(h) ==
  LET m == handlers[h].module IN
  /\ Now(h, "deleting")
  /\ Stands(h)
  /\ assessments' = [assessments EXCEPT ![m] = NoAssessment]
  /\ questions' = [questions EXCEPT ![m] = {}]
  /\ attempts' = [a \in DOMAIN attempts \ AttemptsAt(m) |-> attempts[a]]
  /\ answers' = {r \in answers : r.attempt \notin AttemptsAt(m)}
  /\ tangled' = tangled \ {m}
  /\ Becomes(h, Idle)
  /\ UNCHANGED <<started, students, edited>>

-----------------------------------------------------------------------------
(* Attempts.                                                               *)

\* Faults of the definitions below: answers have no foreign keys; the points of what was
\* answered are all there is to earn.
MayRefer_Anything(m, qs) == TRUE
Earnable_Answered(all, answered) == answered

EnrolledIn(u, c) == \E e \in enrolled : e.user = u /\ e.course = c
MayTake(u, m) == u = Teacher \/ EnrolledIn(u, CourseOf[m])

Worth(qs) == SumFunctionOnSet(Points, qs)

\* Percent of the points, rounded to hundredths; 0 if there are none to earn.
Score(right, all) ==
  IF Worth(all) > 0 THEN (2 * 10000 * Worth(right) + Worth(all)) \div (2 * Worth(all)) ELSE 0

\* Questions left unanswered count as well.
Earnable(all, answered) == all

\* POST /assessments/{id}/submit: the assessment is read.
Open(h, u, m) ==
  /\ Now(h, "idle")
  /\ assessments[m] # NoAssessment
  /\ Becomes(h, [Idle EXCEPT !.pc = "opening", !.module = m, !.read = assessments[m], !.user = u])
  /\ UNCHANGED <<tests, results, students, edited, tangled>>

\* Its questions are read by a statement of their own, and the attempt gets its id.  What
\* is read later of either is not looked at: the session has them already.
Take(h) ==
  LET m == handlers[h].module IN
  /\ Now(h, "opening")
  /\ Stands(h)
  /\ MayTake(handlers[h].user, m)
  /\ started + 1 \in Attempts
  /\ started' = started + 1
  /\ Becomes(h, [handlers[h] EXCEPT !.pc = "taking", !.questions = questions[m],
                                    !.attempt = started + 1])
  /\ UNCHANGED <<tests, attempts, answers, students, edited, tangled>>

\* The foreign key of an answer.
MayRefer(m, qs) == qs \subseteq questions[m]

\* submit_answers and the commit: each answer names a question that was read and one of its
\* options, and a question is answered once at most; not all have to be.  A score that its
\* column does not hold is refused.
Finish(h, answered, right) ==
  LET m == handlers[h].module
      all == handlers[h].questions
      score == Score(right, Earnable(all, answered))
      passed == score >= 100 * handlers[h].read.score
  IN
  /\ Now(h, "taking")
  /\ Stands(h)
  /\ answered \subseteq all
  /\ right \subseteq answered
  /\ MayRefer(m, answered)
  /\ score \in Columns
  /\ attempts' = [a \in DOMAIN attempts \union {handlers[h].attempt} |->
       IF a = handlers[h].attempt THEN Attempt(handlers[h].user, m, score, passed, today)
       ELSE attempts[a]]
  /\ answers' = answers \union
       {[attempt |-> handlers[h].attempt, question |-> q, correct |-> q \in right] : q \in answered}
  /\ Becomes(h, Idle)
  /\ UNCHANGED <<tests, started, students, edited, tangled>>

-----------------------------------------------------------------------------
(* What else the students do.                                              *)

Enrol(u, c) ==
  /\ ~EnrolledIn(u, c)
  /\ enrolled' = enrolled \union {[user |-> u, course |-> c, day |-> today]}
  /\ UNCHANGED <<tests, results, submissions, today, handlers, edited, tangled>>

HandedIn(u) == {s.task : s \in {r \in submissions : r.user = u}}
SubmitTask(u, t) ==
  /\ EnrolledIn(u, CourseOf[ModuleOf[t]])
  /\ t \notin HandedIn(u)
  /\ submissions' = submissions \union {[user |-> u, task |-> t, day |-> today]}
  /\ UNCHANGED <<tests, results, enrolled, today, handlers, edited, tangled>>

NextDay ==
  /\ today < LastDay
  /\ today' = today + 1
  /\ UNCHANGED <<tests, results, submissions, enrolled, handlers, edited, tangled>>

EditorStep(h) ==
  \/ \E m \in Modules : ReadForDelete(h, m)
  \/ \E m \in Modules, e \in Edits, score \in Scores : ReadForEdit(h, m, e, score)
  \/ Create(h)
  \/ BeginReplace(h)
  \/ Replace(h)
  \/ Delete(h)

StudentStep(u) ==
  \/ \E c \in Courses : Enrol(u, c)
  \/ \E t \in Tasks : SubmitTask(u, t)

Next ==
  \/ \E h \in Handlers :
       \/ EditorStep(h)
       \/ \E u \in Users, m \in Modules : Open(h, u, m)
       \/ Take(h)
       \/ \E answered \in SUBSET handlers[h].questions :
            \E right \in SUBSET answered : Finish(h, answered, right)
       \/ Fail(h)
  \/ \E u \in Students : StudentStep(u)
  \/ NextDay

Spec == Init /\ [][Next]_vars

-----------------------------------------------------------------------------
(* Properties.                                                             *)

\* Rows and requests have the values their columns and their code allow.
TypeOK ==
  /\ assessments \in [Modules -> AssessmentRecord]
  /\ questions \in [Modules -> SUBSET Questions]
  /\ DOMAIN attempts \subseteq Attempts
  /\ \A a \in DOMAIN attempts : attempts[a] \in AttemptRecord
  /\ answers \subseteq [attempt: DOMAIN attempts, question: UNION Range(questions), correct: BOOLEAN]
  /\ submissions \subseteq [user: Students, task: Tasks, day: Days]
  /\ enrolled \subseteq [user: Students, course: Courses, day: Days]
  /\ today \in Days
  /\ handlers \in [Handlers -> HandlerRecord]
  /\ edited \subseteq Edits
  /\ started \in Attempts \union {0}
  /\ tangled \subseteq Modules

\* The questions of an assessment were all written by one edit, unless an edit was committed
\* between another's reading of the questions and its commit (update_with_questions).
QuestionsOfOneEdit ==
  \A m \in Modules \ tangled :
    IF assessments[m] = NoAssessment THEN questions[m] = {}
    ELSE \E e \in edited : questions[m] = Asked[e]

\* An attempt that passes was earned on the questions that are there when it is recorded and
\* at the passing score that is there, however the assessment was edited since the student
\* began, unless edits overlapped; an edit between the two SELECTs of the request leaves it
\* the passing score of before (submit_answers grades on what its request read first).
Earned(a) ==
  {q \in Questions : [attempt |-> a, question |-> q, correct |-> TRUE] \in answers'}
PassesAsAsked ==
  [][\A h \in Handlers :
       LET q == handlers[h]
           now == questions[q.module]
           passing == IF q.late THEN q.read.score ELSE assessments[q.module].score
       IN
       /\ q.attempt \in DOMAIN attempts' \ DOMAIN attempts
       /\ attempts'[q.attempt].passed
       /\ q.module \notin tangled
       => /\ Earned(q.attempt) \subseteq now
          /\ Score(Earned(q.attempt), now) >= 100 * passing]_vars

-----------------------------------------------------------------------------
(* The inductive invariant.                                                *)

\* There is no question without an assessment, and rows are finitely many.
RowsAgree ==
  /\ \A m \in Modules :
       /\ assessments[m].id = None =>
            assessments[m] = NoAssessment /\ questions[m] = {} /\ m \notin tangled
       /\ assessments[m].id # None => assessments[m].score \in Scores
       /\ IsFiniteSet(questions[m])
  /\ IsFiniteSet(enrolled) /\ IsFiniteSet(submissions)

\* Answers are to questions of the assessment that was attempted.
AnswersAgree ==
  /\ DOMAIN attempts \subseteq 1 .. started
  /\ \A r \in answers :
       r.attempt \in DOMAIN attempts /\ r.question \in questions[attempts[r.attempt].module]

\* What a request has read and is about to write; no two write the same.
RequestsAgree ==
  \A h \in Handlers :
    LET q == handlers[h] IN
    /\ q.pc # "idle" => q.module \in Modules
    /\ q.pc \in {"editing", "replacing"} => q.edit \in edited /\ q.score \in Scores
    /\ q.edit # None => q.pc \in {"editing", "replacing"}
    /\ q.pc \in {"opening", "taking"} => q.user \in Users
    /\ q.pc = "taking" => q.attempt \in (1 .. started) \ DOMAIN attempts
    /\ q.attempt # None => q.pc = "taking"
    /\ q.read.id # None => q.read.score \in Scores
    /\ IsFiniteSet(q.questions)
    /\ \A g \in Handlers \ {h} :
         /\ q.edit # None => handlers[g].edit # q.edit
         /\ q.attempt # None => handlers[g].attempt # q.attempt

\* Nobody has read anything yet of an edit that was not committed.
Pending(e) == e \notin edited \/ \E h \in Handlers : handlers[h].edit = e
EditsAgree ==
  \A e \in Edits :
    Pending(e) =>
      /\ \A m \in Modules : assessments[m].id # e /\ Asked[e] \intersect questions[m] = {}
      /\ \A h \in Handlers :
           handlers[h].read.id # e /\ Asked[e] \intersect handlers[h].questions = {}

\* What a request read is there still, unless an edit was committed meanwhile: then the
\* request is marked, or of the questions a student read there is none left.
ReadingsAgree ==
  \A h \in Handlers :
    LET q == handlers[h]
        now == questions[q.module]
    IN
    /\ q.pc = "replacing" /\ Stands(h) /\ ~q.late => now = q.questions
    /\ q.pc = "opening" /\ Stands(h) /\ ~q.late => assessments[q.module] = q.read
    /\ q.pc = "taking" /\ Stands(h) =>
         \/ now = q.questions /\ (q.late \/ assessments[q.module] = q.read)
         \/ q.module \in tangled
         \/ now \intersect q.questions = {}

IInv ==
  TypeOK /\ RowsAgree /\ AnswersAgree /\ RequestsAgree /\ EditsAgree /\ ReadingsAgree
    /\ QuestionsOfOneEdit
=============================================================================
