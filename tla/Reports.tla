-------------------------------- MODULE Reports --------------------------------
(***************************************************************************)
(* What students and administrators are shown of the state of Assessments: *)
(* the progress of a student, which user_assessment_repository computes in *)
(* two places and certificate_lifecycle reads, and the reports of          *)
(* services/report_service.py on attempts, tasks and enrolments.  They     *)
(* read and change nothing.  (Bound: no report reaches its limit of rows.) *)
(***************************************************************************)
EXTENDS Assessments

-----------------------------------------------------------------------------
(* Progress.                                                               *)

AttemptsOf(u, m) == {a \in AttemptsAt(m) : attempts[a].user = u}
PassedBy(u, m) == \E a \in AttemptsOf(u, m) : attempts[a].passed
ModulesOf(c) == {m \in Modules : CourseOf[m] = c}
TasksOf(m) == {t \in Tasks : ModuleOf[t] = m}

\* A module as get_course_progress and get_all_progress list it.
ModuleItem(u, m) ==
  [module |-> m, questions |-> Cardinality(questions[m]),
   attempts |-> Cardinality(AttemptsOf(u, m)), passed |-> PassedBy(u, m),
   tasks |-> Cardinality(TasksOf(m)), submitted |-> Cardinality(TasksOf(m) \intersect HandedIn(u))]

\* A module is complete when its assessment was passed and its tasks handed in: the same
\* three times.
CompletedItem(i) == (i.questions = 0 \/ i.passed) /\ (i.tasks = 0 \/ i.submitted = i.tasks)

\* Tenths of a percent; 0 of nothing.
Percent(part, all) == IF all = 0 THEN 0 ELSE (2 * 1000 * part + all) \div (2 * all)

CompletedOf(u, c) == {m \in ModulesOf(c) : CompletedItem(ModuleItem(u, m))}

\* GET /user-progress/summary/{course_id}, of any course.
CourseProgress(u, c) ==
  [course |-> c, total |-> Cardinality(ModulesOf(c)), completed |-> Cardinality(CompletedOf(u, c)),
   percent |-> Percent(Cardinality(CompletedOf(u, c)), Cardinality(ModulesOf(c)))]

\* Fault of the next definition: the list of all courses forgets the tasks.
CompletedInList_NoTasks(i) == i.questions = 0 \/ i.passed
CompletedInList(i) == (i.questions = 0 \/ i.passed) /\ (i.tasks = 0 \/ i.submitted = i.tasks)

\* GET /user-progress/summary: the courses the student is enrolled in, and the share of all
\* their modules.
AllProgress(u) ==
  LET mine == {c \in Courses : EnrolledIn(u, c)}
      modules == UNION {ModulesOf(c) : c \in mine}
      completed(c) == {m \in ModulesOf(c) : CompletedInList(ModuleItem(u, m))}
  IN [courses |-> {[course |-> c, total |-> Cardinality(ModulesOf(c)),
                    completed |-> Cardinality(completed(c)),
                    percent |-> Percent(Cardinality(completed(c)), Cardinality(ModulesOf(c)))] :
                     c \in mine},
      percent |-> Percent(Cardinality({m \in modules : CompletedInList(ModuleItem(u, m))}),
                          Cardinality(modules))]

\* certificate_lifecycle.is_course_completed.
IsCourseCompleted(u, c) ==
  /\ ModulesOf(c) # {}
  /\ \A m \in ModulesOf(c) :
       LET i == ModuleItem(u, m)
       IN (i.questions = 0 \/ i.passed) /\ (i.tasks = 0 \/ i.submitted = i.tasks)

-----------------------------------------------------------------------------
(* Reports, of a range of days.                                            *)

Ranges == {d .. e : d, e \in Days} \ {{}}

\* Every filter on attempts is one on the day they were finished.
FinishedWithin(a, range) == attempts[a].finished \in range

\* assessment_results: an assessment all of whose attempts are out of the range is left
\* out, one that was never attempted is not.
AssessmentResults(range) ==
  LET within(m) == {a \in AttemptsAt(m) : FinishedWithin(a, range)} IN
  {[module |-> m, attempts |-> Cardinality(within(m)),
    passed |-> Cardinality({a \in within(m) : attempts[a].passed})] :
     m \in {n \in Modules : assessments[n] # NoAssessment
                              /\ (within(n) # {} \/ AttemptsAt(n) = {})}}

\* assessment_attempts_history numbers the attempts it lists of each user at each assessment
\* in the order they were started.  (Fault: attempts of the staff are not listed.)
HistoryOf_Students(range) ==
  {a \in DOMAIN attempts : FinishedWithin(a, range) /\ attempts[a].user \in Students}
HistoryOf(range) == {a \in DOMAIN attempts : FinishedWithin(a, range)}
AttemptsHistory(range) ==
  LET listed == HistoryOf(range) IN
  {[attempt |-> a,
    number |-> Cardinality({b \in listed : b <= a /\ attempts[b].user = attempts[a].user
                                                  /\ attempts[b].module = attempts[a].module})] :
     a \in listed}

\* task_grades and task_submissions_rate, the latter in hundredths of a percent.
TaskGrades(range) == {s \in submissions : s.day \in range}
TaskSubmissionsRate(range) ==
  LET tasks(c) == {t \in Tasks : CourseOf[ModuleOf[t]] = c}
      handed(c) == {s \in TaskGrades(range) : s.task \in tasks(c)}
  IN {[course |-> c, tasks |-> Cardinality(tasks(c)), handed |-> Cardinality(handed(c)),
       percent |-> (10000 * Cardinality(handed(c))) \div Cardinality(tasks(c))] :
        c \in {d \in Courses : tasks(d) # {}}}

\* courses_assigned_by_user, top_courses, and the enrolments of activity_monthly, with a
\* day for a month.
EnrolledWithin(range) == {e \in enrolled : e.day \in range}
CoursesAssigned(range) ==
  {[user |-> u, total |-> Cardinality({e \in EnrolledWithin(range) : e.user = u})] :
     u \in {e.user : e \in EnrolledWithin(range)}}
TopCourses(range) ==
  {[course |-> c, enrolled |-> Cardinality({e \in EnrolledWithin(range) : e.course = c})] :
     c \in {e.course : e \in EnrolledWithin(range)}}
Activity(range) ==
  {[day |-> d, enrolled |-> Cardinality({e \in enrolled : e.day = d})] :
     d \in {e.day : e \in EnrolledWithin(range)}}

-----------------------------------------------------------------------------
(* Properties.                                                             *)

\* What a student is shown of a course is the same in either list, and it is complete when
\* his certificate may be issued: when all that is asked of him was passed and handed in,
\* whatever was edited, deleted or created meanwhile.  (A percent is rounded to tenths, so
\* that one of 2000 is missing and it is full already: larger courses are excepted.)
ProgressAgrees ==
  \A u \in Students :
    LET all == AllProgress(u) IN
    \A c \in Courses :
      LET shown == CourseProgress(u, c)
          complete == IsCourseCompleted(u, c)
      IN
      /\ EnrolledIn(u, c) => shown \in all.courses
      /\ shown.total < 2000 => (shown.percent = 1000 <=> complete)
      /\ complete => \A m \in ModulesOf(c) : /\ questions[m] = {} \/ PassedBy(u, m)
                                            /\ TasksOf(m) \subseteq HandedIn(u)
      /\ /\ all.percent = 1000 /\ Cardinality(Modules) < 2000
         /\ EnrolledIn(u, c) /\ ModulesOf(c) # {}
         => complete

\* The reports of one range agree with one another and with the students' progress: an
\* assessment has as many attempts as the history lists, somebody passed it exactly when
\* some user's progress says so, attempts are numbered without a gap, and courses,
\* students and days count the same enrolments.
ReportsAgree ==
  \A range \in Ranges :
    LET history == AttemptsHistory(range)
        top == SumFunction([r \in TopCourses(range) |-> r.enrolled])
    IN
    /\ \A r \in AssessmentResults(range) :
         LET somebody == \E u \in Users : PassedBy(u, r.module) IN
         /\ r.attempts = Cardinality({l \in history : attempts[l.attempt].module = r.module})
         /\ r.passed > 0 => somebody
         /\ range = Days /\ somebody => r.passed > 0
    /\ \A u \in Users, m \in Modules :
         LET mine == {l \in history : l.attempt \in AttemptsOf(u, m)}
         IN {l.number : l \in mine} = 1 .. Cardinality(mine)
    /\ SumFunction([r \in TaskSubmissionsRate(range) |-> r.handed])
         = Cardinality(TaskGrades(range))
    /\ SumFunction([r \in CoursesAssigned(range) |-> r.total]) = top
    /\ SumFunction([r \in Activity(range) |-> r.enrolled]) = top
=============================================================================
