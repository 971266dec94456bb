------------------------------- MODULE MCReports -------------------------------
(* Small instances of Assessments and Reports for TLC. *)
EXTENDS Reports, TLC

CONSTANTS c1, c2, m1, m2, t1, e1, e2, e3, q1, q2, q3, q4, q5, ann, ben, h1, h2

TwoCourses == {c1, c2}
TwoModules == {m1, m2}
OneTask == {t1}
CourseOfModule == m1 :> c1 @@ m2 :> c1
ModuleOfTask == t1 :> m1
ThreeEdits == {e1, e2, e3}
FiveQuestions == {q1, q2, q3, q4, q5}
AskedByEdit == e1 :> {q1, q2} @@ e2 :> {q3} @@ e3 :> {q4, q5}
PointsOf == q1 :> 1 @@ q2 :> 2 @@ q3 :> 0 @@ q4 :> 3 @@ q5 :> -1
TwoScores == {66, 70}
TwoAttempts == 1 .. 2
TwoStudents == {ann, ben}
TwoHandlers == {h1, h2}
Symmetric == Permutations(TwoStudents) \union Permutations(TwoHandlers)

\* Edits that meet attempts of the teacher, what the students are shown of one assessment and
\* of their tasks, and of enrolments and tasks: explored apart.
Busy == {h \in Handlers : handlers[h] # Idle}
OnlyEdits ==
  /\ enrolled \union submissions = {}
  /\ started <= 1
  /\ today = 1
  /\ assessments[m2] = NoAssessment
  /\ \A h \in Busy : handlers[h].module # m2
OnlyProgress ==
  /\ edited \subseteq {e1}
  /\ assessments[m1].score # 70
  /\ assessments[m2] = NoAssessment
  /\ Cardinality(Busy) <= 1
  /\ \A h \in Busy : handlers[h].module # m2
  /\ \A e \in enrolled : e.course = c1 /\ e.day = 1
OnlyEnrolments ==
  /\ edited = {}
OneSubject == OnlyEdits \/ OnlyProgress \/ OnlyEnrolments
=============================================================================
