\* Three edits and two attempts in two concurrent requests; two courses, two students, two
\* days.
CONSTANTS
  c1 = c1  c2 = c2  m1 = m1  m2 = m2  t1 = t1  e1 = e1  e2 = e2  e3 = e3
  q1 = q1  q2 = q2  q3 = q3  q4 = q4  q5 = q5  ann = ann  ben = ben  h1 = h1  h2 = h2
  Courses <- TwoCourses
  Modules <- TwoModules
  Tasks <- OneTask
  CourseOf <- CourseOfModule
  ModuleOf <- ModuleOfTask
  Edits <- ThreeEdits
  Questions <- FiveQuestions
  Asked <- AskedByEdit
  Points <- PointsOf
  Scores <- TwoScores
  Attempts <- TwoAttempts
  Students <- TwoStudents
  Teacher = Teacher
  LastDay = 2
  Handlers <- TwoHandlers
  None = None
SPECIFICATION Spec
SYMMETRY Symmetric
CONSTRAINT OneSubject
CHECK_DEADLOCK FALSE
INVARIANTS TypeOK QuestionsOfOneEdit ProgressAgrees ReportsAgree
PROPERTY PassesAsAsked
