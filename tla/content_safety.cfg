\* A course with a module of two lessons, a file and a task with the student's
\* submission, and two concurrent requests.
CONSTANTS
  c1 = c1  m1 = m1  l1 = l1  l2 = l2  k1 = k1  f1 = f1  s1 = s1
  ann = ann  ben = ben  pdf = pdf  i1 = i1  i2 = i2  i3 = i3  elsewhere = elsewhere  h1 = h1  h2 = h2
  Courses <- OneCourse
  Modules <- OneModule
  Lessons <- TwoLessons
  Tasks <- OneTask
  Files <- OneFile
  Submissions <- OneSubmission
  Parent <- ParentOf
  Teachers <- TwoTeachers
  Admin = Admin
  Student = Student
  Anonymous = Anonymous
  Extensions <- OneExtension
  Images <- ThreeImages
  Given <- TwoTexts
  Scores <- ThreeScores
  PassingScore = 70000
  Handlers <- TwoHandlers
  None = None
SPECIFICATION Spec
SYMMETRY Symmetric
CONSTRAINT OneSubject
CHECK_DEADLOCK FALSE
INVARIANTS TypeOK NothingWithoutItsParent BucketAgrees
  GradesAgree DeletedIsGoneUnlessSubmitted
