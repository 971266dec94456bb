SPECIFICATION Spec
CONSTANTS
  a1 = a1  t1 = t1  t2 = t2  f1 = f1  f2 = f2
  r1 = r1  r2 = r2  r3 = r3  h1 = h1  h2 = h2
  None = None
  Assessments <- OneAssessment
  Tasks <- TwoTasks
  Files <- TwoFiles
  Requests <- ThreeRequests
  Handlers <- TwoHandlers
SYMMETRY Symmetry
INVARIANTS TypeOK NoCompletionMissed GradedFileIsAccepted
