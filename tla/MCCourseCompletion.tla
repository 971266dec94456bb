-------------------------- MODULE MCCourseCompletion --------------------------
(* Small instances of CourseCompletion for TLC. *)
EXTENDS CourseCompletion, TLC

CONSTANTS a1, t1, t2, f1, f2, r1, r2, r3, h1, h2

NoAssessment == {}
OneAssessment == {a1}
OneTask == {t1}
TwoTasks == {t1, t2}
TwoFiles == {f1, f2}
OneFile == {f1}
ThreeRequests == {r1, r2, r3}
TwoHandlers == {h1, h2}

Symmetry == Permutations({t1, t2}) \union Permutations({f1, f2})
              \union Permutations({r1, r2, r3}) \union Permutations({h1, h2})
=============================================================================
