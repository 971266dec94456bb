---------------------------- MODULE MCCourseContent ----------------------------
(* Small instances of CourseContent for TLC. *)
EXTENDS CourseContent, TLC

CONSTANTS c1, m1, l1, l2, k1, f1, s1, ann, ben, pdf, i1, i2, i3, elsewhere, h1, h2

OneCourse == {c1}
OneModule == {m1}
TwoLessons == {l1, l2}
OneTask == {k1}
OneFile == {f1}
OneSubmission == {s1}
ParentOf == m1 :> c1 @@ l1 :> m1 @@ l2 :> m1 @@ k1 :> l1 @@ f1 :> l1 @@ s1 :> k1
TwoTeachers == {ann, ben}
OneExtension == {pdf}
ThreeImages == {i1, i2, i3}
ThreeScores == {69000, 69996, 70000}
TwoTexts == {FileName(k1, l1, pdf), elsewhere}
TwoHandlers == {h1, h2}
Symmetric == Permutations(ThreeImages) \union Permutations(TwoHandlers)

\* Lists, images, the files of tasks and lessons, and what the student does meet in no
\* row and are run apart.
OnlyLists ==
  /\ rows \subseteq Courses
  /\ \A h \in Handlers : handlers[h] = Idle
OnlyImages ==
  /\ rows \union gone \subseteq {c1}
  /\ teacher[c1] # ben
  /\ enrolled \union published = {}
NoImages ==
  /\ teacher[c1] = ann \/ c1 \notin rows
  /\ published \union left \union (objects \intersect ImageNames(c1)) = {}
  /\ url[c1] = None
  /\ \A h \in Handlers : handlers[h].pc \notin {"picturing", "unpicturing"}
OnlyFiles ==
  /\ NoImages
  /\ enrolled \union progress = {}
  /\ s1 \notin rows \union gone
OnlyStudies ==
  /\ NoImages
  /\ objects = {} /\ url[k1] = None
  /\ {l2, f1} \intersect (rows \union gone) = {}
  /\ \A h \in Handlers : handlers[h].pc # "uploading"
Few == Cardinality(told) <= 1 /\ Cardinality(clashed) <= 1
OneSubject == Few /\ (OnlyLists \/ OnlyImages \/ OnlyFiles \/ OnlyStudies)
=============================================================================
