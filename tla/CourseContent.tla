----------------------------- MODULE CourseContent -----------------------------
(***************************************************************************)
(* What a course is made of, and who may see and change it: courses.py,    *)
(* modules.py, lessons.py, tasks.py, lesson_files.py, user_progress.py,    *)
(* course_enrollments.py, the grading in task_submissions.py, the          *)
(* repositories they call, and services/access.py and course_service.py.   *)
(* Students share no rows here, so that one stands for all.                *)
(*                                                                         *)
(* A request reads, then writes and commits in one statement, except where *)
(* it waits for the object storage, which takes part in no transaction.    *)
(* The session commits after the response was sent, and a deletion is only *)
(* sent to the database by that commit.                                    *)
(***************************************************************************)
EXTENDS Naturals, FiniteSets

CONSTANTS
  Courses, Modules, Lessons, Tasks, Files,  \* ids of rows, used once
  Submissions,  \* the student's submissions, one to a task at most
  Parent,       \* the row each of them but a course belongs to, by its foreign key
  Teachers,
  Admin,        \* administrators and superusers
  Student,
  Anonymous,
  Extensions,   \* of uploaded files
  Images,       \* random parts of the names of course images
  Given,        \* texts that clients send as the file_url of a task
  Scores,       \* grades a teacher may give, in thousandths of a point
  PassingScore, \* 70 points
  Handlers,     \* concurrent requests of the API
  None          \* null

Contents == Modules \union Lessons \union Tasks \union Files \union Submissions
Rows == Courses \union Contents
Holders == Courses \union Tasks \union Files

\* Object names: of a course's image; of a task and of a lesson's file, which takes the
\* lesson from the path of the request and not from the row.
ImageName(c, image) == <<c, image>>
FileName(n, lesson, extension) == <<lesson, n, extension>>
ImageNames(c) == {ImageName(c, i) : i \in Images}
NamesOf(n) ==
  IF n \in Courses THEN ImageNames(n)
  ELSE {FileName(n, l, e) : l \in Lessons, e \in Extensions}
Names == UNION {NamesOf(n) : n \in Holders}

\* Scores are floats in the request and have two decimals, rounded half up, in the row.
Stored(score) == 10 * ((score + 5) \div 10)

ASSUME ConstantsAssumption ==
  /\ Parent \in [Contents -> Rows]
  /\ \A n \in Contents :
       /\ n \in Modules => Parent[n] \in Courses
       /\ n \in Lessons => Parent[n] \in Modules
       /\ n \in Tasks \union Files => Parent[n] \in Lessons
       /\ n \in Submissions => Parent[n] \in Tasks
  /\ Courses \intersect Contents = {}
  /\ Modules \intersect (Lessons \union Tasks \union Files \union Submissions) = {}
  /\ Lessons \intersect (Tasks \union Files \union Submissions) = {}
  /\ Tasks \intersect (Files \union Submissions) = {}
  /\ Files \intersect Submissions = {}
  /\ Scores \subseteq Nat
  /\ PassingScore \in Nat /\ Stored(PassingScore) = PassingScore
  /\ None \notin Rows \union Teachers /\ None \notin Names \union Given
  /\ None \notin Scores \union {Stored(score) : score \in Scores}

\* The rows above a row, its course among them: no more than the four above a submission.
ParentsOf(ns) == {Parent[n] : n \in ns \intersect Contents}
Above[n \in Rows] ==
  LET one == ParentsOf({n})
      two == ParentsOf(one)
      three == ParentsOf(two)
  IN one \union two \union three \union ParentsOf(three)
Below(n) == {m \in Rows : n \in Above[m]}
CourseOf(n) == CHOOSE c \in Courses : c = n \/ c \in Above[n]

\* Fault: the column passed has no default.
NoGrade_NoDefault == [score |-> None, passed |-> None]
NoGrade == [score |-> None, passed |-> FALSE]
Grades == [score: {Stored(score) : score \in Scores} \union {None}, passed: BOOLEAN]

\* pc = "deleting": the row was read; "answered": 204 was sent and the commit is due;
\* "uploading", "uploaded": the file is not, is in the bucket; "picturing", "pictured":
\* the same of a course's image; "swapped": its row is written, and locked; "settled": the old image
\* is removed; "unpicturing": the course was read and its image is to go; "bare": it is
\* gone; "grading": a submission was read.
\* row: what the request is about; name: the object it reads or writes; old: the image,
\* or the file, that the row it read had; grade, new: the grade it read and it gives.
HandlerRecord ==
  [pc: {"idle", "deleting", "answered", "uploading", "uploaded", "picturing", "pictured",
        "swapped", "settled", "unpicturing", "bare", "grading"},
   row: Rows \union {None}, name: Names \union {None}, old: Names \union Given \union {None},
   grade: Grades, new: Scores \union {None}]
Idle ==
  [pc |-> "idle", row |-> None, name |-> None, old |-> None, grade |-> NoGrade, new |-> None]

VARIABLES
  rows,       \* rows that are there
  gone,       \* ids of rows that were deleted
  teacher,    \* teacher_id of each course
  published,  \* courses whose status is published
  enrolled,   \* courses with the student's enrolment
  progress,   \* lessons with the student's progress
  url,        \* file_url of tasks and files, image_object_key of courses
  grades,     \* score and passed of each submission
  objects,    \* names in the bucket
  handlers,   \* the requests being served
  told,       \* rows whose deletion was answered with 204 (history)
  clashed,    \* rows two requests met at, or one failed at half way (history)
  left        \* images that were lost sight of in such a case (history)

content == <<rows, gone, teacher, published, enrolled, progress>>
files == <<url, objects>>
history == <<told, clashed, left>>
vars == <<content, files, grades, handlers, history>>

Init ==
  /\ rows = {}
  /\ gone = {}
  /\ teacher = [c \in Courses |-> None]
  /\ published = {}
  /\ enrolled = {}
  /\ progress = {}
  /\ url = [n \in Holders |-> None]
  /\ grades = [s \in Submissions |-> NoGrade]
  /\ objects = {}
  /\ handlers = [h \in Handlers |-> Idle]
  /\ told = {}
  /\ clashed = {}
  /\ left = {}

Now(h, pc) == handlers[h].pc = pc
Becomes(h, record) == handlers' = [handlers EXCEPT ![h] = record]

\* A request begins that will go on in another step.
Begin(h, record) ==
  /\ Now(h, "idle")
  /\ Becomes(h, record)
  /\ clashed' = IF \E g \in Handlers : handlers[g].row = record.row
                  THEN clashed \union {record.row} ELSE clashed

-----------------------------------------------------------------------------
(* Who may see and change a course.                                        *)

\* Faults of the definitions below: a child is inserted under a row that is not there; a
\* course has one image name; the old image is never removed; nothing below a row is
\* deleted with it, so that it cannot be; passed is never reset.
MayInsert_Anywhere(n) == TRUE
NewImage_Same(c) == {CHOOSE i \in ImageNames(c) : TRUE}
Superseded_Nothing(h) == {}
Undeletable_WithContent(n) == Below(n) \intersect rows # {}
Passes_Sticky(h) == handlers[h].new >= PassingScore \/ handlers[h].grade.passed

\* The owner, or an administrator, changes a course and all it is made of.
MayManage(u, c) == u = Admin \/ (u \in Teachers /\ teacher[c] = u)

\* require_course_visible.
Visible(actor, c, needContent) ==
  \/ actor = Admin
  \/ actor = Anonymous /\ c \in published
  \/ actor \in Teachers /\ (teacher[c] = actor \/ (~needContent /\ c \in published))
  \/ actor = Student /\ (IF needContent THEN c \in enrolled ELSE c \in published)

\* list_for_actor, but for the catalogue.
Listed(actor) ==
  {c \in Courses \intersect rows :
     \/ actor = Admin
     \/ actor = Anonymous /\ c \in published
     \/ actor \in Teachers /\ teacher[c] = actor
     \/ actor = Student /\ c \in published /\ c \in enrolled}

\* get_course; and the modules, lessons, tasks and files in it, for whoever is logged in.
MayOpen(actor, c) == Visible(actor, c, actor = Student)
MayRead(actor, c) == actor # Anonymous /\ Visible(actor, c, TRUE)

-----------------------------------------------------------------------------
(* Rows.                                                                   *)

\* A course whose new image is written and not committed yet.
Locked(c) == \E g \in Handlers : handlers[g].row = c /\ handlers[g].pc \in {"swapped", "settled"}

\* The row its foreign key names is there; the INSERT waits for one that is being
\* deleted, and fails with it.
MayInsert(n) == Parent[n] \in rows

\* What the ORM and the foreign keys delete with a row.
Cascade(n) == {n} \union Below(n)

CreateCourse(u, c, by, isPublished) ==
  /\ c \notin rows \union gone
  /\ by = u \/ u = Admin
  /\ rows' = rows \union {c}
  /\ teacher' = [teacher EXCEPT ![c] = by]
  /\ published' = IF isPublished THEN published \union {c} ELSE published
  /\ UNCHANGED <<gone, enrolled, progress, files, grades, handlers, history>>

\* A teacher may hand on a course, and an administrator any.
UpdateCourse(u, c, by, isPublished) ==
  /\ c \in rows
  /\ MayManage(u, c)
  /\ teacher' = [teacher EXCEPT ![c] = by]
  /\ published' = IF isPublished THEN published \union {c} ELSE published \ {c}
  /\ UNCHANGED <<rows, gone, enrolled, progress, files, grades, handlers, history>>

\* The deletion of a user leaves his courses without a teacher.
TeacherLeaves(t) ==
  /\ \E c \in Courses : teacher[c] = t
  /\ teacher' = [c \in Courses |-> IF teacher[c] = t THEN None ELSE teacher[c]]
  /\ UNCHANGED <<rows, gone, published, enrolled, progress, files, grades, handlers, history>>

\* A new row.
Insert(n) ==
  /\ n \notin rows \union gone
  /\ MayInsert(n)
  /\ rows' = rows \union {n}
  /\ UNCHANGED <<gone, teacher, published, enrolled, progress, objects, grades, handlers, history>>

InsertBare(n) == Insert(n) /\ UNCHANGED url
CreateModule(u, m) == m \in Modules /\ MayManage(u, CourseOf(m)) /\ InsertBare(m)
CreateLesson(u, l) == l \in Lessons /\ MayManage(u, CourseOf(l)) /\ InsertBare(l)
CreateLessonFile(u, f) == f \in Files /\ MayManage(u, CourseOf(f)) /\ InsertBare(f)

\* A task's file_url is what the client says, and may name nothing.
CreateTask(u, k, given) ==
  /\ k \in Tasks
  /\ MayManage(u, CourseOf(k))
  /\ Insert(k)
  /\ url' = [url EXCEPT ![k] = given]

UpdateTask(u, k, given) ==
  /\ k \in Tasks \intersect rows
  /\ MayManage(u, CourseOf(k))
  /\ url' = [url EXCEPT ![k] = given]
  /\ UNCHANGED <<content, objects, grades, handlers, history>>

\* Only a student's own, of a course he takes; CourseCompletion has the details.
Submit(s) == s \in Submissions /\ CourseOf(s) \in enrolled /\ InsertBare(s)

\* The row is read and the actor is allowed to delete it.
Delete(h, u, n, object) ==
  /\ n \in rows
  /\ MayManage(u, CourseOf(n))
  /\ Begin(h, [Idle EXCEPT !.pc = "deleting", !.row = n, !.old = object])
  /\ UNCHANGED <<content, files, grades, told, left>>

DeleteCourse(h, u, c) == c \in Courses /\ Delete(h, u, c, None)
DeleteModule(h, u, m) == m \in Modules /\ Delete(h, u, m, None)
DeleteLesson(h, u, l) == l \in Lessons /\ Delete(h, u, l, None)
DeleteTask(h, u, k) == k \in Tasks /\ Delete(h, u, k, None)
DeleteLessonFile(h, u, f) == f \in Files /\ Delete(h, u, f, url[f])

\* A lesson's file goes first, if the storage lets it; then the response is sent.
AnswerDelete(h, removed) ==
  LET n == handlers[h].row IN
  /\ Now(h, "deleting")
  /\ objects' = IF removed THEN objects \ {handlers[h].old} ELSE objects
  /\ Becomes(h, [handlers[h] EXCEPT !.pc = "answered"])
  /\ told' = told \union {n}
  /\ UNCHANGED <<content, url, grades, clashed, left>>

\* Before a task is deleted, its submissions are to be detached from it, which their
\* column does not allow.
Undeletable(n) == \E s \in Submissions \intersect rows : n \in Above[s]

\* The commit that follows the response; the session's errors have no one to go to.
CommitDelete(h) ==
  LET n == handlers[h].row
      all == Cascade(n) \intersect rows
  IN /\ Now(h, "answered")
     /\ \A c \in all : ~Locked(c)
     /\ IF Undeletable(n)
          THEN UNCHANGED <<rows, gone, enrolled, progress, published, teacher>>
          ELSE /\ rows' = rows \ all
               /\ gone' = gone \union all
               /\ enrolled' = enrolled \ all
               /\ progress' = progress \ all
               /\ published' = published \ all
               /\ teacher' = [c \in Courses |-> IF c \in all THEN None ELSE teacher[c]]
     /\ Becomes(h, Idle)
     /\ UNCHANGED <<files, grades, history>>

\* By an administrator, by the teacher, or by a payment.
Enrol(c) ==
  /\ c \in Courses \intersect rows
  /\ c \notin enrolled
  /\ enrolled' = enrolled \union {c}
  /\ UNCHANGED <<rows, gone, teacher, published, progress, files, grades, handlers, history>>

Unenrol(c) ==
  /\ c \in enrolled
  /\ enrolled' = enrolled \ {c}
  /\ UNCHANGED <<rows, gone, teacher, published, progress, files, grades, handlers, history>>

\* The student's own, of a course he takes, or for an administrator any.
CreateProgress(actor, l) ==
  /\ l \in Lessons \intersect rows
  /\ l \notin progress
  /\ Visible(actor, CourseOf(l), TRUE)
  /\ progress' = progress \union {l}
  /\ UNCHANGED <<rows, gone, teacher, published, enrolled, files, grades, handlers, history>>

DeleteProgress(l) ==
  /\ l \in progress
  /\ progress' = progress \ {l}
  /\ UNCHANGED <<rows, gone, teacher, published, enrolled, files, grades, handlers, history>>

-----------------------------------------------------------------------------
(* Uploads.                                                                *)

\* The row and the lesson were read, and the file has an extension that is allowed.
UploadFile(h, u, n, lesson, extension) ==
  /\ n \in rows
  /\ lesson \in Lessons \intersect rows
  /\ MayManage(u, CourseOf(lesson))
  /\ Begin(h, [Idle EXCEPT !.pc = "uploading", !.row = n,
                           !.name = FileName(n, lesson, extension), !.old = url[n]])
  /\ UNCHANGED <<content, files, grades, told, left>>

UploadTaskFile(h, u, k, extension) ==
  k \in Tasks /\ UploadFile(h, u, k, Parent[k], extension)

\* The permission is that for the lesson in the path, and the file's row may be
\* another lesson's.
UploadLessonFile(h, u, f, lesson, extension) ==
  f \in Files /\ UploadFile(h, u, f, lesson, extension)

StoreFile(h) ==
  /\ Now(h, "uploading")
  /\ objects' = objects \union {handlers[h].name}
  /\ Becomes(h, [handlers[h] EXCEPT !.pc = "uploaded"])
  /\ UNCHANGED <<content, url, grades, history>>

\* Only a column that differs from what was read is written.
SaveFile(h) ==
  LET q == handlers[h] IN
  /\ Now(h, "uploaded")
  /\ q.row \in rows
  /\ url' = IF q.name = q.old THEN url ELSE [url EXCEPT ![q.row] = q.name]
  /\ Becomes(h, Idle)
  /\ UNCHANGED <<content, objects, grades, history>>

\* Every image gets a name that nothing else has, or had.
NewImage(c) ==
  {i \in ImageNames(c) :
     i \notin objects \union left \union {url[c]}
       \union UNION {{handlers[h].name, handlers[h].old} : h \in Handlers}}

UploadImage(h, u, c, image) ==
  /\ c \in rows
  /\ MayManage(u, c)
  /\ image \in NewImage(c)
  /\ Begin(h, [Idle EXCEPT !.pc = "picturing", !.row = c, !.name = image, !.old = url[c]])
  /\ UNCHANGED <<content, files, grades, told, left>>

StoreImage(h) ==
  /\ Now(h, "picturing")
  /\ objects' = objects \union {handlers[h].name}
  /\ Becomes(h, [handlers[h] EXCEPT !.pc = "pictured"])
  /\ UNCHANGED <<content, url, grades, history>>

\* The row is written and locked; whether it lasts is for the commit to say.
SwapImage(h) ==
  LET c == handlers[h].row IN
  /\ Now(h, "pictured")
  /\ c \in rows
  /\ ~Locked(c)
  /\ Becomes(h, [handlers[h] EXCEPT !.pc = "swapped"])
  /\ UNCHANGED <<content, files, grades, history>>

\* The image the row had when the request read it.
Superseded(h) == {handlers[h].old}

\* It goes, if the storage lets it.
RemoveSuperseded(h, removed) ==
  /\ Now(h, "swapped")
  /\ objects' = IF removed THEN objects \ Superseded(h) ELSE objects
  /\ left' = IF removed THEN left ELSE left \union ({handlers[h].old} \ {None})
  /\ Becomes(h, [handlers[h] EXCEPT !.pc = "settled"])
  /\ UNCHANGED <<content, url, grades, told, clashed>>

\* The commit that follows the response.
CommitImage(h) ==
  /\ Now(h, "settled")
  /\ url' = [url EXCEPT ![handlers[h].row] = handlers[h].name]
  /\ Becomes(h, Idle)
  /\ UNCHANGED <<content, objects, grades, history>>

DeleteImage(h, u, c) ==
  /\ c \in rows
  /\ MayManage(u, c)
  /\ Begin(h, [Idle EXCEPT !.pc = "unpicturing", !.row = c, !.old = url[c]])
  /\ UNCHANGED <<content, files, grades, told, left>>

RemoveImage(h, removed) ==
  /\ Now(h, "unpicturing")
  /\ objects' = IF removed THEN objects \ {handlers[h].old} ELSE objects
  /\ left' = IF removed THEN left ELSE left \union ({handlers[h].old} \ {None})
  /\ Becomes(h, [handlers[h] EXCEPT !.pc = "bare"])
  /\ UNCHANGED <<content, url, grades, told, clashed>>

\* A course that had no image when it was read is not written.
ForgetImage(h) ==
  LET q == handlers[h] IN
  /\ Now(h, "bare")
  /\ q.row \in rows
  /\ q.old # None => ~Locked(q.row)
  /\ url' = IF q.old = None THEN url ELSE [url EXCEPT ![q.row] = None]
  /\ Becomes(h, Idle)
  /\ UNCHANGED <<content, objects, grades, history>>

-----------------------------------------------------------------------------
(* Grades.                                                                 *)

Grade(h, u, s, score) ==
  /\ s \in Submissions \intersect rows
  /\ MayManage(u, CourseOf(s))
  /\ Begin(h, [Idle EXCEPT !.pc = "grading", !.row = s, !.grade = grades[s], !.new = score])
  /\ UNCHANGED <<content, files, grades, told, left>>

\* Decided on the score of the request, before it is rounded.
Passes(h) == handlers[h].new >= PassingScore

\* Only the columns that differ from what was read are written.
WriteGrade(h) ==
  LET q == handlers[h] IN
  /\ Now(h, "grading")
  /\ q.row \in rows
  /\ grades' = [grades EXCEPT ![q.row] =
       [score |-> IF q.new # q.grade.score THEN Stored(q.new) ELSE grades[q.row].score,
        passed |-> IF Passes(h) # q.grade.passed THEN Passes(h) ELSE grades[q.row].passed]]
  /\ Becomes(h, Idle)
  /\ UNCHANGED <<content, files, history>>

\* The request fails: the row was deleted, the storage is down, the connection is lost.
Fail(h) ==
  /\ ~Now(h, "idle")
  /\ clashed' = clashed \union {handlers[h].row}
  /\ Becomes(h, Idle)
  /\ UNCHANGED <<content, files, grades, told, left>>

ManagerStep(u) ==
  \/ \E c \in Courses, by \in Teachers \union {None}, isPublished \in BOOLEAN :
       CreateCourse(u, c, by, isPublished) \/ UpdateCourse(u, c, by, isPublished)
  \/ \E n \in Contents :
       CreateModule(u, n) \/ CreateLesson(u, n) \/ CreateLessonFile(u, n)
  \/ \E k \in Tasks, given \in Given \union {None} : CreateTask(u, k, given) \/ UpdateTask(u, k, given)
  \/ \E h \in Handlers :
       \/ \E n \in Rows :
            \/ DeleteCourse(h, u, n)
            \/ DeleteModule(h, u, n)
            \/ DeleteLesson(h, u, n)
            \/ DeleteTask(h, u, n)
            \/ DeleteLessonFile(h, u, n)
       \/ \E e \in Extensions :
            \/ \E k \in Tasks : UploadTaskFile(h, u, k, e)
            \/ \E f \in Files, l \in Lessons : UploadLessonFile(h, u, f, l, e)
       \/ \E c \in Courses :
            DeleteImage(h, u, c) \/ \E i \in Images : UploadImage(h, u, c, ImageName(c, i))
       \/ \E s \in Submissions, score \in Scores : Grade(h, u, s, score)

HandlerStep(h) ==
  \/ \E removed \in BOOLEAN :
       AnswerDelete(h, removed) \/ RemoveSuperseded(h, removed) \/ RemoveImage(h, removed)
  \/ CommitDelete(h)
  \/ StoreFile(h)
  \/ SaveFile(h)
  \/ StoreImage(h)
  \/ SwapImage(h)
  \/ CommitImage(h)
  \/ ForgetImage(h)
  \/ WriteGrade(h)
  \/ Fail(h)

StudentStep ==
  \/ \E s \in Submissions : Submit(s)
  \/ \E c \in Courses : Enrol(c) \/ Unenrol(c)
  \/ \E l \in Lessons : DeleteProgress(l) \/ \E a \in {Admin, Student} : CreateProgress(a, l)
  \/ \E t \in Teachers : TeacherLeaves(t)

Next ==
  \/ \E u \in Teachers \union {Admin} : ManagerStep(u)
  \/ \E h \in Handlers : HandlerStep(h)
  \/ StudentStep

Spec == Init /\ [][Next]_vars

-----------------------------------------------------------------------------
(* Properties.                                                             *)

\* Rows, objects and requests have the values their columns and their code allow.
TypeOK ==
  /\ rows \subseteq Rows
  /\ gone \subseteq Rows \ rows
  /\ teacher \in [Courses -> Teachers \union {None}]
  /\ published \subseteq Courses \intersect rows
  /\ enrolled \subseteq Courses
  /\ progress \subseteq Lessons
  /\ url \in [Holders -> Names \union Given \union {None}]
  /\ grades \in [Submissions -> Grades]
  /\ objects \subseteq Names
  /\ handlers \in [Handlers -> HandlerRecord]
  /\ told \subseteq Rows
  /\ clashed \subseteq Rows
  /\ left \subseteq UNION {ImageNames(c) : c \in Courses}

\* Whatever is created while something above it is being deleted, no row, enrolment or
\* progress is left without what it belongs to (the foreign keys and the cascades of the
\* ORM).
NothingWithoutItsParent ==
  /\ \A n \in rows : Above[n] \subseteq rows
  /\ enrolled \union progress \subseteq rows

\* The object that a course or a lesson's file names is in the bucket, unless two
\* requests met at the row or one died half way: an old image is removed after the row
\* names the new one, and a file before its row.
NamedObjectsExist ==
  \A n \in rows \intersect (Courses \union Files) :
    url[n] = None \/ url[n] \in objects \/ n \in clashed
      \/ \E h \in Handlers :
           handlers[h].row = n /\ handlers[h].pc \in {"answered", "settled", "bare"}

\* A replaced or deleted image does not stay in the bucket, unless two requests met at
\* its course, one died half way, the storage refused or the course was deleted
\* (upload_course_image, delete_course_image).
NoImageLeftBehind ==
  \A c \in Courses \ (clashed \union gone) :
    \A i \in (ImageNames(c) \intersect objects) \ left :
      url[c] = i \/ \E h \in Handlers :
                      handlers[h].row = c /\ i \in {handlers[h].name, handlers[h].old}

\* Rows and bucket agree on the files that are there.
BucketAgrees == NamedObjectsExist /\ NoImageLeftBehind

\* What an actor's list of courses shows he may open, and read all of it once he is
\* logged in (list_for_actor, get_course, list_modules, list_lessons).
ListedIsVisible ==
  \A actor \in Teachers \union {Admin, Student, Anonymous} :
    \A c \in Listed(actor) : MayOpen(actor, c) /\ (actor # Anonymous => MayRead(actor, c))

\* A submission that passed has a score of at least 70.00, and one of more than 70.00
\* passed, unless two gradings of it met (grade_submission).  Exactly 70.00 may be
\* either: what was rounded up to it did not pass.
PassedAsScored(g) ==
  /\ g.passed => g.score # None /\ g.score >= PassingScore
  /\ g.score # None /\ g.score > PassingScore => g.passed
GradesAgree == \A s \in Submissions \ clashed : PassedAsScored(grades[s])

\* Once a deletion was answered with 204 and its request is over, the row is gone, unless
\* the request died after its answer or met another.
DeletedIsGone ==
  \A n \in (told \intersect rows) \ clashed : \E h \in Handlers : handlers[h].row = n

\* The same, unless a submission hangs below the row.
DeletedIsGoneUnlessSubmitted ==
  \A n \in (told \intersect rows) \ clashed :
    \/ \E s \in Submissions \intersect rows : n \in Above[s]
    \/ \E h \in Handlers : handlers[h].row = n

-----------------------------------------------------------------------------
(* The inductive invariant.  Rows two requests met at are excepted, so that *)
(* what it says of a row it says of the one request that is about it.       *)

Uploads == {"uploading", "uploaded"}
NewImages == {"picturing", "pictured", "swapped", "settled"}
OldImages == {"unpicturing", "bare"}

\* What a row may name.
UrlsOf(n) == NamesOf(n) \union IF n \in Tasks THEN Given ELSE {}

\* What a request is about, and of which row the objects are that it reads and writes.
HandlersAgree ==
  \A h \in Handlers :
    LET q == handlers[h] IN
    /\ IF Now(h, "idle") THEN q = Idle ELSE q.row \in rows \union gone
    /\ q.name \in NamesOf(q.row) \union {None} /\ q.old \in UrlsOf(q.row) \union {None}
    /\ q.pc \in {"deleting", "answered"} =>
         q.row \notin Submissions /\ q.name = None /\ (q.row \in Files \/ q.old = None)
    /\ q.pc \in Uploads => q.row \in Tasks \union Files /\ q.name # None
    /\ q.pc \in NewImages \union OldImages => q.row \in Courses
    /\ q.pc \in NewImages => q.name # None /\ q.name # q.old
    /\ q.pc \in OldImages => q.name = None
    /\ q.pc = "grading" =>
         q.row \in Submissions /\ q.new \in Scores /\ q.name = None /\ q.old = None

\* Two requests about a row have met.
MeetingsAgree ==
  \A g, h \in Handlers :
    g # h /\ handlers[g].row = handlers[h].row /\ ~Now(h, "idle") => handlers[h].row \in clashed

\* A request that met no other has read what is there; what it stored is there, and what it
\* removed is not, or is known to be left.
RequestsAgree ==
  \A h \in Handlers :
    LET q == handlers[h] IN
    ~Now(h, "idle") /\ q.row \notin clashed =>
      /\ q.pc \in NewImages \union OldImages => url[q.row] = q.old
      /\ q.pc = "grading" => grades[q.row] = q.grade
      /\ q.pc \in {"uploaded", "pictured", "swapped", "settled"} => q.name \in objects
      /\ q.pc \in {"settled", "bare"} /\ q.old # None => q.old \notin objects \ left

\* A row but a task names its own object, and it is there but while its request has yet to
\* say that it is not.
NamesAgree ==
  /\ \A n \in Holders : url[n] = None \/ (n \in rows \union gone /\ url[n] \in UrlsOf(n))
  /\ \A n \in (rows \intersect (Courses \union Files)) \ clashed :
       \/ url[n] \in objects \union {None}
       \/ \E h \in Handlers :
            /\ handlers[h].row = n
            /\ \/ Now(h, "answered") /\ n \in Files
               \/ Now(h, "settled")
               \/ Now(h, "bare") /\ handlers[h].old # None

\* A row whose deletion was answered goes with the commit, or has a submission below.
DeletionsAgree ==
  /\ told \subseteq rows \union gone
  /\ \A n \in (told \intersect rows) \ clashed :
       \/ \E s \in Submissions \intersect rows : n \in Above[s]
       \/ \E h \in Handlers : handlers[h].row = n /\ Now(h, "answered")

IInv ==
  /\ TypeOK
  /\ HandlersAgree /\ MeetingsAgree /\ RequestsAgree
  /\ NothingWithoutItsParent /\ NamesAgree /\ NoImageLeftBehind
  /\ GradesAgree /\ DeletionsAgree
=============================================================================
