-------------------------- MODULE CourseContentProofs --------------------------
(***************************************************************************)
(* Theorems about CourseContent, for any courses, contents, teachers and   *)
(* requests: nothing stays without what it belongs to, rows and bucket     *)
(* agree, and grades and answers are as they should be.  They rest on the  *)
(* inductive invariant CourseContent!IInv.                                 *)
(***************************************************************************)
EXTENDS CourseContent, TLAPS

-----------------------------------------------------------------------------
(* Rows above rows.                                                        *)

\* Every row but a course has one parent.
LEMMA ParentFacts ==
  /\ \A n \in Contents : Parent[n] \in Rows
  /\ \A n \in Courses : n \notin Contents
  /\ \A n \in Modules : Parent[n] \in Courses
  /\ \A n \in Lessons : Parent[n] \in Modules
  /\ \A n \in Tasks \union Files : Parent[n] \in Lessons
  /\ \A n \in Submissions : Parent[n] \in Tasks
  /\ Contents = Modules \union Lessons \union Tasks \union Files \union Submissions
  /\ Rows = Courses \union Contents
  BY ConstantsAssumption DEF Contents, Rows

LEMMA ParentsOfOne ==
  /\ \A n \in Contents : ParentsOf({n}) = {Parent[n]}
  /\ \A n \in Courses : ParentsOf({n}) = {}
  /\ ParentsOf({}) = {}
  BY ParentFacts DEF ParentsOf

\* What is above a row is its parent and what is above that.
LEMMA AboveFacts ==
  /\ \A n \in Courses : Above[n] = {}
  /\ \A n \in Contents : Above[n] = {Parent[n]} \union Above[Parent[n]]
<1> DEFINE Up(n) == LET one == ParentsOf({n})
                        two == ParentsOf(one)
                        three == ParentsOf(two)
                    IN one \union two \union three \union ParentsOf(three)
<1>1. \A n \in Rows : Above[n] = Up(n) BY DEF Above
<1>2. \A n \in Courses : Up(n) = {} BY ParentsOfOne
<1>3. \A n \in Modules : Up(n) = {Parent[n]}
  <2> SUFFICES ASSUME NEW n \in Modules PROVE Up(n) = {Parent[n]} OBVIOUS
  <2>1. ParentsOf({n}) = {Parent[n]} /\ ParentsOf({Parent[n]}) = {}
    BY ParentFacts, ParentsOfOne
  <2> QED BY <2>1, ParentsOfOne
<1>4. \A n \in Lessons : Up(n) = {Parent[n], Parent[Parent[n]]}
  <2> SUFFICES ASSUME NEW n \in Lessons PROVE Up(n) = {Parent[n], Parent[Parent[n]]} OBVIOUS
  <2>1. /\ ParentsOf({n}) = {Parent[n]} /\ ParentsOf({Parent[n]}) = {Parent[Parent[n]]}
        /\ ParentsOf({Parent[Parent[n]]}) = {}
    BY ParentFacts, ParentsOfOne
  <2> QED BY <2>1, ParentsOfOne
<1>5. \A n \in Tasks \union Files :
        Up(n) = {Parent[n], Parent[Parent[n]], Parent[Parent[Parent[n]]]}
  <2> SUFFICES ASSUME NEW n \in Tasks \union Files
               PROVE  Up(n) = {Parent[n], Parent[Parent[n]], Parent[Parent[Parent[n]]]}
    OBVIOUS
  <2>1. /\ ParentsOf({n}) = {Parent[n]} /\ ParentsOf({Parent[n]}) = {Parent[Parent[n]]}
        /\ ParentsOf({Parent[Parent[n]]}) = {Parent[Parent[Parent[n]]]}
        /\ ParentsOf({Parent[Parent[Parent[n]]]}) = {}
    BY ParentFacts, ParentsOfOne
  <2> QED BY <2>1
<1>6. \A n \in Submissions :
        Up(n) = {Parent[n], Parent[Parent[n]], Parent[Parent[Parent[n]]],
                 Parent[Parent[Parent[Parent[n]]]]}
  <2> SUFFICES ASSUME NEW n \in Submissions
               PROVE  Up(n) = {Parent[n], Parent[Parent[n]], Parent[Parent[Parent[n]]],
                               Parent[Parent[Parent[Parent[n]]]]}
    OBVIOUS
  <2>1. /\ ParentsOf({n}) = {Parent[n]} /\ ParentsOf({Parent[n]}) = {Parent[Parent[n]]}
        /\ ParentsOf({Parent[Parent[n]]}) = {Parent[Parent[Parent[n]]]}
        /\ ParentsOf({Parent[Parent[Parent[n]]]}) = {Parent[Parent[Parent[Parent[n]]]]}
    BY ParentFacts, ParentsOfOne
  <2> QED BY <2>1
<1> HIDE DEF Up
<1>7. \A n \in Contents : Up(n) = {Parent[n]} \union Up(Parent[n])
  BY <1>2, <1>3, <1>4, <1>5, <1>6, ParentFacts
<1> QED BY <1>1, <1>2, <1>7, ParentFacts

\* Above is transitive, and no submission or file is above a row.
LEMMA AboveAbove ==
  ASSUME NEW n \in Rows
  PROVE  /\ Above[n] \subseteq Courses \union Modules \union Lessons \union Tasks
         /\ \A m \in Above[n] : Above[m] \subseteq Above[n]
<1> DEFINE Good(m) == /\ Above[m] \subseteq Courses \union Modules \union Lessons \union Tasks
                      /\ \A k \in Above[m] : Above[k] \subseteq Above[m]
<1>1. \A m \in Contents : /\ Good(Parent[m])
                          /\ Parent[m] \in Courses \union Modules \union Lessons \union Tasks
                          => Good(m)
  BY AboveFacts
<1>2. \A m \in Courses : Good(m) BY AboveFacts
<1> HIDE DEF Good
<1>3. \A m \in Modules : Good(m) BY <1>1, <1>2, ParentFacts
<1>4. \A m \in Lessons : Good(m) BY <1>1, <1>3, ParentFacts
<1>5. \A m \in Tasks \union Files : Good(m) BY <1>1, <1>4, ParentFacts
<1>6. \A m \in Submissions : Good(m) BY <1>1, <1>5, ParentFacts
<1>7. Good(n) BY <1>2, <1>3, <1>4, <1>5, <1>6, ParentFacts
<1> QED BY <1>7 DEF Good

-----------------------------------------------------------------------------
(* Names of objects.                                                       *)

\* A name tells the row it is of.
LEMMA NamesFacts ==
  /\ \A n \in Holders : NamesOf(n) \subseteq Names /\ None \notin NamesOf(n)
  /\ \A m, n \in Holders : m # n => NamesOf(m) \intersect NamesOf(n) = {}
  /\ \A c \in Courses : NamesOf(c) = ImageNames(c)
<1>1. \A n \in Holders : NamesOf(n) \subseteq Names BY DEF Names
<1>2. None \notin Names BY ConstantsAssumption
<1>3. \A c \in Courses : NamesOf(c) = ImageNames(c) BY DEF NamesOf
<1>4. ASSUME NEW m \in Holders, NEW n \in Holders, NEW x \in NamesOf(m), x \in NamesOf(n)
      PROVE  m = n
  <2>1. CASE m \in Courses
    <3>1. PICK i \in Images : x = <<m, i>> BY <2>1 DEF NamesOf, ImageNames, ImageName
    <3>2. CASE n \in Courses
      <4>1. PICK j \in Images : x = <<n, j>> BY <1>4, <3>2 DEF NamesOf, ImageNames, ImageName
      <4> QED BY <3>1, <4>1
    <3>3. CASE n \notin Courses
      <4>1. PICK l \in Lessons, e \in Extensions : x = <<l, n, e>>
        BY <1>4, <3>3 DEF NamesOf, FileName
      <4> QED BY <3>1, <4>1
    <3> QED BY <3>2, <3>3
  <2>2. CASE m \notin Courses
    <3>1. PICK l \in Lessons, e \in Extensions : x = <<l, m, e>>
      BY <2>2 DEF NamesOf, FileName
    <3>2. CASE n \in Courses
      <4>1. PICK j \in Images : x = <<n, j>> BY <1>4, <3>2 DEF NamesOf, ImageNames, ImageName
      <4> QED BY <3>1, <4>1
    <3>3. CASE n \notin Courses
      <4>1. PICK k \in Lessons, f \in Extensions : x = <<k, n, f>>
        BY <1>4, <3>3 DEF NamesOf, FileName
      <4> QED BY <3>1, <4>1
    <3> QED BY <3>2, <3>3
  <2> QED BY <2>1, <2>2
<1> QED BY <1>1, <1>2, <1>3, <1>4

LEMMA KindFacts ==
  /\ Holders \subseteq Rows /\ Courses \subseteq Holders /\ Tasks \union Files \subseteq Holders
  /\ None \notin Rows /\ Submissions \subseteq Rows /\ Contents \subseteq Rows
  /\ Courses \intersect (Tasks \union Files) = {} /\ Submissions \intersect Holders = {}
  /\ Courses \union Files \subseteq Holders \ Tasks
  BY ConstantsAssumption DEF Holders, Rows, Contents

\* What a row but a task names is its own object.
LEMMA UrlsFacts ==
  /\ \A n \in Rows : NamesOf(n) \subseteq UrlsOf(n)
  /\ \A n \in Rows \ Tasks : UrlsOf(n) = NamesOf(n)
  /\ \A n \in Holders : UrlsOf(n) \subseteq Names \union Given /\ None \notin UrlsOf(n)
  BY NamesFacts, ConstantsAssumption DEF UrlsOf

\* A score is rounded to two decimals, and the passing score has no more.
LEMMA StoredFacts ==
  \A score \in Scores :
    /\ Stored(score) \in Nat
    /\ score >= PassingScore => Stored(score) >= PassingScore
    /\ Stored(score) > PassingScore => score >= PassingScore
<1> SUFFICES ASSUME NEW score \in Scores
             PROVE  /\ Stored(score) \in Nat
                    /\ score >= PassingScore => Stored(score) >= PassingScore
                    /\ Stored(score) > PassingScore => score >= PassingScore
  OBVIOUS
<1>1. /\ score \in Nat /\ PassingScore \in Nat
      /\ 10 * ((PassingScore + 5) \div 10) = PassingScore
  BY ConstantsAssumption DEF Stored
<1> QED BY <1>1 DEF Stored

\* A request is about an image of its course.
Holds(q, c, i) == q.row = c /\ i \in {q.name, q.old}

\* A request that is not being served.
LEMMA IdleFacts ==
  /\ Idle \in HandlerRecord /\ Idle.pc = "idle" /\ Idle.row = None /\ Idle.name = None
  /\ Idle.old = None
<1>1. NoGrade \in Grades BY DEF NoGrade, Grades
<1> QED BY <1>1 DEF Idle, HandlerRecord

\* The objects of a request are of its row.
LEMMA HandlerFacts ==
  ASSUME TypeOK, HandlersAgree, NEW h \in Handlers
  PROVE  /\ handlers[h] \in HandlerRecord
         /\ ~Now(h, "idle") => handlers[h].row \in Rows /\ handlers[h].row # None
         /\ Now(h, "idle") => handlers[h] = Idle
         /\ handlers[h].name # None => handlers[h].name \in NamesOf(handlers[h].row)
         /\ \A x \in {handlers[h].name, handlers[h].old} \ {None} :
              /\ handlers[h].row \in Holders /\ x \in UrlsOf(handlers[h].row)
              /\ handlers[h].row \notin Tasks => x \in NamesOf(handlers[h].row)
<1>1. handlers[h] \in HandlerRecord /\ rows \union gone \subseteq Rows BY DEF TypeOK
<1>2. IF Now(h, "idle") THEN handlers[h] = Idle ELSE handlers[h].row \in rows \union gone
  BY DEF HandlersAgree
<1> PICK q \in HandlerRecord : q = handlers[h] BY <1>1
<1>3. /\ q.name \in NamesOf(q.row) \union {None} /\ q.old \in UrlsOf(q.row) \union {None}
      /\ q.pc \in {"deleting", "answered"} => q.name = None /\ (q.row \in Files \/ q.old = None)
      /\ q.pc \in {"uploading", "uploaded"} => q.row \in Tasks \union Files
      /\ q.pc \in {"picturing", "pictured", "swapped", "settled", "unpicturing", "bare"} =>
           q.row \in Courses
      /\ q.pc = "grading" => q.name = None /\ q.old = None
  BY DEF HandlersAgree, Uploads, NewImages, OldImages
<1>4. q.pc = "idle" => q.name = None /\ q.old = None BY <1>2, IdleFacts DEF Now
<1>5. q.pc \in {"idle", "deleting", "answered", "uploading", "uploaded", "picturing", "pictured",
               "swapped", "settled", "unpicturing", "bare", "grading"}
  BY DEF HandlerRecord
<1>6. \A x \in {q.name, q.old} \ {None} : q.row \in Holders
  BY <1>3, <1>4, <1>5, KindFacts
<1> QED BY <1>1, <1>2, <1>3, <1>6, KindFacts, UrlsFacts

-----------------------------------------------------------------------------
(* Steps that touch no request and no object.                              *)

\* Rows are added or change their owner, under rows that are there, and a client says what
\* a task names.
LEMMA RowsAndUrlsKeep ==
  ASSUME IInv, UNCHANGED <<objects, grades, handlers, history, gone>>,
         url' \in [Holders -> Names \union Given \union {None}],
         \A n \in Holders \ Tasks : url'[n] = url[n],
         \A n \in Tasks : url'[n] = None \/ (n \in rows' \union gone /\ url'[n] \in UrlsOf(n)),
         rows \subseteq rows', rows' \subseteq Rows \ gone,
         teacher' \in [Courses -> Teachers \union {None}],
         published' \subseteq Courses \intersect rows',
         enrolled' \subseteq Courses \intersect rows',
         progress' \subseteq Lessons \intersect rows',
         \A n \in rows' \ rows : Above[n] \subseteq rows'
  PROVE  IInv'
<1>0. /\ TypeOK /\ HandlersAgree /\ MeetingsAgree /\ RequestsAgree /\ NothingWithoutItsParent
      /\ NamesAgree /\ NoImageLeftBehind /\ GradesAgree /\ DeletionsAgree
  BY DEF IInv
<1>1. UNCHANGED <<objects, grades, handlers, told, clashed, left, gone>> BY DEF history
<1>2. TypeOK' BY <1>0, <1>1 DEF TypeOK
<1>3. HandlersAgree' BY <1>0, <1>1 DEF HandlersAgree, Now
<1>4. MeetingsAgree' BY <1>0, <1>1 DEF MeetingsAgree, Now
<1>4a. RequestsAgree'
  <2>1. \A h \in Handlers : handlers[h].pc \in NewImages \union OldImages =>
          url'[handlers[h].row] = url[handlers[h].row]
    BY <1>0, KindFacts DEF HandlersAgree
  <2> QED BY <1>0, <1>1, <2>1 DEF RequestsAgree, Now
<1>5. NothingWithoutItsParent' BY <1>0, <1>1 DEF NothingWithoutItsParent
<1>6. NamesAgree'
  <2>1. \A n \in Holders : url'[n] = None \/ (n \in rows' \union gone /\ url'[n] \in UrlsOf(n))
    BY <1>0 DEF NamesAgree
  <2>2. ASSUME NEW n \in (rows' \intersect (Courses \union Files)) \ clashed
        PROVE  \/ url'[n] \in objects \union {None}
               \/ \E h \in Handlers :
                    /\ handlers[h].row = n
                    /\ \/ Now(h, "answered") /\ n \in Files
                       \/ Now(h, "settled")
                       \/ Now(h, "bare") /\ handlers[h].old # None
    <3>0. n \in Holders \ Tasks BY <2>2, KindFacts
    <3>1. CASE n \in rows BY <1>0, <2>2, <3>0, <3>1 DEF NamesAgree
    <3>2. CASE n \notin rows BY <1>0, <2>2, <3>0, <3>2 DEF NamesAgree
    <3> QED BY <3>1, <3>2
  <2> QED BY <1>1, <2>1, <2>2 DEF NamesAgree, Now
<1>7. NoImageLeftBehind' BY <1>0, <1>1, KindFacts DEF NoImageLeftBehind, Holds
<1>8. GradesAgree' BY <1>0, <1>1 DEF GradesAgree
<1>9. DeletionsAgree'
  <2>1. told \intersect rows' = told \intersect rows BY <1>0 DEF DeletionsAgree
  <2> QED BY <1>0, <1>1, <2>1 DEF DeletionsAgree, Now
<1> QED BY <1>2, <1>3, <1>4, <1>4a, <1>5, <1>6, <1>7, <1>8, <1>9 DEF IInv

LEMMA RowsKeep ==
  ASSUME IInv, UNCHANGED <<files, grades, handlers, history, gone>>,
         rows \subseteq rows', rows' \subseteq Rows \ gone,
         teacher' \in [Courses -> Teachers \union {None}],
         published' \subseteq Courses \intersect rows',
         enrolled' \subseteq Courses \intersect rows',
         progress' \subseteq Lessons \intersect rows',
         \A n \in rows' \ rows : Above[n] \subseteq rows'
  PROVE  IInv'
<1>1. UNCHANGED <<url, objects>> BY DEF files
<1>2. url \in [Holders -> Names \union Given \union {None}] BY DEF IInv, TypeOK
<1>3. \A n \in Tasks : url[n] = None \/ (n \in rows \union gone /\ url[n] \in UrlsOf(n))
  BY KindFacts DEF IInv, NamesAgree
<1> QED BY <1>1, <1>2, <1>3, RowsAndUrlsKeep

LEMMA CourseKeeps ==
  ASSUME IInv, NEW u, NEW c \in Courses, NEW by \in Teachers \union {None}, NEW p \in BOOLEAN,
         CreateCourse(u, c, by, p) \/ UpdateCourse(u, c, by, p)
  PROVE  IInv'
<1>0. TypeOK /\ NothingWithoutItsParent BY DEF IInv
<1>1. c \in Rows /\ Above[c] = {} BY KindFacts, AboveFacts
<1>2. CASE CreateCourse(u, c, by, p)
  <2>1. /\ c \notin rows \union gone /\ rows' = rows \union {c}
        /\ teacher' = [teacher EXCEPT ![c] = by]
        /\ published' = IF p THEN published \union {c} ELSE published
        /\ UNCHANGED <<gone, enrolled, progress, files, grades, handlers, history>>
    BY <1>2 DEF CreateCourse
  <2> QED BY <1>0, <1>1, <2>1, RowsKeep DEF TypeOK, NothingWithoutItsParent
<1>3. CASE UpdateCourse(u, c, by, p)
  <2>1. /\ c \in rows /\ teacher' = [teacher EXCEPT ![c] = by]
        /\ published' = IF p THEN published \union {c} ELSE published \ {c}
        /\ UNCHANGED <<rows, gone, enrolled, progress, files, grades, handlers, history>>
    BY <1>3 DEF UpdateCourse
  <2> QED BY <1>0, <2>1, RowsKeep DEF TypeOK, NothingWithoutItsParent
<1> QED BY <1>2, <1>3

LEMMA InsertKeeps ==
  ASSUME IInv, NEW n \in Contents, Insert(n),
         url' \in [Holders -> Names \union Given \union {None}],
         \A m \in Holders \ {n} : url'[m] = url[m],
         n \in Holders => url'[n] = url[n] \/ (n \in Tasks /\ url'[n] \in Given \union {None})
  PROVE  IInv'
<1>0. TypeOK /\ NothingWithoutItsParent /\ NamesAgree BY DEF IInv
<1>1. /\ n \notin rows \union gone /\ Parent[n] \in rows /\ rows' = rows \union {n}
      /\ UNCHANGED <<gone, teacher, published, enrolled, progress, objects, grades, handlers, history>>
  BY DEF Insert, MayInsert
<1>2. Above[n] \subseteq rows BY <1>0, <1>1, AboveFacts DEF NothingWithoutItsParent
<1>3. n \in Rows BY KindFacts
<1>4. \A m \in Tasks : url'[m] = None \/ (m \in rows' \union gone /\ url'[m] \in UrlsOf(m))
  BY <1>0, <1>1, KindFacts DEF NamesAgree, UrlsOf
<1> QED BY <1>0, <1>1, <1>2, <1>3, <1>4, RowsAndUrlsKeep DEF TypeOK, NothingWithoutItsParent

LEMMA InsertBareKeeps ==
  ASSUME IInv, NEW n \in Contents, InsertBare(n)
  PROVE  IInv'
  BY InsertKeeps DEF InsertBare, IInv, TypeOK

\* What a client says a task names, when it is created or later.
LEMMA GivenKeeps ==
  ASSUME IInv, NEW u, NEW k \in Tasks, NEW given \in Given \union {None},
         CreateTask(u, k, given) \/ UpdateTask(u, k, given)
  PROVE  IInv'
<1>0. TypeOK /\ NothingWithoutItsParent /\ NamesAgree /\ k \in Holders /\ k \in Contents
  BY KindFacts DEF IInv, Contents
<1>1. url' = [url EXCEPT ![k] = given] BY DEF CreateTask, UpdateTask
<1>2. /\ url' \in [Holders -> Names \union Given \union {None}] /\ url'[k] = given
      /\ \A m \in Holders \ {k} : url'[m] = url[m]
  BY <1>0, <1>1 DEF TypeOK
<1>3. CASE CreateTask(u, k, given)
  BY <1>0, <1>2, <1>3, InsertKeeps DEF CreateTask
<1>4. CASE UpdateTask(u, k, given)
  <2>1. k \in rows /\ UNCHANGED <<content, objects, grades, handlers, history>>
    BY <1>4 DEF UpdateTask
  <2>2. \A m \in Tasks : url'[m] = None \/ (m \in rows \union gone /\ url'[m] \in UrlsOf(m))
    BY <1>0, <1>2, <2>1, KindFacts DEF NamesAgree, UrlsOf
  <2>3. UNCHANGED <<rows, gone, teacher, published, enrolled, progress>> BY <2>1 DEF content
  <2> QED BY <1>0, <1>2, <2>1, <2>2, <2>3, RowsAndUrlsKeep DEF TypeOK, NothingWithoutItsParent
<1> QED BY <1>3, <1>4

LEMMA StudentKeeps ==
  ASSUME IInv, StudentStep
  PROVE  IInv'
<1>0. TypeOK /\ NothingWithoutItsParent BY DEF IInv
<1>1. ASSUME NEW s \in Submissions, Submit(s) PROVE IInv'
  BY <1>1, InsertBareKeeps, ParentFacts DEF Submit
<1>2. ASSUME NEW c \in Courses, Enrol(c) \/ Unenrol(c) PROVE IInv'
  BY <1>0, <1>2, RowsKeep DEF Enrol, Unenrol, TypeOK, NothingWithoutItsParent
<1>3. ASSUME NEW l \in Lessons, DeleteProgress(l) \/ \E a \in {Admin, Student} : CreateProgress(a, l)
      PROVE  IInv'
  BY <1>0, <1>3, RowsKeep DEF DeleteProgress, CreateProgress, TypeOK, NothingWithoutItsParent
<1>4. ASSUME NEW t \in Teachers, TeacherLeaves(t) PROVE IInv'
  BY <1>0, <1>4, RowsKeep DEF TeacherLeaves, TypeOK, NothingWithoutItsParent
<1> QED BY <1>1, <1>2, <1>3, <1>4 DEF StudentStep

-----------------------------------------------------------------------------
(* Requests.                                                               *)

\* A request begins: who is about the same row has met it.
LEMMA BeginKeeps ==
  ASSUME IInv, NEW h \in Handlers, NEW q \in HandlerRecord, Begin(h, q),
         UNCHANGED <<content, files, grades, told, left>>,
         q.row \in rows,
         q.name # None => q.row \in Holders /\ q.name \in NamesOf(q.row),
         q.old # None => q.row \in Holders /\ q.old = url[q.row],
         \/ /\ q.pc = "deleting" /\ q.row \notin Submissions
            /\ q.name = None /\ (q.row \in Files \/ q.old = None)
         \/ q.pc = "uploading" /\ q.row \in Tasks \union Files /\ q.name # None
         \/ /\ q.pc = "picturing" /\ q.row \in Courses /\ q.old = url[q.row]
            /\ q.name # None /\ q.name # q.old
         \/ q.pc = "unpicturing" /\ q.row \in Courses /\ q.old = url[q.row] /\ q.name = None
         \/ /\ q.pc = "grading" /\ q.row \in Submissions /\ q.new \in Scores
            /\ q.grade = grades[q.row] /\ q.name = None /\ q.old = None
  PROVE  IInv'
<1>0. /\ TypeOK /\ HandlersAgree /\ MeetingsAgree /\ RequestsAgree /\ NothingWithoutItsParent
      /\ NamesAgree /\ NoImageLeftBehind /\ GradesAgree /\ DeletionsAgree
  BY DEF IInv
<1>1. /\ UNCHANGED <<rows, gone, teacher, published, enrolled, progress, url, objects, grades, told, left>>
      /\ Now(h, "idle") /\ handlers' = [handlers EXCEPT ![h] = q]
      /\ clashed' = IF \E g \in Handlers : handlers[g].row = q.row
                      THEN clashed \union {q.row} ELSE clashed
  BY DEF Begin, Becomes, content, files
<1>2. handlers'[h] = q /\ \A g \in Handlers : g # h => handlers'[g] = handlers[g]
  BY <1>0, <1>1 DEF TypeOK
<1>3. q.row \in Rows /\ q.row # None /\ handlers[h] = Idle
  BY <1>0, <1>1, HandlerFacts, KindFacts DEF TypeOK
<1>4. /\ clashed \subseteq clashed' /\ clashed' \subseteq clashed \union {q.row}
      /\ \A g \in Handlers : handlers[g].row = q.row => q.row \in clashed'
  BY <1>1
<1>5. TypeOK' BY <1>0, <1>1, <1>3, <1>4 DEF TypeOK
<1>6. HandlersAgree'
  <2> SUFFICES ASSUME NEW g \in Handlers
               PROVE  LET r == handlers'[g] IN
                      /\ IF r.pc = "idle" THEN r = Idle ELSE r.row \in rows' \union gone'
                      /\ r.name \in NamesOf(r.row) \union {None} /\ r.old \in UrlsOf(r.row) \union {None}
                      /\ r.pc \in {"deleting", "answered"} =>
                           /\ r.row \notin Submissions
                           /\ r.name = None
                           /\ r.row \in Files \/ r.old = None
                      /\ r.pc \in Uploads => r.row \in Tasks \union Files /\ r.name # None
                      /\ r.pc \in NewImages \union OldImages => r.row \in Courses
                      /\ r.pc \in NewImages => r.name # None /\ r.name # r.old
                      /\ r.pc \in OldImages => r.name = None
                      /\ r.pc = "grading" =>
                           r.row \in Submissions /\ r.new \in Scores /\ r.name = None /\ r.old = None
    BY DEF HandlersAgree, Now
  <2>1. CASE g # h BY <1>0, <1>1, <1>2, <2>1 DEF HandlersAgree, Now
  <2>2. CASE g = h
    <3>1. q.old # None => q.old \in UrlsOf(q.row) BY <1>0 DEF NamesAgree
    <3> QED BY <1>1, <1>2, <2>2, <3>1 DEF Uploads, NewImages, OldImages
  <2> QED BY <2>1, <2>2
<1>7. MeetingsAgree'
  <2> SUFFICES ASSUME NEW f \in Handlers, NEW g \in Handlers, f # g,
                      handlers'[f].row = handlers'[g].row, handlers'[g].pc # "idle"
               PROVE  handlers'[g].row \in clashed'
    BY DEF MeetingsAgree, Now
  <2>1. CASE f # h /\ g # h BY <1>0, <1>2, <1>4, <2>1 DEF MeetingsAgree, Now
  <2>2. CASE f = h \/ g = h BY <1>2, <1>4, <2>2
  <2> QED BY <2>1, <2>2
<1>8. RequestsAgree'
  <2> SUFFICES ASSUME NEW g \in Handlers, handlers'[g].pc # "idle", handlers'[g].row \notin clashed'
               PROVE  LET r == handlers'[g] IN
                      /\ r.pc \in NewImages \union OldImages => url[r.row] = r.old
                      /\ r.pc = "grading" => grades[r.row] = r.grade
                      /\ r.pc \in {"uploaded", "pictured", "swapped", "settled"} => r.name \in objects
                      /\ r.pc \in {"settled", "bare"} /\ r.old # None => r.old \notin objects \ left
    BY <1>1 DEF RequestsAgree, Now
  <2>1. CASE g # h BY <1>0, <1>2, <1>4, <2>1 DEF RequestsAgree, Now
  <2>2. CASE g = h BY <1>2, <2>2 DEF NewImages, OldImages
  <2> QED BY <2>1, <2>2
<1>9. NothingWithoutItsParent' BY <1>0, <1>1 DEF NothingWithoutItsParent
<1>10. NamesAgree'
  <2> SUFFICES ASSUME NEW n \in (rows \intersect (Courses \union Files)) \ clashed'
               PROVE  \/ url[n] \in objects \union {None}
                      \/ \E g \in Handlers :
                           /\ handlers'[g].row = n
                           /\ \/ handlers'[g].pc = "answered" /\ n \in Files
                              \/ handlers'[g].pc = "settled"
                              \/ handlers'[g].pc = "bare" /\ handlers'[g].old # None
    BY <1>0, <1>1 DEF NamesAgree, Now
  <2>1. \/ url[n] \in objects \union {None}
        \/ \E g \in Handlers \ {h} :
             /\ handlers[g].row = n
             /\ \/ handlers[g].pc = "answered" /\ n \in Files
                \/ handlers[g].pc = "settled"
                \/ handlers[g].pc = "bare" /\ handlers[g].old # None
    BY <1>0, <1>1, <1>4 DEF NamesAgree, Now
  <2> QED BY <1>2, <2>1
<1>11. NoImageLeftBehind'
  <2> SUFFICES ASSUME NEW c \in Courses \ (clashed' \union gone),
                      NEW i \in (ImageNames(c) \intersect objects) \ left
               PROVE  url[c] = i \/ \E g \in Handlers : Holds(handlers'[g], c, i)
    BY <1>1 DEF NoImageLeftBehind, Holds
  <2>1. url[c] = i \/ \E g \in Handlers : Holds(handlers[g], c, i)
    BY <1>0, <1>4 DEF NoImageLeftBehind, Holds
  <2>2. i # None
    BY NamesFacts, KindFacts
  <2> QED BY <1>2, <1>3, <2>1, <2>2, IdleFacts DEF Holds
<1>12. GradesAgree' BY <1>0, <1>1, <1>4 DEF GradesAgree
<1>13. DeletionsAgree'
  <2> SUFFICES ASSUME NEW n \in (told \intersect rows) \ clashed'
               PROVE  \/ \E s \in Submissions \intersect rows : n \in Above[s]
                      \/ \E g \in Handlers : handlers'[g].row = n /\ handlers'[g].pc = "answered"
    BY <1>0, <1>1 DEF DeletionsAgree, Now
  <2>1. \/ \E s \in Submissions \intersect rows : n \in Above[s]
        \/ \E g \in Handlers \ {h} : handlers[g].row = n /\ handlers[g].pc = "answered"
    BY <1>0, <1>1, <1>4 DEF DeletionsAgree, Now
  <2> QED BY <1>2, <2>1
<1> QED BY <1>5, <1>6, <1>7, <1>8, <1>9, <1>10, <1>11, <1>12, <1>13 DEF IInv

\* A request goes on: it stores or removes its own object, and no other.
LEMMA GoesOnKeeps ==
  ASSUME IInv, NEW h \in Handlers, NEW q \in HandlerRecord,
         handlers' = [handlers EXCEPT ![h] = q],
         q.row = handlers[h].row, q.name = handlers[h].name, q.old = handlers[h].old,
         \/ handlers[h].pc = "deleting" /\ q.pc = "answered"
         \/ handlers[h].pc = "uploading" /\ q.pc = "uploaded"
         \/ handlers[h].pc = "picturing" /\ q.pc = "pictured"
         \/ handlers[h].pc = "pictured" /\ q.pc = "swapped"
         \/ handlers[h].pc = "swapped" /\ q.pc = "settled"
         \/ handlers[h].pc = "unpicturing" /\ q.pc = "bare",
         UNCHANGED <<content, url, grades, clashed>>,
         objects' \subseteq objects \union ({q.name} \ {None}),
         objects \subseteq objects' \union {q.old},
         left \subseteq left', left' \subseteq left \union ({q.old} \ {None}),
         left' # left => q.row \in Courses,
         told' = told \/ (q.pc = "answered" /\ told' = told \union {q.row}),
         q.old \in objects \ objects' =>
           \/ q.pc = "answered" /\ q.row \in Files
           \/ q.pc = "settled" \/ (q.pc = "bare" /\ q.old # None),
         q.pc \in {"uploaded", "pictured"} => q.name \in objects',
         q.pc \in {"settled", "bare"} /\ q.old # None => q.old \notin objects' \ left'
  PROVE  IInv'
<1>0. /\ TypeOK /\ HandlersAgree /\ MeetingsAgree /\ RequestsAgree /\ NothingWithoutItsParent
      /\ NamesAgree /\ NoImageLeftBehind /\ GradesAgree /\ DeletionsAgree
  BY DEF IInv
<1>1. UNCHANGED <<rows, gone, teacher, published, enrolled, progress, url, grades, clashed>>
  BY DEF content
<1>2. handlers'[h] = q /\ \A g \in Handlers : g # h => handlers'[g] = handlers[g]
  BY <1>0 DEF TypeOK
<1>3. ~Now(h, "idle") /\ q.pc # "idle" BY DEF Now
<1>4. /\ q.row \in Rows /\ q.row # None
      /\ q.name # None => q.name \in NamesOf(q.row)
      /\ \A x \in {q.name, q.old} \ {None} :
           q.row \in Holders /\ (q.row \notin Tasks => x \in NamesOf(q.row))
  BY <1>0, <1>3, HandlerFacts
<1>4a. q.old \in objects \ objects' => q.row \notin Tasks
  BY <1>0, KindFacts DEF HandlersAgree, NewImages, OldImages
<1>4b. ASSUME NEW n \in Holders, n # q.row, NEW x \in NamesOf(n)
       PROVE  (x \in objects' <=> x \in objects) /\ (x \in left' <=> x \in left)
  <2>1. x # None /\ x # q.name BY <1>4, <1>4b, NamesFacts, KindFacts
  <2>2. x = q.old => q.row \in Tasks BY <1>4, <1>4b, <2>1, NamesFacts
  <2>3. q.row \in Tasks => left' = left BY KindFacts
  <2> QED BY <1>4a, <2>1, <2>2, <2>3
<1>5. ASSUME NEW g \in Handlers, g # h, handlers[g].row # q.row,
             NEW x \in ({handlers[g].name, handlers[g].old} \ {None}) \intersect NamesOf(handlers[g].row)
      PROVE  (x \in objects' <=> x \in objects) /\ (x \in left' <=> x \in left)
  <2>1. handlers[g].row \in Holders /\ x \in NamesOf(handlers[g].row)
    BY <1>0, <1>5, HandlerFacts
  <2> QED BY <1>4b, <1>5, <2>1
<1>6. \A n \in Holders \ {q.row} : \A x \in NamesOf(n) :
        (x \in objects' <=> x \in objects) /\ (x \in left' <=> x \in left)
  BY <1>4b
<1>7. TypeOK'
  <2>1. q.name # None => q.name \in Names BY <1>4, NamesFacts
  <2>1a. objects' \subseteq Names /\ told' \subseteq Rows BY <1>0, <1>4, <2>1 DEF TypeOK
  <2>2. left' \subseteq UNION {ImageNames(c) : c \in Courses}
    <3>1. CASE left' = left BY <1>0, <3>1 DEF TypeOK
    <3>2. CASE left' # left
      <4>1. q.row \in Courses /\ q.row \notin Tasks BY <3>2, KindFacts
      <4>2. q.old # None => q.old \in ImageNames(q.row) BY <1>4, <4>1, NamesFacts
      <4> QED BY <1>0, <4>1, <4>2 DEF TypeOK
    <3> QED BY <3>1, <3>2
  <2> QED BY <1>0, <1>1, <2>1a, <2>2 DEF TypeOK
<1>8. HandlersAgree'
  <2> SUFFICES ASSUME NEW g \in Handlers
               PROVE  LET r == handlers'[g] IN
                      /\ IF r.pc = "idle" THEN r = Idle ELSE r.row \in rows' \union gone'
                      /\ r.name \in NamesOf(r.row) \union {None} /\ r.old \in UrlsOf(r.row) \union {None}
                      /\ r.pc \in {"deleting", "answered"} =>
                           /\ r.row \notin Submissions
                           /\ r.name = None
                           /\ r.row \in Files \/ r.old = None
                      /\ r.pc \in Uploads => r.row \in Tasks \union Files /\ r.name # None
                      /\ r.pc \in NewImages \union OldImages => r.row \in Courses
                      /\ r.pc \in NewImages => r.name # None /\ r.name # r.old
                      /\ r.pc \in OldImages => r.name = None
                      /\ r.pc = "grading" =>
                           r.row \in Submissions /\ r.new \in Scores /\ r.name = None /\ r.old = None
    BY DEF HandlersAgree, Now
  <2>1. CASE g # h BY <1>0, <1>1, <1>2, <2>1 DEF HandlersAgree, Now
  <2>2. CASE g = h
    <3> PICK p \in HandlerRecord : p = handlers[h] BY <1>0 DEF TypeOK
    <3>1. /\ p.row \in rows \union gone
          /\ p.name \in NamesOf(p.row) \union {None} /\ p.old \in UrlsOf(p.row) \union {None}
          /\ p.pc \in {"deleting", "answered"} =>
               p.row \notin Submissions /\ p.name = None /\ (p.row \in Files \/ p.old = None)
          /\ p.pc \in Uploads => p.row \in Tasks \union Files /\ p.name # None
          /\ p.pc \in NewImages \union OldImages => p.row \in Courses
          /\ p.pc \in NewImages => p.name # None /\ p.name # p.old
          /\ p.pc \in OldImages => p.name = None
      BY <1>0, <1>3 DEF HandlersAgree
    <3> QED BY <1>1, <1>2, <2>2, <3>1 DEF Uploads, NewImages, OldImages
  <2> QED BY <2>1, <2>2
<1>9. MeetingsAgree'
  <2>1. \A g \in Handlers :
          /\ handlers'[g].row = handlers[g].row
          /\ handlers'[g].pc # "idle" => handlers[g].pc # "idle"
    BY <1>2, <1>3 DEF Now
  <2> QED BY <1>0, <1>1, <2>1 DEF MeetingsAgree, Now
<1>10. RequestsAgree'
  <2> SUFFICES ASSUME NEW g \in Handlers, handlers'[g].pc # "idle", handlers'[g].row \notin clashed
               PROVE  LET r == handlers'[g] IN
                      /\ r.pc \in NewImages \union OldImages => url[r.row] = r.old
                      /\ r.pc = "grading" => grades[r.row] = r.grade
                      /\ r.pc \in {"uploaded", "pictured", "swapped", "settled"} => r.name \in objects'
                      /\ r.pc \in {"settled", "bare"} /\ r.old # None => r.old \notin objects' \ left'
    BY <1>1 DEF RequestsAgree, Now
  <2>1. CASE g # h
    <3> PICK r \in HandlerRecord : r = handlers[g] BY <1>0 DEF TypeOK
    <3>1. r.row # q.row BY <1>0, <1>2, <1>3, <2>1 DEF MeetingsAgree, Now
    <3>2. /\ r.pc \in NewImages \union OldImages => url[r.row] = r.old
          /\ r.pc = "grading" => grades[r.row] = r.grade
          /\ r.pc \in {"uploaded", "pictured", "swapped", "settled"} => r.name \in objects
          /\ r.pc \in {"settled", "bare"} /\ r.old # None => r.old \notin objects \ left
      BY <1>0, <1>2, <2>1 DEF RequestsAgree, Now
    <3>3. r.pc \in {"uploaded", "pictured", "swapped", "settled"} => r.name # None
      BY <1>0 DEF HandlersAgree, Uploads, NewImages
    <3>4. r.pc \in {"settled", "bare"} => r.row \notin Tasks
      BY <1>0, KindFacts DEF HandlersAgree, NewImages, OldImages
    <3>5. /\ r.name # None => r.name \in NamesOf(r.row)
          /\ r.old # None /\ r.row \notin Tasks => r.old \in NamesOf(r.row)
      BY <1>0, HandlerFacts
    <3> QED BY <1>2, <1>5, <2>1, <3>1, <3>2, <3>3, <3>4, <3>5
  <2>2. CASE g = h
    <3> PICK p \in HandlerRecord : p = handlers[h] BY <1>0 DEF TypeOK
    <3>1. /\ p.pc \in NewImages \union OldImages => url[p.row] = p.old
          /\ p.pc \in {"uploaded", "pictured", "swapped", "settled"} => p.name \in objects
      BY <1>0, <1>2, <1>3, <2>2 DEF RequestsAgree, Now
    <3>2. p.pc \in NewImages => p.name # p.old BY <1>0 DEF HandlersAgree
    <3>3. q.name \in objects /\ q.name # q.old => q.name \in objects' BY <1>4
    <3> QED BY <1>2, <2>2, <3>1, <3>2, <3>3 DEF NewImages, OldImages
  <2> QED BY <2>1, <2>2
<1>11. NothingWithoutItsParent' BY <1>0, <1>1 DEF NothingWithoutItsParent
<1>12. NamesAgree'
  <2> SUFFICES ASSUME NEW n \in (rows \intersect (Courses \union Files)) \ clashed
               PROVE  \/ url[n] \in objects' \union {None}
                      \/ \E g \in Handlers :
                           /\ handlers'[g].row = n
                           /\ \/ handlers'[g].pc = "answered" /\ n \in Files
                              \/ handlers'[g].pc = "settled"
                              \/ handlers'[g].pc = "bare" /\ handlers'[g].old # None
    BY <1>0, <1>1 DEF NamesAgree, Now
  <2>1. n \in Holders \ Tasks /\ (url[n] = None \/ url[n] \in NamesOf(n))
    BY <1>0, UrlsFacts, KindFacts DEF NamesAgree
  <2>2. \/ url[n] \in objects \union {None}
        \/ \E g \in Handlers :
             /\ handlers[g].row = n
             /\ \/ handlers[g].pc = "answered" /\ n \in Files
                \/ handlers[g].pc = "settled"
                \/ handlers[g].pc = "bare" /\ handlers[g].old # None
    BY <1>0 DEF NamesAgree, Now
  <2>3. CASE n # q.row BY <1>2, <1>6, <2>1, <2>2, <2>3
  <2>4. CASE n = q.row
    <3>1. \A g \in Handlers : handlers[g].row = n => g = h
      BY <1>0, <1>3, <2>4 DEF MeetingsAgree
    <3>2. url[n] \in objects \union {None} BY <2>2, <3>1
    <3> QED BY <1>2, <1>4, <2>4, <3>2
  <2> QED BY <2>3, <2>4
<1>13. NoImageLeftBehind'
  <2> SUFFICES ASSUME NEW c \in Courses \ (clashed \union gone),
                      NEW i \in (ImageNames(c) \intersect objects') \ left'
               PROVE  url[c] = i \/ \E g \in Handlers : Holds(handlers'[g], c, i)
    BY <1>1 DEF NoImageLeftBehind, Holds
  <2>1. \A g \in Handlers : Holds(handlers[g], c, i) => Holds(handlers'[g], c, i)
    BY <1>2 DEF Holds
  <2>2. CASE i \in objects BY <1>0, <2>1, <2>2 DEF NoImageLeftBehind, Holds
  <2>3. CASE i \notin objects
    <3>1. i = q.name /\ q.name # None BY <2>3
    <3>2. c = q.row BY <1>4, <3>1, NamesFacts, KindFacts
    <3> QED BY <1>2, <3>1, <3>2 DEF Holds
  <2> QED BY <2>2, <2>3
<1>14. GradesAgree' BY <1>0, <1>1 DEF GradesAgree
<1>15. DeletionsAgree'
  <2>1. told' \subseteq rows \union gone
    BY <1>0, <1>3 DEF DeletionsAgree, HandlersAgree
  <2>2. ASSUME NEW n \in (told' \intersect rows) \ clashed
        PROVE  \/ \E s \in Submissions \intersect rows : n \in Above[s]
               \/ \E g \in Handlers : handlers'[g].row = n /\ handlers'[g].pc = "answered"
    <3>1. CASE n \in told
      <4>1. \/ \E s \in Submissions \intersect rows : n \in Above[s]
            \/ \E g \in Handlers : handlers[g].row = n /\ handlers[g].pc = "answered"
        BY <1>0, <2>2, <3>1 DEF DeletionsAgree, Now
      <4>2. \A g \in Handlers : handlers[g].pc = "answered" => g # h BY <1>3
      <4> QED BY <1>2, <4>1, <4>2
    <3>2. CASE n \notin told BY <1>2, <2>2, <3>2
    <3> QED BY <3>1, <3>2
  <2> QED BY <1>1, <2>1, <2>2 DEF DeletionsAgree, Now
<1> QED BY <1>7, <1>8, <1>9, <1>10, <1>11, <1>12, <1>13, <1>14, <1>15 DEF IInv

\* The steps of a request in the object storage, and the answer of a deletion.
LEMMA StorageKeeps ==
  ASSUME IInv, NEW h \in Handlers,
         \/ StoreFile(h) \/ StoreImage(h) \/ SwapImage(h)
         \/ \E removed \in BOOLEAN :
              AnswerDelete(h, removed) \/ RemoveSuperseded(h, removed) \/ RemoveImage(h, removed)
  PROVE  IInv'
<1>0. TypeOK /\ HandlersAgree BY DEF IInv
<1> PICK p \in HandlerRecord : p = handlers[h] BY <1>0 DEF TypeOK
<1>1. /\ p.pc \in {"deleting", "answered"} => p.name = None /\ (p.row \in Files \/ p.old = None)
      /\ p.pc \in Uploads => p.name # None
      /\ p.pc \in NewImages \union OldImages => p.row \in Courses
      /\ p.pc \in NewImages => p.name # None /\ p.name # p.old
  BY <1>0 DEF HandlersAgree
<1>2. Now(h, "idle") <=> p.pc = "idle" BY DEF Now
<1>3. None \notin objects
  BY <1>0, ConstantsAssumption DEF TypeOK
<1> DEFINE Goes(x) == [p EXCEPT !.pc = x]
<1>4. ASSUME NEW x \in {"answered", "uploaded", "pictured", "swapped", "settled", "bare"}
      PROVE  /\ Goes(x) \in HandlerRecord /\ Goes(x).pc = x /\ Goes(x).row = p.row
             /\ Goes(x).name = p.name /\ Goes(x).old = p.old
  BY <1>4 DEF HandlerRecord
<1> HIDE DEF Goes
<1>5. CASE StoreFile(h)
  <2>1. /\ p.pc = "uploading" /\ objects' = objects \union {p.name}
        /\ handlers' = [handlers EXCEPT ![h] = Goes("uploaded")]
        /\ UNCHANGED <<content, url, grades, told, clashed, left>>
    BY <1>5 DEF StoreFile, Now, Becomes, Goes, history
  <2> QED BY <1>1, <1>4, <2>1, GoesOnKeeps DEF Uploads
<1>6. CASE StoreImage(h)
  <2>1. /\ p.pc = "picturing" /\ objects' = objects \union {p.name}
        /\ handlers' = [handlers EXCEPT ![h] = Goes("pictured")]
        /\ UNCHANGED <<content, url, grades, told, clashed, left>>
    BY <1>6 DEF StoreImage, Now, Becomes, Goes, history
  <2> QED BY <1>1, <1>4, <2>1, GoesOnKeeps DEF NewImages
<1>7. CASE SwapImage(h)
  <2>1. /\ p.pc = "pictured" /\ handlers' = [handlers EXCEPT ![h] = Goes("swapped")]
        /\ UNCHANGED <<content, url, objects, grades, told, clashed, left>>
    BY <1>7 DEF SwapImage, Now, Becomes, Goes, history, files
  <2> QED BY <1>4, <2>1, GoesOnKeeps
<1>8. ASSUME NEW removed \in BOOLEAN, AnswerDelete(h, removed) PROVE IInv'
  <2>1. /\ p.pc = "deleting" /\ objects' = IF removed THEN objects \ {p.old} ELSE objects
        /\ handlers' = [handlers EXCEPT ![h] = Goes("answered")]
        /\ told' = told \union {p.row}
        /\ UNCHANGED <<content, url, grades, clashed, left>>
    BY <1>8 DEF AnswerDelete, Now, Becomes, Goes
  <2>2. p.old \in objects => p.row \in Files BY <1>1, <1>3, <2>1
  <2> QED BY <1>4, <2>1, <2>2, GoesOnKeeps
<1>9. ASSUME NEW removed \in BOOLEAN, RemoveSuperseded(h, removed) PROVE IInv'
  <2>1. /\ p.pc = "swapped" /\ objects' = IF removed THEN objects \ {p.old} ELSE objects
        /\ left' = IF removed THEN left ELSE left \union ({p.old} \ {None})
        /\ handlers' = [handlers EXCEPT ![h] = Goes("settled")]
        /\ UNCHANGED <<content, url, grades, clashed, told>>
    BY <1>9 DEF RemoveSuperseded, Superseded, Now, Becomes, Goes
  <2> QED BY <1>1, <1>4, <2>1, GoesOnKeeps DEF NewImages
<1>10. ASSUME NEW removed \in BOOLEAN, RemoveImage(h, removed) PROVE IInv'
  <2>1. /\ p.pc = "unpicturing" /\ objects' = IF removed THEN objects \ {p.old} ELSE objects
        /\ left' = IF removed THEN left ELSE left \union ({p.old} \ {None})
        /\ handlers' = [handlers EXCEPT ![h] = Goes("bare")]
        /\ UNCHANGED <<content, url, grades, clashed, told>>
    BY <1>10 DEF RemoveImage, Now, Becomes, Goes
  <2> QED BY <1>1, <1>3, <1>4, <2>1, GoesOnKeeps DEF OldImages
<1> QED BY <1>5, <1>6, <1>7, <1>8, <1>9, <1>10

\* A request ends: it writes its own row or none, and the objects are what the row says.
LEMMA EndsKeeps ==
  ASSUME IInv, NEW h \in Handlers, NEW p \in HandlerRecord, p = handlers[h], p.pc # "idle",
         handlers' = [handlers EXCEPT ![h] = Idle],
         UNCHANGED <<content, objects, told, left>>,
         clashed' \in {clashed, clashed \union {p.row}},
         url' \in [Holders -> Names \union Given \union {None}],
         grades' \in [Submissions -> Grades],
         \A n \in Holders \ {p.row} : url'[n] = url[n],
         \A s \in Submissions \ {p.row} : grades'[s] = grades[s],
         p.row \in Holders => url'[p.row] \in UrlsOf(p.row) \union {None},
         p.row \notin clashed' =>
           /\ p.row \in rows \intersect (Courses \union Files) => url'[p.row] \in objects \union {None}
           /\ p.row \in Submissions => PassedAsScored(grades'[p.row])
           /\ p.row \in Courses \ gone =>
                \A i \in (ImageNames(p.row) \intersect objects) \ left :
                  (url[p.row] = i \/ i \in {p.name, p.old}) => url'[p.row] = i
           /\ p.pc = "answered" =>
                p.row \notin rows \/ \E s \in Submissions \intersect rows : p.row \in Above[s]
  PROVE  IInv'
<1>0. /\ TypeOK /\ HandlersAgree /\ MeetingsAgree /\ RequestsAgree /\ NothingWithoutItsParent
      /\ NamesAgree /\ NoImageLeftBehind /\ GradesAgree /\ DeletionsAgree
  BY DEF IInv
<1>1. UNCHANGED <<rows, gone, teacher, published, enrolled, progress>> BY DEF content
<1>2. handlers'[h] = Idle /\ \A g \in Handlers : g # h => handlers'[g] = handlers[g]
  BY <1>0 DEF TypeOK
<1>3. ~Now(h, "idle") BY DEF Now
<1>4. /\ p.row \in Rows /\ p.row # None /\ p.row \in rows \union gone
      /\ \A x \in {p.name, p.old} \ {None} :
           p.row \in Holders /\ (p.row \notin Tasks => x \in NamesOf(p.row))
  BY <1>0, <1>3, HandlerFacts DEF HandlersAgree
<1>5. \A g \in Handlers : g # h /\ handlers[g].row = p.row => p.row \in clashed
  BY <1>0, <1>3 DEF MeetingsAgree
<1>6. TypeOK' BY <1>0, <1>1, <1>4, IdleFacts DEF TypeOK
<1>7. HandlersAgree'
  <2> SUFFICES ASSUME NEW g \in Handlers
               PROVE  LET r == handlers'[g] IN
                      /\ IF r.pc = "idle" THEN r = Idle ELSE r.row \in rows' \union gone'
                      /\ r.name \in NamesOf(r.row) \union {None} /\ r.old \in UrlsOf(r.row) \union {None}
                      /\ r.pc \in {"deleting", "answered"} =>
                           /\ r.row \notin Submissions
                           /\ r.name = None
                           /\ r.row \in Files \/ r.old = None
                      /\ r.pc \in Uploads => r.row \in Tasks \union Files /\ r.name # None
                      /\ r.pc \in NewImages \union OldImages => r.row \in Courses
                      /\ r.pc \in NewImages => r.name # None /\ r.name # r.old
                      /\ r.pc \in OldImages => r.name = None
                      /\ r.pc = "grading" =>
                           r.row \in Submissions /\ r.new \in Scores /\ r.name = None /\ r.old = None
    BY DEF HandlersAgree, Now
  <2>1. CASE g # h BY <1>0, <1>1, <1>2, <2>1 DEF HandlersAgree, Now
  <2>2. CASE g = h BY <1>2, <2>2, IdleFacts DEF Uploads, NewImages, OldImages
  <2> QED BY <2>1, <2>2
<1>8. MeetingsAgree'
  <2> SUFFICES ASSUME NEW f \in Handlers, NEW g \in Handlers, f # g,
                      handlers'[f].row = handlers'[g].row, handlers'[g].pc # "idle"
               PROVE  handlers'[g].row \in clashed'
    BY DEF MeetingsAgree, Now
  <2>1. g # h /\ handlers'[g] = handlers[g] BY <1>2, IdleFacts
  <2>2. handlers[g].row # None BY <1>0, <2>1, HandlerFacts DEF Now
  <2>3. f # h BY <1>2, <2>1, <2>2, IdleFacts
  <2> QED BY <1>0, <1>2, <2>1, <2>3 DEF MeetingsAgree, Now
<1>9. RequestsAgree'
  <2> SUFFICES ASSUME NEW g \in Handlers, handlers'[g].pc # "idle", handlers'[g].row \notin clashed'
               PROVE  LET r == handlers'[g] IN
                      /\ r.pc \in NewImages \union OldImages => url'[r.row] = r.old
                      /\ r.pc = "grading" => grades'[r.row] = r.grade
                      /\ r.pc \in {"uploaded", "pictured", "swapped", "settled"} => r.name \in objects
                      /\ r.pc \in {"settled", "bare"} /\ r.old # None => r.old \notin objects \ left
    BY DEF RequestsAgree, Now
  <2>1. g # h /\ handlers'[g] = handlers[g] BY <1>2, IdleFacts
  <2> PICK r \in HandlerRecord : r = handlers[g] BY <1>0 DEF TypeOK
  <2>2. r.row # p.row BY <1>5, <2>1
  <2>3. /\ r.pc \in NewImages \union OldImages => url[r.row] = r.old
        /\ r.pc = "grading" => grades[r.row] = r.grade
        /\ r.pc \in {"uploaded", "pictured", "swapped", "settled"} => r.name \in objects
        /\ r.pc \in {"settled", "bare"} /\ r.old # None => r.old \notin objects \ left
    BY <1>0, <2>1 DEF RequestsAgree, Now
  <2>4. /\ r.pc \in NewImages \union OldImages => r.row \in Courses
        /\ r.pc = "grading" => r.row \in Submissions
    BY <1>0 DEF HandlersAgree
  <2> QED BY <2>1, <2>2, <2>3, <2>4, KindFacts
<1>10. NothingWithoutItsParent' BY <1>0, <1>1 DEF NothingWithoutItsParent
<1>11. NamesAgree'
  <2>1. \A n \in Holders : url'[n] = None \/ (n \in rows \union gone /\ url'[n] \in UrlsOf(n))
    BY <1>0, <1>4 DEF NamesAgree
  <2>2. ASSUME NEW n \in (rows \intersect (Courses \union Files)) \ clashed'
        PROVE  \/ url'[n] \in objects \union {None}
               \/ \E g \in Handlers :
                    /\ handlers'[g].row = n
                    /\ \/ handlers'[g].pc = "answered" /\ n \in Files
                       \/ handlers'[g].pc = "settled"
                       \/ handlers'[g].pc = "bare" /\ handlers'[g].old # None
    <3>1. CASE n = p.row BY <2>2, <3>1
    <3>2. CASE n # p.row
      <4>1. \/ url[n] \in objects \union {None}
            \/ \E g \in Handlers \ {h} :
                 /\ handlers[g].row = n
                 /\ \/ handlers[g].pc = "answered" /\ n \in Files
                    \/ handlers[g].pc = "settled"
                    \/ handlers[g].pc = "bare" /\ handlers[g].old # None
        BY <1>0, <2>2, <3>2 DEF NamesAgree, Now
      <4>2. url'[n] = url[n] BY <2>2, <3>2, KindFacts
      <4> QED BY <1>2, <4>1, <4>2
    <3> QED BY <3>1, <3>2
  <2> QED BY <1>1, <2>1, <2>2 DEF NamesAgree, Now
<1>12. NoImageLeftBehind'
  <2> SUFFICES ASSUME NEW c \in Courses \ (clashed' \union gone),
                      NEW i \in (ImageNames(c) \intersect objects) \ left
               PROVE  url'[c] = i \/ \E g \in Handlers : Holds(handlers'[g], c, i)
    BY <1>1 DEF NoImageLeftBehind, Holds
  <2>1. url[c] = i \/ \E g \in Handlers : Holds(handlers[g], c, i)
    BY <1>0 DEF NoImageLeftBehind, Holds
  <2>2. i # None /\ i \in NamesOf(c) /\ c \in Holders BY NamesFacts, KindFacts
  <2>3. CASE c # p.row
    <3>1. ~Holds(handlers[h], c, i) BY <2>3 DEF Holds
    <3>2. url'[c] = url[c] BY <2>2, <2>3
    <3> QED BY <1>2, <2>1, <3>1, <3>2
  <2>4. CASE c = p.row
    <3>1. \A g \in Handlers : Holds(handlers[g], c, i) => g = h BY <1>5, <2>4 DEF Holds
    <3>2. url[c] = i \/ i \in {p.name, p.old} BY <2>1, <3>1 DEF Holds
    <3> QED BY <2>4, <3>2
  <2> QED BY <2>3, <2>4
<1>13. GradesAgree'
  <2> SUFFICES ASSUME NEW s \in Submissions \ clashed'
               PROVE  PassedAsScored(grades'[s])
    BY DEF GradesAgree
  <2>1. CASE s = p.row BY <2>1
  <2>2. CASE s # p.row
    <3>1. grades'[s] = grades[s] BY <2>2
    <3> QED BY <1>0, <3>1 DEF GradesAgree
  <2> QED BY <2>1, <2>2
<1>14. DeletionsAgree'
  <2> SUFFICES ASSUME NEW n \in (told \intersect rows) \ clashed'
               PROVE  \/ \E s \in Submissions \intersect rows : n \in Above[s]
                      \/ \E g \in Handlers : handlers'[g].row = n /\ handlers'[g].pc = "answered"
    BY <1>0, <1>1 DEF DeletionsAgree, Now
  <2>1. \/ \E s \in Submissions \intersect rows : n \in Above[s]
        \/ \E g \in Handlers : handlers[g].row = n /\ handlers[g].pc = "answered"
    BY <1>0 DEF DeletionsAgree, Now
  <2> QED BY <1>2, <2>1
<1> QED BY <1>6, <1>7, <1>8, <1>9, <1>10, <1>11, <1>12, <1>13, <1>14 DEF IInv

\* The object that a row names is there while no request has removed it.
LEMMA NamedNow ==
  ASSUME IInv, NEW h \in Handlers, ~Now(h, "idle"),
         handlers[h].row \in (rows \intersect (Courses \union Files)) \ clashed,
         ~Now(h, "settled"), Now(h, "answered") => handlers[h].row \notin Files,
         Now(h, "bare") => handlers[h].old = None
  PROVE  url[handlers[h].row] \in objects \union {None}
<1>1. \A g \in Handlers : handlers[g].row = handlers[h].row => g = h
  BY DEF IInv, MeetingsAgree
<1> QED BY <1>1 DEF IInv, NamesAgree

LEMMA WritesKeep ==
  ASSUME IInv, NEW h \in Handlers,
         SaveFile(h) \/ CommitImage(h) \/ ForgetImage(h) \/ WriteGrade(h) \/ Fail(h)
  PROVE  IInv'
<1>0. TypeOK /\ HandlersAgree /\ RequestsAgree BY DEF IInv
<1> PICK p \in HandlerRecord : p = handlers[h] BY <1>0 DEF TypeOK
<1>1. /\ p.pc \in Uploads => p.row \in Tasks \union Files /\ p.name # None
      /\ p.pc \in NewImages \union OldImages => p.row \in Courses
      /\ p.pc \in NewImages => p.name # None /\ p.name # p.old
      /\ p.pc \in OldImages => p.name = None
      /\ p.pc = "grading" =>
           p.row \in Submissions /\ p.new \in Scores /\ p.name = None /\ p.old = None
  BY <1>0 DEF HandlersAgree
<1>2. \A x : Now(h, x) <=> p.pc = x BY DEF Now
<1>3. ~Now(h, "idle") /\ p.name # None =>
        /\ p.row \in Holders /\ p.name \in NamesOf(p.row) /\ p.name \in UrlsOf(p.row)
        /\ p.name \in Names
  BY <1>0, HandlerFacts, NamesFacts, UrlsFacts, KindFacts
<1>4. ~Now(h, "idle") /\ p.row \notin clashed =>
        /\ p.pc \in NewImages \union OldImages => url[p.row] = p.old
        /\ p.pc = "grading" => grades[p.row] = p.grade
        /\ p.pc \in {"uploaded", "pictured", "swapped", "settled"} => p.name \in objects
        /\ p.pc \in {"settled", "bare"} /\ p.old # None => p.old \notin objects \ left
  BY <1>0 DEF RequestsAgree
<1>5. /\ url \in [Holders -> Names \union Given \union {None}] /\ grades \in [Submissions -> Grades]
      /\ \A n \in Holders : url[n] \in UrlsOf(n) \union {None}
      /\ GradesAgree /\ NoImageLeftBehind
  BY DEF IInv, TypeOK, NamesAgree
<1>6. CASE Fail(h)
  <2>1. /\ p.pc # "idle" /\ clashed' = clashed \union {p.row}
        /\ handlers' = [handlers EXCEPT ![h] = Idle]
        /\ UNCHANGED <<content, url, objects, grades, told, left>>
    BY <1>6, <1>2 DEF Fail, Becomes, files
  <2> QED BY <1>5, <2>1, EndsKeeps
<1>7. CASE SaveFile(h)
  <2>1. /\ p.pc = "uploaded" /\ p.row \in rows
        /\ url' = IF p.name = p.old THEN url ELSE [url EXCEPT ![p.row] = p.name]
        /\ handlers' = [handlers EXCEPT ![h] = Idle]
        /\ UNCHANGED <<content, objects, grades, told, clashed, left>>
    BY <1>7 DEF SaveFile, Now, Becomes, history
  <2>2. p.row \in Tasks \union Files /\ p.name # None BY <1>1, <2>1 DEF Uploads
  <2>3. /\ url' \in [Holders -> Names \union Given \union {None}]
        /\ \A n \in Holders \ {p.row} : url'[n] = url[n]
        /\ url'[p.row] \in UrlsOf(p.row) \union {None}
    BY <1>2, <1>3, <1>5, <2>1, <2>2, KindFacts
  <2>4. p.row \notin clashed =>
          /\ p.row \in Files => url[p.row] \in objects \union {None}
          /\ p.name \in objects
    BY <1>2, <1>4, <2>1, <2>2, NamedNow, KindFacts
  <2>5. p.row \notin clashed /\ p.row \in Files => url'[p.row] \in objects \union {None}
    BY <1>5, <2>1, <2>2, <2>4, KindFacts
  <2>6. p.row \notin Submissions /\ p.row \notin Courses BY <2>2, KindFacts
  <2> QED BY <1>5, <2>1, <2>3, <2>5, <2>6, EndsKeeps
<1>8. CASE CommitImage(h)
  <2>1. /\ p.pc = "settled" /\ url' = [url EXCEPT ![p.row] = p.name]
        /\ handlers' = [handlers EXCEPT ![h] = Idle]
        /\ UNCHANGED <<content, objects, grades, told, clashed, left>>
    BY <1>8 DEF CommitImage, Now, Becomes, history
  <2>2. p.row \in Courses /\ p.name # None BY <1>1, <2>1 DEF NewImages
  <2>3. /\ url' \in [Holders -> Names \union Given \union {None}] /\ url'[p.row] = p.name
        /\ \A n \in Holders \ {p.row} : url'[n] = url[n]
        /\ p.name \in UrlsOf(p.row)
    BY <1>2, <1>3, <1>5, <2>1, <2>2, KindFacts
  <2>4. p.row \notin clashed =>
          /\ p.name \in objects /\ url[p.row] = p.old
          /\ p.old # None => p.old \notin objects \ left
    BY <1>2, <1>4, <2>1 DEF NewImages
  <2>5. \A i \in ImageNames(p.row) : i # None BY <2>2, NamesFacts, KindFacts
  <2>6. p.row \notin Submissions BY <2>2, KindFacts
  <2>7. p.row \notin clashed =>
          \A i \in (ImageNames(p.row) \intersect objects) \ left :
            (url[p.row] = i \/ i \in {p.name, p.old}) => url'[p.row] = i
    BY <2>3, <2>4, <2>5
  <2> QED BY <1>5, <2>1, <2>3, <2>4, <2>6, <2>7, EndsKeeps
<1>9. CASE ForgetImage(h)
  <2>1. /\ p.pc = "bare" /\ p.row \in rows
        /\ url' = IF p.old = None THEN url ELSE [url EXCEPT ![p.row] = None]
        /\ handlers' = [handlers EXCEPT ![h] = Idle]
        /\ UNCHANGED <<content, objects, grades, told, clashed, left>>
    BY <1>9 DEF ForgetImage, Now, Becomes, history
  <2>2. p.row \in Courses /\ p.name = None BY <1>1, <2>1 DEF OldImages
  <2>3. /\ url' \in [Holders -> Names \union Given \union {None}]
        /\ \A n \in Holders \ {p.row} : url'[n] = url[n]
        /\ url'[p.row] \in {url[p.row], None}
        /\ p.old = None => url'[p.row] = url[p.row]
    BY <1>5, <2>1, <2>2, KindFacts
  <2>4. p.row \notin clashed =>
          /\ url[p.row] = p.old
          /\ p.old # None => p.old \notin objects \ left
    BY <1>2, <1>4, <2>1 DEF OldImages
  <2>5. \A i \in ImageNames(p.row) : i # None BY <2>2, NamesFacts, KindFacts
  <2>6. p.row \notin Submissions /\ p.row \in Holders BY <2>2, KindFacts
  <2>7. p.row \notin clashed => url'[p.row] = None
    BY <1>5, <2>1, <2>3, <2>4, <2>6
  <2>8. p.row \notin clashed =>
          \A i \in (ImageNames(p.row) \intersect objects) \ left :
            (url[p.row] = i \/ i \in {p.name, p.old}) => url'[p.row] = i
    BY <2>2, <2>4, <2>5, <2>7
  <2>9. url'[p.row] \in UrlsOf(p.row) \union {None} BY <1>5, <2>3, <2>6
  <2> QED BY <1>5, <2>1, <2>3, <2>6, <2>7, <2>8, <2>9, EndsKeeps
<1>10. CASE WriteGrade(h)
  <2>1. /\ p.pc = "grading"
        /\ grades' = [grades EXCEPT ![p.row] =
             [score |-> IF p.new # p.grade.score THEN Stored(p.new) ELSE grades[p.row].score,
              passed |-> IF Passes(h) # p.grade.passed THEN Passes(h) ELSE grades[p.row].passed]]
        /\ handlers' = [handlers EXCEPT ![h] = Idle]
        /\ UNCHANGED <<content, url, objects, told, clashed, left>>
    BY <1>10 DEF WriteGrade, Now, Becomes, history, files
  <2>2. p.row \in Submissions /\ p.new \in Scores BY <1>1, <2>1
  <2> DEFINE all == {Stored(x) : x \in Scores} \union {None}
  <2>3. grades[p.row].score \in all /\ grades[p.row].passed \in BOOLEAN
    BY <1>5, <2>2 DEF Grades
  <2> DEFINE score == IF p.new # p.grade.score THEN Stored(p.new) ELSE grades[p.row].score
             passed == IF Passes(h) # p.grade.passed THEN Passes(h) ELSE grades[p.row].passed
  <2>4. (Passes(h) <=> p.new >= PassingScore) /\ Passes(h) \in BOOLEAN
    BY <2>2, ConstantsAssumption DEF Passes
  <2>5. score \in all /\ passed \in BOOLEAN BY <2>2, <2>3, <2>4
  <2>6. p.row \notin clashed => score \in {Stored(p.new), p.new} /\ (passed <=> Passes(h))
    BY <1>2, <1>4, <2>1, <2>3, <2>4
  <2> HIDE DEF score, passed
  <2>7. [score |-> score, passed |-> passed] \in Grades BY <2>5 DEF Grades
  <2>8. /\ grades' \in [Submissions -> Grades]
        /\ grades'[p.row] = [score |-> score, passed |-> passed]
        /\ \A s \in Submissions \ {p.row} : grades'[s] = grades[s]
    BY <1>5, <2>1, <2>2, <2>7 DEF score, passed
  <2>9. /\ p.new # None /\ Stored(p.new) # None
        /\ p.new \in Nat /\ Stored(p.new) \in Nat /\ PassingScore \in Nat
        /\ p.new >= PassingScore => Stored(p.new) >= PassingScore
        /\ Stored(p.new) > PassingScore => p.new >= PassingScore
    BY <2>2, StoredFacts, ConstantsAssumption
  <2>10. p.row \notin clashed => PassedAsScored(grades'[p.row])
    <3> SUFFICES ASSUME p.row \notin clashed PROVE PassedAsScored(grades'[p.row]) OBVIOUS
    <3>1. score \in {Stored(p.new), p.new} /\ (passed <=> p.new >= PassingScore) BY <2>4, <2>6
    <3>2. /\ passed => score # None /\ score >= PassingScore
          /\ score # None /\ score > PassingScore => passed
      <4>1. CASE score = Stored(p.new) BY <2>9, <3>1, <4>1
      <4>2. CASE score = p.new BY <2>9, <3>1, <4>2
      <4> QED BY <3>1, <4>1, <4>2
    <3>3. grades'[p.row].score = score /\ grades'[p.row].passed = passed BY <2>8
    <3> QED BY <3>2, <3>3 DEF PassedAsScored
  <2>11. p.row \notin Holders /\ p.row \notin Courses \union Files BY <2>2, KindFacts
  <2> QED BY <1>5, <2>1, <2>8, <2>10, <2>11, EndsKeeps
<1> QED BY <1>6, <1>7, <1>8, <1>9, <1>10

\* Submissions are never deleted.
LEMMA SubmissionsStay ==
  ASSUME NEW n \in Rows \ Submissions, ~Undeletable(n), rows \subseteq Rows
  PROVE  Cascade(n) \intersect rows \intersect Submissions = {}
  BY DEF Undeletable, Cascade, Below

LEMMA CommitDeleteKeeps ==
  ASSUME IInv, NEW h \in Handlers, CommitDelete(h)
  PROVE  IInv'
<1>0. /\ TypeOK /\ HandlersAgree /\ MeetingsAgree /\ RequestsAgree /\ NothingWithoutItsParent
      /\ NamesAgree /\ NoImageLeftBehind /\ GradesAgree /\ DeletionsAgree
  BY DEF IInv
<1>0a. PICK p \in HandlerRecord : p = handlers[h] BY <1>0 DEF TypeOK
<1>0b. PICK n : n = p.row OBVIOUS
<1>1. /\ p.pc = "answered" /\ n \notin Submissions
      /\ p.name = None /\ (n \in Files \/ p.old = None)
  BY <1>0, <1>0a, <1>0b DEF CommitDelete, Now, HandlersAgree
<1>2. ~Now(h, "idle") /\ Now(h, "answered") /\ ~Now(h, "settled") /\ ~Now(h, "bare")
  BY <1>1, <1>0a DEF Now
<1>3. n \in Rows /\ n # None /\ (p.old # None => n \in Holders /\ p.old \in NamesOf(n))
  BY <1>0, <1>1, <1>2, <1>0a, <1>0b, HandlerFacts, KindFacts
<1>4. /\ handlers' = [handlers EXCEPT ![h] = Idle]
      /\ UNCHANGED <<url, objects, grades, told, clashed, left>>
  BY DEF CommitDelete, Becomes, files, history
<1>5. CASE Undeletable(n)
  <2>1. UNCHANGED content BY <1>5, <1>0a, <1>0b DEF CommitDelete, content
  <2>2. PICK s \in Submissions \intersect rows : n \in Above[s] BY <1>5 DEF Undeletable
  <2>3. n \notin Files
    <3>1. n \in Courses \union Modules \union Lessons \union Tasks BY <2>2, AboveAbove, KindFacts
    <3> QED BY <3>1, ConstantsAssumption DEF Contents
  <2>4. n \in (rows \intersect (Courses \union Files)) \ clashed => url[n] \in objects \union {None}
    BY <1>2, <1>0a, <1>0b, <2>3, NamedNow
  <2>5. /\ url \in [Holders -> Names \union Given \union {None}] /\ grades \in [Submissions -> Grades]
        /\ \A m \in Holders : url[m] \in UrlsOf(m) \union {None}
    BY <1>0 DEF TypeOK, NamesAgree
  <2>6. \A i \in ImageNames(n) : n \in Courses => i # None BY NamesFacts, KindFacts
  <2>7. p.old = None BY <1>1, <2>3
  <2>8. n \in Courses =>
          \A i \in (ImageNames(n) \intersect objects) \ left :
            (url[n] = i \/ i \in {p.name, p.old}) => url[n] = i
    BY <1>1, <2>6, <2>7
  <2> QED BY <1>0a, <1>0b, <1>1, <1>4, <2>1, <2>2, <2>4, <2>5, <2>8, EndsKeeps
<1>6. CASE ~Undeletable(n)
  <2>0. PICK all : all = Cascade(n) \intersect rows OBVIOUS
  <2>1. /\ rows' = rows \ all /\ gone' = gone \union all
        /\ enrolled' = enrolled \ all /\ progress' = progress \ all
        /\ published' = published \ all
        /\ teacher' = [c \in Courses |-> IF c \in all THEN None ELSE teacher[c]]
    BY <1>6, <1>0a, <1>0b, <2>0 DEF CommitDelete
  <2>2. /\ all \subseteq rows /\ all \intersect Submissions = {} /\ n \notin rows'
        /\ rows' \union gone' = rows \union gone
    BY <1>0, <1>1, <1>3, <1>6, <2>0, <2>1, SubmissionsStay DEF TypeOK, Cascade
  <2>3. handlers'[h] = Idle /\ \A g \in Handlers : g # h => handlers'[g] = handlers[g]
    BY <1>0, <1>4 DEF TypeOK
  <2>4. TypeOK'
    <3>1. /\ rows' \subseteq Rows /\ gone' \subseteq Rows \ rows'
          /\ published' \subseteq Courses \intersect rows'
          /\ enrolled' \subseteq Courses /\ progress' \subseteq Lessons
      BY <1>0, <2>1, <2>2 DEF TypeOK
    <3>2. teacher' \in [Courses -> Teachers \union {None}] BY <1>0, <2>1 DEF TypeOK
    <3>3. handlers' \in [Handlers -> HandlerRecord] BY <1>0, <1>4, IdleFacts DEF TypeOK
    <3> QED BY <1>0, <1>4, <3>1, <3>2, <3>3 DEF TypeOK
  <2>5. HandlersAgree'
    <3> SUFFICES ASSUME NEW g \in Handlers
                 PROVE  LET r == handlers'[g] IN
                        /\ IF r.pc = "idle" THEN r = Idle ELSE r.row \in rows' \union gone'
                        /\ r.name \in NamesOf(r.row) \union {None} /\ r.old \in UrlsOf(r.row) \union {None}
                        /\ r.pc \in {"deleting", "answered"} =>
                             /\ r.row \notin Submissions
                             /\ r.name = None
                             /\ r.row \in Files \/ r.old = None
                        /\ r.pc \in Uploads => r.row \in Tasks \union Files /\ r.name # None
                        /\ r.pc \in NewImages \union OldImages => r.row \in Courses
                        /\ r.pc \in NewImages => r.name # None /\ r.name # r.old
                        /\ r.pc \in OldImages => r.name = None
                        /\ r.pc = "grading" =>
                             /\ r.row \in Submissions /\ r.new \in Scores
                             /\ r.name = None /\ r.old = None
      BY DEF HandlersAgree, Now
    <3>1. CASE g # h BY <1>0, <2>2, <2>3, <3>1 DEF HandlersAgree, Now
    <3>2. CASE g = h BY <2>3, <3>2, IdleFacts DEF Uploads, NewImages, OldImages
    <3> QED BY <3>1, <3>2
  <2>6. MeetingsAgree'
    <3> SUFFICES ASSUME NEW f \in Handlers, NEW g \in Handlers, f # g,
                        handlers'[f].row = handlers'[g].row, handlers'[g].pc # "idle"
                 PROVE  handlers'[g].row \in clashed
      BY <1>4 DEF MeetingsAgree, Now
    <3>1. g # h /\ handlers'[g] = handlers[g] BY <2>3, IdleFacts
    <3>2. handlers[g].row # None BY <1>0, <3>1, HandlerFacts DEF Now
    <3>3. f # h BY <2>3, <3>1, <3>2, IdleFacts
    <3> QED BY <1>0, <2>3, <3>1, <3>3 DEF MeetingsAgree, Now
  <2>7. RequestsAgree'
    <3> SUFFICES ASSUME NEW g \in Handlers, handlers'[g].pc # "idle",
                        handlers'[g].row \notin clashed
                 PROVE  LET r == handlers'[g] IN
                        /\ r.pc \in NewImages \union OldImages => url[r.row] = r.old
                        /\ r.pc = "grading" => grades[r.row] = r.grade
                        /\ r.pc \in {"uploaded", "pictured", "swapped", "settled"} =>
                             r.name \in objects
                        /\ r.pc \in {"settled", "bare"} /\ r.old # None =>
                             r.old \notin objects \ left
      BY <1>4 DEF RequestsAgree, Now
    <3>1. g # h /\ handlers'[g] = handlers[g] BY <2>3, IdleFacts
    <3> QED BY <1>0, <3>1 DEF RequestsAgree, Now
  <2>8. NothingWithoutItsParent'
    <3>1. ASSUME NEW m \in rows', NEW k \in Above[m] PROVE k \in rows'
      <4>1. m \in Rows /\ m \in rows /\ k \in rows /\ Above[k] \subseteq Above[m]
        BY <1>0, <2>1, <3>1, AboveAbove DEF TypeOK, NothingWithoutItsParent
      <4>2. m \notin Cascade(n) BY <2>0, <2>1, <4>1
      <4>3. n \notin Above[m] BY <4>1, <4>2 DEF Cascade, Below
      <4>4. k \notin Cascade(n) BY <3>1, <4>1, <4>3 DEF Cascade, Below
      <4> QED BY <2>0, <2>1, <4>1, <4>4
    <3>2. enrolled' \union progress' \subseteq rows'
      BY <1>0, <2>1 DEF NothingWithoutItsParent
    <3> QED BY <3>1, <3>2 DEF NothingWithoutItsParent
  <2>9. NamesAgree'
    <3>1. \A m \in Holders : url[m] = None \/ (m \in rows' \union gone' /\ url[m] \in UrlsOf(m))
      BY <1>0, <2>2 DEF NamesAgree
    <3>2. ASSUME NEW m \in (rows' \intersect (Courses \union Files)) \ clashed
          PROVE  \/ url[m] \in objects \union {None}
                 \/ \E g \in Handlers :
                      /\ handlers'[g].row = m
                      /\ \/ handlers'[g].pc = "answered" /\ m \in Files
                         \/ handlers'[g].pc = "settled"
                         \/ handlers'[g].pc = "bare" /\ handlers'[g].old # None
      <4>1. \/ url[m] \in objects \union {None}
            \/ \E g \in Handlers :
                 /\ handlers[g].row = m
                 /\ \/ handlers[g].pc = "answered" /\ m \in Files
                    \/ handlers[g].pc = "settled"
                    \/ handlers[g].pc = "bare" /\ handlers[g].old # None
        BY <1>0, <2>1, <3>2 DEF NamesAgree, Now
      <4>2. handlers[h].row # m BY <1>0a, <1>0b, <2>2, <3>2
      <4> QED BY <2>3, <4>1, <4>2
    <3> QED BY <1>4, <3>1, <3>2 DEF NamesAgree, Now
  <2>10. NoImageLeftBehind'
    <3> SUFFICES ASSUME NEW c \in Courses \ (clashed \union gone'),
                        NEW i \in (ImageNames(c) \intersect objects) \ left
                 PROVE  \/ url[c] = i
                        \/ \E g \in Handlers : Holds(handlers'[g], c, i)
      BY <1>4 DEF NoImageLeftBehind, Holds
    <3>1. url[c] = i \/ \E g \in Handlers : Holds(handlers[g], c, i)
      BY <1>0, <2>1 DEF NoImageLeftBehind, Holds
    <3>2. i # None /\ i \in NamesOf(c) /\ c \in Holders BY NamesFacts, KindFacts
    <3>3. ~Holds(p, c, i)
      <4>1. CASE p.old = None BY <1>1, <3>2, <4>1 DEF Holds
      <4>2. CASE n \in Files
        <5>1. n # c BY <4>2, KindFacts
        <5> QED BY <1>0b, <5>1 DEF Holds
      <4> QED BY <1>1, <4>1, <4>2
    <3> QED BY <1>0a, <2>3, <3>1, <3>3
  <2>11. GradesAgree' BY <1>0, <1>4 DEF GradesAgree
  <2>12. DeletionsAgree'
    <3> SUFFICES ASSUME NEW m \in (told \intersect rows') \ clashed
                 PROVE  \/ \E s \in Submissions \intersect rows' : m \in Above[s]
                        \/ \E g \in Handlers : handlers'[g].row = m /\ handlers'[g].pc = "answered"
      BY <1>0, <1>4, <2>2 DEF DeletionsAgree, Now
    <3>1. \/ \E s \in Submissions \intersect rows : m \in Above[s]
          \/ \E g \in Handlers : handlers[g].row = m /\ handlers[g].pc = "answered"
      BY <1>0, <2>1 DEF DeletionsAgree, Now
    <3>2. handlers[h].row # m BY <1>0a, <1>0b, <2>2
    <3>3. Submissions \intersect rows' = Submissions \intersect rows BY <2>1, <2>2
    <3> QED BY <2>3, <3>1, <3>2, <3>3
  <2> QED BY <2>4, <2>5, <2>6, <2>7, <2>8, <2>9, <2>10, <2>11, <2>12 DEF IInv
<1> QED BY <1>5, <1>6

\* The requests that managers make.
LEMMA ManagerKeeps ==
  ASSUME IInv, NEW u \in Teachers \union {Admin}, ManagerStep(u)
  PROVE  IInv'
<1>0. TypeOK /\ NoGrade \in Grades BY DEF IInv, TypeOK, NoGrade, Grades
<1>1. \A n \in rows : n \in Rows BY <1>0 DEF TypeOK
<1>2. ASSUME NEW h \in Handlers, NEW n \in Rows, NEW x, Delete(h, u, n, x),
             n \notin Submissions, x = None \/ (n \in Files /\ x = url[n])
      PROVE  IInv'
  <2> DEFINE q == [Idle EXCEPT !.pc = "deleting", !.row = n, !.old = x]
  <2>1. Begin(h, q) /\ UNCHANGED <<content, files, grades, told, left>> /\ n \in rows
    BY <1>2 DEF Delete
  <2>2. x \in Names \union Given \union {None} BY <1>0, <1>2, KindFacts DEF TypeOK
  <2>3. /\ q \in HandlerRecord /\ q.pc = "deleting" /\ q.row = n /\ q.old = x /\ q.name = None
    BY <1>0, <2>2 DEF Idle, HandlerRecord
  <2> HIDE DEF q
  <2> QED BY <1>2, <2>1, <2>3, BeginKeeps, KindFacts
<1>3. ASSUME NEW h \in Handlers, NEW n \in Tasks \union Files, NEW l \in Lessons,
             NEW e \in Extensions, UploadFile(h, u, n, l, e)
      PROVE  IInv'
  <2> DEFINE q == [Idle EXCEPT !.pc = "uploading", !.row = n, !.name = FileName(n, l, e),
                               !.old = url[n]]
  <2>1. Begin(h, q) /\ UNCHANGED <<content, files, grades, told, left>> /\ n \in rows
    BY <1>3 DEF UploadFile
  <2>2. /\ url[n] \in Names \union Given \union {None} /\ n \in Holders /\ n \notin Courses
        /\ FileName(n, l, e) \in NamesOf(n)
    BY <1>0, KindFacts DEF TypeOK, NamesOf
  <2>3. FileName(n, l, e) \in Names /\ FileName(n, l, e) # None BY <2>2, NamesFacts
  <2>4. /\ q \in HandlerRecord /\ q.pc = "uploading" /\ q.row = n /\ q.old = url[n]
        /\ q.name = FileName(n, l, e)
    BY <1>0, <2>2, <2>3, KindFacts DEF Idle, HandlerRecord
  <2> HIDE DEF q
  <2> QED BY <2>1, <2>2, <2>3, <2>4, BeginKeeps
<1>4. ASSUME NEW h \in Handlers, NEW c \in Courses, NEW i \in ImageNames(c), UploadImage(h, u, c, i)
      PROVE  IInv'
  <2> DEFINE q == [Idle EXCEPT !.pc = "picturing", !.row = c, !.name = i, !.old = url[c]]
  <2>1. /\ Begin(h, q) /\ UNCHANGED <<content, files, grades, told, left>> /\ c \in rows
        /\ i # url[c]
    BY <1>4 DEF UploadImage, NewImage
  <2>2. /\ url[c] \in Names \union Given \union {None} /\ c \in Holders /\ i \in NamesOf(c)
    BY <1>0, KindFacts, NamesFacts DEF TypeOK
  <2>3. i \in Names /\ i # None BY <2>2, NamesFacts
  <2>4. q \in HandlerRecord /\ q.pc = "picturing" /\ q.row = c /\ q.old = url[c] /\ q.name = i
    BY <1>0, <2>2, <2>3, KindFacts DEF Idle, HandlerRecord
  <2> HIDE DEF q
  <2> QED BY <2>1, <2>2, <2>3, <2>4, BeginKeeps
<1>5. ASSUME NEW h \in Handlers, NEW c \in Courses, DeleteImage(h, u, c) PROVE IInv'
  <2> DEFINE q == [Idle EXCEPT !.pc = "unpicturing", !.row = c, !.old = url[c]]
  <2>1. Begin(h, q) /\ UNCHANGED <<content, files, grades, told, left>> /\ c \in rows
    BY <1>5 DEF DeleteImage
  <2>2. url[c] \in Names \union Given \union {None} /\ c \in Holders BY <1>0, KindFacts DEF TypeOK
  <2>3. q \in HandlerRecord /\ q.pc = "unpicturing" /\ q.row = c /\ q.old = url[c] /\ q.name = None
    BY <1>0, <2>2, KindFacts DEF Idle, HandlerRecord
  <2> HIDE DEF q
  <2> QED BY <2>1, <2>2, <2>3, BeginKeeps
<1>6. ASSUME NEW h \in Handlers, NEW s \in Submissions, NEW score \in Scores, Grade(h, u, s, score)
      PROVE  IInv'
  <2> DEFINE q == [Idle EXCEPT !.pc = "grading", !.row = s, !.grade = grades[s], !.new = score]
  <2>1. Begin(h, q) /\ UNCHANGED <<content, files, grades, told, left>> /\ s \in rows
    BY <1>6 DEF Grade
  <2>2. grades[s] \in Grades BY <1>0 DEF TypeOK
  <2>3. /\ q \in HandlerRecord /\ q.pc = "grading" /\ q.row = s /\ q.grade = grades[s]
        /\ q.new = score /\ q.name = None /\ q.old = None
    BY <2>2, KindFacts DEF Idle, HandlerRecord
  <2> HIDE DEF q
  <2> QED BY <2>1, <2>3, BeginKeeps
<1>7. CASE \E c \in Courses, by \in Teachers \union {None}, p \in BOOLEAN :
             CreateCourse(u, c, by, p) \/ UpdateCourse(u, c, by, p)
  BY <1>7, CourseKeeps
<1>8. CASE \E n \in Contents : CreateModule(u, n) \/ CreateLesson(u, n) \/ CreateLessonFile(u, n)
  BY <1>8, InsertBareKeeps DEF CreateModule, CreateLesson, CreateLessonFile
<1>8a. CASE \E k \in Tasks, given \in Given \union {None} :
              CreateTask(u, k, given) \/ UpdateTask(u, k, given)
  BY <1>8a, GivenKeeps
<1>9. ASSUME NEW h \in Handlers, NEW n \in Rows,
             \/ DeleteCourse(h, u, n) \/ DeleteModule(h, u, n) \/ DeleteLesson(h, u, n)
             \/ DeleteTask(h, u, n) \/ DeleteLessonFile(h, u, n)
      PROVE  IInv'
  <2>1. \A m \in Courses \union Modules \union Lessons \union Tasks \union Files : m \notin Submissions
    BY ConstantsAssumption DEF Contents
  <2> QED
    BY <1>2, <1>9, <2>1 DEF DeleteCourse, DeleteModule, DeleteLesson, DeleteTask, DeleteLessonFile
<1>10. ASSUME NEW h \in Handlers, NEW e \in Extensions,
              \/ \E k \in Tasks : UploadTaskFile(h, u, k, e)
              \/ \E f \in Files, l \in Lessons : UploadLessonFile(h, u, f, l, e)
       PROVE  IInv'
  BY <1>3, <1>10, ParentFacts DEF UploadTaskFile, UploadLessonFile
<1>11. ASSUME NEW h \in Handlers, NEW c \in Courses,
              DeleteImage(h, u, c) \/ \E i \in Images : UploadImage(h, u, c, ImageName(c, i))
       PROVE  IInv'
  BY <1>4, <1>5, <1>11 DEF ImageNames
<1> QED BY <1>6, <1>7, <1>8, <1>8a, <1>9, <1>10, <1>11 DEF ManagerStep

-----------------------------------------------------------------------------
(* The theorems.                                                           *)

LEMMA HandlerKeeps ==
  ASSUME IInv, NEW h \in Handlers, HandlerStep(h)
  PROVE  IInv'
  BY StorageKeeps, WritesKeep, CommitDeleteKeeps DEF HandlerStep

LEMMA NextKeeps == IInv /\ [Next]_vars => IInv'
<1> SUFFICES ASSUME IInv, [Next]_vars PROVE IInv' OBVIOUS
<1>1. CASE UNCHANGED vars
  <2>1. UNCHANGED <<rows, gone, teacher, published, enrolled, progress, url, grades, objects, handlers, told, clashed, left>>
    BY <1>1 DEF vars, content, files, history
  <2>2. TypeOK' BY <2>1 DEF IInv, TypeOK
  <2>3. HandlersAgree' BY <2>1 DEF IInv, HandlersAgree, Now
  <2>4. MeetingsAgree' /\ RequestsAgree' BY <2>1 DEF IInv, MeetingsAgree, RequestsAgree, Now
  <2>5. NothingWithoutItsParent' /\ NamesAgree' BY <2>1 DEF IInv, NothingWithoutItsParent, NamesAgree, Now
  <2>6. NoImageLeftBehind' /\ GradesAgree' BY <2>1 DEF IInv, NoImageLeftBehind, GradesAgree
  <2>7. DeletionsAgree' BY <2>1 DEF IInv, DeletionsAgree, Now
  <2> QED BY <2>2, <2>3, <2>4, <2>5, <2>6, <2>7 DEF IInv
<1> QED BY <1>1, ManagerKeeps, HandlerKeeps, StudentKeeps DEF Next

LEMMA InitBegins == Init => IInv
<1> SUFFICES ASSUME Init PROVE IInv OBVIOUS
<1>1. \A h \in Handlers : handlers[h] = Idle /\ Now(h, "idle")
  BY IdleFacts DEF Init, Now
<1>2. NoGrade \in Grades /\ NoGrade.passed = FALSE /\ NoGrade.score = None
  BY DEF NoGrade, Grades
<1>3. TypeOK BY <1>2, IdleFacts DEF Init, TypeOK
<1>4. HandlersAgree
  BY <1>1, IdleFacts DEF HandlersAgree, Uploads, NewImages, OldImages, Now
<1>5. MeetingsAgree /\ RequestsAgree BY <1>1 DEF MeetingsAgree, RequestsAgree
<1>6. NothingWithoutItsParent /\ NamesAgree /\ NoImageLeftBehind /\ DeletionsAgree
  BY DEF Init, NothingWithoutItsParent, NamesAgree, NoImageLeftBehind, DeletionsAgree
<1>7. GradesAgree BY <1>2 DEF Init, GradesAgree, PassedAsScored
<1> QED BY <1>3, <1>4, <1>5, <1>6, <1>7 DEF IInv

\* The inductive invariant.
THEOREM Invariance == Spec => []IInv
  BY InitBegins, NextKeeps, PTL DEF Spec

\* Rows, objects and requests have the values their columns and their code allow.
THEOREM Types == Spec => []TypeOK
<1>1. IInv => TypeOK BY DEF IInv
<1> QED BY <1>1, Invariance, PTL

\* Whatever is created under a row that is being deleted, nothing stays without its parent.
THEOREM ForeignKeysHold == Spec => []NothingWithoutItsParent
<1>1. IInv => NothingWithoutItsParent BY DEF IInv
<1> QED BY <1>1, Invariance, PTL

\* The object that a course or a lesson's file names is in the bucket, and an image that is
\* replaced or deleted does not stay there, unless two requests met at the row or one died
\* half way (upload_course_image, delete_course_image, upload_lesson_file, delete_file).
THEOREM BucketIsAsTheRowsSay == Spec => []BucketAgrees
<1>1. IInv => NamedObjectsExist BY DEF IInv, NamesAgree, NamedObjectsExist, Now
<1>2. IInv => BucketAgrees BY <1>1 DEF IInv, BucketAgrees
<1> QED BY <1>2, Invariance, PTL

\* What an actor's list shows he may open, and read once he is logged in.
THEOREM ListsAreOfVisibleCourses == Spec => []ListedIsVisible
<1>1. ListedIsVisible BY DEF ListedIsVisible, Listed, MayOpen, MayRead, Visible
<1> QED BY <1>1, PTL

\* However a score is rounded when it is stored, a submission that passed has at least
\* 70.00 and one with more than 70.00 passed, unless two gradings met (grade_submission).
THEOREM GradesAreOfTheirScores == Spec => []GradesAgree
<1>1. IInv => GradesAgree BY DEF IInv
<1> QED BY <1>1, Invariance, PTL

\* A row whose deletion was answered is gone once the request is over, unless a submission
\* hangs below it, two requests met or one died.
THEOREM AnsweredDeletionsHappen == Spec => []DeletedIsGoneUnlessSubmitted
<1>1. IInv => DeletedIsGoneUnlessSubmitted
  BY DEF IInv, DeletionsAgree, DeletedIsGoneUnlessSubmitted
<1> QED BY <1>1, Invariance, PTL
=============================================================================
