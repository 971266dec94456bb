----------------------------- MODULE ReportsProofs -----------------------------
(***************************************************************************)
(* Theorems about Assessments and Reports, for any numbers of courses,     *)
(* questions, edits, attempts, students and concurrent requests.           *)
(***************************************************************************)
EXTENDS Reports, FiniteSetTheorems, WellFoundedInduction, TLAPS

\* Null is none of what it stands beside.
LEMMA NoneFacts ==
  /\ None \notin Edits /\ None \notin Nat /\ None \notin Modules /\ None \notin Users
  /\ \A s \in Scores : s \in Nat /\ s >= 1 /\ s # None
  /\ \A a \in Attempts : a \in Nat /\ a # None
  BY ConstantsAssumption

\* A request goes on, and the others stay where they are.
LEMMA HandlerBecomes ==
  ASSUME TypeOK, NEW h \in Handlers, NEW q \in HandlerRecord, Becomes(h, q)
  PROVE  /\ handlers' \in [Handlers -> HandlerRecord]
         /\ handlers'[h] = q
         /\ \A g \in Handlers : g # h => handlers'[g] = handlers[g]
  BY DEF TypeOK, Becomes

\* A request that is not served has read nothing.
LEMMA IdleFacts ==
  /\ Idle \in HandlerRecord
  /\ Idle.pc = "idle" /\ Idle.edit = None /\ Idle.attempt = None
  /\ Idle.read = NoAssessment /\ Idle.read.id = None /\ Idle.questions = {}
  BY DEF Idle, HandlerRecord, NoAssessment, AssessmentRecord

-----------------------------------------------------------------------------
(* Sums, percents and points.                                              *)

\* What a function maps to a value.
Fibre(E, g, x) == {e \in E : g[e] = x}

\* A sum of differences of counts is the difference of the counts of all: if f[x] is how many
\* elements of E g maps to x less how many of D d does, the sum of f is how many E has less
\* those of D.  (The fold satisfies its recursive equation, since the counts do, and whatever
\* satisfies it is the counts: there is no least set where they differ.)
LEMMA SumsDiffer ==
  ASSUME NEW S, IsFiniteSet(S), NEW f,
         NEW E, IsFiniteSet(E), NEW g \in [E -> S],
         NEW D, IsFiniteSet(D), NEW d \in [D -> S],
         \A x \in S : f[x] = Cardinality(Fibre(E, g, x)) - Cardinality(Fibre(D, d, x))
  PROVE  SumFunctionOnSet(f, S) = Cardinality(E) - Cardinality(D)
<1> DEFINE some(s) == CHOOSE x \in s : TRUE
           rest(s) == s \ {some(s)}
           At(s) == {e \in E : g[e] \in s}
           Less(s) == {e \in D : d[e] \in s}
           counts == [s \in SUBSET S |-> Cardinality(At(s)) - Cardinality(Less(s))]
           Step(sums) == [s \in SUBSET S |-> IF s = {} THEN 0 ELSE f[some(s)] + sums[rest(s)]]
<1>1. SumFunctionOnSet(f, S) = (CHOOSE sums : sums = Step(sums))[S]
  BY DEF SumFunctionOnSet, FoldFunctionOnSet, MapThenFoldSet
<1>2. ASSUME NEW s \in SUBSET S, s # {}
      PROVE  /\ some(s) \in s /\ rest(s) \in SUBSET S /\ rest(s) # s /\ rest(s) \subseteq s
             /\ counts[s] = f[some(s)] + counts[rest(s)]
  <2>1. some(s) \in s BY <1>2
  <2> DEFINE x == some(s)
             A == {e \in E : g[e] = x}
             B == At(rest(s))
             F == {e \in D : d[e] = x}
             G == Less(rest(s))
  <2>2. At(s) = A \union B /\ A \intersect B = {} BY <2>1
  <2>3. Less(s) = F \union G /\ F \intersect G = {} BY <2>1
  <2>4. /\ IsFiniteSet(A) /\ IsFiniteSet(B) /\ Cardinality(A) \in Nat /\ Cardinality(B) \in Nat
        /\ IsFiniteSet(F) /\ IsFiniteSet(G) /\ Cardinality(F) \in Nat /\ Cardinality(G) \in Nat
    BY FS_Subset, FS_CardinalityType
  <2>5. Cardinality(A \union B) = Cardinality(A) + Cardinality(B)
    <3>1. Cardinality(A \intersect B) = 0 BY <2>2, FS_EmptySet
    <3>2. Cardinality(A \union B) = Cardinality(A) + Cardinality(B) - Cardinality(A \intersect B)
      BY <2>4, FS_Union
    <3> HIDE DEF A, B
    <3> QED BY <2>4, <3>1, <3>2
  <2>6. Cardinality(F \union G) = Cardinality(F) + Cardinality(G)
    <3>1. Cardinality(F \intersect G) = 0 BY <2>3, FS_EmptySet
    <3>2. Cardinality(F \union G) = Cardinality(F) + Cardinality(G) - Cardinality(F \intersect G)
      BY <2>4, FS_Union
    <3> HIDE DEF F, G
    <3> QED BY <2>4, <3>1, <3>2
  <2>7. f[x] = Cardinality(A) - Cardinality(F) BY <2>1 DEF Fibre
  <2>8. /\ counts[s] = Cardinality(At(s)) - Cardinality(Less(s))
        /\ counts[rest(s)] = Cardinality(B) - Cardinality(G)
    OBVIOUS
  <2> HIDE DEF A, B, F, G, At, Less, counts
  <2> QED BY <2>1, <2>2, <2>3, <2>4, <2>5, <2>6, <2>7, <2>8
<1>3. counts[{}] = 0
  <2>1. At({}) = {} /\ Less({}) = {} OBVIOUS
  <2>2. counts[{}] = Cardinality(At({})) - Cardinality(Less({})) OBVIOUS
  <2>3. Cardinality({}) = 0 BY FS_EmptySet
  <2> HIDE DEF At, Less, counts
  <2> QED BY <2>1, <2>2, <2>3
<1>4. counts = Step(counts)
  <2> SUFFICES ASSUME NEW s \in SUBSET S
               PROVE  counts[s] = IF s = {} THEN 0 ELSE f[some(s)] + counts[rest(s)]
    OBVIOUS
  <2> QED BY <1>2, <1>3
<1>5. ASSUME NEW sums, sums = Step(sums)
      PROVE  sums[S] = counts[S]
  <2> DEFINE wrong == {s \in SUBSET S : sums[s] # counts[s]}
  <2> SUFFICES ASSUME wrong # {} PROVE FALSE OBVIOUS
  <2>1. IsWellFoundedOn(StrictSubsetOrdering(S), SUBSET S)
    BY FS_StrictSubsetOrderingWellFounded, FS_FiniteSubsetsOfFinite
  <2>2. PICK s \in wrong : \A t \in wrong : <<t, s>> \notin StrictSubsetOrdering(S)
    BY <2>1, WFMin
  <2>3. sums[s] = IF s = {} THEN 0 ELSE f[some(s)] + sums[rest(s)] BY <1>5
  <2>4. s # {} BY <1>3, <2>3
  <2>5. rest(s) \notin wrong BY <1>2, <2>2, <2>4 DEF StrictSubsetOrdering
  <2>6. sums[rest(s)] = counts[rest(s)] BY <1>2, <2>4, <2>5
  <2> HIDE DEF counts, some, rest
  <2> QED BY <1>2, <2>3, <2>4, <2>6
<1>6. counts[S] = Cardinality(E) - Cardinality(D)
  <2>1. At(S) = E /\ Less(S) = D OBVIOUS
  <2> QED BY <2>1
<1> HIDE DEF counts, Step
<1>7. (CHOOSE sums : sums = Step(sums)) = Step(CHOOSE sums : sums = Step(sums)) BY <1>4
<1> QED BY <1>1, <1>5, <1>6, <1>7

\* The same of counts alone.
LEMMA SumsCount ==
  ASSUME NEW S, IsFiniteSet(S), NEW f,
         NEW E, IsFiniteSet(E), NEW g \in [E -> S],
         \A x \in S : f[x] = Cardinality({e \in E : g[e] = x})
  PROVE  SumFunctionOnSet(f, S) = Cardinality(E)
<1> DEFINE D == {}
           d == [e \in D |-> e]
<1>1. IsFiniteSet(D) /\ Cardinality(D) = 0 BY FS_EmptySet
<1>2. d \in [D -> S] OBVIOUS
<1>3. \A x \in S : f[x] = Cardinality(Fibre(E, g, x)) - Cardinality(Fibre(D, d, x))
  <2> SUFFICES ASSUME NEW x \in S
               PROVE  f[x] = Cardinality(Fibre(E, g, x)) - Cardinality(Fibre(D, d, x))
    OBVIOUS
  <2>1. Fibre(D, d, x) = D BY DEF Fibre
  <2>2. Cardinality(Fibre(E, g, x)) \in Nat BY FS_Subset, FS_CardinalityType DEF Fibre
  <2>3. f[x] = Cardinality(Fibre(E, g, x)) BY DEF Fibre
  <2> HIDE DEF D, d
  <2> QED BY <1>1, <2>1, <2>2, <2>3
<1>4. Cardinality(E) \in Nat BY FS_CardinalityType
<1> HIDE DEF D, d
<1>5. SumFunctionOnSet(f, S) = Cardinality(E) - Cardinality(D) BY <1>1, <1>2, <1>3, SumsDiffer
<1> QED BY <1>1, <1>4, <1>5

\* What is known of a quotient.
LEMMA Division ==
  ASSUME NEW x \in Nat, NEW d \in Nat \ {0}, NEW n \in Nat
  PROVE  /\ x \div d \in Nat
         /\ x < (n + 1) * d => x \div d <= n
         /\ n * d <= x => n <= x \div d
<1>1. x \div d \in Int /\ x = d * (x \div d) + (x % d) /\ x % d \in 0 .. d - 1 BY SMT
<1> DEFINE y == x \div d
           r == x % d
<1>2. y \in Int /\ r \in Int /\ 0 <= r /\ r < d /\ x = d * y + r BY <1>1
<1> HIDE DEF y, r
<1>3. y >= 0
  <2> SUFFICES ASSUME y < 0 PROVE FALSE BY <1>2
  <2>1. y <= -1 BY <1>2
  <2>2. d * y <= d * (-1) BY <1>2, <2>1
  <2> QED BY <1>2, <2>2
<1>4. x < (n + 1) * d => y <= n
  <2> SUFFICES ASSUME x < (n + 1) * d, y >= n + 1 PROVE FALSE BY <1>2
  <2>1. d * y >= d * (n + 1) BY <1>2
  <2> QED BY <1>2, <2>1
<1>5. n * d <= x => n <= y
  <2> SUFFICES ASSUME n * d <= x, y + 1 <= n PROVE FALSE BY <1>2
  <2>1. d * (y + 1) <= d * n BY <1>2
  <2> QED BY <1>2, <2>1
<1> QED BY <1>2, <1>3, <1>4, <1>5 DEF y

\* The points of a set of questions are those of its questions taken one by one, less those
\* that its questions of negative points take away.
Marks(points, qs) == UNION {{q} \X (1 .. points[q]) : q \in qs}
LEMMA MarksCount ==
  ASSUME NEW qs, IsFiniteSet(qs), NEW points \in [qs -> Int]
  PROVE  /\ IsFiniteSet(Marks(points, qs))
         /\ \A q \in qs : Cardinality({p \in Marks(points, qs) : p[1] = q})
                           = IF points[q] > 0 THEN points[q] ELSE 0
<1> DEFINE marks == [q \in qs |-> {q} \X (1 .. points[q])]
<1>1. ASSUME NEW q \in qs
      PROVE  /\ IsFiniteSet(marks[q])
             /\ Cardinality(marks[q]) = IF points[q] > 0 THEN points[q] ELSE 0
  <2> DEFINE one == {q}
             many == 1 .. points[q]
             size == IF points[q] > 0 THEN points[q] ELSE 0
  <2>1. IsFiniteSet(one) /\ Cardinality(one) = 1 BY FS_Singleton
  <2>2. IsFiniteSet(many) /\ Cardinality(many) = size /\ size \in Nat
    <3>1. points[q] \in Int OBVIOUS
    <3>2. CASE points[q] > 0 BY <3>1, <3>2, FS_Interval
    <3>3. CASE ~(points[q] > 0)
      <4>1. many = {} BY <3>1, <3>3
      <4> QED BY <3>3, <4>1, FS_EmptySet
    <3> QED BY <3>2, <3>3
  <2> HIDE DEF one, many
  <2>3. IsFiniteSet(one \X many) /\ Cardinality(one \X many) = Cardinality(one) * Cardinality(many)
    BY <2>1, <2>2, FS_Product
  <2> HIDE DEF size
  <2>4. Cardinality(one \X many) = size BY <2>1, <2>2, <2>3
  <2> QED BY <2>3, <2>4 DEF one, many, size
<1>2. IsFiniteSet(Marks(points, qs))
  <2>1. marks \in Surjection(qs, Range(marks)) BY DEF Surjection, Range
  <2>2. IsFiniteSet(Range(marks)) BY <2>1, FS_Surjection
  <2>3. \A T \in Range(marks) : IsFiniteSet(T) BY <1>1 DEF Range
  <2>4. Marks(points, qs) = UNION Range(marks) BY DEF Marks, Range
  <2> QED BY <2>2, <2>3, <2>4, FS_UNION
<1>3. \A q \in qs : {p \in Marks(points, qs) : p[1] = q} = marks[q] BY DEF Marks
<1> QED BY <1>1, <1>2, <1>3

LEMMA WorthFacts ==
  ASSUME NEW qs \in SUBSET Questions, IsFiniteSet(qs)
  PROVE  Worth(qs) \in Int /\ Worth({}) = 0
<1>1. ASSUME NEW some \in SUBSET qs
      PROVE  /\ Worth(some) \in Int
             /\ some = {} => Worth(some) = 0
  <2> DEFINE plus == [q \in some |-> Points[q]]
             minus == [q \in some |-> -Points[q]]
             E == Marks(plus, some)
             D == Marks(minus, some)
             g == [p \in E |-> p[1]]
             d == [p \in D |-> p[1]]
  <2>1. IsFiniteSet(some) BY FS_Subset
  <2>2. \A q \in some : Points[q] \in Int BY ConstantsAssumption
  <2>3. plus \in [some -> Int] /\ minus \in [some -> Int] BY <2>2
  <2>4. g \in [E -> some] /\ d \in [D -> some] BY DEF Marks
  <2>5. /\ IsFiniteSet(E) /\ IsFiniteSet(D)
        /\ Cardinality(E) \in Nat /\ Cardinality(D) \in Nat
        /\ \A q \in some :
             /\ Cardinality({p \in E : p[1] = q}) = IF plus[q] > 0 THEN plus[q] ELSE 0
             /\ Cardinality({p \in D : p[1] = q}) = IF minus[q] > 0 THEN minus[q] ELSE 0
    BY <2>1, <2>3, MarksCount, FS_CardinalityType
  <2>6. \A q \in some : /\ Fibre(E, g, q) = {p \in E : p[1] = q}
                        /\ Fibre(D, d, q) = {p \in D : p[1] = q}
    BY DEF Fibre
  <2>7. \A q \in some : plus[q] = Points[q] /\ minus[q] = -Points[q] OBVIOUS
  <2>8. some = {} => E = {} /\ D = {} BY DEF Marks
  <2> HIDE DEF plus, minus, E, D, g, d
  <2>9. \A q \in some :
          Points[q] = Cardinality(Fibre(E, g, q)) - Cardinality(Fibre(D, d, q))
    BY <2>2, <2>5, <2>6, <2>7
  <2>10. SumFunctionOnSet(Points, some) = Cardinality(E) - Cardinality(D)
    <3>1. IsFiniteSet(E) /\ IsFiniteSet(D) BY <2>5
    <3> QED BY <2>1, <2>4, <2>9, <3>1, SumsDiffer
  <2> QED BY <2>5, <2>8, <2>10, FS_EmptySet DEF Worth
<1> QED BY <1>1

\* Without a right answer the score is none.
LEMMA ScoreFacts ==
  ASSUME NEW all \in SUBSET Questions, IsFiniteSet(all)
  PROVE  Score({}, all) = 0
<1> DEFINE w == Worth(all)
           none == (2 * 10000 * Worth({}) + w) \div (2 * w)
<1>1. w \in Int /\ Worth({}) = 0 BY WorthFacts
<1>2. CASE ~(w > 0) BY <1>2 DEF Score
<1>3. CASE w > 0
  <2>1. /\ 2 * w \in Nat \ {0} /\ 2 * 10000 * Worth({}) + w \in Nat
        /\ 2 * 10000 * Worth({}) + w < (0 + 1) * (2 * w)
    BY <1>1, <1>3
  <2>2. none \in Nat /\ none <= 0 BY <2>1, Division
  <2>3. Score({}, all) = none BY <1>3 DEF Score
  <2> HIDE DEF none
  <2> QED BY <2>2, <2>3
<1> QED BY <1>2, <1>3

-----------------------------------------------------------------------------
(* The inductive invariant.                                                *)

\* A request reads, and nothing else happens.
LEMMA ReadingKeeps ==
  ASSUME IInv, NEW h \in Handlers, NEW q \in HandlerRecord, Becomes(h, q),
         UNCHANGED <<tests, attempts, answers, students, tangled>>,
         q.pc # "idle" => q.module \in Modules,
         q.pc \in {"editing", "replacing"} => q.edit \in edited' /\ q.score \in Scores,
         q.edit # None =>
           /\ q.pc \in {"editing", "replacing"}
           /\ q.edit = handlers[h].edit \/ q.edit \notin edited,
         q.attempt # None => q.pc = "taking",
         q.pc \in {"opening", "taking"} => q.user \in Users,
         q.pc = "taking" =>
           q.attempt = started + 1 /\ q.attempt \in Attempts /\ started' = started + 1,
         started' = started \/ q.pc = "taking",
         edited' = edited \/ (q.edit \in Edits \ edited /\ edited' = edited \union {q.edit}),
         q.read \in {NoAssessment, handlers[h].read} \/ q.read = assessments[q.module],
         q.questions = {} \/ q.questions = questions[q.module],
         q.questions # {} \/ q.read \notin {NoAssessment, handlers[h].read} => q.module \in Modules,
         q.pc \in {"replacing", "taking"} => q.questions = questions[q.module],
         q.pc = "opening" => q.read = assessments[q.module],
         q.pc = "taking" => q.late \/ q.read = assessments[q.module]
  PROVE  IInv'
<1>0. /\ TypeOK /\ RowsAgree /\ AnswersAgree /\ RequestsAgree /\ EditsAgree /\ ReadingsAgree
      /\ QuestionsOfOneEdit
  BY DEF IInv
<1>1. /\ handlers' \in [Handlers -> HandlerRecord]
      /\ handlers'[h] = q
      /\ \A g \in Handlers : g # h => handlers'[g] = handlers[g]
  BY <1>0, HandlerBecomes
<1>2. UNCHANGED <<assessments, questions, attempts, answers, submissions, enrolled, today, tangled>>
  BY DEF tests, students
<1>3. started \in Nat /\ started' \in Nat /\ started' >= started /\ started' \in Attempts \union {0}
  BY <1>0, NoneFacts DEF TypeOK
<1>4. edited \subseteq edited' /\ edited' \subseteq Edits
  BY <1>0 DEF TypeOK
<1>5. TypeOK'
  BY <1>0, <1>1, <1>2, <1>3, <1>4 DEF TypeOK
<1>6. RowsAgree' BY <1>0, <1>2 DEF RowsAgree
<1>7. AnswersAgree' BY <1>0, <1>2, <1>3 DEF AnswersAgree
<1>8. RequestsAgree'
  <2> SUFFICES ASSUME NEW k \in Handlers
               PROVE  LET p == handlers'[k] IN
                      /\ p.pc # "idle" => p.module \in Modules
                      /\ p.pc \in {"editing", "replacing"} => p.edit \in edited' /\ p.score \in Scores
                      /\ p.edit # None => p.pc \in {"editing", "replacing"}
                      /\ p.pc \in {"opening", "taking"} => p.user \in Users
                      /\ p.pc = "taking" => p.attempt \in (1 .. started') \ DOMAIN attempts
                      /\ p.attempt # None => p.pc = "taking"
                      /\ p.read.id # None => p.read.score \in Scores
                      /\ IsFiniteSet(p.questions)
                      /\ \A g \in Handlers \ {k} :
                           /\ p.edit # None => handlers'[g].edit # p.edit
                           /\ p.attempt # None => handlers'[g].attempt # p.attempt
    BY <1>2 DEF RequestsAgree
  <2>1. \A g \in Handlers : handlers[g].edit # None => handlers[g].edit \in edited
    BY <1>0 DEF RequestsAgree
  <2>2. \A g \in Handlers : handlers[g].attempt # None => handlers[g].attempt \in 1 .. started
    BY <1>0 DEF RequestsAgree
  <2>3. CASE k = h
    <3>1. IsFiniteSet(q.questions)
      <4>1. q.questions # {} => q.module \in Modules /\ IsFiniteSet(questions[q.module])
        BY <1>0 DEF RowsAgree
      <4> QED BY <4>1, FS_EmptySet
    <3>2. q.read.id # None => q.read.score \in Scores
      <4>1. CASE q.read = NoAssessment BY <4>1 DEF NoAssessment
      <4>2. CASE q.read = handlers[h].read BY <1>0, <4>2 DEF RequestsAgree
      <4>3. CASE q.read \notin {NoAssessment, handlers[h].read}
        BY <1>0, <4>3 DEF RowsAgree
      <4> QED BY <4>1, <4>2, <4>3
    <3>3. q.pc = "taking" => q.attempt \in (1 .. started') \ DOMAIN attempts
      BY <1>0, <1>3 DEF AnswersAgree
    <3>4. ASSUME NEW g \in Handlers \ {h}
          PROVE  /\ q.edit # None => handlers'[g].edit # q.edit
                 /\ q.attempt # None => handlers'[g].attempt # q.attempt
      <4>1. handlers'[g] = handlers[g] BY <1>1
      <4>2. q.edit # None => handlers[g].edit # q.edit
        BY <1>0, <2>1 DEF RequestsAgree
      <4>3. q.attempt # None => handlers[g].attempt # q.attempt
        BY <1>3, <2>2
      <4> QED BY <4>1, <4>2, <4>3
    <3> QED BY <1>1, <2>3, <3>1, <3>2, <3>3, <3>4
  <2>4. CASE k # h
    <3>1. handlers'[k] = handlers[k] BY <1>1, <2>4
    <3>2. \A g \in Handlers \ {k} :
            /\ handlers[k].edit # None => handlers'[g].edit # handlers[k].edit
            /\ handlers[k].attempt # None => handlers'[g].attempt # handlers[k].attempt
      <4>1. ASSUME NEW g \in Handlers \ {k}, g # h
            PROVE  /\ handlers[k].edit # None => handlers'[g].edit # handlers[k].edit
                   /\ handlers[k].attempt # None => handlers'[g].attempt # handlers[k].attempt
        BY <1>0, <1>1, <4>1 DEF RequestsAgree
      <4>2. handlers[k].edit # None => q.edit # handlers[k].edit
        BY <1>0, <2>1, <2>4 DEF RequestsAgree
      <4>3. handlers[k].attempt # None => q.attempt # handlers[k].attempt
        BY <1>3, <2>2
      <4> QED BY <1>1, <4>1, <4>2, <4>3
    <3>3. LET p == handlers[k] IN
          /\ p.pc # "idle" => p.module \in Modules
          /\ p.pc \in {"editing", "replacing"} => p.edit \in edited /\ p.score \in Scores
          /\ p.edit # None => p.pc \in {"editing", "replacing"}
          /\ p.pc \in {"opening", "taking"} => p.user \in Users
          /\ p.pc = "taking" => p.attempt \in (1 .. started) \ DOMAIN attempts
          /\ p.attempt # None => p.pc = "taking"
          /\ p.read.id # None => p.read.score \in Scores
          /\ IsFiniteSet(p.questions)
      BY <1>0 DEF RequestsAgree
    <3> QED BY <1>3, <1>4, <3>1, <3>2, <3>3
  <2> QED BY <2>3, <2>4
<1>9. EditsAgree'
  <2> SUFFICES ASSUME NEW e \in Edits, Pending(e)'
               PROVE  /\ \A m \in Modules : assessments[m].id # e /\ Asked[e] \intersect questions[m] = {}
                      /\ \A g \in Handlers : /\ handlers'[g].read.id # e
                                             /\ Asked[e] \intersect handlers'[g].questions = {}
    BY <1>2 DEF EditsAgree
  <2>1. Pending(e) BY <1>1, <1>4, NoneFacts DEF Pending
  <2>2. /\ \A m \in Modules : assessments[m].id # e /\ Asked[e] \intersect questions[m] = {}
        /\ \A g \in Handlers : /\ handlers[g].read.id # e
                               /\ Asked[e] \intersect handlers[g].questions = {}
    BY <1>0, <2>1 DEF EditsAgree
  <2>3. q.read.id # e
    <3>1. NoAssessment.id # e BY NoneFacts DEF NoAssessment
    <3> QED BY <2>2, <3>1
  <2>4. Asked[e] \intersect q.questions = {}
    <3>1. q.questions # {} => q.module \in Modules /\ q.questions = questions[q.module] OBVIOUS
    <3> QED BY <2>2, <3>1
  <2> QED BY <1>1, <2>2, <2>3, <2>4
<1>10. ReadingsAgree'
  <2> SUFFICES ASSUME NEW k \in Handlers
               PROVE  LET p == handlers'[k]
                          now == questions[p.module]
                      IN
                      /\ p.pc = "replacing" /\ Stands(k)' /\ ~p.late => now = p.questions
                      /\ p.pc = "opening" /\ Stands(k)' /\ ~p.late => assessments[p.module] = p.read
                      /\ p.pc = "taking" /\ Stands(k)' =>
                           \/ now = p.questions /\ (p.late \/ assessments[p.module] = p.read)
                           \/ p.module \in tangled
                           \/ now \intersect p.questions = {}
    BY <1>2 DEF ReadingsAgree
  <2>1. CASE k = h BY <1>1, <2>1
  <2>2. CASE k # h
    <3>1. handlers'[k] = handlers[k] BY <1>1, <2>2
    <3>2. Stands(k)' <=> Stands(k) BY <1>2, <3>1 DEF Stands
    <3> QED BY <1>0, <3>1, <3>2 DEF ReadingsAgree
  <2> QED BY <2>1, <2>2
<1>11. QuestionsOfOneEdit' BY <1>0, <1>2, <1>4 DEF QuestionsOfOneEdit
<1> QED BY <1>5, <1>6, <1>7, <1>8, <1>9, <1>10, <1>11 DEF IInv

\* A request begins to edit, to delete or to attempt, goes on to replace, or fails.
LEMMA RequestReads ==
  ASSUME IInv, NEW h \in Handlers,
         \/ \E m \in Modules, e \in Edits, score \in Scores : ReadForEdit(h, m, e, score)
         \/ BeginReplace(h)
         \/ \E m \in Modules : ReadForDelete(h, m)
         \/ \E u \in Users, m \in Modules : Open(h, u, m)
         \/ Take(h)
         \/ Fail(h)
  PROVE  IInv'
<1>0. /\ assessments \in [Modules -> AssessmentRecord]
      /\ questions \in [Modules -> SUBSET Questions]
      /\ handlers[h] \in HandlerRecord
      /\ started \in Attempts \union {0}
  BY DEF IInv, TypeOK
<1>1. ASSUME NEW m \in Modules, NEW e \in Edits, NEW score \in Scores, ReadForEdit(h, m, e, score)
      PROVE  IInv'
  <2> DEFINE q == [Idle EXCEPT !.pc = "editing", !.module = m, !.read = assessments[m],
                               !.questions = questions[m], !.edit = e, !.score = score]
  <2>1. /\ q \in HandlerRecord
        /\ q.pc = "editing" /\ q.module = m /\ q.edit = e /\ q.score = score
        /\ q.attempt = None /\ q.read = assessments[m] /\ q.questions = questions[m]
    BY <1>0 DEF Idle, HandlerRecord
  <2>2. /\ Becomes(h, q) /\ e \notin edited /\ edited' = edited \union {e}
        /\ UNCHANGED <<tests, results, students, tangled>>
    BY <1>1 DEF ReadForEdit
  <2> HIDE DEF q
  <2> QED BY <2>1, <2>2, ReadingKeeps DEF results
<1>2. CASE BeginReplace(h)
  <2> DEFINE m == handlers[h].module
             q == [handlers[h] EXCEPT !.pc = "replacing", !.questions = questions[m]]
  <2>1. /\ Becomes(h, q) /\ handlers[h].pc = "editing"
        /\ UNCHANGED <<tests, results, students, edited, tangled>>
    BY <1>2 DEF BeginReplace, Replaced, Now
  <2>2. m \in Modules /\ handlers[h].edit \in edited /\ handlers[h].score \in Scores
        /\ handlers[h].attempt = None
    BY <2>1 DEF IInv, RequestsAgree
  <2>3. /\ q \in HandlerRecord
        /\ q.pc = "replacing" /\ q.module = m /\ q.edit = handlers[h].edit
        /\ q.score = handlers[h].score /\ q.attempt = None
        /\ q.read = handlers[h].read /\ q.questions = questions[m]
    BY <1>0, <2>2 DEF HandlerRecord
  <2> HIDE DEF q
  <2> QED BY <2>1, <2>2, <2>3, ReadingKeeps DEF results
<1>3. ASSUME NEW m \in Modules, ReadForDelete(h, m) PROVE IInv'
  <2> DEFINE q == [Idle EXCEPT !.pc = "deleting", !.module = m, !.read = assessments[m]]
  <2>1. /\ q \in HandlerRecord
        /\ q.pc = "deleting" /\ q.module = m /\ q.edit = None /\ q.attempt = None
        /\ q.read = assessments[m] /\ q.questions = {}
    BY <1>0 DEF Idle, HandlerRecord
  <2>2. Becomes(h, q) /\ UNCHANGED <<tests, results, students, edited, tangled>>
    BY <1>3 DEF ReadForDelete
  <2> HIDE DEF q
  <2> QED BY <2>1, <2>2, ReadingKeeps DEF results
<1>4. ASSUME NEW u \in Users, NEW m \in Modules, Open(h, u, m) PROVE IInv'
  <2> DEFINE q == [Idle EXCEPT !.pc = "opening", !.module = m, !.read = assessments[m], !.user = u]
  <2>1. Becomes(h, q) /\ UNCHANGED <<tests, results, students, edited, tangled>>
    BY <1>4 DEF Open
  <2>2. /\ q \in HandlerRecord
        /\ q.pc = "opening" /\ q.module = m /\ q.edit = None /\ q.user = u
        /\ q.attempt = None /\ q.read = assessments[m] /\ q.questions = {}
    BY <1>0 DEF Idle, HandlerRecord
  <2> HIDE DEF q
  <2> QED BY <2>1, <2>2, ReadingKeeps DEF results
<1>4a. CASE Take(h)
  <2> DEFINE m == handlers[h].module
             q == [handlers[h] EXCEPT !.pc = "taking", !.questions = questions[m],
                                      !.attempt = started + 1]
  <2>1. /\ Becomes(h, q) /\ handlers[h].pc = "opening" /\ Stands(h)
        /\ started + 1 \in Attempts /\ started' = started + 1
        /\ UNCHANGED <<tests, attempts, answers, students, edited, tangled>>
    BY <1>4a DEF Take, Now
  <2>2. /\ m \in Modules /\ handlers[h].user \in Users /\ handlers[h].edit = None
        /\ handlers[h].late \/ assessments[m] = handlers[h].read
    BY <2>1 DEF IInv, RequestsAgree, ReadingsAgree
  <2>3. /\ q \in HandlerRecord
        /\ q.pc = "taking" /\ q.module = m /\ q.edit = None /\ q.user = handlers[h].user
        /\ q.attempt = started + 1 /\ q.read = handlers[h].read /\ q.questions = questions[m]
        /\ q.late = handlers[h].late
    BY <1>0, <2>1, <2>2 DEF HandlerRecord
  <2> HIDE DEF q
  <2> QED BY <2>1, <2>2, <2>3, ReadingKeeps
<1>5. CASE Fail(h)
  <2>1. Becomes(h, Idle) /\ UNCHANGED <<tests, results, students, edited, tangled>>
    BY <1>5 DEF Fail
  <2> QED BY <2>1, IdleFacts, ReadingKeeps DEF results
<1> QED BY <1>1, <1>2, <1>3, <1>4, <1>4a, <1>5

\* A request that is over leaves those that go on as they agreed, as long as they agree
\* with the rows.
LEMMA RequestEnds ==
  ASSUME IInv, NEW h \in Handlers, Becomes(h, Idle), UNCHANGED <<edited, started>>,
         \A g \in Handlers : handlers[g].attempt # None /\ g # h =>
           handlers[g].attempt \notin DOMAIN attempts'
  PROVE  RequestsAgree' /\ handlers' \in [Handlers -> HandlerRecord]
<1>0. TypeOK /\ RequestsAgree BY DEF IInv
<1>1. /\ handlers' \in [Handlers -> HandlerRecord]
      /\ handlers'[h] = Idle
      /\ \A g \in Handlers : g # h => handlers'[g] = handlers[g]
  BY <1>0, IdleFacts, HandlerBecomes
<1>2. SUFFICES ASSUME NEW k \in Handlers
      PROVE  LET p == handlers'[k] IN
             /\ p.pc # "idle" => p.module \in Modules
             /\ p.pc \in {"editing", "replacing"} => p.edit \in edited /\ p.score \in Scores
             /\ p.edit # None => p.pc \in {"editing", "replacing"}
             /\ p.pc \in {"opening", "taking"} => p.user \in Users
             /\ p.pc = "taking" => p.attempt \in (1 .. started) \ DOMAIN attempts'
             /\ p.attempt # None => p.pc = "taking"
             /\ p.read.id # None => p.read.score \in Scores
             /\ IsFiniteSet(p.questions)
             /\ \A g \in Handlers \ {k} :
                  /\ p.edit # None => handlers'[g].edit # p.edit
                  /\ p.attempt # None => handlers'[g].attempt # p.attempt
  BY <1>1 DEF RequestsAgree
<1>3. CASE k = h BY <1>1, <1>3, IdleFacts, FS_EmptySet
<1>4. CASE k # h
  <2>1. handlers'[k] = handlers[k] BY <1>1, <1>4
  <2>2. \A g \in Handlers \ {k} :
          /\ handlers[k].edit # None => handlers'[g].edit # handlers[k].edit
          /\ handlers[k].attempt # None => handlers'[g].attempt # handlers[k].attempt
    BY <1>0, <1>1, IdleFacts DEF RequestsAgree
  <2>3. handlers[k].pc = "taking" => handlers[k].attempt # None
    <3>1. handlers[k].pc = "taking" => handlers[k].attempt \in 1 .. started
      BY <1>0 DEF RequestsAgree
    <3> QED BY <1>0, <3>1, NoneFacts DEF TypeOK
  <2> QED BY <1>0, <1>4, <2>1, <2>2, <2>3 DEF RequestsAgree
<1> QED BY <1>3, <1>4

\* An assessment is created.
LEMMA CreateKeeps ==
  ASSUME IInv, NEW h \in Handlers, Create(h)
  PROVE  IInv'
<1> DEFINE m == handlers[h].module
           e == handlers[h].edit
<1>0. /\ TypeOK /\ RowsAgree /\ AnswersAgree /\ RequestsAgree /\ EditsAgree /\ ReadingsAgree
      /\ QuestionsOfOneEdit
  BY DEF IInv
<1>1. /\ handlers[h].pc = "editing"
      /\ assessments[m] = NoAssessment
      /\ assessments' = [assessments EXCEPT ![m] = [id |-> e, score |-> handlers[h].score]]
      /\ questions' = [questions EXCEPT ![m] = Asked[e]]
      /\ Becomes(h, Idle)
      /\ UNCHANGED <<attempts, answers, started, submissions, enrolled, today, edited, tangled>>
  BY DEF Create, Now, results, students
<1>2. m \in Modules /\ e \in edited /\ e \in Edits /\ handlers[h].score \in Scores
  BY <1>0, <1>1 DEF RequestsAgree, TypeOK
<1>3. /\ assessments' \in [Modules -> AssessmentRecord]
      /\ assessments'[m].id = e /\ assessments'[m].score = handlers[h].score
      /\ \A n \in Modules : n # m => assessments'[n] = assessments[n]
  <2>1. [id |-> e, score |-> handlers[h].score] \in AssessmentRecord
    BY <1>2 DEF AssessmentRecord
  <2> QED BY <1>0, <1>1, <1>2, <2>1 DEF TypeOK
<1>4. /\ questions' \in [Modules -> SUBSET Questions]
      /\ questions'[m] = Asked[e]
      /\ \A n \in Modules : n # m => questions'[n] = questions[n]
  BY <1>0, <1>1, <1>2, ConstantsAssumption DEF TypeOK
<1>5. questions[m] = {} /\ m \notin tangled /\ \A n \in Modules : questions[n] \subseteq questions'[n]
  <2>1. questions[m] = {} /\ m \notin tangled
    BY <1>0, <1>1, <1>2 DEF RowsAgree, NoAssessment
  <2> QED BY <1>4, <2>1
<1>6. /\ handlers' \in [Handlers -> HandlerRecord]
      /\ handlers'[h] = Idle
      /\ \A g \in Handlers : g # h => handlers'[g] = handlers[g]
  BY <1>0, <1>1, IdleFacts, HandlerBecomes
<1>7. RowsAgree'
  <2>1. e # None /\ IsFiniteSet(Asked[e]) BY <1>2, NoneFacts, ConstantsAssumption
  <2> QED BY <1>0, <1>1, <1>2, <1>3, <1>4, <2>1 DEF RowsAgree
<1>8. AnswersAgree'
  <2>1. \A a \in DOMAIN attempts : attempts[a].module \in Modules
    BY <1>0 DEF TypeOK, AttemptRecord
  <2> QED BY <1>0, <1>1, <1>5, <2>1 DEF AnswersAgree
<1>9. TypeOK'
  <2>1. answers' \subseteq [attempt: DOMAIN attempts', question: UNION Range(questions'),
                            correct: BOOLEAN]
    <3>1. UNION Range(questions) \subseteq UNION Range(questions')
      BY <1>0, <1>4, <1>5 DEF TypeOK, Range
    <3> QED BY <1>0, <1>1, <3>1 DEF TypeOK
  <2> QED BY <1>0, <1>1, <1>3, <1>4, <1>6, <2>1 DEF TypeOK
<1>10. RequestsAgree'
  <2>1. \A g \in Handlers : handlers[g].attempt # None => handlers[g].attempt \notin DOMAIN attempts'
    BY <1>0, <1>1 DEF RequestsAgree
  <2> QED BY <1>1, <2>1, RequestEnds
<1>11. EditsAgree'
  <2> SUFFICES ASSUME NEW d \in Edits, Pending(d)'
               PROVE  /\ \A n \in Modules : /\ assessments'[n].id # d
                                            /\ Asked[d] \intersect questions'[n] = {}
                      /\ \A g \in Handlers : /\ handlers'[g].read.id # d
                                             /\ Asked[d] \intersect handlers'[g].questions = {}
    BY DEF EditsAgree
  <2>1. d # e
    BY <1>0, <1>1, <1>2, <1>6, IdleFacts, NoneFacts DEF Pending, RequestsAgree
  <2>2. Pending(d) BY <1>1, <1>6, IdleFacts, NoneFacts DEF Pending
  <2>3. Asked[d] \intersect Asked[e] = {} BY <1>2, <2>1, ConstantsAssumption
  <2> QED BY <1>0, <1>3, <1>4, <1>6, <2>1, <2>2, <2>3, IdleFacts, NoneFacts DEF EditsAgree
<1>12. ReadingsAgree'
  <2> SUFFICES ASSUME NEW k \in Handlers, k # h
               PROVE  LET p == handlers[k]
                          now == questions'[p.module]
                      IN
                      /\ p.pc = "replacing" /\ Stands(k)' /\ ~p.late => now = p.questions
                      /\ p.pc = "opening" /\ Stands(k)' /\ ~p.late => assessments'[p.module] = p.read
                      /\ p.pc = "taking" /\ Stands(k)' =>
                           \/ now = p.questions /\ (p.late \/ assessments'[p.module] = p.read)
                           \/ p.module \in tangled
                           \/ now \intersect p.questions = {}
    BY <1>1, <1>6, IdleFacts DEF ReadingsAgree
  <2>1. handlers[k].read.id # e
    BY <1>0, <1>2 DEF EditsAgree, Pending
  <2>2. CASE handlers[k].module = m
    <3>1. ~Stands(k)' BY <1>3, <1>6, <2>1, <2>2 DEF Stands
    <3> QED BY <3>1
  <2>3. CASE handlers[k].module # m
    <3>1. handlers[k].pc # "idle" => handlers[k].module \in Modules BY <1>0 DEF RequestsAgree
    <3>2. handlers[k].pc # "idle" => (Stands(k)' <=> Stands(k))
      BY <1>3, <1>6, <2>3, <3>1 DEF Stands
    <3> QED BY <1>0, <1>3, <1>4, <2>3, <3>1, <3>2 DEF ReadingsAgree
  <2> QED BY <2>2, <2>3
<1>13. QuestionsOfOneEdit'
  BY <1>0, <1>1, <1>2, <1>3, <1>4, NoneFacts DEF QuestionsOfOneEdit, NoAssessment
<1> QED BY <1>7, <1>8, <1>9, <1>10, <1>11, <1>12, <1>13 DEF IInv

\* The questions of an assessment are replaced.
LEMMA ReplaceKeeps ==
  ASSUME IInv, NEW h \in Handlers, Replace(h)
  PROVE  IInv'
<1> DEFINE m == handlers[h].module
           e == handlers[h].edit
           old == handlers[h].questions
<1>0. /\ TypeOK /\ RowsAgree /\ AnswersAgree /\ RequestsAgree /\ EditsAgree /\ ReadingsAgree
      /\ QuestionsOfOneEdit
  BY DEF IInv
<1>1. /\ handlers[h].pc = "replacing" /\ Stands(h)
      /\ assessments' = [assessments EXCEPT ![m].score =
                           IF Writes(h) THEN handlers[h].score ELSE @]
      /\ questions' = [questions EXCEPT ![m] = (@ \ old) \union Asked[e]]
      /\ answers' = {r \in answers : r.question \notin old}
      /\ tangled' = IF handlers[h].late THEN tangled \union {m} ELSE tangled \ {m}
      /\ handlers' = [g \in Handlers |->
           IF g = h THEN Idle
           ELSE IF handlers[g].module = m /\ handlers[g].pc \in {"replacing", "opening"}
                THEN [handlers[g] EXCEPT !.late = TRUE]
                ELSE handlers[g]]
      /\ UNCHANGED <<attempts, started, submissions, enrolled, today, edited>>
  BY DEF Replace, Now, students
<1>2. m \in Modules /\ e \in edited /\ e \in Edits /\ handlers[h].score \in Scores
  BY <1>0, <1>1 DEF RequestsAgree, TypeOK
<1>3. /\ assessments' \in [Modules -> AssessmentRecord]
      /\ \A n \in Modules : assessments'[n].id = assessments[n].id
      /\ \A n \in Modules : n # m => assessments'[n] = assessments[n]
      /\ assessments'[m].score \in {handlers[h].score, assessments[m].score}
  <2> DEFINE r == [assessments[m] EXCEPT !.score =
                     IF Writes(h) THEN handlers[h].score ELSE assessments[m].score]
  <2>1. assessments[m] \in AssessmentRecord BY <1>0, <1>2 DEF TypeOK
  <2>2. /\ r \in AssessmentRecord /\ r.id = assessments[m].id
        /\ r.score \in {handlers[h].score, assessments[m].score}
    BY <1>2, <2>1 DEF AssessmentRecord
  <2>3. assessments' = [assessments EXCEPT ![m] = r] BY <1>1
  <2> HIDE DEF r
  <2> QED BY <1>0, <1>2, <2>2, <2>3 DEF TypeOK
<1>4. /\ questions' \in [Modules -> SUBSET Questions]
      /\ questions'[m] = (questions[m] \ old) \union Asked[e]
      /\ \A n \in Modules : n # m => questions'[n] = questions[n]
  BY <1>0, <1>1, <1>2, ConstantsAssumption DEF TypeOK
<1>5. assessments[m].id # None /\ assessments'[m].id # None
  BY <1>1, <1>2, <1>3 DEF Stands
<1>6. /\ handlers' \in [Handlers -> HandlerRecord]
      /\ handlers'[h] = Idle
      /\ \A g \in Handlers : g # h =>
           /\ \A f \in DOMAIN handlers[g] \ {"late"} : handlers'[g][f] = handlers[g][f]
           /\ handlers'[g].late <=> handlers[g].late
                                      \/ (handlers[g].module = m /\ handlers[g].pc \in {"replacing", "opening"})
  <2>1. ASSUME NEW g \in Handlers, g # h
        PROVE  /\ handlers'[g] \in HandlerRecord
               /\ \A f \in DOMAIN handlers[g] \ {"late"} : handlers'[g][f] = handlers[g][f]
               /\ handlers'[g].late <=> handlers[g].late
                                          \/ (handlers[g].module = m /\ handlers[g].pc \in {"replacing", "opening"})
    <3>1. handlers[g] \in HandlerRecord BY <1>0 DEF TypeOK
    <3>2. CASE handlers[g].module = m /\ handlers[g].pc \in {"replacing", "opening"}
      <4>1. handlers'[g] = [handlers[g] EXCEPT !.late = TRUE] BY <1>1, <2>1, <3>2
      <4> QED BY <3>1, <3>2, <4>1 DEF HandlerRecord
    <3>3. CASE ~(handlers[g].module = m /\ handlers[g].pc \in {"replacing", "opening"})
      <4>1. handlers'[g] = handlers[g] BY <1>1, <2>1, <3>3
      <4> QED BY <3>1, <3>3, <4>1 DEF HandlerRecord
    <3> QED BY <3>2, <3>3
  <2>2. handlers'[h] = Idle BY <1>1
  <2>3. handlers' = [g \in Handlers |-> handlers'[g]] BY <1>1
  <2> QED BY <2>1, <2>2, <2>3, IdleFacts
<1>7. \A g \in Handlers : g # h =>
        LET p == handlers'[g]
            q == handlers[g]
        IN /\ p.pc = q.pc /\ p.module = q.module /\ p.read = q.read /\ p.questions = q.questions
           /\ p.edit = q.edit /\ p.score = q.score /\ p.user = q.user /\ p.attempt = q.attempt
  <2>1. \A g \in Handlers :
          DOMAIN handlers[g] = {"pc", "module", "read", "questions", "edit", "score", "user",
                                "attempt", "late"}
    BY <1>0 DEF TypeOK, HandlerRecord
  <2> QED BY <1>6, <2>1
<1>8. RowsAgree'
  <2>1. IsFiniteSet(Asked[e]) BY <1>2, ConstantsAssumption
  <2>2. IsFiniteSet(questions[m] \ old) BY <1>0, <1>2, FS_Difference DEF RowsAgree
  <2>3. IsFiniteSet(questions'[m])
    <3>1. IsFiniteSet((questions[m] \ old) \union Asked[e]) BY <2>1, <2>2, FS_Union
    <3> QED BY <1>4, <3>1
  <2>4. assessments'[m].score \in Scores BY <1>0, <1>2, <1>3, <1>5 DEF RowsAgree
  <2>5. \A n \in Modules : n # m => (n \in tangled' <=> n \in tangled) BY <1>1
  <2> QED BY <1>0, <1>1, <1>3, <1>4, <1>5, <2>3, <2>4, <2>5 DEF RowsAgree
<1>9. AnswersAgree'
  <2>1. \A a \in DOMAIN attempts : attempts[a].module \in Modules
    BY <1>0 DEF TypeOK, AttemptRecord
  <2>2. \A n \in Modules : \A q \in questions[n] \ old : q \in questions'[n] BY <1>4
  <2> QED BY <1>0, <1>1, <2>1, <2>2 DEF AnswersAgree
<1>10. TypeOK'
  <2>1. answers' \subseteq [attempt: DOMAIN attempts', question: UNION Range(questions'),
                            correct: BOOLEAN]
    <3>1. \A r \in answers' : r.question \in UNION Range(questions')
      <4>1. \A r \in answers' :
              r.attempt \in DOMAIN attempts' /\ r.question \in questions'[attempts'[r.attempt].module]
        BY <1>9 DEF AnswersAgree
      <4>2. \A a \in DOMAIN attempts' : attempts'[a].module \in Modules
        <5>1. \A a \in DOMAIN attempts : attempts[a].module \in Modules
          BY <1>0 DEF TypeOK, AttemptRecord
        <5>2. attempts' = attempts BY <1>1
        <5> QED BY <5>1, <5>2
      <4>3. \A n \in Modules : questions'[n] \in Range(questions') BY <1>4 DEF Range
      <4> QED BY <4>1, <4>2, <4>3
    <3>2. \A r \in answers' : r \in [attempt: DOMAIN attempts', question: UNION Range(questions),
                                     correct: BOOLEAN]
      BY <1>0, <1>1 DEF TypeOK
    <3> QED BY <3>1, <3>2
  <2>2. tangled' \subseteq Modules BY <1>0, <1>1, <1>2 DEF TypeOK
  <2> QED BY <1>0, <1>1, <1>3, <1>4, <1>6, <2>1, <2>2 DEF TypeOK
<1>11. RequestsAgree'
  <2> SUFFICES ASSUME NEW k \in Handlers
      PROVE  LET p == handlers'[k] IN
             /\ p.pc # "idle" => p.module \in Modules
             /\ p.pc \in {"editing", "replacing"} => p.edit \in edited /\ p.score \in Scores
             /\ p.edit # None => p.pc \in {"editing", "replacing"}
             /\ p.pc \in {"opening", "taking"} => p.user \in Users
             /\ p.pc = "taking" => p.attempt \in (1 .. started) \ DOMAIN attempts
             /\ p.attempt # None => p.pc = "taking"
             /\ p.read.id # None => p.read.score \in Scores
             /\ IsFiniteSet(p.questions)
             /\ \A g \in Handlers \ {k} :
                  /\ p.edit # None => handlers'[g].edit # p.edit
                  /\ p.attempt # None => handlers'[g].attempt # p.attempt
    BY <1>1 DEF RequestsAgree
  <2>1. CASE k = h BY <1>6, <2>1, IdleFacts, FS_EmptySet
  <2>2. CASE k # h
    <3>1. \A g \in Handlers \ {k} :
            /\ handlers[k].edit # None => handlers'[g].edit # handlers[k].edit
            /\ handlers[k].attempt # None => handlers'[g].attempt # handlers[k].attempt
      BY <1>0, <1>6, <1>7, IdleFacts DEF RequestsAgree
    <3> QED BY <1>0, <1>7, <2>2, <3>1 DEF RequestsAgree
  <2> QED BY <2>1, <2>2
<1>12. EditsAgree'
  <2> SUFFICES ASSUME NEW d \in Edits, Pending(d)'
               PROVE  /\ \A n \in Modules : /\ assessments'[n].id # d
                                            /\ Asked[d] \intersect questions'[n] = {}
                      /\ \A g \in Handlers : /\ handlers'[g].read.id # d
                                             /\ Asked[d] \intersect handlers'[g].questions = {}
    BY DEF EditsAgree
  <2>1. d # e
    BY <1>0, <1>1, <1>2, <1>6, <1>7, IdleFacts, NoneFacts DEF Pending, RequestsAgree
  <2>2. Pending(d) BY <1>1, <1>6, <1>7, IdleFacts, NoneFacts DEF Pending
  <2>3. Asked[d] \intersect Asked[e] = {} BY <1>2, <2>1, ConstantsAssumption
  <2>4. \A n \in Modules : Asked[d] \intersect questions[n] = {} /\ assessments[n].id # d
    BY <1>0, <2>2 DEF EditsAgree
  <2>5. \A g \in Handlers : /\ handlers[g].read.id # d
                            /\ Asked[d] \intersect handlers[g].questions = {}
    BY <1>0, <2>2 DEF EditsAgree
  <2>6. \A n \in Modules : Asked[d] \intersect questions'[n] = {}
    BY <1>2, <1>4, <2>3, <2>4
  <2> QED BY <1>3, <1>6, <1>7, <2>4, <2>5, <2>6, IdleFacts, NoneFacts
<1>13. ~handlers[h].late => questions'[m] = Asked[e]
  BY <1>0, <1>1, <1>4 DEF ReadingsAgree
<1>14. ReadingsAgree'
  <2> SUFFICES ASSUME NEW k \in Handlers, k # h
               PROVE  LET p == handlers'[k]
                          now == questions'[p.module]
                      IN
                      /\ p.pc = "replacing" /\ Stands(k)' /\ ~p.late => now = p.questions
                      /\ p.pc = "opening" /\ Stands(k)' /\ ~p.late => assessments'[p.module] = p.read
                      /\ p.pc = "taking" /\ Stands(k)' =>
                           \/ now = p.questions /\ (p.late \/ assessments'[p.module] = p.read)
                           \/ p.module \in tangled'
                           \/ now \intersect p.questions = {}
    BY <1>6, IdleFacts DEF ReadingsAgree
  <2>1. handlers[k].pc # "idle" => handlers[k].module \in Modules BY <1>0 DEF RequestsAgree
  <2>2. handlers[k].pc # "idle" => (Stands(k)' <=> Stands(k))
    BY <1>3, <1>7, <2>1 DEF Stands
  <2>3. CASE handlers[k].module = m
    <3>1. Asked[e] \intersect handlers[k].questions = {} BY <1>0, <1>2 DEF EditsAgree, Pending
    <3>2. handlers[h].late => m \in tangled' BY <1>1
    <3> QED BY <1>6, <1>7, <1>13, <2>3, <3>1, <3>2
  <2>4. CASE handlers[k].module # m
    <3>1. handlers[k].module \in tangled => handlers[k].module \in tangled' BY <1>1, <2>4
    <3>2. handlers'[k].late <=> handlers[k].late BY <1>6, <2>4
    <3> QED BY <1>0, <1>3, <1>4, <1>7, <2>1, <2>2, <2>4, <3>1, <3>2 DEF ReadingsAgree
  <2> QED BY <2>3, <2>4
<1>15. QuestionsOfOneEdit'
  <2> SUFFICES ASSUME NEW n \in Modules \ tangled'
               PROVE  IF assessments'[n] = NoAssessment THEN questions'[n] = {}
                      ELSE \E d \in edited : questions'[n] = Asked[d]
    BY <1>1 DEF QuestionsOfOneEdit
  <2>1. CASE n = m
    <3>1. ~handlers[h].late BY <1>1, <2>1
    <3>2. assessments'[m] # NoAssessment BY <1>5 DEF NoAssessment
    <3> QED BY <1>2, <1>13, <2>1, <3>1, <3>2
  <2>2. CASE n # m
    <3>1. n \notin tangled BY <1>1, <2>2
    <3> QED BY <1>0, <1>3, <1>4, <2>2, <3>1 DEF QuestionsOfOneEdit
  <2> QED BY <2>1, <2>2
<1> QED BY <1>8, <1>9, <1>10, <1>11, <1>12, <1>14, <1>15 DEF IInv

\* An assessment is deleted, with all that belongs to it.
LEMMA DeleteKeeps ==
  ASSUME IInv, NEW h \in Handlers, Delete(h)
  PROVE  IInv'
<1> DEFINE m == handlers[h].module
<1>0. /\ TypeOK /\ RowsAgree /\ AnswersAgree /\ RequestsAgree /\ EditsAgree /\ ReadingsAgree
      /\ QuestionsOfOneEdit
  BY DEF IInv
<1>1. /\ handlers[h].pc = "deleting" /\ Stands(h)
      /\ assessments' = [assessments EXCEPT ![m] = NoAssessment]
      /\ questions' = [questions EXCEPT ![m] = {}]
      /\ attempts' = [a \in DOMAIN attempts \ AttemptsAt(m) |-> attempts[a]]
      /\ answers' = {r \in answers : r.attempt \notin AttemptsAt(m)}
      /\ tangled' = tangled \ {m}
      /\ Becomes(h, Idle)
      /\ UNCHANGED <<started, submissions, enrolled, today, edited>>
  BY DEF Delete, Now, students
<1>2. m \in Modules BY <1>0, <1>1 DEF RequestsAgree
<1>3. /\ assessments' \in [Modules -> AssessmentRecord]
      /\ assessments'[m] = NoAssessment
      /\ \A n \in Modules : n # m => assessments'[n] = assessments[n]
  BY <1>0, <1>1, <1>2 DEF TypeOK, NoAssessment, AssessmentRecord
<1>4. /\ questions' \in [Modules -> SUBSET Questions]
      /\ questions'[m] = {}
      /\ \A n \in Modules : n # m => questions'[n] = questions[n]
  BY <1>0, <1>1, <1>2 DEF TypeOK
<1>5. /\ DOMAIN attempts' = {a \in DOMAIN attempts : attempts[a].module # m}
      /\ \A a \in DOMAIN attempts' : attempts'[a] = attempts[a]
  BY <1>1 DEF AttemptsAt
<1>6. /\ handlers' \in [Handlers -> HandlerRecord]
      /\ handlers'[h] = Idle
      /\ \A g \in Handlers : g # h => handlers'[g] = handlers[g]
  BY <1>0, <1>1, IdleFacts, HandlerBecomes
<1>7. RowsAgree'
  BY <1>0, <1>1, <1>3, <1>4, FS_EmptySet DEF RowsAgree, NoAssessment
<1>8. AnswersAgree'
  <2>1. \A r \in answers' : r \in answers /\ r.attempt \notin AttemptsAt(m) BY <1>1
  <2>2. \A a \in DOMAIN attempts : attempts[a].module \in Modules
    BY <1>0 DEF TypeOK, AttemptRecord
  <2> QED BY <1>0, <1>1, <1>4, <1>5, <2>1, <2>2 DEF AnswersAgree, AttemptsAt
<1>9. TypeOK'
  <2>1. answers' \subseteq [attempt: DOMAIN attempts', question: UNION Range(questions'),
                            correct: BOOLEAN]
    <3>1. \A r \in answers' : r.attempt \in DOMAIN attempts' /\ r.question \in UNION Range(questions')
      <4>1. \A r \in answers' :
              r.attempt \in DOMAIN attempts' /\ r.question \in questions'[attempts'[r.attempt].module]
        BY <1>8 DEF AnswersAgree
      <4>2. \A a \in DOMAIN attempts' : attempts'[a].module \in Modules
        <5>1. \A a \in DOMAIN attempts : attempts[a].module \in Modules
          BY <1>0 DEF TypeOK, AttemptRecord
        <5> QED BY <1>5, <5>1
      <4>3. \A n \in Modules : questions'[n] \in Range(questions') BY <1>4 DEF Range
      <4> QED BY <4>1, <4>2, <4>3
    <3>2. \A r \in answers' : r \in [attempt: DOMAIN attempts, question: UNION Range(questions),
                                     correct: BOOLEAN]
      BY <1>0, <1>1 DEF TypeOK
    <3> QED BY <3>1, <3>2
  <2> QED BY <1>0, <1>1, <1>3, <1>4, <1>5, <1>6, <2>1 DEF TypeOK
<1>10. RequestsAgree'
  <2>1. \A g \in Handlers : handlers[g].attempt # None => handlers[g].attempt \notin DOMAIN attempts'
    BY <1>0, <1>5 DEF RequestsAgree
  <2> QED BY <1>1, <2>1, RequestEnds
<1>11. EditsAgree'
  <2> SUFFICES ASSUME NEW d \in Edits, Pending(d)'
               PROVE  /\ \A n \in Modules : /\ assessments'[n].id # d
                                            /\ Asked[d] \intersect questions'[n] = {}
                      /\ \A g \in Handlers : /\ handlers'[g].read.id # d
                                             /\ Asked[d] \intersect handlers'[g].questions = {}
    BY DEF EditsAgree
  <2>1. Pending(d) BY <1>1, <1>6, IdleFacts, NoneFacts DEF Pending
  <2>2. NoAssessment.id # d BY NoneFacts DEF NoAssessment
  <2> QED BY <1>0, <1>3, <1>4, <1>6, <2>1, <2>2, IdleFacts, NoneFacts DEF EditsAgree
<1>12. ReadingsAgree'
  <2> SUFFICES ASSUME NEW k \in Handlers, k # h
               PROVE  LET p == handlers[k]
                          now == questions'[p.module]
                      IN
                      /\ p.pc = "replacing" /\ Stands(k)' /\ ~p.late => now = p.questions
                      /\ p.pc = "opening" /\ Stands(k)' /\ ~p.late => assessments'[p.module] = p.read
                      /\ p.pc = "taking" /\ Stands(k)' =>
                           \/ now = p.questions /\ (p.late \/ assessments'[p.module] = p.read)
                           \/ p.module \in tangled'
                           \/ now \intersect p.questions = {}
    BY <1>1, <1>6, IdleFacts DEF ReadingsAgree
  <2>1. CASE handlers[k].module = m
    <3>1. ~Stands(k)' BY <1>3, <1>6, <2>1 DEF Stands, NoAssessment
    <3> QED BY <3>1
  <2>2. CASE handlers[k].module # m
    <3>1. handlers[k].pc # "idle" => handlers[k].module \in Modules BY <1>0 DEF RequestsAgree
    <3>2. handlers[k].pc # "idle" => (Stands(k)' <=> Stands(k))
      BY <1>3, <1>6, <2>2, <3>1 DEF Stands
    <3>3. handlers[k].module \in tangled => handlers[k].module \in tangled' BY <1>1, <2>2
    <3> QED BY <1>0, <1>3, <1>4, <2>2, <3>1, <3>2, <3>3 DEF ReadingsAgree
  <2> QED BY <2>1, <2>2
<1>13. QuestionsOfOneEdit'
  BY <1>0, <1>1, <1>3, <1>4 DEF QuestionsOfOneEdit
<1> QED BY <1>7, <1>8, <1>9, <1>10, <1>11, <1>12, <1>13 DEF IInv

\* An attempt is recorded.
LEMMA FinishKeeps ==
  ASSUME IInv, NEW h \in Handlers, NEW answered \in SUBSET handlers[h].questions,
         NEW right \in SUBSET answered, Finish(h, answered, right)
  PROVE  IInv'
<1> DEFINE m == handlers[h].module
           all == handlers[h].questions
           a == handlers[h].attempt
           score == Score(right, Earnable(all, answered))
           passed == score >= 100 * handlers[h].read.score
           row == Attempt(handlers[h].user, m, score, passed, today)
           new == {[attempt |-> a, question |-> q, correct |-> q \in right] : q \in answered}
<1>0. /\ TypeOK /\ RowsAgree /\ AnswersAgree /\ RequestsAgree /\ EditsAgree /\ ReadingsAgree
      /\ QuestionsOfOneEdit
  BY DEF IInv
<1>1. /\ handlers[h].pc = "taking" /\ Stands(h) /\ answered \subseteq questions[m]
      /\ attempts' = [b \in DOMAIN attempts \union {a} |-> IF b = a THEN row ELSE attempts[b]]
      /\ answers' = answers \union new
      /\ Becomes(h, Idle)
      /\ UNCHANGED <<assessments, questions, started, submissions, enrolled, today, edited, tangled>>
  BY DEF Finish, Now, MayRefer, tests, students
<1>2. /\ m \in Modules /\ handlers[h].user \in Users
      /\ a \in (1 .. started) \ DOMAIN attempts /\ a # None /\ a \in Attempts
      /\ IsFiniteSet(all) /\ all \subseteq Questions
  <2>1. handlers[h] \in HandlerRecord /\ started \in Attempts \union {0} BY <1>0 DEF TypeOK
  <2>2. /\ m \in Modules /\ handlers[h].user \in Users /\ IsFiniteSet(all)
        /\ a \in (1 .. started) \ DOMAIN attempts
    BY <1>0, <1>1 DEF RequestsAgree
  <2>3. a # None BY <2>1, <2>2, NoneFacts
  <2> QED BY <2>1, <2>2, <2>3 DEF HandlerRecord
<1>3. score \in Columns BY DEF Finish
<1>4. row \in AttemptRecord /\ row.module = m
  <2>1. passed \in BOOLEAN /\ today \in Days BY <1>0 DEF TypeOK
  <2> HIDE DEF score, passed
  <2> QED BY <1>2, <1>3, <2>1 DEF Attempt, AttemptRecord
<1> HIDE DEF row
<1>5. /\ DOMAIN attempts' = DOMAIN attempts \union {a} /\ attempts'[a] = row
      /\ \A b \in DOMAIN attempts : attempts'[b] = attempts[b]
  BY <1>1, <1>2
<1>6. /\ handlers' \in [Handlers -> HandlerRecord]
      /\ handlers'[h] = Idle
      /\ \A g \in Handlers : g # h => handlers'[g] = handlers[g]
  BY <1>0, <1>1, IdleFacts, HandlerBecomes
<1>7. RowsAgree' BY <1>0, <1>1 DEF RowsAgree
<1>8. AnswersAgree'
  <2>1. \A r \in new : r.attempt = a /\ r.question \in questions[m] BY <1>1
  <2> HIDE DEF new
  <2> QED BY <1>0, <1>1, <1>2, <1>4, <1>5, <2>1 DEF AnswersAgree
<1>9. TypeOK'
  <2>1. questions[m] \in Range(questions) BY <1>0, <1>2 DEF TypeOK, Range
  <2>2. answered \subseteq UNION Range(questions) BY <1>1, <2>1
  <2>3. new \subseteq [attempt: DOMAIN attempts', question: UNION Range(questions),
                       correct: BOOLEAN]
    <3> SUFFICES ASSUME NEW q \in answered
                 PROVE  [attempt |-> a, question |-> q, correct |-> q \in right]
                          \in [attempt: DOMAIN attempts', question: UNION Range(questions),
                              correct: BOOLEAN]
      OBVIOUS
    <3> DEFINE correct == q \in right
    <3>1. correct \in BOOLEAN OBVIOUS
    <3> HIDE DEF correct
    <3> QED BY <1>5, <2>2, <3>1
  <2>4. answers \subseteq [attempt: DOMAIN attempts', question: UNION Range(questions),
                           correct: BOOLEAN]
    <3>1. answers \subseteq [attempt: DOMAIN attempts, question: UNION Range(questions),
                             correct: BOOLEAN]
      BY <1>0 DEF TypeOK
    <3> QED BY <1>5, <3>1
  <2>5. answers' \subseteq [attempt: DOMAIN attempts', question: UNION Range(questions'),
                            correct: BOOLEAN]
    BY <1>1, <2>3, <2>4
  <2> QED BY <1>0, <1>1, <1>2, <1>4, <1>5, <1>6, <2>5 DEF TypeOK
<1>10. RequestsAgree'
  <2>1. \A g \in Handlers : handlers[g].attempt # None /\ g # h =>
          handlers[g].attempt \notin DOMAIN attempts /\ handlers[g].attempt # a
    BY <1>0, <1>2 DEF RequestsAgree
  <2> QED BY <1>1, <1>5, <2>1, RequestEnds
<1>11. EditsAgree'
  <2> SUFFICES ASSUME NEW d \in Edits, Pending(d)'
               PROVE  /\ \A n \in Modules : /\ assessments[n].id # d
                                            /\ Asked[d] \intersect questions[n] = {}
                      /\ \A g \in Handlers : /\ handlers'[g].read.id # d
                                             /\ Asked[d] \intersect handlers'[g].questions = {}
    BY <1>1 DEF EditsAgree
  <2>1. Pending(d) BY <1>1, <1>6, IdleFacts, NoneFacts DEF Pending
  <2> QED BY <1>0, <1>6, <2>1, IdleFacts, NoneFacts DEF EditsAgree
<1>12. ReadingsAgree'
  BY <1>0, <1>1, <1>6, IdleFacts DEF ReadingsAgree, Stands
<1>13. QuestionsOfOneEdit' BY <1>0, <1>1 DEF QuestionsOfOneEdit
<1> QED BY <1>7, <1>8, <1>9, <1>10, <1>11, <1>12, <1>13 DEF IInv

\* A student enrols or hands in a task, or a day passes.
LEMMA StudentKeeps ==
  ASSUME IInv, (\E u \in Students : StudentStep(u)) \/ NextDay
  PROVE  IInv'
<1>0. /\ TypeOK /\ RowsAgree /\ AnswersAgree /\ RequestsAgree /\ EditsAgree /\ ReadingsAgree
      /\ QuestionsOfOneEdit
  BY DEF IInv
<1>1. UNCHANGED <<assessments, questions, attempts, answers, started, handlers, edited, tangled>>
  BY DEF StudentStep, Enrol, SubmitTask, NextDay, tests, results
<1>2. AnswersAgree' /\ RequestsAgree' /\ EditsAgree' /\ ReadingsAgree' /\ QuestionsOfOneEdit'
  BY <1>0, <1>1
  DEF AnswersAgree, RequestsAgree, EditsAgree, Pending, ReadingsAgree, Stands, QuestionsOfOneEdit
<1>3. ASSUME NEW u \in Students, NEW c \in Courses, Enrol(u, c) PROVE TypeOK' /\ RowsAgree'
  <2>1. enrolled' = enrolled \union {[user |-> u, course |-> c, day |-> today]}
          /\ UNCHANGED <<submissions, today>>
    BY <1>3 DEF Enrol
  <2>2. enrolled' \subseteq [user: Students, course: Courses, day: Days] BY <1>0, <2>1 DEF TypeOK
  <2>3. IsFiniteSet(enrolled') BY <1>0, <2>1, FS_AddElement DEF RowsAgree
  <2> QED BY <1>0, <1>1, <2>1, <2>2, <2>3 DEF TypeOK, RowsAgree
<1>4. ASSUME NEW u \in Students, NEW t \in Tasks, SubmitTask(u, t) PROVE TypeOK' /\ RowsAgree'
  <2>1. submissions' = submissions \union {[user |-> u, task |-> t, day |-> today]}
          /\ UNCHANGED <<enrolled, today>>
    BY <1>4 DEF SubmitTask
  <2>2. submissions' \subseteq [user: Students, task: Tasks, day: Days] BY <1>0, <2>1 DEF TypeOK
  <2>3. IsFiniteSet(submissions') BY <1>0, <2>1, FS_AddElement DEF RowsAgree
  <2> QED BY <1>0, <1>1, <2>1, <2>2, <2>3 DEF TypeOK, RowsAgree
<1>5. CASE NextDay
  <2>1. today' \in Days /\ UNCHANGED <<submissions, enrolled>>
    BY <1>0, <1>5, ConstantsAssumption DEF NextDay, TypeOK, Days
  <2>2. TypeOK' BY <1>0, <1>1, <2>1 DEF TypeOK
  <2>3. RowsAgree' BY <1>0, <1>1, <2>1 DEF RowsAgree
  <2> QED BY <1>2, <2>2, <2>3 DEF IInv
<1> QED BY <1>2, <1>3, <1>4, <1>5 DEF IInv, StudentStep

\* It holds at the start.
LEMMA InvariantBegins == Init => IInv
<1> SUFFICES ASSUME Init PROVE IInv OBVIOUS
<1>1. TypeOK
  BY IdleFacts, NoneFacts, ConstantsAssumption
  DEF Init, TypeOK, NoAttempts, NoAssessment, AssessmentRecord, Days
<1>2. RowsAgree BY FS_EmptySet DEF Init, RowsAgree, NoAssessment
<1>3. AnswersAgree BY DEF Init, AnswersAgree, NoAttempts
<1>4. RequestsAgree BY IdleFacts, FS_EmptySet DEF Init, RequestsAgree
<1>5. EditsAgree BY IdleFacts, NoneFacts DEF Init, EditsAgree, NoAssessment
<1>6. ReadingsAgree BY IdleFacts DEF Init, ReadingsAgree
<1>7. QuestionsOfOneEdit BY DEF Init, QuestionsOfOneEdit
<1> QED BY <1>1, <1>2, <1>3, <1>4, <1>5, <1>6, <1>7 DEF IInv

\* Every step preserves it.
LEMMA InvariantStep == IInv /\ [Next]_vars => IInv'
<1> SUFFICES ASSUME IInv, [Next]_vars PROVE IInv' OBVIOUS
<1>1. CASE UNCHANGED vars
  BY <1>1
  DEF vars, tests, results, students, IInv, TypeOK, RowsAgree, AnswersAgree, RequestsAgree,
      EditsAgree, Pending, ReadingsAgree, Stands, QuestionsOfOneEdit
<1>2. CASE Next
  <2>1. ASSUME NEW h \in Handlers, EditorStep(h) PROVE IInv'
    BY <2>1, RequestReads, CreateKeeps, ReplaceKeeps, DeleteKeeps DEF EditorStep
  <2>2. ASSUME NEW h \in Handlers, Take(h) \/ \E u \in Users, m \in Modules : Open(h, u, m)
        PROVE  IInv'
    BY <2>2, RequestReads
  <2>3. ASSUME NEW h \in Handlers, Fail(h) PROVE IInv' BY <2>3, RequestReads
  <2> QED BY <1>2, <2>1, <2>2, <2>3, FinishKeeps, StudentKeeps DEF Next
<1> QED BY <1>1, <1>2

\* The inductive invariant of Assessments.
THEOREM AssessmentInvariance == Spec => []IInv
  BY InvariantBegins, InvariantStep, PTL DEF Spec

\* Rows and requests have their types in every reachable state.
THEOREM AssessmentTypes == Spec => []TypeOK
<1>1. IInv => TypeOK BY DEF IInv
<1> QED BY <1>1, AssessmentInvariance, PTL

\* An edit that no other overlapped leaves its own questions and no others, whichever were
\* there before and whatever happens to the assessment meanwhile.
THEOREM AssessmentsAreOfOneEdit == Spec => []QuestionsOfOneEdit
<1>1. IInv => QuestionsOfOneEdit BY DEF IInv
<1> QED BY <1>1, AssessmentInvariance, PTL

\* What PassesAsAsked says of a step.
AsAsked ==
  \A h \in Handlers :
    LET q == handlers[h]
        now == questions[q.module]
        passing == IF q.late THEN q.read.score ELSE assessments[q.module].score
    IN
    /\ q.attempt \in DOMAIN attempts' \ DOMAIN attempts
    /\ attempts'[q.attempt].passed
    /\ q.module \notin tangled
    => /\ Earned(q.attempt) \subseteq now
       /\ Score(Earned(q.attempt), now) >= 100 * passing

\* No step but the end of an attempt records one.
LEMMA OnlyFinishRecords ==
  ASSUME IInv, [Next]_vars,
         \A h \in Handlers : \A answered \in SUBSET handlers[h].questions :
           \A right \in SUBSET answered : ~Finish(h, answered, right)
  PROVE  DOMAIN attempts' \subseteq DOMAIN attempts
<1>1. ASSUME NEW h \in Handlers, Delete(h) PROVE DOMAIN attempts' \subseteq DOMAIN attempts
  BY <1>1 DEF Delete
<1>2. ASSUME NEW h \in Handlers, EditorStep(h), ~Delete(h) PROVE UNCHANGED attempts
  BY <1>2 DEF EditorStep, ReadForDelete, ReadForEdit, Create, BeginReplace, Replace, results
<1>3. ASSUME NEW h \in Handlers, Take(h) \/ \E u \in Users, m \in Modules : Open(h, u, m)
      PROVE  UNCHANGED attempts
  BY <1>3 DEF Take, Open, results
<1>4. ASSUME NEW h \in Handlers, Fail(h) PROVE UNCHANGED attempts BY <1>4 DEF Fail, results
<1>5. ASSUME (\E u \in Students : StudentStep(u)) \/ NextDay \/ UNCHANGED vars
      PROVE  UNCHANGED attempts
  BY <1>5 DEF StudentStep, Enrol, SubmitTask, NextDay, results, vars
<1> QED BY <1>1, <1>2, <1>3, <1>4, <1>5 DEF Next

\* An attempt that passes has a right answer; its question is still asked, so that nothing
\* was edited since the questions were read.
LEMMA FinishPassesAsAsked ==
  ASSUME IInv, NEW h \in Handlers, NEW answered \in SUBSET handlers[h].questions,
         NEW right \in SUBSET answered, Finish(h, answered, right)
  PROVE  AsAsked
<1> DEFINE m == handlers[h].module
           all == handlers[h].questions
           b == handlers[h].attempt
           read == handlers[h].read
           passing == IF handlers[h].late THEN read.score ELSE assessments[m].score
           row == Attempt(handlers[h].user, m, Score(right, all),
                          Score(right, all) >= 100 * read.score, today)
<1>0. TypeOK /\ RowsAgree /\ AnswersAgree /\ RequestsAgree /\ ReadingsAgree BY DEF IInv
<1>1. /\ handlers[h].pc = "taking" /\ Stands(h) /\ answered \subseteq questions[m]
      /\ attempts' = [c \in DOMAIN attempts \union {b} |-> IF c = b THEN row ELSE attempts[c]]
      /\ answers' = answers \union
           {[attempt |-> b, question |-> q, correct |-> q \in right] : q \in answered}
  BY DEF Finish, Now, MayRefer, Earnable
<1>2. /\ m \in Modules /\ b \notin DOMAIN attempts /\ IsFiniteSet(all) /\ all \subseteq Questions
      /\ read.score \in Scores /\ b # None
  <2>1. handlers[h] \in HandlerRecord BY <1>0 DEF TypeOK
  <2>2. read.id # None BY <1>1 DEF Stands
  <2>3. b \in 1 .. started /\ started \in Nat
    BY <1>0, <1>1, NoneFacts DEF RequestsAgree, TypeOK
  <2> QED BY <1>0, <1>1, <2>1, <2>2, <2>3, NoneFacts DEF RequestsAgree, HandlerRecord
<1>3. attempts'[b] = row BY <1>1
<1>4. row.module = m /\ (row.passed <=> Score(right, all) >= 100 * read.score)
  BY DEF Attempt
<1>5. SUFFICES ASSUME Score(right, all) >= 100 * read.score, m \notin tangled
      PROVE  /\ Earned(b) \subseteq questions[m]
             /\ Score(Earned(b), questions[m]) >= 100 * passing
  <2>1. DOMAIN attempts' \ DOMAIN attempts = {b} BY <1>1, <1>2
  <2>2. \A g \in Handlers : handlers[g].attempt = b => g = h
    BY <1>0, <1>1, <1>2 DEF RequestsAgree
  <2> HIDE DEF row
  <2> QED BY <1>3, <1>4, <2>1, <2>2 DEF AsAsked
<1>6. Earned(b) = right
  <2>1. \A q \in Questions : [attempt |-> b, question |-> q, correct |-> TRUE] \notin answers
    <3>1. \A r \in answers : r.attempt # b BY <1>0, <1>2 DEF AnswersAgree
    <3> QED BY <3>1
  <2>2. \A q \in Questions :
          [attempt |-> b, question |-> q, correct |-> TRUE] \in answers' => q \in right
    <3> SUFFICES ASSUME NEW q \in Questions,
                        [attempt |-> b, question |-> q, correct |-> TRUE] \in answers'
                 PROVE  q \in right
      OBVIOUS
    <3>1. PICK p \in answered : [attempt |-> b, question |-> q, correct |-> TRUE]
                                  = [attempt |-> b, question |-> p, correct |-> p \in right]
      BY <1>1, <2>1
    <3>2. q = p /\ (p \in right) = TRUE
      <4> DEFINE correct == p \in right
      <4>1. [attempt |-> b, question |-> q, correct |-> TRUE]
              = [attempt |-> b, question |-> p, correct |-> correct]
        BY <3>1
      <4> HIDE DEF correct
      <4>2. q = p /\ TRUE = correct BY <4>1
      <4> QED BY <4>2 DEF correct
    <3> QED BY <3>2
  <2>3. \A q \in right : [attempt |-> b, question |-> q, correct |-> TRUE] \in answers'
    <3> SUFFICES ASSUME NEW q \in right
                 PROVE  [attempt |-> b, question |-> q, correct |-> TRUE] \in answers'
      OBVIOUS
    <3>1. [attempt |-> b, question |-> q, correct |-> q \in right] \in answers' BY <1>1
    <3>2. (q \in right) = TRUE OBVIOUS
    <3> QED BY <3>1, <3>2
  <2> QED BY <1>2, <2>2, <2>3 DEF Earned
<1>7. right # {}
  <2>1. read.score >= 1 /\ read.score \in Nat BY <1>2, NoneFacts
  <2>2. Score({}, all) = 0 BY <1>2, ScoreFacts
  <2> QED BY <1>5, <2>1, <2>2
<1>8. questions[m] = all /\ passing = read.score
  <2>1. questions[m] \intersect all # {} BY <1>1, <1>7
  <2> QED BY <1>0, <1>1, <1>5, <2>1 DEF ReadingsAgree
<1> QED BY <1>1, <1>5, <1>6, <1>8

\* An attempt passes only on what is asked when it is recorded, and at the passing score in
\* force then, whoever edited the assessment while it was taken; an edit between the reading
\* of the assessment and that of its questions leaves it the passing score of before.
THEOREM AttemptsPassAsAsked == Spec => PassesAsAsked
<1>1. IInv /\ [Next]_vars => [AsAsked]_vars
  <2> SUFFICES ASSUME IInv, [Next]_vars PROVE AsAsked OBVIOUS
  <2>1. CASE \E h \in Handlers : \E answered \in SUBSET handlers[h].questions :
               \E right \in SUBSET answered : Finish(h, answered, right)
    BY <2>1, FinishPassesAsAsked
  <2>2. CASE DOMAIN attempts' \subseteq DOMAIN attempts BY <2>2 DEF AsAsked
  <2> QED BY <2>1, <2>2, OnlyFinishRecords
<1>2. [][AsAsked]_vars => PassesAsAsked BY DEF PassesAsAsked, AsAsked
<1> QED BY <1>1, <1>2, AssessmentInvariance, PTL DEF Spec

-----------------------------------------------------------------------------
(* Progress.                                                               *)

\* A percent, rounded to tenths, is full if all is done, and only then of fewer than 2000.
LEMMA PercentFacts ==
  ASSUME NEW all \in Nat \ {0}, NEW part \in 0 .. all
  PROVE  /\ part = all => Percent(part, all) = 1000
         /\ part # all /\ all < 2000 => Percent(part, all) # 1000
<1> DEFINE x == 2 * 1000 * part + all
           d == 2 * all
<1>1. x \in Nat /\ d \in Nat \ {0} /\ Percent(part, all) = x \div d
  BY DEF Percent
<1>2. part = all => 1000 * d <= x /\ x < (1000 + 1) * d OBVIOUS
<1>3. part # all /\ all < 2000 => x < (999 + 1) * d OBVIOUS
<1> HIDE DEF x, d
<1>4. part = all => Percent(part, all) <= 1000 /\ 1000 <= Percent(part, all)
  BY <1>1, <1>2, Division
<1>5. part # all /\ all < 2000 => Percent(part, all) <= 999 BY <1>1, <1>3, Division
<1>6. Percent(part, all) \in Nat BY <1>1, Division
<1> QED BY <1>4, <1>5, <1>6

\* Counting modules, tasks and questions tells whether all is done.
LEMMA CompletedFacts ==
  ASSUME IInv, NEW u, NEW m \in Modules
  PROVE  LET done == (questions[m] = {} \/ PassedBy(u, m)) /\ TasksOf(m) \subseteq HandedIn(u)
         IN  /\ CompletedItem(ModuleItem(u, m)) <=> done
             /\ CompletedInList(ModuleItem(u, m)) <=> done
<1> DEFINE i == ModuleItem(u, m)
           handed == TasksOf(m) \intersect HandedIn(u)
<1>1. /\ i.questions = Cardinality(questions[m]) /\ i.passed = PassedBy(u, m)
      /\ i.tasks = Cardinality(TasksOf(m)) /\ i.submitted = Cardinality(handed)
  BY DEF ModuleItem
<1>2. i.questions = 0 <=> questions[m] = {}
  <2>1. IsFiniteSet(questions[m]) BY DEF IInv, RowsAgree
  <2> QED BY <1>1, <2>1, FS_EmptySet
<1>3. IsFiniteSet(TasksOf(m)) /\ handed \subseteq TasksOf(m)
  <2>1. IsFiniteSet(Tasks) BY ConstantsAssumption
  <2> QED BY <2>1, FS_Subset DEF TasksOf
<1>4. i.tasks = 0 \/ i.submitted = i.tasks <=> TasksOf(m) \subseteq HandedIn(u)
  <2>1. i.tasks = 0 <=> TasksOf(m) = {} BY <1>1, <1>3, FS_EmptySet
  <2>2. i.submitted = i.tasks => handed = TasksOf(m) BY <1>1, <1>3, FS_Subset
  <2>3. TasksOf(m) \subseteq HandedIn(u) => handed = TasksOf(m) OBVIOUS
  <2> HIDE DEF i
  <2> QED BY <1>1, <2>1, <2>2, <2>3
<1> HIDE DEF i
<1>5. (i.questions = 0 \/ i.passed) /\ (i.tasks = 0 \/ i.submitted = i.tasks)
        <=> (questions[m] = {} \/ PassedBy(u, m)) /\ TasksOf(m) \subseteq HandedIn(u)
  BY <1>1, <1>2, <1>4
<1> QED BY <1>5 DEF i, CompletedItem, CompletedInList

\* A course is completed when all its modules are; of another part of them the percent of
\* fewer than 2000 is not full.
LEMMA CompletedCourses ==
  ASSUME IInv, NEW u, NEW c
  PROVE  /\ IsCourseCompleted(u, c)
              <=> ModulesOf(c) # {} /\ CompletedOf(u, c) = ModulesOf(c)
         /\ IsFiniteSet(ModulesOf(c)) /\ ModulesOf(c) \subseteq Modules
         /\ CompletedOf(u, c) \subseteq ModulesOf(c)
         /\ CompletedOf(u, c) = {m \in ModulesOf(c) : CompletedInList(ModuleItem(u, m))}
<1>1. ModulesOf(c) \subseteq Modules /\ IsFiniteSet(Modules)
  BY ConstantsAssumption DEF ModulesOf
<1>2. IsFiniteSet(ModulesOf(c)) BY <1>1, FS_Subset
<1>3. \A m \in ModulesOf(c) :
        CompletedItem(ModuleItem(u, m)) <=> CompletedInList(ModuleItem(u, m))
  BY <1>1, CompletedFacts
<1>4. \A m \in ModulesOf(c) :
        LET i == ModuleItem(u, m)
        IN  (i.questions = 0 \/ i.passed) /\ (i.tasks = 0 \/ i.submitted = i.tasks)
              <=> CompletedItem(i)
  BY DEF CompletedItem
<1>5. IsCourseCompleted(u, c)
        <=> ModulesOf(c) # {} /\ \A m \in ModulesOf(c) : CompletedItem(ModuleItem(u, m))
  BY <1>4 DEF IsCourseCompleted
<1>6. CompletedOf(u, c) = {m \in ModulesOf(c) : CompletedItem(ModuleItem(u, m))}
  BY DEF CompletedOf
<1> QED BY <1>1, <1>2, <1>3, <1>5, <1>6

\* The share of some modules is full when all of them are done.
LEMMA FullShare ==
  ASSUME NEW all, IsFiniteSet(all), NEW part \in SUBSET all
  PROVE  LET shown == Percent(Cardinality(part), Cardinality(all)) IN
         /\ all # {} /\ part = all => shown = 1000
         /\ shown = 1000 /\ Cardinality(all) < 2000 => all # {} /\ part = all
<1>1. /\ Cardinality(all) \in Nat /\ Cardinality(part) \in 0 .. Cardinality(all)
      /\ Cardinality(part) = Cardinality(all) => part = all
      /\ Cardinality(all) = 0 <=> all = {}
  <2>1. IsFiniteSet(part) /\ Cardinality(part) <= Cardinality(all)
          /\ (Cardinality(all) = Cardinality(part) => all = part)
    BY FS_Subset
  <2>2. Cardinality(all) \in Nat /\ Cardinality(part) \in Nat BY <2>1, FS_CardinalityType
  <2>3. Cardinality(all) = 0 <=> all = {} BY FS_EmptySet
  <2> QED BY <2>1, <2>2, <2>3
<1>2. CASE all = {} BY <1>1, <1>2 DEF Percent
<1>3. CASE all # {}
  <2> DEFINE n == Cardinality(all)
             k == Cardinality(part)
  <2>1. n \in Nat \ {0} /\ k \in 0 .. n BY <1>1, <1>3
  <2>2. /\ k = n => Percent(k, n) = 1000
        /\ k # n /\ n < 2000 => Percent(k, n) # 1000
    <3> HIDE DEF n, k
    <3> QED BY <2>1, PercentFacts
  <2> QED BY <1>1, <1>3, <2>2
<1> QED BY <1>2, <1>3

\* What a student is shown of his courses is the same in either list, and it is full exactly
\* when his certificate may be issued.
LEMMA ProgressFollows == ASSUME IInv PROVE ProgressAgrees
<1> SUFFICES ASSUME NEW u \in Students, NEW c \in Courses
             PROVE  LET all == AllProgress(u)
                        shown == CourseProgress(u, c)
                        complete == IsCourseCompleted(u, c)
                    IN
                    /\ EnrolledIn(u, c) => shown \in all.courses
                    /\ shown.total < 2000 => (shown.percent = 1000 <=> complete)
                    /\ complete => \A m \in ModulesOf(c) :
                         (questions[m] = {} \/ PassedBy(u, m)) /\ TasksOf(m) \subseteq HandedIn(u)
                    /\ /\ all.percent = 1000 /\ Cardinality(Modules) < 2000
                       /\ EnrolledIn(u, c) /\ ModulesOf(c) # {}
                       => complete
  BY DEF ProgressAgrees
<1> DEFINE mine == {d \in Courses : EnrolledIn(u, d)}
           listed == UNION {ModulesOf(d) : d \in mine}
           done == {m \in listed : CompletedInList(ModuleItem(u, m))}
           row(d) ==
             [course |-> d, total |-> Cardinality(ModulesOf(d)),
              completed |-> Cardinality({m \in ModulesOf(d) : CompletedInList(ModuleItem(u, m))}),
              percent |-> Percent(Cardinality({m \in ModulesOf(d) :
                                                 CompletedInList(ModuleItem(u, m))}),
                                  Cardinality(ModulesOf(d)))]
<1>1. /\ AllProgress(u).courses = {row(d) : d \in mine}
      /\ AllProgress(u).percent = Percent(Cardinality(done), Cardinality(listed))
  BY DEF AllProgress
<1>2. /\ IsCourseCompleted(u, c) <=> ModulesOf(c) # {} /\ CompletedOf(u, c) = ModulesOf(c)
      /\ IsFiniteSet(ModulesOf(c)) /\ ModulesOf(c) \subseteq Modules
      /\ CompletedOf(u, c) \subseteq ModulesOf(c)
      /\ CompletedOf(u, c) = {m \in ModulesOf(c) : CompletedInList(ModuleItem(u, m))}
  BY CompletedCourses
<1>3. EnrolledIn(u, c) => CourseProgress(u, c) \in AllProgress(u).courses
  <2>1. CourseProgress(u, c) = row(c) BY <1>2 DEF CourseProgress
  <2> QED BY <1>1, <2>1
<1>4. CourseProgress(u, c).total < 2000 =>
        (CourseProgress(u, c).percent = 1000 <=> IsCourseCompleted(u, c))
  <2>1. /\ CourseProgress(u, c).total = Cardinality(ModulesOf(c))
        /\ CourseProgress(u, c).percent
             = Percent(Cardinality(CompletedOf(u, c)), Cardinality(ModulesOf(c)))
    BY DEF CourseProgress
  <2>2. LET shown == Percent(Cardinality(CompletedOf(u, c)), Cardinality(ModulesOf(c))) IN
        /\ ModulesOf(c) # {} /\ CompletedOf(u, c) = ModulesOf(c) => shown = 1000
        /\ shown = 1000 /\ Cardinality(ModulesOf(c)) < 2000
             => ModulesOf(c) # {} /\ CompletedOf(u, c) = ModulesOf(c)
    <3>1. IsFiniteSet(ModulesOf(c)) /\ CompletedOf(u, c) \in SUBSET ModulesOf(c) BY <1>2
    <3> QED BY ONLY <3>1, FullShare
  <2> QED BY <1>2, <2>1, <2>2
<1>5. IsCourseCompleted(u, c) => \A m \in ModulesOf(c) :
        (questions[m] = {} \/ PassedBy(u, m)) /\ TasksOf(m) \subseteq HandedIn(u)
  BY <1>2, CompletedFacts
<1>6. ASSUME AllProgress(u).percent = 1000, Cardinality(Modules) < 2000,
             EnrolledIn(u, c), ModulesOf(c) # {}
      PROVE  IsCourseCompleted(u, c)
  <2>1. listed \subseteq Modules BY DEF ModulesOf
  <2>2. /\ IsFiniteSet(listed) /\ Cardinality(listed) <= Cardinality(Modules)
        /\ Cardinality(listed) \in Nat /\ Cardinality(Modules) \in Nat
    <3>1. IsFiniteSet(Modules) BY ConstantsAssumption
    <3> HIDE DEF listed
    <3> QED BY <2>1, <3>1, FS_Subset, FS_CardinalityType
  <2>3. done = listed
    <3>1. done \in SUBSET listed OBVIOUS
    <3>2. Cardinality(listed) < 2000 BY <1>6, <2>2
    <3>3. Percent(Cardinality(done), Cardinality(listed)) = 1000 BY <1>1, <1>6
    <3>4. IsFiniteSet(listed) BY <2>2
    <3> HIDE DEF done, listed
    <3> QED BY ONLY <3>1, <3>2, <3>3, <3>4, FullShare
  <2>4. ModulesOf(c) \subseteq listed BY <1>6
  <2>5. \A m \in ModulesOf(c) : CompletedInList(ModuleItem(u, m)) BY <2>3, <2>4
  <2> QED BY <1>2, <1>6, <2>5
<1> QED BY <1>3, <1>4, <1>5, <1>6

THEOREM ProgressIsConsistent == Spec => []ProgressAgrees
<1>1. IInv => ProgressAgrees BY ProgressFollows
<1> QED BY <1>1, AssessmentInvariance, PTL

-----------------------------------------------------------------------------
(* Reports.                                                                *)

\* A report with a row for each key, and in each row how many have that key, sums up to all.
LEMMA RowsCount ==
  ASSUME NEW E, IsFiniteSet(E), NEW K, IsFiniteSet(K), NEW key \in [E -> K],
         NEW row, DOMAIN row = K, row = [k \in K |-> row[k]],
         \A j, k \in K : row[j] = row[k] => j = k,
         NEW f, DOMAIN f = Range(row),
         \A k \in K : f[row[k]] = Cardinality({e \in E : key[e] = k})
  PROVE  SumFunction(f) = Cardinality(E)
<1> DEFINE S == Range(row)
           g == [e \in E |-> row[key[e]]]
<1>1. IsFiniteSet(S)
  <2>1. row \in Surjection(K, Range(row)) BY DEF Surjection, Range
  <2> QED BY <2>1, FS_Surjection
<1>2. g \in [E -> S] BY DEF Range
<1>3. \A x \in S : f[x] = Cardinality({e \in E : g[e] = x})
  <2>1. ASSUME NEW k \in K
        PROVE  f[row[k]] = Cardinality({e \in E : g[e] = row[k]})
    <3>1. {e \in E : g[e] = row[k]} = {e \in E : key[e] = k} OBVIOUS
    <3> QED BY <3>1
  <2>2. \A x \in S : \E k \in K : x = row[k] BY DEF Range
  <2> HIDE DEF g, S
  <2> QED BY <2>1, <2>2
<1>4. SumFunction(f) = SumFunctionOnSet(f, S)
  BY DEF SumFunction
<1> HIDE DEF g, S
<1> QED BY <1>1, <1>2, <1>3, <1>4, SumsCount

\* Numbered one by one, finitely many get all numbers from one on.
LEMMA Ranks ==
  ASSUME NEW L \in SUBSET Nat, IsFiniteSet(L)
  PROVE  {Cardinality({b \in L : b <= a}) : a \in L} = 1 .. Cardinality(L)
<1> DEFINE upto(a) == {b \in L : b <= a}
           rank == [a \in L |-> Cardinality(upto(a))]
           n == Cardinality(L)
<1>1. n \in Nat BY FS_CardinalityType
<1>2. ASSUME NEW a \in L
      PROVE  IsFiniteSet(upto(a)) /\ rank[a] \in 1 .. n
  <2>1. upto(a) \in SUBSET L /\ a \in upto(a) OBVIOUS
  <2>2. rank[a] = Cardinality(upto(a)) OBVIOUS
  <2> HIDE DEF upto
  <2>3. IsFiniteSet(upto(a)) /\ Cardinality(upto(a)) <= n BY <2>1, FS_Subset
  <2>4. Cardinality(upto(a)) \in Nat /\ Cardinality(upto(a)) # 0
    BY <2>1, <2>3, FS_CardinalityType, FS_EmptySet
  <2> QED BY <1>1, <2>2, <2>3, <2>4
<1>3. ASSUME NEW a \in L, NEW b \in L, a < b
      PROVE  rank[a] # rank[b]
  <2>0. a \in Nat /\ b \in Nat /\ \A c \in L : c \in Nat OBVIOUS
  <2>1. upto(a) \in SUBSET upto(b) /\ b \in upto(b) /\ b \notin upto(a)
    <3>1. ASSUME NEW c \in upto(a) PROVE c \in upto(b) BY <1>3, <2>0
    <3>2. b \in upto(b) /\ b \notin upto(a) BY <1>3, <2>0
    <3> QED BY <3>1, <3>2
  <2>2. rank[a] = Cardinality(upto(a)) /\ rank[b] = Cardinality(upto(b)) OBVIOUS
  <2>3. IsFiniteSet(upto(b)) BY <1>2
  <2> HIDE DEF upto, rank
  <2> QED BY <2>1, <2>2, <2>3, FS_Subset
<1>4. rank \in Injection(L, 1 .. n)
  <2>1. \A a \in L : rank[a] \in 1 .. n BY <1>2
  <2>2. \A a, b \in L : rank[a] = rank[b] => a = b
    <3> SUFFICES ASSUME NEW a \in L, NEW b \in L, a # b PROVE rank[a] # rank[b] OBVIOUS
    <3>1. a < b \/ b < a OBVIOUS
    <3> HIDE DEF rank
    <3> QED BY <1>3, <3>1
  <2>3. rank = [a \in L |-> rank[a]] /\ DOMAIN rank = L OBVIOUS
  <2> HIDE DEF rank, n
  <2> QED BY <2>1, <2>2, <2>3 DEF Injection, IsInjective
<1>5. IsFiniteSet(1 .. n) /\ Cardinality(1 .. n) = n BY <1>1, FS_Interval
<1>6. rank \in Surjection(L, 1 .. n)
  <2> HIDE DEF rank
  <2> QED BY <1>4, <1>5, FS_Injection DEF n
<1>7. {rank[a] : a \in L} = 1 .. n
  <2>1. \A k \in 1 .. n : \E a \in L : rank[a] = k BY <1>6 DEF Surjection
  <2>2. \A a \in L : rank[a] \in 1 .. n BY <1>2
  <2> HIDE DEF rank
  <2> QED BY <2>1, <2>2
<1> QED BY <1>7

\* As many lines as attempts.
LEMMA LinesCount ==
  ASSUME NEW A, IsFiniteSet(A), NEW line, DOMAIN line = A,
         line = [a \in A |-> line[a]],
         \A a, b \in A : line[a] = line[b] => a = b
  PROVE  Cardinality(Range(line)) = Cardinality(A)
<1>1. line \in Surjection(A, Range(line)) BY DEF Surjection, Range
<1>2. line \in Injection(A, Range(line)) BY DEF Injection, IsInjective, Range
<1> QED BY <1>1, <1>2, FS_Surjection

\* The history lists finitely many attempts, one line to each.
LEMMA HistoryFacts ==
  ASSUME IInv, NEW range
  PROVE  /\ IsFiniteSet(HistoryOf(range)) /\ HistoryOf(range) \subseteq DOMAIN attempts
         /\ DOMAIN attempts \subseteq Nat
<1>1. DOMAIN attempts \subseteq 1 .. started /\ started \in Nat
  BY NoneFacts DEF IInv, AnswersAgree, TypeOK
<1>2. IsFiniteSet(1 .. started) BY <1>1, FS_Interval
<1>3. HistoryOf(range) \in SUBSET (1 .. started) BY <1>1 DEF HistoryOf
<1> QED BY <1>1, <1>2, <1>3, FS_Subset DEF HistoryOf

\* An assessment has as many attempts as the history has lines about it.
LEMMA ResultsAgree ==
  ASSUME IInv, NEW range \in Ranges, NEW r \in AssessmentResults(range)
  PROVE  LET somebody == \E u \in Users : PassedBy(u, r.module) IN
         /\ r.attempts
              = Cardinality({l \in AttemptsHistory(range) : attempts[l.attempt].module = r.module})
         /\ r.passed > 0 => somebody
         /\ range = Days /\ somebody => r.passed > 0
<1> DEFINE listed == HistoryOf(range)
           number(a) ==
             Cardinality({b \in listed : b <= a /\ attempts[b].user = attempts[a].user
                                                /\ attempts[b].module = attempts[a].module})
           within(m) == {a \in AttemptsAt(m) : FinishedWithin(a, range)}
           passed(m) == {a \in within(m) : attempts[a].passed}
<1>1. PICK m \in Modules : r = [module |-> m, attempts |-> Cardinality(within(m)),
                                passed |-> Cardinality(passed(m))]
  BY DEF AssessmentResults
<1>2. AttemptsHistory(range) = {[attempt |-> a, number |-> number(a)] : a \in listed}
  BY DEF AttemptsHistory
<1> DEFINE A == within(m)
           line == [a \in A |-> [attempt |-> a, number |-> number(a)]]
<1>3. A = {a \in listed : attempts[a].module = m} BY DEF HistoryOf, AttemptsAt
<1>4. IsFiniteSet(A) /\ IsFiniteSet(passed(m))
  <2>1. IsFiniteSet(listed) BY HistoryFacts
  <2>2. A \in SUBSET listed /\ passed(m) \in SUBSET listed BY <1>3
  <2> HIDE DEF A, listed, passed
  <2> QED BY <2>1, <2>2, FS_Subset
<1>5. Cardinality(Range(line)) = Cardinality(A)
  <2>1. DOMAIN line = A /\ line = [a \in A |-> line[a]] OBVIOUS
  <2>2. \A a, b \in A : line[a] = line[b] => a = b
    <3> HIDE DEF number
    <3> QED OBVIOUS
  <2> HIDE DEF line, A
  <2> QED BY <1>4, <2>1, <2>2, LinesCount
<1>6. Range(line) = {l \in AttemptsHistory(range) : attempts[l.attempt].module = m}
  <2>1. \A a \in A : line[a] = [attempt |-> a, number |-> number(a)] /\ line[a].attempt = a
    OBVIOUS
  <2>2. DOMAIN line = A OBVIOUS
  <2> HIDE DEF number, listed, A, line
  <2>3. ASSUME NEW l \in Range(line)
        PROVE  l \in AttemptsHistory(range) /\ attempts[l.attempt].module = m
    <3>1. PICK a \in A : l = line[a] BY <2>2 DEF Range
    <3>2. a \in listed /\ attempts[a].module = m BY <1>3
    <3> QED BY <1>2, <2>1, <3>1, <3>2
  <2>4. ASSUME NEW l \in AttemptsHistory(range), attempts[l.attempt].module = m
        PROVE  l \in Range(line)
    <3>1. PICK a \in listed : l = [attempt |-> a, number |-> number(a)] BY <1>2
    <3>2. a \in A BY <1>3, <2>4, <3>1
    <3> QED BY <2>1, <2>2, <3>1, <3>2 DEF Range
  <2> QED BY <2>3, <2>4
<1>7. r.module = m /\ r.attempts = Cardinality(A) /\ r.passed = Cardinality(passed(m))
  BY <1>1
<1>8. r.passed > 0 <=> passed(m) # {}
  <2>1. Cardinality(passed(m)) \in Nat /\ (Cardinality(passed(m)) = 0 <=> passed(m) = {})
    BY <1>4, FS_EmptySet, FS_CardinalityType
  <2> HIDE DEF passed
  <2> QED BY <1>7, <2>1
<1>9. \A a \in DOMAIN attempts : attempts[a].user \in Users /\ attempts[a].finished \in Days
  BY DEF IInv, TypeOK, AttemptRecord
<1>10. passed(m) # {} => \E u \in Users : PassedBy(u, m)
  <2> SUFFICES ASSUME NEW a \in passed(m) PROVE \E u \in Users : PassedBy(u, m) OBVIOUS
  <2>1. a \in AttemptsAt(m) /\ attempts[a].passed OBVIOUS
  <2>2. attempts[a].user \in Users BY <1>9, <2>1 DEF AttemptsAt
  <2>3. PassedBy(attempts[a].user, m) BY <2>1 DEF PassedBy, AttemptsOf
  <2> QED BY <2>2, <2>3
<1>11. range = Days /\ (\E u \in Users : PassedBy(u, m)) => passed(m) # {}
  BY <1>9 DEF PassedBy, AttemptsOf, AttemptsAt, FinishedWithin
<1> HIDE DEF A, line, passed
<1> QED BY <1>5, <1>6, <1>7, <1>8, <1>10, <1>11

\* The attempts of a user at an assessment are numbered without a gap.
LEMMA NumbersHaveNoGap ==
  ASSUME IInv, NEW range \in Ranges, NEW u \in Users, NEW m \in Modules
  PROVE  LET mine == {l \in AttemptsHistory(range) : l.attempt \in AttemptsOf(u, m)}
         IN  {l.number : l \in mine} = 1 .. Cardinality(mine)
<1> DEFINE listed == HistoryOf(range)
           number(a) ==
             Cardinality({b \in listed : b <= a /\ attempts[b].user = attempts[a].user
                                                /\ attempts[b].module = attempts[a].module})
           mine == {l \in AttemptsHistory(range) : l.attempt \in AttemptsOf(u, m)}
           L == {a \in listed : attempts[a].user = u /\ attempts[a].module = m}
           line == [a \in L |-> [attempt |-> a, number |-> number(a)]]
<1>1. AttemptsHistory(range) = {[attempt |-> a, number |-> number(a)] : a \in listed}
  BY DEF AttemptsHistory
<1>2. IsFiniteSet(L) /\ L \in SUBSET Nat /\ listed \subseteq DOMAIN attempts
  <2>1. /\ IsFiniteSet(listed) /\ listed \subseteq DOMAIN attempts /\ DOMAIN attempts \subseteq Nat
    BY HistoryFacts
  <2>2. L \in SUBSET listed OBVIOUS
  <2> HIDE DEF L, listed
  <2> QED BY <2>1, <2>2, FS_Subset
<1>3. mine = Range(line)
  <2>1. \A a \in listed : a \in AttemptsOf(u, m) <=> a \in L
    BY <1>2 DEF AttemptsOf, AttemptsAt
  <2>2. L \subseteq listed OBVIOUS
  <2> HIDE DEF number, listed, L
  <2> QED BY <1>1, <2>1, <2>2 DEF Range
<1>4. Cardinality(mine) = Cardinality(L)
  <2>1. DOMAIN line = L /\ line = [a \in L |-> line[a]] OBVIOUS
  <2>2. \A a, b \in L : line[a] = line[b] => a = b
    <3> HIDE DEF number
    <3> QED OBVIOUS
  <2> HIDE DEF line, L, mine
  <2> QED BY <1>2, <1>3, <2>1, <2>2, LinesCount
<1>5. \A a \in L : line[a].number = Cardinality({b \in L : b <= a})
  <2> SUFFICES ASSUME NEW a \in L
               PROVE  {b \in listed : b <= a /\ attempts[b].user = attempts[a].user
                                             /\ attempts[b].module = attempts[a].module}
                        = {b \in L : b <= a}
    OBVIOUS
  <2>1. attempts[a].user = u /\ attempts[a].module = m OBVIOUS
  <2> HIDE DEF listed
  <2> QED BY <2>1
<1>6. {l.number : l \in mine} = {Cardinality({b \in L : b <= a}) : a \in L}
  <2>1. \A l \in mine : \E a \in L : l = line[a] BY <1>3 DEF Range
  <2>2. \A a \in L : line[a] \in mine BY <1>3 DEF Range
  <2>3. \A x \in {l.number : l \in mine} : x \in {Cardinality({b \in L : b <= a}) : a \in L}
    <3> HIDE DEF mine, line, L
    <3> QED BY <1>5, <2>1
  <2>4. \A x \in {Cardinality({b \in L : b <= a}) : a \in L} : x \in {l.number : l \in mine}
    <3> HIDE DEF mine, line, L
    <3> QED BY <1>5, <2>2
  <2> HIDE DEF mine, L
  <2> QED BY <2>3, <2>4
<1>7. {Cardinality({b \in L : b <= a}) : a \in L} = 1 .. Cardinality(L)
  <2> HIDE DEF L
  <2> QED BY <1>2, Ranks
<1> HIDE DEF L
<1> QED BY <1>4, <1>6, <1>7

\* Every task handed in is counted under its course.
LEMMA SubmissionsCount ==
  ASSUME IInv, NEW range \in Ranges
  PROVE  SumFunction([r \in TaskSubmissionsRate(range) |-> r.handed])
           = Cardinality(TaskGrades(range))
<1> DEFINE tasks(c) == {t \in Tasks : CourseOf[ModuleOf[t]] = c}
           E == TaskGrades(range)
           handed(c) == {s \in E : s.task \in tasks(c)}
           K == {c \in Courses : tasks(c) # {}}
           key == [s \in E |-> CourseOf[ModuleOf[s.task]]]
           row == [c \in K |->
                    [course |-> c, tasks |-> Cardinality(tasks(c)),
                     handed |-> Cardinality(handed(c)),
                     percent |-> (10000 * Cardinality(handed(c))) \div Cardinality(tasks(c))]]
           f == [r \in TaskSubmissionsRate(range) |-> r.handed]
<1>1. \A t \in Tasks : CourseOf[ModuleOf[t]] \in Courses BY ConstantsAssumption
<1>2. IsFiniteSet(E) /\ \A s \in E : s.task \in Tasks
  <2>1. E \in SUBSET submissions BY DEF TaskGrades
  <2>2. IsFiniteSet(submissions) BY DEF IInv, RowsAgree
  <2>3. \A s \in submissions : s.task \in Tasks BY DEF IInv, TypeOK
  <2> HIDE DEF E
  <2> QED BY <2>1, <2>2, <2>3, FS_Subset
<1>3. IsFiniteSet(K)
  <2> DEFINE of == [t \in Tasks |-> CourseOf[ModuleOf[t]]]
  <2>1. of \in Surjection(Tasks, K) BY <1>1 DEF Surjection
  <2>2. IsFiniteSet(Tasks) BY ConstantsAssumption
  <2> HIDE DEF of, K
  <2> QED BY <2>1, <2>2, FS_Surjection
<1>4. key \in [E -> K] BY <1>1, <1>2
<1>5. TaskSubmissionsRate(range) = Range(row)
  <2>1. TaskSubmissionsRate(range) =
          {[course |-> c, tasks |-> Cardinality(tasks(c)),
            handed |-> Cardinality(handed(c)),
            percent |-> (10000 * Cardinality(handed(c))) \div Cardinality(tasks(c))] : c \in K}
    BY DEF TaskSubmissionsRate
  <2> HIDE DEF K, tasks, handed
  <2> QED BY <2>1 DEF Range
<1>6. /\ DOMAIN row = K /\ row = [c \in K |-> row[c]]
      /\ \A c \in K : row[c].course = c /\ row[c].handed = Cardinality(handed(c))
  <2> HIDE DEF handed, tasks
  <2> QED OBVIOUS
<1>7. ASSUME NEW c \in K PROVE f[row[c]] = Cardinality({s \in E : key[s] = c})
  <2>1. handed(c) = {s \in E : key[s] = c}
    <3> HIDE DEF E
    <3> QED BY <1>2
  <2>2. row[c] \in TaskSubmissionsRate(range) BY <1>5, <1>6 DEF Range
  <2>3. f[row[c]] = row[c].handed BY <2>2
  <2> HIDE DEF f, row, handed, key, K, E
  <2> QED BY <1>6, <2>1, <2>3
<1>8. DOMAIN f = Range(row) BY <1>5
<1> HIDE DEF f, row, key, E, K
<1>9. \A j, k \in K : row[j] = row[k] => j = k BY <1>6
<1>10. SumFunction(f) = Cardinality(E)
  BY <1>2, <1>3, <1>4, <1>6, <1>7, <1>8, <1>9, RowsCount
<1> QED BY <1>10 DEF f, E

\* The keys of finitely many are finitely many.
LEMMA KeysFinite ==
  ASSUME NEW E, IsFiniteSet(E), NEW key, DOMAIN key = E, key = [e \in E |-> key[e]]
  PROVE  IsFiniteSet(Range(key)) /\ key \in [E -> Range(key)]
<1>1. key \in Surjection(E, Range(key)) BY DEF Surjection, Range
<1> QED BY <1>1, FS_Surjection DEF Range

\* Every enrolment is counted under its student, its course and its day.
LEMMA EnrolmentsCount ==
  ASSUME IInv, NEW range \in Ranges
  PROVE  LET all == Cardinality(EnrolledWithin(range)) IN
         /\ SumFunction([r \in CoursesAssigned(range) |-> r.total]) = all
         /\ SumFunction([r \in TopCourses(range) |-> r.enrolled]) = all
         /\ SumFunction([r \in Activity(range) |-> r.enrolled]) = all
<1> DEFINE E == EnrolledWithin(range)
<1>1. IsFiniteSet(E)
  <2>1. E \in SUBSET enrolled BY DEF EnrolledWithin
  <2>2. IsFiniteSet(enrolled) BY DEF IInv, RowsAgree
  <2> HIDE DEF E
  <2> QED BY <2>1, <2>2, FS_Subset
<1>2. SumFunction([r \in CoursesAssigned(range) |-> r.total]) = Cardinality(E)
  <2> DEFINE key == [e \in E |-> e.user]
             K == Range(key)
             row == [u \in K |-> [user |-> u, total |-> Cardinality({e \in E : e.user = u})]]
             f == [r \in CoursesAssigned(range) |-> r.total]
  <2>1. IsFiniteSet(K) /\ key \in [E -> K]
    <3>1. DOMAIN key = E /\ key = [e \in E |-> key[e]] OBVIOUS
    <3> HIDE DEF key, E
    <3> QED BY <1>1, <3>1, KeysFinite
  <2>2. CoursesAssigned(range) = Range(row) BY DEF CoursesAssigned, Range
  <2>3. /\ DOMAIN row = K /\ row = [u \in K |-> row[u]]
        /\ \A u \in K : row[u].user = u /\ row[u].total = Cardinality({e \in E : e.user = u})
    OBVIOUS
  <2>4. \A u \in K : f[row[u]] = Cardinality({e \in E : key[e] = u})
    <3> SUFFICES ASSUME NEW u \in K PROVE f[row[u]] = Cardinality({e \in E : key[e] = u})
      OBVIOUS
    <3>1. {e \in E : e.user = u} = {e \in E : key[e] = u} OBVIOUS
    <3>2. row[u] \in CoursesAssigned(range) BY <2>2, <2>3 DEF Range
    <3>3. f[row[u]] = row[u].total BY <3>2
    <3> HIDE DEF f, row, key, K, E
    <3> QED BY <2>3, <3>1, <3>3
  <2>5. DOMAIN f = Range(row) BY <2>2
  <2> HIDE DEF f, row, key, E, K
  <2>6. \A j, k \in K : row[j] = row[k] => j = k BY <2>3
  <2>7. SumFunction(f) = Cardinality(E)
    BY <1>1, <2>1, <2>3, <2>4, <2>5, <2>6, RowsCount
  <2> QED BY <2>7 DEF f
<1>3. SumFunction([r \in TopCourses(range) |-> r.enrolled]) = Cardinality(E)
  <2> DEFINE key == [e \in E |-> e.course]
             K == Range(key)
             row == [c \in K |-> [course |-> c, enrolled |-> Cardinality({e \in E : e.course = c})]]
             f == [r \in TopCourses(range) |-> r.enrolled]
  <2>1. IsFiniteSet(K) /\ key \in [E -> K]
    <3>1. DOMAIN key = E /\ key = [e \in E |-> key[e]] OBVIOUS
    <3> HIDE DEF key, E
    <3> QED BY <1>1, <3>1, KeysFinite
  <2>2. TopCourses(range) = Range(row) BY DEF TopCourses, Range
  <2>3. /\ DOMAIN row = K /\ row = [c \in K |-> row[c]]
        /\ \A c \in K :
             row[c].course = c /\ row[c].enrolled = Cardinality({e \in E : e.course = c})
    OBVIOUS
  <2>4. \A c \in K : f[row[c]] = Cardinality({e \in E : key[e] = c})
    <3> SUFFICES ASSUME NEW c \in K PROVE f[row[c]] = Cardinality({e \in E : key[e] = c})
      OBVIOUS
    <3>1. {e \in E : e.course = c} = {e \in E : key[e] = c} OBVIOUS
    <3>2. row[c] \in TopCourses(range) BY <2>2, <2>3 DEF Range
    <3>3. f[row[c]] = row[c].enrolled BY <3>2
    <3> HIDE DEF f, row, key, K, E
    <3> QED BY <2>3, <3>1, <3>3
  <2>5. DOMAIN f = Range(row) BY <2>2
  <2> HIDE DEF f, row, key, E, K
  <2>6. \A j, k \in K : row[j] = row[k] => j = k BY <2>3
  <2>7. SumFunction(f) = Cardinality(E)
    BY <1>1, <2>1, <2>3, <2>4, <2>5, <2>6, RowsCount
  <2> QED BY <2>7 DEF f
<1>4. SumFunction([r \in Activity(range) |-> r.enrolled]) = Cardinality(E)
  <2> DEFINE key == [e \in E |-> e.day]
             K == Range(key)
             row == [d \in K |-> [day |-> d, enrolled |-> Cardinality({e \in enrolled : e.day = d})]]
             f == [r \in Activity(range) |-> r.enrolled]
  <2>1. IsFiniteSet(K) /\ key \in [E -> K]
    <3>1. DOMAIN key = E /\ key = [e \in E |-> key[e]] OBVIOUS
    <3> HIDE DEF key, E
    <3> QED BY <1>1, <3>1, KeysFinite
  <2>2. Activity(range) = Range(row)
    <3>1. K = {e.day : e \in E} BY DEF Range
    <3>2. Activity(range) =
            {[day |-> d, enrolled |-> Cardinality({e \in enrolled : e.day = d})] : d \in K}
      BY <3>1 DEF Activity
    <3> HIDE DEF K
    <3> QED BY <3>2 DEF Range
  <2>3. /\ DOMAIN row = K /\ row = [d \in K |-> row[d]]
        /\ \A d \in K :
             row[d].day = d /\ row[d].enrolled = Cardinality({e \in enrolled : e.day = d})
    OBVIOUS
  <2>4. \A d \in K : f[row[d]] = Cardinality({e \in E : key[e] = d})
    <3> SUFFICES ASSUME NEW d \in K PROVE f[row[d]] = Cardinality({e \in E : key[e] = d})
      OBVIOUS
    <3>1. d \in range BY DEF Range, EnrolledWithin
    <3>2. {e \in enrolled : e.day = d} = {e \in E : key[e] = d} BY <3>1 DEF EnrolledWithin
    <3>3. row[d] \in Activity(range) BY <2>2, <2>3 DEF Range
    <3>4. f[row[d]] = row[d].enrolled BY <3>3
    <3> HIDE DEF f, row, key, K, E
    <3> QED BY <2>3, <3>2, <3>4
  <2>5. DOMAIN f = Range(row) BY <2>2
  <2> HIDE DEF f, row, key, E, K
  <2>6. \A j, k \in K : row[j] = row[k] => j = k BY <2>3
  <2>7. SumFunction(f) = Cardinality(E)
    BY <1>1, <2>1, <2>3, <2>4, <2>5, <2>6, RowsCount
  <2> QED BY <2>7 DEF f
<1> QED BY <1>2, <1>3, <1>4

\* The reports of one range agree.
LEMMA ReportsFollow == ASSUME IInv PROVE ReportsAgree
<1> SUFFICES ASSUME NEW range \in Ranges
             PROVE  LET history == AttemptsHistory(range)
                        top == SumFunction([r \in TopCourses(range) |-> r.enrolled])
                    IN
                    /\ \A r \in AssessmentResults(range) :
                         LET somebody == \E u \in Users : PassedBy(u, r.module) IN
                         /\ r.attempts
                              = Cardinality({l \in history : attempts[l.attempt].module = r.module})
                         /\ r.passed > 0 => somebody
                         /\ range = Days /\ somebody => r.passed > 0
                    /\ \A u \in Users, m \in Modules :
                         LET mine == {l \in history : l.attempt \in AttemptsOf(u, m)}
                         IN {l.number : l \in mine} = 1 .. Cardinality(mine)
                    /\ SumFunction([r \in TaskSubmissionsRate(range) |-> r.handed])
                         = Cardinality(TaskGrades(range))
                    /\ SumFunction([r \in CoursesAssigned(range) |-> r.total]) = top
                    /\ SumFunction([r \in Activity(range) |-> r.enrolled]) = top
  BY DEF ReportsAgree
<1> QED BY ResultsAgree, NumbersHaveNoGap, SubmissionsCount, EnrolmentsCount

THEOREM ReportsAreConsistent == Spec => []ReportsAgree
<1>1. IInv => ReportsAgree BY ReportsFollow
<1> QED BY <1>1, AssessmentInvariance, PTL
=============================================================================
