--------------------------- MODULE ReflectionProofs ---------------------------
(****************************************************************************)
(* For any definitions and any DDL: an Inspector repeats its answers, and an *)
(* answer was right at some moment of the call that gave it.                 *)
(*                                                                           *)
(* The second is not inductive as it stands, since it speaks of ended calls: *)
(* MomentInv adds what each statement of a call under way has seen, and that *)
(* the name stood for nothing between two kinds of object.                   *)
(****************************************************************************)
EXTENDS Reflection, SequenceTheorems, TLAPS

CachedMethod == method \notin Uncached \cup {"super_class_name"}

\* What makes AnswersAreRepeated inductive: the cache has an entry exactly
\* when an answer was given, the entry yields that answer, and no call that
\* goes to the server is under way while there is one.
Kept ==
    CachedMethod =>
      /\ cache = Miss => first = Miss
      /\ cache # Miss =>
           /\ pc = "idle"
           /\ first = HasIndex(cache)
           /\ outcome = first

LEMMA InitKept == Init => Kept
  BY DEF Init, Kept

\* The end of a call: an answer is stored and given, an exception is neither.
LEMMA ReturnKept ==
  ASSUME Kept, pc # "idle", NEW out, Return(out), UNCHANGED method
  PROVE  Kept'
<1> SUFFICES ASSUME CachedMethod PROVE Kept'
  BY DEF Kept, CachedMethod
<1> DEFINE o == Swallowed(out)
<1>1. cache = Miss /\ first = Miss
  BY DEF Kept
<1>2. CASE o.raised = "nothing"
  <2>1. o # Miss
    BY <1>2 DEF Miss, Raise
  <2>2. cache' = o /\ outcome' = HasIndex(o) /\ first' = HasIndex(o) /\ pc' = "idle"
    BY <1>1, <1>2 DEF Return, Remember, CachedMethod
  <2>3. HasIndex(cache)' = HasIndex(o)
    BY <2>2 DEF HasIndex
  <2>4. QED
    BY <2>1, <2>2, <2>3 DEF Kept
<1>3. CASE o.raised # "nothing"
  <2>1. cache' = Miss /\ first' = Miss
    BY <1>1, <1>3 DEF Return, Remember
  <2>2. QED
    BY <2>1 DEF Kept
<1>4. QED
  BY <1>2, <1>3

\* A step of a call that goes on leaves cache and answers alone.
LEMMA GoOnKept ==
  ASSUME Kept, pc # "idle", NEW step, NEW rows, GoOn(step, rows), UNCHANGED method
  PROVE  Kept'
  BY DEF Kept, CachedMethod, GoOn

LEMMA StatementKept ==
  ASSUME Kept,
         \/ AskExists \/ AskQuery \/ ShowColumns \/ AskComments
         \/ ShowCreateTable \/ AskIsView \/ \E e \in DBErrors : Refuse(e)
  PROVE  Kept'
<1>1. pc # "idle" /\ UNCHANGED method
  BY DEF AskExists, AskQuery, ShowColumns, AskComments, ShowCreateTable, AskIsView, Refuse
<1>2. (\E out : Return(out)) \/ (\E step, rows : GoOn(step, rows))
  <2>1. CASE AskExists
    BY <2>1 DEF AskExists, Return, GoOn
  <2>2. CASE AskQuery \/ AskComments \/ AskIsView
    BY <2>2, Zenon DEF AskQuery, AskComments, AskIsView, Return, GoOn
  <2>3. CASE ShowColumns
    BY <2>3 DEF ShowColumns, Return, GoOn
  <2>4. CASE ShowCreateTable
    BY <2>4 DEF ShowCreateTable, Return, GoOn
  <2>5. CASE \E e \in DBErrors : Refuse(e)
    BY <2>5 DEF Refuse, Return, GoOn
  <2>6. QED
    BY <2>1, <2>2, <2>3, <2>4, <2>5
<1>3. QED
  <2>1. CASE \E out : Return(out)
    <3>1. PICK out : Return(out)
      BY <2>1
    <3>2. QED
      BY <1>1, <3>1, ReturnKept
  <2>2. CASE \E step, rows : GoOn(step, rows)
    <3>1. PICK step, rows : GoOn(step, rows)
      BY <2>2
    <3>2. QED
      BY <1>1, <3>1, GoOnKept
  <2>3. QED
    BY <1>2, <2>1, <2>2

\* Calls answered from the cache, calls begun, caches cleared, and DDL.
LEMMA OtherKept ==
  ASSUME Kept,
         CallFromCache \/ Call \/ ClearCache \/ CreateOrDrop \/ Alter \/ UNCHANGED vars
  PROVE  Kept'
<1>1. CASE CallFromCache
  <2>1. HasIndex(cache)' = HasIndex(cache)
    BY <1>1 DEF CallFromCache, HasIndex
  <2>2. QED
    BY <1>1, <2>1 DEF CallFromCache, Kept, CachedMethod
<1>2. CASE Call
  BY <1>2 DEF Call, Kept, CachedMethod
<1>3. CASE ClearCache
  BY <1>3 DEF ClearCache, Kept, CachedMethod
<1>4. CASE CreateOrDrop \/ Alter \/ UNCHANGED vars
  <2>1. UNCHANGED <<method, pc, cache, outcome, first>>
    BY <1>4 DEF CreateOrDrop, Alter, vars
  <2>2. HasIndex(cache)' = HasIndex(cache)
    BY <2>1 DEF HasIndex
  <2>3. QED
    BY <2>1, <2>2 DEF Kept, CachedMethod
<1>5. QED
  BY <1>1, <1>2, <1>3, <1>4

\* An Inspector never changes an answer of a method with a working cache.
THEOREM InspectorRepeats == Spec => []AnswersAreRepeated
<1>1. Init => Kept
  BY InitKept
<1>2. Kept /\ [Next]_vars => Kept'
  <2> SUFFICES ASSUME Kept, [Next]_vars PROVE Kept'
    OBVIOUS
  <2>1. CASE \/ AskExists \/ AskQuery \/ ShowColumns \/ AskComments
            \/ ShowCreateTable \/ AskIsView \/ \E e \in DBErrors : Refuse(e)
    BY <2>1, StatementKept
  <2>2. CASE CallFromCache \/ Call \/ ClearCache \/ CreateOrDrop \/ Alter \/ UNCHANGED vars
    BY <2>2, OtherKept
  <2>3. QED
    BY <2>1, <2>2 DEF Next
<1>3. Kept => AnswersAreRepeated
  BY DEF Kept, CachedMethod, AnswersAreRepeated
<1>4. QED
  BY <1>1, <1>2, <1>3, PTL DEF Spec

-----------------------------------------------------------------------------
(* Types. *)

Results == {Answer(rows) : rows \in Answers}

\* Which method sends which statement.
StepOfMethod ==
    /\ pc = "exists" => method \in Guarded
    /\ pc = "query" => method \notin {"columns", "foreign_keys", "check_constraints"}
    /\ pc \in {"show", "comments"} => method = "columns"
    /\ pc \in {"show_create", "is_view"} => method = "foreign_keys"

\* What is held while the comments of columns are asked for.
HeldVersion == pc = "comments" => \E v \in Versions : held = <<v>>

TypeInv == TypeOK /\ StepOfMethod /\ HeldVersion

LEMMA AnswersOfRows ==
  /\ <<>> \in Answers
  /\ \A v \in Versions \cup {0} : <<v>> \in Answers
  /\ \A v \in Versions, w \in Versions \cup {0} : <<v, w>> \in Answers
  BY DEF Answers

\* SMT does not know when two sequences are the same one.
LEMMA AppendPair ==
  ASSUME NEW u, NEW v
  PROVE  Append(<<u>>, v) = <<u, v>>
<1> DEFINE a == Append(<<u>>, v)
           b == <<u, v>>
<1>1. a \in Seq({u, v}) /\ Len(a) = 2 /\ a[1] = u /\ a[2] = v
  OBVIOUS
<1>2. b \in Seq({u, v}) /\ Len(b) = 2 /\ b[1] = u /\ b[2] = v
  OBVIOUS
<1> HIDE DEF a, b
<1>3. \A i \in 1..Len(a) : a[i] = b[i]
  BY <1>1, <1>2
<1>4. a = b
  BY <1>1, <1>2, <1>3, SeqEqual
<1>5. QED
  BY <1>4 DEF a, b

LEMMA CatalogFacts ==
  ASSUME NEW c \in Catalogs
  PROVE  /\ c.kind \in {"CLASS", "VCLASS", "SERIAL", "NONE"}
         /\ c.version \in Versions \cup {0}
         /\ c.kind = "NONE" <=> c = Absent
         /\ c # Absent => c.version \in Versions
  BY DEF Catalogs, Objects, Absent

\* A part of a definition, or a yes or no, is an answer.
LEMMA PartIsAnswer ==
  ASSUME NEW c \in Catalogs, NEW kinds
  PROVE  Part(c, kinds) \in Answers
  BY CatalogFacts, AnswersOfRows DEF Part

LEMMA ListedIsAnswer == \A b \in BOOLEAN : Listed(b) \in Answers
  BY AnswersOfRows DEF Listed

LEMMA ResultsAreOutcomes ==
  /\ \A rows \in Answers : Answer(rows) \in Results
  /\ Results \subseteq Outcomes
  /\ \A e \in DBErrors : Raise(e) \in Outcomes
  /\ NoSuchTable \in Outcomes /\ Miss \in Outcomes
  BY DEF Results, Outcomes

\* An outcome that did not raise is an answer.
LEMMA NothingRaised ==
  ASSUME NEW out \in Outcomes
  PROVE  out.raised = "nothing" <=> out \in Results
<1>1. \A rows : Answer(rows).raised = "nothing"
  BY DEF Answer
<1>2. ASSUME NEW e \in {"DatabaseError", "InterfaceError", "NoSuchTableError", "miss"}
      PROVE  Raise(e).raised # "nothing"
  BY DEF Raise
<1>3. out \in Results \/ \E e \in {"DatabaseError", "InterfaceError", "NoSuchTableError", "miss"} :
                            out = Raise(e)
  BY DEF Outcomes, Results, NoSuchTable, Miss, DBErrors
<1>4. QED
  BY <1>1, <1>2, <1>3 DEF Results

\* What the last statement of a method yields.
LEMMA QueryOutcome ==
  ASSUME NEW m \in Methods \ {"columns", "foreign_keys", "check_constraints"},
         NEW c \in Catalogs
  PROVE  Query(m, c) \in Outcomes
<1>1. /\ GetPkConstraint(c) \in Answers /\ GetUniqueConstraints(c) \in Answers
      /\ GetIndexes(c) \in Answers /\ GetSuperClassName(c) \in Answers
      /\ GetSubClassNames(c) \in Answers /\ GetOidColumns(c) \in Answers
      /\ GetSuperClass(c) \in Answers /\ GetSubClasses(c) \in Answers
      /\ GetInheritedColumns(c) \in Answers
  BY PartIsAnswer, AnswersOfRows
     DEF GetPkConstraint, GetUniqueConstraints, GetIndexes, GetSuperClassName,
         GetSubClassNames, GetOidColumns, GetSuperClass, GetSubClasses, GetInheritedColumns
<1>2. /\ GetTableNames(c) \in Answers /\ HasTable(c) \in Answers
      /\ GetViewNames(c) \in Answers /\ GetSequenceNames(c) \in Answers
  BY ListedIsAnswer DEF GetTableNames, HasTable, GetViewNames, GetSequenceNames
<1>3. GetTableComment(c) \in Outcomes /\ GetViewDefinition(c) \in Outcomes
  BY PartIsAnswer, ResultsAreOutcomes DEF GetTableComment, GetViewDefinition, OrNoSuchTable
<1>4. \A rows \in Answers : Answer(rows) \in Outcomes
  BY ResultsAreOutcomes
<1>5. QED
  BY <1>1, <1>2, <1>3, <1>4 DEF Query, Methods, Guarded, Uncached

\* The end of a call.
LEMMA ReturnTypes ==
  ASSUME TypeOK, NEW out \in Outcomes \ {Miss}, Return(out),
         UNCHANGED <<catalog, method, held, fresh, seen>>, refused' \in BOOLEAN
  PROVE  TypeInv'
<1> DEFINE o == Swallowed(out)
<1>1. o \in Outcomes
  BY AnswersOfRows, ResultsAreOutcomes DEF Swallowed
<1>2. HasIndex(o) \in Outcomes /\ (o.raised = "nothing" => HasIndex(o) \in Results)
  BY <1>1, ListedIsAnswer, ResultsAreOutcomes, NothingRaised DEF HasIndex
<1>3. pc' = "idle" /\ outcome' = HasIndex(o)
  BY DEF Return
<1>4. cache' \in Results \cup {Miss}
  BY <1>1, NothingRaised DEF Return, Remember, TypeOK, Results
<1>5. first' \in Results \cup {Miss}
  BY <1>2 DEF Return, TypeOK, Results
<1>6. TypeOK'
  BY <1>2, <1>3, <1>4, <1>5 DEF TypeOK, Results
<1>7. QED
  BY <1>3, <1>6 DEF TypeInv, StepOfMethod, HeldVersion

LEMMA TypeStatement ==
  ASSUME TypeInv,
         \/ AskExists \/ AskQuery \/ ShowColumns \/ AskComments
         \/ ShowCreateTable \/ AskIsView \/ \E e \in DBErrors : Refuse(e)
  PROVE  TypeInv'
<1>1. /\ method \in Methods /\ catalog \in Catalogs /\ held \in Answers
      /\ refused \in BOOLEAN /\ TypeOK
      /\ pc = "comments" => \E v \in Versions : held = <<v>>
  BY DEF TypeInv, TypeOK, HeldVersion
<1>2. \A rows \in Answers : Answer(rows) \in Outcomes \ {Miss}
  BY ResultsAreOutcomes DEF Answer, Miss, Raise
<1>3. NoSuchTable \in Outcomes \ {Miss} /\ \A e \in DBErrors : Raise(e) \in Outcomes \ {Miss}
  BY ResultsAreOutcomes DEF NoSuchTable, Miss, Raise, DBErrors
<1>4. ASSUME NEW v \in Versions \cup {0}, pc = "comments"
      PROVE  Append(held, v) \in Answers
  <2>1. PICK u \in Versions : held = <<u>>
    BY <1>1, <1>4
  <2>2. Append(held, v) = <<u, v>>
    BY <2>1, AppendPair
  <2>3. QED
    BY <2>2, AnswersOfRows
<1>5. CASE AskExists
  <2>1. CASE \E out \in Outcomes \ {Miss} : Return(out) /\ UNCHANGED held
    BY <1>1, <1>5, <2>1, ReturnTypes DEF AskExists
  <2>2. CASE method # "check_constraints" /\ GoOn("query", <<>>)
    BY <1>5, <2>2, AnswersOfRows DEF AskExists, GoOn, TypeInv, TypeOK, StepOfMethod, HeldVersion, Guarded
  <2>3. QED
    BY <1>2, <1>3, <1>5, <2>1, <2>2, AnswersOfRows DEF AskExists
<1>6. CASE AskQuery
  <2>1. Query(method, catalog) \in Outcomes \ {Miss}
    <3>1. Query(method, catalog) \in Outcomes
      BY <1>1, <1>6, QueryOutcome DEF AskQuery, TypeInv, StepOfMethod
    <3>2. Query(method, catalog) # Miss
      BY <1>1, <1>6 DEF AskQuery, TypeInv, StepOfMethod, Query, Methods, Guarded, Uncached, Answer, Miss, Raise,
         GetTableComment, GetViewDefinition, OrNoSuchTable, NoSuchTable
    <3>3. QED
      BY <3>1, <3>2
  <2>2. QED
    BY <1>1, <1>6, <2>1, ReturnTypes DEF AskQuery
<1>7. CASE ShowColumns
  <2>1. CASE HasObject(catalog)
    <3>1. catalog.version \in Versions
      BY <1>1, <2>1, CatalogFacts DEF HasObject, Absent
    <3>2. /\ pc' = "comments" /\ held' = <<catalog.version>> /\ method = "columns"
          /\ UNCHANGED <<catalog, method, cache, outcome, fresh, refused, seen, first>>
      BY <1>7, <2>1 DEF ShowColumns, GoOn, TypeInv, StepOfMethod
    <3>3. held' \in Answers
      BY <3>1, <3>2, AnswersOfRows
    <3>4. QED
      BY <3>1, <3>2, <3>3 DEF TypeInv, TypeOK, StepOfMethod, HeldVersion
  <2>2. CASE ~HasObject(catalog)
    BY <1>1, <1>3, <1>7, <2>2, ReturnTypes DEF ShowColumns
  <2>3. QED
    BY <2>1, <2>2
<1>8. CASE AskComments
  <2>1. (IF HasObject(catalog) THEN catalog.version ELSE 0) \in Versions \cup {0}
    BY <1>1, CatalogFacts
  <2>2. QED
    BY <1>1, <1>2, <1>4, <1>8, <2>1, ReturnTypes DEF AskComments
<1>9. CASE ShowCreateTable
  <2>1. CASE catalog.kind = "CLASS"
    <3>1. <<catalog.version>> \in Answers
      BY <1>1, CatalogFacts, AnswersOfRows
    <3>2. QED
      BY <1>1, <1>2, <1>9, <2>1, <3>1, ReturnTypes DEF ShowCreateTable
  <2>2. CASE catalog.kind # "CLASS"
    BY <1>9, <2>2, AnswersOfRows
       DEF ShowCreateTable, GoOn, TypeInv, TypeOK, StepOfMethod, HeldVersion
  <2>3. QED
    BY <2>1, <2>2
<1>10. CASE AskIsView
  BY <1>1, <1>2, <1>3, <1>10, AnswersOfRows, ReturnTypes DEF AskIsView
<1>11. CASE \E e \in DBErrors : Refuse(e)
  <2>1. PICK e \in DBErrors : Refuse(e)
    BY <1>11
  <2>2. CASE \E out \in Outcomes \ {Miss} : Return(out) /\ UNCHANGED held
    BY <1>1, <2>1, <2>2, ReturnTypes DEF Refuse
  <2>3. CASE pc = "show_create" /\ GoOn("is_view", <<>>)
    BY <2>1, <2>3, AnswersOfRows DEF Refuse, GoOn, TypeInv, TypeOK, StepOfMethod, HeldVersion
  <2>4. 0 \in Versions \cup {0}
    OBVIOUS
  <2>5. QED
    BY <1>2, <1>3, <1>4, <2>1, <2>2, <2>3, <2>4 DEF Refuse
<1>12. QED
  BY <1>5, <1>6, <1>7, <1>8, <1>9, <1>10, <1>11

\* Calls begun or answered from the cache, caches cleared, and DDL.
LEMMA TypeOther ==
  ASSUME TypeInv,
         CallFromCache \/ Call \/ ClearCache \/ CreateOrDrop \/ Alter \/ UNCHANGED vars
  PROVE  TypeInv'
<1>1. CASE CallFromCache
  <2>1. cache \in Results /\ cache.raised = "nothing"
    BY <1>1, NothingRaised, ResultsAreOutcomes DEF CallFromCache, TypeInv, TypeOK, Results
  <2>2. HasIndex(cache) \in Outcomes
    BY <2>1, ListedIsAnswer, ResultsAreOutcomes DEF HasIndex
  <2>3. QED
    BY <1>1, <2>2 DEF CallFromCache, TypeInv, TypeOK, StepOfMethod, HeldVersion
<1>2. CASE Call
  <2>1. /\ FirstStep \in {"exists", "show", "show_create", "query"}
        /\ FirstStep = "exists" => method \in Guarded
        /\ FirstStep = "show" => method = "columns"
        /\ FirstStep = "show_create" => method = "foreign_keys"
        /\ FirstStep = "query" => method \notin {"columns", "foreign_keys", "check_constraints"}
    BY DEF FirstStep, Guarded
  <2>2. QED
    BY <1>2, <2>1, AnswersOfRows DEF Call, TypeInv, TypeOK, StepOfMethod, HeldVersion
<1>3. CASE ClearCache
  BY <1>3 DEF ClearCache, TypeInv, TypeOK, StepOfMethod, HeldVersion
<1>4. CASE CreateOrDrop \/ Alter
  <2>1. catalog' \in Catalogs
    <3>1. CASE CreateOrDrop
      BY <3>1 DEF CreateOrDrop, Catalogs
    <3>2. CASE Alter
      <4>1. catalog \in Objects
        BY <3>2 DEF Alter, TypeInv, TypeOK, Catalogs
      <4>2. QED
        BY <3>2, <4>1 DEF Alter, Catalogs, Objects
    <3>3. QED
      BY <1>4, <3>1, <3>2
  <2>2. UNCHANGED <<method, pc, held, cache, outcome, fresh, refused, first>> /\ Witnessed
    BY <1>4 DEF CreateOrDrop, Alter
  <2>3. QED
    BY <2>1, <2>2 DEF Witnessed, TypeInv, TypeOK, StepOfMethod, HeldVersion
<1>5. CASE UNCHANGED vars
  BY <1>5 DEF vars, TypeInv, TypeOK, StepOfMethod, HeldVersion
<1>6. QED
  BY <1>1, <1>2, <1>3, <1>4, <1>5

LEMMA InitTypes == Init => TypeInv
  BY AnswersOfRows, ResultsAreOutcomes DEF Init, TypeInv, TypeOK, StepOfMethod, HeldVersion

LEMMA TypeNext == TypeInv /\ [Next]_vars => TypeInv'
  BY TypeStatement, TypeOther DEF Next

\* Type correctness: a call sends the statements of its own method, and what
\* it answers and stores are answers.
THEOREM TypeCorrect == Spec => []TypeOK
<1>1. Init => TypeInv
  BY InitTypes
<1>2. TypeInv /\ [Next]_vars => TypeInv'
  BY TypeNext
<1>3. TypeInv => TypeOK
  BY DEF TypeInv
<1>4. QED
  BY <1>1, <1>2, <1>3, PTL DEF Spec
-----------------------------------------------------------------------------
(* An answer, or a NoSuchTableError, was right at some moment of the call. *)

\* Between two kinds of object the name stood for nothing.
KindsApart == \A c, d \in seen : c.kind = d.kind \/ Absent \in seen

\* What the statements sent so far have seen.
ReadSoFar ==
    /\ pc = "comments" => \E c \in seen : HasObject(c) /\ held = <<c.version>>
    /\ pc = "query" /\ method \in Guarded => \E c \in seen : HasObject(c)
    /\ pc = "is_view" /\ ~refused => \E c \in seen : c.kind # "CLASS"

\* AnswerOfAMoment speaks of calls that have ended; this is what it takes
\* while one is under way.
MomentInv ==
    /\ TypeInv
    /\ AnswerOfAMoment
    /\ pc # "idle" => catalog \in seen /\ KindsApart /\ ReadSoFar

\* AnswerOfAMoment's three alternatives, of an outcome not yet given.
RightAnswer(o) ==
    \/ \E c \in seen : o = AtOnce(method, c)
    \/ method = "columns" /\ \E c, d \in seen : o = Answer(<<c.version, d.version>>)
    \/ method \in Guarded /\ Absent \in seen /\ o = Answer(<<>>)

\* What the methods answer at once, by how they begin.
LEMMA AtOnceOfNothing ==
  ASSUME NEW c, ~HasObject(c), NEW m \in Guarded \cup {"columns", "foreign_keys"}
  PROVE  AtOnce(m, c) = IF m = "has_index" THEN Answer(<<>>) ELSE NoSuchTable
<1>1. CASE m = "has_index"
  <2>1. GetIndexes(c) = <<>>
    BY DEF GetIndexes, Part, HasObject
  <2>2. QED
    BY <1>1, <2>1 DEF AtOnce, Listed
<1>2. CASE m # "has_index"
  BY <1>2 DEF AtOnce, Guarded
<1>3. QED
  BY <1>1, <1>2

LEMMA AtOnceOfObject ==
  ASSUME NEW c, HasObject(c)
  PROVE  /\ AtOnce("columns", c) = Answer(<<c.version, c.version>>)
         /\ AtOnce("foreign_keys", c) = Answer(Part(c, {"CLASS"}))
         /\ AtOnce("check_constraints", c) = Answer(<<>>)
         /\ \A m \in Guarded \ {"check_constraints", "has_index"} : AtOnce(m, c) = Query(m, c)
  BY DEF AtOnce, Guarded

LEMMA AtOnceOfOther ==
  ASSUME NEW c, NEW m \in Methods \ (Guarded \cup {"columns", "foreign_keys"})
  PROVE  AtOnce(m, c) = Query(m, c)
  BY DEF AtOnce, Guarded

\* The queries of the guarded methods find nothing where nothing is.
LEMMA QueryOfNothing ==
  ASSUME NEW c, ~HasObject(c), NEW m \in Guarded \ {"check_constraints"}
  PROVE  Query(m, c) = Answer(<<>>)
<1>1. /\ GetPkConstraint(c) = <<>> /\ GetUniqueConstraints(c) = <<>>
      /\ GetIndexes(c) = <<>>
  BY DEF GetPkConstraint, GetUniqueConstraints, GetIndexes, Part, HasObject
<1>2. QED
  BY <1>1 DEF Query, Guarded

\* The list of indexes, as has_index uses it.
LEMMA HasIndexAnswers ==
  ASSUME method = "has_index"
  PROVE  /\ HasIndex(Swallowed(NoSuchTable)) = Answer(<<>>)
         /\ \A c : HasIndex(Swallowed(Query(method, c))) = AtOnce(method, c)
<1>1. HasIndex(Swallowed(NoSuchTable)) = Answer(<<>>)
  <2>1. Swallowed(NoSuchTable) = Answer(<<>>)
    BY DEF Swallowed, NoSuchTable, Raise
  <2>2. QED
    BY <2>1 DEF HasIndex, Answer, Listed
<1>2. ASSUME NEW c PROVE HasIndex(Swallowed(Query(method, c))) = AtOnce(method, c)
  <2>1. Query(method, c) = Answer(GetIndexes(c))
    BY DEF Query
  <2>2. /\ Answer(GetIndexes(c)).raised = "nothing"
        /\ Answer(GetIndexes(c)).rows = GetIndexes(c)
    BY DEF Answer
  <2>3. Swallowed(Query(method, c)) = Answer(GetIndexes(c))
    BY <2>1, <2>2 DEF Swallowed
  <2>4. HasIndex(Answer(GetIndexes(c))) = Answer(Listed(GetIndexes(c) # <<>>))
    BY <2>2 DEF HasIndex
  <2>5. AtOnce(method, c) = Answer(Listed(GetIndexes(c) # <<>>))
    BY DEF AtOnce
  <2>6. QED
    BY <2>3, <2>4, <2>5
<1>3. QED
  BY <1>1, <1>2

LEMMA OtherAnswers ==
  ASSUME method # "has_index", NEW out
  PROVE  HasIndex(Swallowed(out)) = out
  BY DEF HasIndex, Swallowed

\* The end of a call that was refused nothing.
LEMMA MomentReturn ==
  ASSUME NEW out, Return(out), UNCHANGED <<method, seen>>, TypeInv',
         refused' \/ RightAnswer(HasIndex(Swallowed(out)))
  PROVE  MomentInv'
<1>1. pc' = "idle" /\ outcome' = HasIndex(Swallowed(out))
  BY DEF Return
<1>2. refused' \/ (OfAMoment \/ TornColumns \/ VanishedMeanwhile)'
  BY <1>1 DEF RightAnswer, OfAMoment, TornColumns, VanishedMeanwhile
<1>3. QED
  BY <1>1, <1>2 DEF MomentInv, AnswerOfAMoment

\* A statement that is not the last of its call.
LEMMA MomentGoOn ==
  ASSUME NEW step \in {"query", "comments", "is_view"}, NEW rows, GoOn(step, rows),
         MomentInv, pc # "idle", UNCHANGED <<catalog, method, seen>>, TypeInv',
         step = "comments" => HasObject(catalog) /\ rows = <<catalog.version>>,
         step = "query" => HasObject(catalog),
         step = "is_view" => refused' \/ catalog.kind # "CLASS"
  PROVE  MomentInv'
<1>1. pc' = step /\ held' = rows
  BY DEF GoOn
<1>2. catalog \in seen /\ KindsApart
  BY DEF MomentInv
<1>3. KindsApart'
  BY <1>2 DEF KindsApart
<1>4. ReadSoFar'
  BY <1>1, <1>2 DEF ReadSoFar
<1>5. AnswerOfAMoment'
  BY <1>1 DEF AnswerOfAMoment, Asked
<1>6. QED
  BY <1>2, <1>3, <1>4, <1>5 DEF MomentInv

LEMMA MomentStatement ==
  ASSUME MomentInv, TypeInv',
         \/ AskExists \/ AskQuery \/ ShowColumns \/ AskComments
         \/ ShowCreateTable \/ AskIsView
  PROVE  MomentInv'
<1>1. /\ method \in Methods /\ catalog \in Catalogs /\ TypeInv
      /\ pc # "idle" => catalog \in seen /\ KindsApart /\ ReadSoFar
      /\ StepOfMethod
  BY DEF MomentInv, TypeInv, TypeOK
<1>2. CASE AskExists
  <2>1. /\ catalog \in seen /\ method \in Guarded /\ pc # "idle"
        /\ UNCHANGED <<catalog, method, fresh, refused, seen>>
    BY <1>1, <1>2 DEF AskExists, StepOfMethod
  <2>2. CASE ~HasObject(catalog)
    <3>1. Return(NoSuchTable)
      BY <1>2, <2>2 DEF AskExists
    <3>2. HasIndex(Swallowed(NoSuchTable)) = AtOnce(method, catalog)
      BY <2>1, <2>2, AtOnceOfNothing, HasIndexAnswers, OtherAnswers
    <3>3. QED
      BY <2>1, <3>1, <3>2, MomentReturn DEF RightAnswer
  <2>3. CASE HasObject(catalog) /\ method = "check_constraints"
    <3>1. Return(Answer(<<>>))
      BY <1>2, <2>3 DEF AskExists
    <3>2. HasIndex(Swallowed(Answer(<<>>))) = AtOnce(method, catalog)
      BY <2>3, AtOnceOfObject, OtherAnswers
    <3>3. QED
      BY <2>1, <3>1, <3>2, MomentReturn DEF RightAnswer
  <2>4. CASE HasObject(catalog) /\ method # "check_constraints"
    BY <1>2, <2>1, <2>4, MomentGoOn DEF AskExists
  <2>5. QED
    BY <2>2, <2>3, <2>4
<1>3. CASE AskQuery
  <2>1. /\ catalog \in seen /\ KindsApart /\ Return(Query(method, catalog))
        /\ method \notin {"columns", "foreign_keys", "check_constraints"}
        /\ method \in Guarded => \E c \in seen : HasObject(c)
        /\ UNCHANGED <<method, seen>>
    BY <1>1, <1>3 DEF AskQuery, StepOfMethod, ReadSoFar
  <2>2. RightAnswer(HasIndex(Swallowed(Query(method, catalog))))
    <3>1. CASE method = "has_index"
      BY <2>1, <3>1, HasIndexAnswers DEF RightAnswer
    <3>2. CASE method \in Guarded \ {"has_index"} /\ HasObject(catalog)
      BY <2>1, <3>2, AtOnceOfObject, OtherAnswers DEF RightAnswer
    <3>3. CASE method \in Guarded \ {"has_index"} /\ ~HasObject(catalog)
      <4>1. PICK c \in seen : HasObject(c)
        BY <2>1, <3>3
      <4>2. c.kind # catalog.kind
        BY <3>3, <4>1 DEF HasObject
      <4>3. Absent \in seen
        BY <2>1, <4>1, <4>2 DEF KindsApart
      <4>4. HasIndex(Swallowed(Query(method, catalog))) = Answer(<<>>)
        BY <2>1, <3>3, QueryOfNothing, OtherAnswers
      <4>5. QED
        BY <3>3, <4>3, <4>4 DEF RightAnswer
    <3>4. CASE method \notin Guarded
      <4>1. method # "has_index"
        BY <3>4 DEF Guarded
      <4>2. HasIndex(Swallowed(Query(method, catalog))) = AtOnce(method, catalog)
        BY <1>1, <2>1, <3>4, <4>1, AtOnceOfOther, OtherAnswers
      <4>3. QED
        BY <2>1, <4>2 DEF RightAnswer
    <3>5. QED
      BY <3>1, <3>2, <3>3, <3>4
  <2>3. QED
    BY <2>1, <2>2, MomentReturn
<1>4. CASE ShowColumns
  <2>1. /\ catalog \in seen /\ method = "columns" /\ pc # "idle"
        /\ UNCHANGED <<catalog, method, fresh, refused, seen>>
    BY <1>1, <1>4 DEF ShowColumns, StepOfMethod
  <2>2. CASE HasObject(catalog)
    BY <1>4, <2>1, <2>2, MomentGoOn DEF ShowColumns
  <2>3. CASE ~HasObject(catalog)
    <3>1. HasIndex(Swallowed(NoSuchTable)) = AtOnce(method, catalog)
      BY <2>1, <2>3, AtOnceOfNothing, OtherAnswers
    <3>2. QED
      BY <1>4, <2>1, <2>3, <3>1, MomentReturn DEF ShowColumns, RightAnswer
  <2>4. QED
    BY <2>2, <2>3
<1>5. CASE AskComments
  <2>1. /\ catalog \in seen /\ KindsApart /\ method = "columns"
        /\ UNCHANGED <<method, seen>>
    BY <1>1, <1>5 DEF AskComments, StepOfMethod
  <2>2. PICK c \in seen : HasObject(c) /\ held = <<c.version>>
    BY <1>1, <1>5 DEF AskComments, ReadSoFar
  <2>3. PICK d \in seen : d.version = IF HasObject(catalog) THEN catalog.version ELSE 0
    <3>1. CASE HasObject(catalog)
      BY <2>1, <3>1
    <3>2. CASE ~HasObject(catalog)
      <4>1. c.kind # catalog.kind
        BY <2>2, <3>2 DEF HasObject
      <4>2. Absent \in seen /\ Absent.version = 0
        BY <2>1, <2>2, <4>1 DEF KindsApart, Absent
      <4>3. QED
        BY <3>2, <4>2
    <3>3. QED
      BY <3>1, <3>2
  <2>4. Append(held, d.version) = <<c.version, d.version>>
    BY <2>2, AppendPair
  <2>5. Return(Answer(<<c.version, d.version>>))
    BY <1>5, <2>3, <2>4 DEF AskComments
  <2>6. HasIndex(Swallowed(Answer(<<c.version, d.version>>))) = Answer(<<c.version, d.version>>)
    BY <2>1, OtherAnswers
  <2>7. RightAnswer(Answer(<<c.version, d.version>>))
    BY <2>1 DEF RightAnswer
  <2>8. QED
    BY <2>1, <2>5, <2>6, <2>7, MomentReturn
<1>6. CASE ShowCreateTable
  <2>1. /\ catalog \in seen /\ method = "foreign_keys" /\ pc # "idle"
        /\ UNCHANGED <<catalog, method, fresh, refused, seen>>
    BY <1>1, <1>6 DEF ShowCreateTable, StepOfMethod
  <2>2. CASE catalog.kind = "CLASS"
    <3>1. AtOnce(method, catalog) = Answer(<<catalog.version>>)
      <4>1. HasObject(catalog) /\ Part(catalog, {"CLASS"}) = <<catalog.version>>
        BY <2>2 DEF HasObject, Part
      <4>2. AtOnce("foreign_keys", catalog) = Answer(Part(catalog, {"CLASS"}))
        BY <4>1, AtOnceOfObject
      <4>3. QED
        BY <2>1, <4>1, <4>2
    <3>2. HasIndex(Swallowed(Answer(<<catalog.version>>))) = AtOnce(method, catalog)
      BY <2>1, <3>1, OtherAnswers
    <3>3. QED
      BY <1>6, <2>1, <2>2, <3>2, MomentReturn DEF ShowCreateTable, RightAnswer
  <2>3. CASE catalog.kind # "CLASS"
    BY <1>6, <2>1, <2>3, MomentGoOn DEF ShowCreateTable
  <2>4. QED
    BY <2>2, <2>3
<1>7. CASE AskIsView
  <2>1. /\ catalog \in seen /\ KindsApart /\ method = "foreign_keys"
        /\ UNCHANGED <<method, seen, refused>>
        /\ Return(IF IsView(catalog) THEN Answer(<<>>) ELSE NoSuchTable)
    BY <1>1, <1>7 DEF AskIsView, StepOfMethod
  <2>2. CASE IsView(catalog)
    <3>1. AtOnce(method, catalog) = Answer(<<>>)
      <4>1. HasObject(catalog) /\ Part(catalog, {"CLASS"}) = <<>>
        BY <2>2 DEF IsView, HasObject, Part
      <4>2. AtOnce("foreign_keys", catalog) = Answer(Part(catalog, {"CLASS"}))
        BY <4>1, AtOnceOfObject
      <4>3. QED
        BY <2>1, <4>1, <4>2
    <3>2. HasIndex(Swallowed(Answer(<<>>))) = AtOnce(method, catalog)
      BY <2>1, <3>1, OtherAnswers
    <3>3. QED
      BY <2>1, <2>2, <3>2, MomentReturn DEF RightAnswer
  <2>3. CASE ~IsView(catalog) /\ ~refused
    <3>1. PICK c \in seen : ~HasObject(c)
      <4>1. CASE catalog.kind # "CLASS"
        BY <2>1, <2>3, <4>1 DEF HasObject, IsView
      <4>2. CASE catalog.kind = "CLASS"
        <5>1. PICK d \in seen : d.kind # "CLASS"
          BY <1>1, <1>7, <2>3 DEF AskIsView, ReadSoFar
        <5>2. Absent \in seen
          BY <2>1, <4>2, <5>1 DEF KindsApart
        <5>3. QED
          BY <5>2 DEF HasObject, Absent
      <4>3. QED
        BY <4>1, <4>2
    <3>2. HasIndex(Swallowed(NoSuchTable)) = AtOnce(method, c)
      BY <2>1, <3>1, AtOnceOfNothing, OtherAnswers
    <3>3. QED
      BY <2>1, <2>3, <3>1, <3>2, MomentReturn DEF RightAnswer
  <2>4. CASE ~IsView(catalog) /\ refused
    BY <2>1, <2>4, MomentReturn
  <2>5. QED
    BY <2>2, <2>3, <2>4
<1>8. QED
  BY <1>2, <1>3, <1>4, <1>5, <1>6, <1>7

\* After a refusal nothing is claimed of the call's answer.
LEMMA MomentRefuse ==
  ASSUME MomentInv, TypeInv', NEW e \in DBErrors, Refuse(e)
  PROVE  MomentInv'
<1>1. pc # "idle" /\ refused' /\ UNCHANGED <<catalog, method, seen>>
  BY DEF Refuse
<1>2. CASE \E out : Return(out)
  BY <1>1, <1>2, MomentReturn
<1>3. CASE GoOn("is_view", <<>>)
  BY <1>1, <1>3, MomentGoOn
<1>4. QED
  BY <1>2, <1>3 DEF Refuse

LEMMA MomentOther ==
  ASSUME MomentInv, TypeInv',
         CallFromCache \/ Call \/ ClearCache \/ CreateOrDrop \/ Alter \/ UNCHANGED vars
  PROVE  MomentInv'
<1>1. CASE CallFromCache
  BY <1>1 DEF CallFromCache, MomentInv, AnswerOfAMoment, Asked
<1>2. CASE Call
  <2>1. seen' = {catalog} /\ catalog' = catalog /\ pc' # "idle"
    BY <1>2 DEF Call, FirstStep
  <2>2. pc' \notin {"comments", "is_view"} /\ (pc' = "query" => method' \notin Guarded)
    BY <1>2 DEF Call, FirstStep
  <2>3. KindsApart' /\ ReadSoFar'
    BY <2>1, <2>2 DEF KindsApart, ReadSoFar
  <2>4. QED
    BY <2>1, <2>3 DEF MomentInv, AnswerOfAMoment, Asked
<1>3. CASE ClearCache \/ UNCHANGED vars
  <2>1. UNCHANGED <<catalog, method, pc, held, outcome, fresh, refused, seen>>
    BY <1>3 DEF ClearCache, vars
  <2>2. QED
    BY <2>1 DEF MomentInv, AnswerOfAMoment, Asked, OfAMoment, TornColumns,
       VanishedMeanwhile, KindsApart, ReadSoFar
<1>4. CASE CreateOrDrop \/ Alter
  <2>1. UNCHANGED <<method, pc, held, cache, outcome, fresh, refused, first>> /\ Witnessed
    BY <1>4 DEF CreateOrDrop, Alter
  <2>2. CASE pc = "idle"
    <3>1. seen' = seen /\ pc' = "idle"
      BY <2>1, <2>2 DEF Witnessed
    <3>2. QED
      BY <2>1, <3>1 DEF MomentInv, AnswerOfAMoment, Asked, OfAMoment, TornColumns,
         VanishedMeanwhile
  <2>3. CASE pc # "idle"
    <3>1. seen' = seen \cup {catalog'} /\ catalog \in seen /\ KindsApart /\ ReadSoFar
      BY <2>1, <2>3 DEF Witnessed, MomentInv
    <3>2. catalog'.kind = catalog.kind \/ catalog = Absent \/ catalog' = Absent
      <4>1. CASE CreateOrDrop
        BY <4>1 DEF CreateOrDrop
      <4>2. CASE Alter
        <5>1. catalog \in Objects
          BY <4>2 DEF Alter, MomentInv, TypeInv, TypeOK, Catalogs
        <5>2. QED
          BY <4>2, <5>1 DEF Alter, Objects
      <4>3. QED
        BY <1>4, <4>1, <4>2
    <3>3. KindsApart'
      BY <3>1, <3>2 DEF KindsApart
    <3>4. ReadSoFar'
      BY <2>1, <3>1 DEF ReadSoFar
    <3>5. QED
      BY <2>1, <2>3, <3>1, <3>3, <3>4 DEF MomentInv, AnswerOfAMoment, Asked
  <2>4. QED
    BY <2>2, <2>3
<1>5. QED
  BY <1>1, <1>2, <1>3, <1>4

\* Whatever DDL is committed between the statements of a method, what it
\* answers or raises was right at some moment of the call, but for columns
\* with another definition's comments and the empty list of a table dropped
\* half-way.
THEOREM AnswersOfMoments == Spec => []AnswerOfAMoment
<1>1. Init => MomentInv
  <2>1. Init => TypeInv
    BY InitTypes
  <2>2. QED
    BY <2>1 DEF Init, MomentInv, AnswerOfAMoment, Asked
<1>2. MomentInv /\ [Next]_vars => MomentInv'
  <2> SUFFICES ASSUME MomentInv, [Next]_vars PROVE MomentInv'
    OBVIOUS
  <2>1. TypeInv'
    BY TypeNext DEF MomentInv
  <2>2. CASE \/ AskExists \/ AskQuery \/ ShowColumns \/ AskComments
             \/ ShowCreateTable \/ AskIsView
    BY <2>1, <2>2, MomentStatement
  <2>3. CASE \E e \in DBErrors : Refuse(e)
    BY <2>1, <2>3, MomentRefuse
  <2>4. CASE CallFromCache \/ Call \/ ClearCache \/ CreateOrDrop \/ Alter \/ UNCHANGED vars
    BY <2>1, <2>4, MomentOther
  <2>5. QED
    BY <2>2, <2>3, <2>4 DEF Next
<1>3. MomentInv => AnswerOfAMoment
  BY DEF MomentInv
<1>4. QED
  BY <1>1, <1>2, <1>3, PTL DEF Spec
=============================================================================
