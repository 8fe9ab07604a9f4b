--------------------------- MODULE MigrationProofs ---------------------------
(****************************************************************************)
(* For any columns, types, domains, classes, servers and number of           *)
(* revisions: alembic_version is true, a downgrade brings the database back, *)
(* autogenerate is quiet after an upgrade and overlooks nothing it could     *)
(* see, a class is referable when it should be, and no Table asks for two    *)
(* AUTO_INCREMENT columns.                                                   *)
(*                                                                           *)
(* The proofs rest on what a database is in the middle of a revision         *)
(* (CatalogMidway) and on what the history of the versions says of it        *)
(* (ClassHistory, ColumnHistory, ColumnsStay, LastScript).                   *)
(****************************************************************************)
EXTENDS Migration, ColumnTypesProofs, FiniteSetTheorems, SequenceTheorems, TLAPS

VersionsOK ==
    /\ recorded \in Int /\ pending \in Int
    /\ recorded + 1 \in DOMAIN reached

RunOK ==
    /\ run = [ direction |-> run.direction, revision |-> run.revision, at |-> run.at,
               until |-> run.until, version |-> run.version ]
    /\ run.direction \in {"none", "up", "down"}
    /\ run.revision \in Int

\* A run is at the revision next to the recorded version. Its UPDATE of
\* alembic_version is pending only when the revision's statements are done.
AtNextRevision ==
    Running =>
      /\ recorded = Before(run)
      /\ pending # recorded =>
           /\ pending = VersionAfter
           /\ OpsDone
           /\ pending + 1 \in DOMAIN reached
           /\ catalog = reached[pending + 1]

\* Between runs nothing is pending.
BetweenRuns ==
    ~Running =>
      /\ pending = recorded
      /\ IF stopped = NotStopped
           THEN catalog = reached[recorded + 1]
           ELSE recorded = Before(stopped)

IInv == VersionsOK /\ RunOK /\ AtNextRevision /\ BetweenRuns

-----------------------------------------------------------------------------
LEMMA InitInv == Init => IInv
<1> SUFFICES ASSUME Init PROVE IInv
  OBVIOUS
<1>1. VersionsOK
  BY DEF Init, VersionsOK
<1>2. RunOK /\ ~Running
  BY DEF Init, RunOK, Idle, Running
<1>3. AtNextRevision /\ BetweenRuns
  BY <1>2 DEF Init, AtNextRevision, BetweenRuns
<1>4. QED
  BY <1>1, <1>2, <1>3 DEF IInv

\* Before and after a run's revision there are different versions.
LEMMA VersionMoves ==
  ASSUME RunOK, Running
  PROVE  /\ Before(run) \in Int /\ VersionAfter \in Int
         /\ VersionAfter # Before(run)
  BY DEF RunOK, Running, Before, VersionAfter

\* Nothing that the invariant speaks of changes.
LEMMA Unmoved ==
  ASSUME IInv,
         UNCHANGED <<catalog, recorded, pending, run, stopped, reached>>,
         run = Idle \/ UNCHANGED revisions
  PROVE  IInv'
<1>1. VersionsOK' /\ RunOK'
  BY DEF IInv, VersionsOK, RunOK
<1>2. AtNextRevision'
  BY DEF IInv, AtNextRevision, Running, Idle, OpsDone, VersionAfter, Before
<1>3. BetweenRuns'
  BY DEF IInv, BetweenRuns, Running, Before
<1>4. QED
  BY <1>1, <1>2, <1>3 DEF IInv

LEMMA StartInv ==
  ASSUME IInv, Upgrade \/ Downgrade
  PROVE  IInv'
<1>1. /\ ~Running /\ pending = recorded
      /\ UNCHANGED <<catalog, recorded, pending, stopped, reached, revisions>>
  BY DEF IInv, BetweenRuns, Upgrade, Downgrade, Running, Idle
<1>2. PICK until, version :
         \/ Start("up", recorded + 1, until, version)
         \/ Start("down", recorded, until, version)
  BY DEF Upgrade, Downgrade
<1>3. RunOK' /\ Before(run)' = recorded
  BY <1>1, <1>2 DEF IInv, VersionsOK, Start, RunOK, Before
<1>4. AtNextRevision' /\ BetweenRuns'
  BY <1>1, <1>2, <1>3 DEF AtNextRevision, BetweenRuns, Start, Running, Before
<1>5. VersionsOK'
  BY <1>1 DEF IInv, VersionsOK
<1>6. QED
  BY <1>3, <1>4, <1>5 DEF IInv

LEMMA ApplyOpInv ==
  ASSUME IInv, ApplyOp
  PROVE  IInv'
<1>1. pending = recorded
  BY DEF IInv, AtNextRevision, ApplyOp
<1>2. /\ recorded' = recorded /\ pending' = pending
      /\ run' = [run EXCEPT !.at = @ + 1]
      /\ UNCHANGED <<stopped, reached>>
      /\ Running
  BY <1>1 DEF ApplyOp
<1>3. RunOK' /\ run'.direction = run.direction /\ run'.revision = run.revision
  BY <1>2 DEF IInv, RunOK
<1>4. VersionsOK' /\ Running' /\ Before(run)' = Before(run)
  BY <1>2, <1>3 DEF IInv, VersionsOK, Running, Before
<1>5. AtNextRevision' /\ BetweenRuns'
  BY <1>1, <1>2, <1>3, <1>4 DEF IInv, AtNextRevision, BetweenRuns, Running, Before
<1>6. QED
  BY <1>3, <1>4, <1>5 DEF IInv

LEMMA UpdateVersionInv ==
  ASSUME IInv, UpdateVersion
  PROVE  IInv'
<1>1. /\ OpsDone /\ Running /\ pending' = VersionAfter
      /\ UNCHANGED <<catalog, recorded, run, stopped, revisions>>
  BY DEF UpdateVersion, OpsDone
<1>2. /\ recorded = Before(run) /\ VersionAfter # recorded /\ VersionAfter \in Int
  BY <1>1, VersionMoves DEF IInv, AtNextRevision
<1>3. /\ DOMAIN reached' = DOMAIN reached \cup {VersionAfter + 1}
      /\ reached'[VersionAfter + 1] = catalog
  BY DEF UpdateVersion
<1>4. VersionsOK' /\ RunOK'
  BY <1>1, <1>2, <1>3 DEF IInv, VersionsOK, RunOK
<1>5. AtNextRevision'
  BY <1>1, <1>2, <1>3 DEF AtNextRevision, Running, OpsDone, VersionAfter, Before
<1>6. BetweenRuns'
  BY <1>1 DEF BetweenRuns, Running
<1>7. QED
  BY <1>4, <1>5, <1>6 DEF IInv

\* transactional_ddl is False: a revision's version is recorded when it ends,
\* and not when the whole run does.
LEMMA NextRevisionInv ==
  ASSUME IInv, NextRevision
  PROVE  IInv'
<1>1. /\ OpsDone /\ Running /\ pending = VersionAfter
      /\ recorded' = pending /\ stopped' = NotStopped
      /\ run' = IF VersionAfter = run.until
                  THEN Idle
                  ELSE [run EXCEPT !.revision = @ + Step, !.at = 1]
      /\ UNCHANGED <<catalog, pending, reached, revisions>>
  BY DEF NextRevision, OpsDone, CommitsNow, TransactionalDdl
<1>2. /\ pending \in Int /\ pending # recorded
      /\ pending + 1 \in DOMAIN reached /\ catalog = reached[pending + 1]
  BY <1>1, VersionMoves DEF IInv, AtNextRevision
<1>3. VersionsOK'
  BY <1>1, <1>2 DEF VersionsOK
<1>4. CASE VersionAfter = run.until
  <2>1. run' = Idle
    BY <1>1, <1>4
  <2>2. RunOK' /\ ~Running'
    BY <2>1 DEF RunOK, Running, Idle
  <2>3. QED
    BY <1>1, <1>2, <1>3, <2>2 DEF IInv, AtNextRevision, BetweenRuns
<1>5. CASE VersionAfter # run.until
  <2>1. run' = [run EXCEPT !.revision = @ + Step, !.at = 1]
    BY <1>1, <1>5
  <2>2. RunOK' /\ run'.direction = run.direction /\ run'.revision = run.revision + Step
    <3>1. run' = [ direction |-> run.direction, revision |-> run.revision + Step, at |-> 1,
                   until |-> run.until, version |-> run.version ]
      BY <2>1 DEF IInv, RunOK
    <3>2. run.revision + Step \in Int /\ run.direction \in {"none", "up", "down"}
      BY DEF IInv, RunOK, Step
    <3>3. QED
      BY <3>1, <3>2 DEF RunOK
  <2>3. Before(run)' = VersionAfter
    BY <1>1, <2>2 DEF IInv, RunOK, Before, VersionAfter, Step, Running
  <2>4. Running'
    BY <1>1, <2>2 DEF Running
  <2>5. AtNextRevision' /\ BetweenRuns'
    BY <1>1, <2>3, <2>4 DEF AtNextRevision, BetweenRuns, Before
  <2>6. QED
    BY <1>3, <2>2, <2>5 DEF IInv
<1>6. QED
  BY <1>4, <1>5

LEMMA StopInv ==
  ASSUME IInv, Stop
  PROVE  IInv'
<1>1. /\ Running /\ pending' = recorded /\ run' = Idle
      /\ stopped' = IF catalog = reached[recorded + 1]
                      THEN NotStopped
                      ELSE [direction |-> run.direction, revision |-> run.revision]
      /\ UNCHANGED <<catalog, recorded, reached>>
  BY DEF Stop
<1>2. VersionsOK' /\ RunOK' /\ ~Running'
  BY <1>1 DEF IInv, VersionsOK, RunOK, Running, Idle
<1>3. recorded = Before(run)
  BY <1>1 DEF IInv, AtNextRevision
<1>4. BetweenRuns'
  <2>1. CASE catalog = reached[recorded + 1]
    BY <1>1, <2>1 DEF BetweenRuns
  <2>2. CASE catalog # reached[recorded + 1]
    <3>1. Before(stopped)' = Before(run)
      BY <1>1, <2>2 DEF Before
    <3>2. stopped' # NotStopped
      BY <1>1, <2>2 DEF IInv, RunOK, Running, NotStopped
    <3>3. QED
      BY <1>1, <1>3, <3>1, <3>2 DEF BetweenRuns, Before
  <2>3. QED
    BY <2>1, <2>2
<1>5. QED
  BY <1>2, <1>4 DEF IInv, AtNextRevision

LEMMA CleanUpInv ==
  ASSUME IInv, CleanUp
  PROVE  IInv'
<1>1. /\ ~Running /\ ~Running'
      /\ catalog' = reached[recorded + 1] /\ stopped' = NotStopped
      /\ UNCHANGED <<recorded, pending, run, reached>>
  BY DEF CleanUp, Running, Idle
<1>2. QED
  BY <1>1 DEF IInv, VersionsOK, RunOK, AtNextRevision, BetweenRuns

LEMMA NextInv ==
  ASSUME IInv, [Next]_vars
  PROVE  IInv'
<1>1. CASE EditModel \/ Autogenerate \/ UNCHANGED vars
  BY <1>1, Unmoved DEF EditModel, Autogenerate, vars
<1>2. QED
  BY <1>1, StartInv, ApplyOpInv, UpdateVersionInv, NextRevisionInv, StopInv, CleanUpInv
     DEF Next

\* The version in alembic_version is that of the database, or the one before the
\* single revision a run is executing or has stopped in.
THEOREM RecordedVersionIsTrue == Spec => []RecordedIsTrue
<1>1. IInv => RecordedIsTrue
  <2> SUFFICES ASSUME IInv PROVE RecordedIsTrue
    OBVIOUS
  <2>1. CASE Running
    <3>1. run # NotStopped
      BY <2>1 DEF IInv, RunOK, Running, NotStopped
    <3>2. QED
      BY <2>1, <3>1 DEF IInv, AtNextRevision, RecordedIsTrue, LastRun
  <2>2. CASE ~Running
    BY <2>2 DEF IInv, BetweenRuns, RecordedIsTrue, LastRun
  <2>3. QED
    BY <2>1, <2>2
<1>2. Init => IInv
  BY InitInv
<1>3. IInv /\ [Next]_vars => IInv'
  BY NextInv
<1>4. QED
  BY <1>1, <1>2, <1>3, PTL DEF Spec

-----------------------------------------------------------------------------
\* The k-th element taken stands at position at[k].
Takes(at, seq, positions) ==
    /\ at \in [1..Cardinality(positions) -> positions]
    /\ At(seq, positions) = [k \in 1..Cardinality(positions) |-> seq[at[k]]]
    /\ \A k, l \in 1..Cardinality(positions) : k < l => at[k] < at[l]
    /\ \A i \in positions : \E k \in 1..Cardinality(positions) : at[k] = i

\* The elements of a sequence at some positions stand in the order of those positions.
LEMMA AtPositions ==
  ASSUME NEW seq, NEW n \in Nat, NEW positions \in SUBSET (1..n)
  PROVE  /\ Cardinality(positions) \in Nat
         /\ \E at : Takes(at, seq, positions)
<1> DEFINE Rank(i) == Cardinality({j \in positions : j <= i})
           rank == [i \in positions |-> Rank(i)]
           N == Cardinality(positions)
           at == [k \in 1..N |-> CHOOSE i \in positions : Rank(i) = k]
<1>1. IsFiniteSet(positions) /\ N \in Nat
  <2>1. IsFiniteSet(1..n)
    BY FS_Interval
  <2>2. IsFiniteSet(positions)
    BY <2>1, FS_Subset
  <2>3. QED
    BY <2>2, FS_CardinalityType
<1>2. \A i \in positions : i \in Nat
  OBVIOUS
<1>3. ASSUME NEW i \in positions
      PROVE  IsFiniteSet({j \in positions : j <= i}) /\ Rank(i) \in 1..N /\ Rank(i) \in Nat
  <2>1. /\ IsFiniteSet({j \in positions : j <= i}) /\ Rank(i) <= N /\ Rank(i) \in Nat
    BY <1>1, FS_Subset, FS_CardinalityType
  <2>2. i \in {j \in positions : j <= i}
    BY <1>2
  <2>3. Rank(i) # 0
    BY <2>1, <2>2, FS_EmptySet
  <2>4. QED
    BY <1>1, <2>1, <2>3
<1>4. ASSUME NEW i \in positions, NEW j \in positions, i < j
      PROVE  Rank(i) < Rank(j)
  <2> DEFINE below == {k \in positions : k <= i}
             upTo == {k \in positions : k <= j}
  <2>1. below \subseteq upTo /\ j \in upTo /\ j \notin below
    <3>1. i \in Nat /\ j \in Nat /\ \A k \in positions : k \in Nat
      BY <1>2
    <3>2. \A k \in positions : k <= i => k <= j
      BY <1>4, <3>1
    <3>3. j <= j /\ ~(j <= i)
      BY <1>4, <3>1
    <3>4. QED
      BY <3>2, <3>3
  <2>2. IsFiniteSet(upTo)
    BY <1>3
  <2>3. Cardinality(below) <= Cardinality(upTo) /\ Cardinality(below) # Cardinality(upTo)
    <3> HIDE DEF below, upTo
    <3>1. QED
      BY <2>1, <2>2, FS_Subset
  <2>4. Rank(i) \in Nat /\ Rank(j) \in Nat
    BY <1>3
  <2>5. QED
    BY <2>3, <2>4
<1>5. \A i, j \in positions : Rank(i) = Rank(j) => i = j
  <2> HIDE DEF Rank
  <2>1. \A i, j \in positions : Rank(i) \in Nat /\ Rank(j) \in Nat
    BY <1>3
  <2>2. QED
    BY <1>2, <1>4, <2>1
<1>6. \A k \in 1..N : \E i \in positions : Rank(i) = k
  <2>1. rank \in [positions -> 1..N] /\ \A i \in positions : rank[i] = Rank(i)
    BY <1>3
  <2> HIDE DEF rank, Rank
  <2>2. rank \in Injection(positions, 1..N)
    BY <1>5, <2>1 DEF Injection, IsInjective
  <2>3. IsFiniteSet(1..N) /\ Cardinality(1..N) = N
    BY <1>1, FS_Interval
  <2>4. rank \in Surjection(positions, 1..N)
    BY <2>2, <2>3, FS_Injection
  <2>5. QED
    BY <2>1, <2>4 DEF Surjection
<1>7. \A k \in 1..N : at[k] \in positions /\ Rank(at[k]) = k
  BY <1>6
<1>8. At(seq, positions) = [k \in 1..N |-> seq[at[k]]]
  BY DEF At
<1> HIDE DEF at, Rank
<1>9. at \in [1..N -> positions]
  <2>1. at = [k \in 1..N |-> at[k]]
    BY DEF at
  <2>2. QED
    BY <1>7, <2>1
<1>10. \A k, l \in 1..N : k < l => at[k] < at[l]
  <2> HIDE DEF N
  <2> TAKE k, l \in 1..N
  <2>1. at[k] \in positions /\ at[l] \in positions /\ Rank(at[k]) = k /\ Rank(at[l]) = l
    BY <1>7
  <2>2. at[l] < at[k] => l < k
    BY <1>4, <2>1
  <2>3. k \in Nat /\ l \in Nat
    BY <1>1
  <2>4. at[k] \in Nat /\ at[l] \in Nat
    BY <1>2, <2>1
  <2>5. QED
    BY <2>1, <2>2, <2>3, <2>4
<1>11. \A i \in positions : \E k \in 1..N : at[k] = i
  BY <1>3, <1>5, <1>7
<1>12. Takes(at, seq, positions)
  BY <1>8, <1>9, <1>10, <1>11 DEF Takes
<1>13. QED
  BY <1>1, <1>12

LEMMA SeqIsTuple ==
  ASSUME NEW S, NEW s \in Seq(S)
  PROVE  /\ IsTuple(s, Len(s)) /\ Len(s) \in Nat
         /\ \A i \in 1..Len(s) : s[i] \in S
<1>1. Len(s) \in Nat /\ s \in [1..Len(s) -> S] /\ DOMAIN s = 1..Len(s)
  BY LenProperties
<1>2. s = [i \in 1..Len(s) |-> s[i]]
  BY <1>1
<1>3. QED
  BY <1>1, <1>2 DEF IsTuple

LEMMA TupleIsSeq ==
  ASSUME NEW n \in Nat, NEW s, IsTuple(s, n), NEW S, \A i \in 1..n : s[i] \in S
  PROVE  s \in Seq(S) /\ Len(s) = n /\ DOMAIN s = 1..n
<1>1. s = [i \in 1..n |-> s[i]] /\ DOMAIN s = 1..n
  BY DEF IsTuple
<1>2. [i \in 1..n |-> s[i]] \in Seq(S)
  <2>1. [i \in 1..n |-> s[i]] \in [1..n -> S]
    OBVIOUS
  <2>2. QED
    BY <2>1
<1>3. s \in Seq(S)
  BY <1>1, <1>2
<1>4. Len(s) \in Nat /\ DOMAIN s = 1..Len(s)
  BY <1>3, LenProperties
<1>5. Len(s) = n
  BY <1>1, <1>4
<1>6. QED
  BY <1>1, <1>3, <1>5

LEMMA FunctionIsTuple ==
  ASSUME NEW n \in Nat, NEW f, f = [i \in 1..n |-> f[i]]
  PROVE  IsTuple(f, n) /\ Len(f) = n /\ DOMAIN f = 1..n
<1>1. DOMAIN f = 1..n
  OBVIOUS
<1>2. IsTuple(f, n)
  BY <1>1 DEF IsTuple
<1>3. \A i \in 1..n : f[i] \in {f[j] : j \in 1..n}
  OBVIOUS
<1>4. QED
  BY <1>2, <1>3, TupleIsSeq

\* A sequence and one element more.
LEMMA AppendTuple ==
  ASSUME NEW n \in Nat, NEW s, IsTuple(s, n), NEW e
  PROVE  /\ IsTuple(Append(s, e), n + 1)
         /\ Len(s) = n /\ Len(Append(s, e)) = n + 1
         /\ Append(s, e)[n + 1] = e
         /\ \A i \in 1..n : Append(s, e)[i] = s[i]
<1> DEFINE S == {s[i] : i \in 1..n} \cup {e}
<1>1. \A i \in 1..n : s[i] \in S
  OBVIOUS
<1>2. e \in S
  OBVIOUS
<1> HIDE DEF S
<1>3. s \in Seq(S) /\ Len(s) = n
  BY <1>1, TupleIsSeq
<1>4. /\ Append(s, e) \in Seq(S) /\ Len(Append(s, e)) = n + 1
      /\ \A i \in 1..n : Append(s, e)[i] = s[i]
      /\ Append(s, e)[n + 1] = e
  BY <1>2, <1>3, AppendProperties
<1>5. IsTuple(Append(s, e), n + 1)
  BY <1>4, SeqIsTuple
<1>6. QED
  BY <1>3, <1>4, <1>5

\* One sequence after the other.
IsJoin(u, s, m, t, n) ==
    /\ IsTuple(u, m + n) /\ Len(u) = m + n
    /\ \A i \in 1..m : u[i] = s[i]
    /\ \A i \in 1..n : u[m + i] = t[i]

LEMMA Joined ==
  ASSUME NEW m \in Nat, NEW n \in Nat, NEW s, IsTuple(s, m), NEW t, IsTuple(t, n)
  PROVE  IsJoin(s \o t, s, m, t, n)
<1> DEFINE S == {s[i] : i \in 1..m} \cup {t[i] : i \in 1..n}
<1>1. (\A i \in 1..m : s[i] \in S) /\ (\A i \in 1..n : t[i] \in S)
  OBVIOUS
<1> HIDE DEF S
<1>2. s \in Seq(S) /\ Len(s) = m /\ t \in Seq(S) /\ Len(t) = n
  BY <1>1, TupleIsSeq
<1>3. /\ s \o t \in Seq(S) /\ Len(s \o t) = m + n
      /\ \A i \in 1..m + n : (s \o t)[i] = IF i <= m THEN s[i] ELSE t[i - m]
  BY <1>2, ConcatProperties
<1>4. IsTuple(s \o t, m + n)
  BY <1>3, SeqIsTuple
<1>5. \A i \in 1..n : (s \o t)[m + i] = t[i]
  <2> DEFINE u == s \o t
  <2>1. \A k \in 1..m + n : u[k] = IF k <= m THEN s[k] ELSE t[k - m]
    BY <1>3
  <2> HIDE DEF u
  <2>2. \A i \in 1..n : u[m + i] = t[i]
    <3> TAKE i \in 1..n
    <3>1. m + i \in 1..m + n /\ ~(m + i <= m) /\ m + i - m = i
      OBVIOUS
    <3>2. u[m + i] = t[m + i - m]
      BY <2>1, <3>1
    <3>3. QED
      BY <3>1, <3>2
  <2>3. QED
    BY <2>2 DEF u
<1>6. ASSUME NEW i \in 1..m
      PROVE  (s \o t)[i] = s[i]
  <2>1. i \in 1..m + n /\ i <= m
    OBVIOUS
  <2>2. QED
    BY <1>3, <2>1
<1>7. QED
  BY <1>3, <1>4, <1>5, <1>6 DEF IsJoin

-----------------------------------------------------------------------------
\* What autogenerate writes.

Conn(c) == Reflected(catalog.columns[c])

ProposedFor(op, c) ==
    /\ c \in ColumnNames /\ Changed(Conn(c), model.columns[c])
    /\ op = Operation(c, RenderType(model.columns[c]), RenderType(Conn(c)))

ProposedForClass(op) ==
    /\ model.class # NoClass /\ catalog.class = "absent"
    /\ op = Operation("class", model.class, NoClass)

LEMMA PartsOfOperation ==
  ASSUME NEW subject, NEW up, NEW down
  PROVE  /\ Operation(subject, up, down).subject = subject
         /\ Operation(subject, up, down).up = up
         /\ Operation(subject, up, down).down = down
  BY DEF Operation

\* The columns that are changed, in order.
ChangedAt == {i \in DOMAIN Columns : Changed(Conn(Columns[i]), model.columns[Columns[i]])}
ChangedColumns == At(Columns, ChangedAt)

LEMMA ChangedOnce ==
  /\ Len(ChangedColumns) \in Nat /\ IsTuple(ChangedColumns, Len(ChangedColumns))
  /\ \A i \in 1..Len(ChangedColumns) :
        /\ ChangedColumns[i] \in ColumnNames
        /\ Changed(Conn(ChangedColumns[i]), model.columns[ChangedColumns[i]])
  /\ \A i, j \in 1..Len(ChangedColumns) : ChangedColumns[i] = ChangedColumns[j] => i = j
  /\ \A c \in ColumnNames :
        Changed(Conn(c), model.columns[c]) => \E i \in 1..Len(ChangedColumns) : ChangedColumns[i] = c
<1> DEFINE n == Cardinality(ChangedAt)
<1>1. Len(Columns) \in Nat /\ DOMAIN Columns = 1..Len(Columns)
  BY ColumnsAssumption, LenProperties
<1>2. ChangedAt \in SUBSET (1..Len(Columns)) /\ \A i \in ChangedAt : i \in Nat
  BY <1>1 DEF ChangedAt
<1>3. /\ \A i \in ChangedAt : Columns[i] \in ColumnNames /\ Changed(Conn(Columns[i]), model.columns[Columns[i]])
      /\ \A c \in ColumnNames : Changed(Conn(c), model.columns[c]) => \E i \in ChangedAt : Columns[i] = c
      /\ \A i, j \in ChangedAt : Columns[i] = Columns[j] => i = j
  BY ColumnsAssumption DEF ColumnNames, ChangedAt
<1>4. Cardinality(ChangedAt) \in Nat /\ \E at : Takes(at, Columns, ChangedAt)
  BY <1>1, <1>2, AtPositions
<1>5. PICK at : /\ at \in [1..n -> ChangedAt]
                /\ ChangedColumns = [k \in 1..n |-> Columns[at[k]]]
                /\ \A k, l \in 1..n : k < l => at[k] < at[l]
                /\ \A i \in ChangedAt : \E k \in 1..n : at[k] = i
  BY <1>4 DEF ChangedColumns, Takes
<1>6. n \in Nat
  BY <1>4
<1> HIDE DEF n
<1>7. \A i \in 1..n : ChangedColumns[i] = Columns[at[i]] /\ at[i] \in ChangedAt /\ at[i] \in Nat
  BY <1>2, <1>5
<1>8. \A k, l \in 1..n : at[k] = at[l] => k = l
  <2> TAKE k, l \in 1..n
  <2>1. k \in Nat /\ l \in Nat
    BY <1>6
  <2>2. at[k] \in Nat /\ at[l] \in Nat
    BY <1>7
  <2>3. (k < l => at[k] < at[l]) /\ (l < k => at[l] < at[k])
    BY <1>5
  <2>4. QED
    BY <2>1, <2>2, <2>3
<1>9. ChangedColumns = [i \in 1..n |-> ChangedColumns[i]]
  BY <1>5
<1>10. IsTuple(ChangedColumns, n) /\ Len(ChangedColumns) = n
  BY <1>6, <1>9, FunctionIsTuple
<1>11. \A i \in 1..n : /\ ChangedColumns[i] \in ColumnNames
                       /\ Changed(Conn(ChangedColumns[i]), model.columns[ChangedColumns[i]])
  BY <1>3, <1>7
<1>12. \A i, j \in 1..n : ChangedColumns[i] = ChangedColumns[j] => i = j
  BY <1>3, <1>7, <1>8
<1>13. \A c \in ColumnNames : Changed(Conn(c), model.columns[c]) => \E i \in 1..n : ChangedColumns[i] = c
  BY <1>3, <1>5, <1>7
<1>14. QED
  BY <1>6, <1>10, <1>11, <1>12, <1>13

\* What Differences holds: one operation for each column that is changed and for the
\* class if it is missing, and no other.
LEMMA DifferencesForm ==
  /\ Len(Differences) \in Nat /\ IsTuple(Differences, Len(Differences))
  /\ \A i \in DOMAIN Differences :
        ProposedForClass(Differences[i]) \/ \E c \in ColumnNames : ProposedFor(Differences[i], c)
  /\ \A i, j \in DOMAIN Differences :
        Differences[i].subject = Differences[j].subject => i = j
  /\ \A c \in ColumnNames :
        Changed(Conn(c), model.columns[c]) => \E i \in DOMAIN Differences : ProposedFor(Differences[i], c)
  /\ model.class # NoClass /\ catalog.class = "absent" =>
        \E i \in DOMAIN Differences : ProposedForClass(Differences[i])
<1> DEFINE changed == ChangedColumns
           n == Len(ChangedColumns)
           created == model.class # NoClass /\ catalog.class = "absent"
           head == IF created THEN <<Operation("class", model.class, NoClass)>> ELSE <<>>
           rest == [i \in 1..n |-> Operation(changed[i], RenderType(model.columns[changed[i]]),
                                             RenderType(Conn(changed[i])))]
           m == IF created THEN 1 ELSE 0
<1>1. /\ n \in Nat /\ DOMAIN changed = 1..n
      /\ \A i \in 1..n : changed[i] \in ColumnNames /\ Changed(Conn(changed[i]), model.columns[changed[i]])
      /\ \A i, j \in 1..n : changed[i] = changed[j] => i = j
      /\ \A c \in ColumnNames : Changed(Conn(c), model.columns[c]) => \E i \in 1..n : changed[i] = c
  BY ChangedOnce DEF IsTuple
<1>2. Differences = head \o rest
  BY <1>1 DEF Differences, Conn, ChangedColumns, ChangedAt
<1> HIDE DEF changed, n
<1>3. m \in Nat /\ IsTuple(head, m)
  BY TuplesAreTuples
<1>4. IsTuple(rest, n)
  BY <1>1, FunctionIsTuple
<1>5. \A i \in 1..m : ProposedForClass(head[i]) /\ head[i].subject = "class"
  BY PartsOfOperation DEF ProposedForClass
<1>6. \A i \in 1..n : ProposedFor(rest[i], changed[i]) /\ rest[i].subject = changed[i]
  <2> TAKE i \in 1..n
  <2>1. rest[i] = Operation(changed[i], RenderType(model.columns[changed[i]]), RenderType(Conn(changed[i])))
    OBVIOUS
  <2> HIDE DEF rest
  <2>2. rest[i].subject = changed[i]
    BY <2>1, PartsOfOperation
  <2>3. QED
    BY <1>1, <2>1, <2>2 DEF ProposedFor
<1>7. (created => m = 1) /\ m <= 1 /\ m \in Nat /\ n \in Nat
  BY <1>1
<1> HIDE DEF head, rest, m
<1>8. /\ IsTuple(Differences, m + n) /\ Len(Differences) = m + n
      /\ \A i \in 1..m : Differences[i] = head[i]
      /\ \A i \in 1..n : Differences[m + i] = rest[i]
  <2>1. IsJoin(head \o rest, head, m, rest, n)
    BY <1>3, <1>4, <1>7, Joined
  <2>2. QED
    BY <1>2, <2>1 DEF IsJoin
<1>9. DOMAIN Differences = 1..(m + n)
  BY <1>8 DEF IsTuple
<1>10. ASSUME NEW i \in 1..(m + n)
       PROVE  \/ i \in 1..m /\ Differences[i] = head[i]
              \/ i - m \in 1..n /\ Differences[i] = rest[i - m]
  <2>1. i \in 1..m \/ (i - m \in 1..n /\ m + (i - m) = i)
    BY <1>7
  <2>2. QED
    BY <1>8, <2>1
<1>11. \A i \in 1..(m + n) :
          \/ i \in 1..m /\ ProposedForClass(Differences[i]) /\ Differences[i].subject = "class"
          \/ /\ i - m \in 1..n /\ ProposedFor(Differences[i], changed[i - m])
             /\ Differences[i].subject = changed[i - m] /\ changed[i - m] \in ColumnNames
  BY <1>1, <1>5, <1>6, <1>10
<1>12. \A i \in DOMAIN Differences :
          ProposedForClass(Differences[i]) \/ \E c \in ColumnNames : ProposedFor(Differences[i], c)
  BY <1>9, <1>11
<1>13. ASSUME NEW i \in DOMAIN Differences, NEW j \in DOMAIN Differences,
              Differences[i].subject = Differences[j].subject
       PROVE  i = j
  <2>1. CASE Differences[i].subject = "class"
    <3>1. i \in 1..m /\ j \in 1..m
      BY <1>9, <1>11, <1>13, <2>1, ColumnsAssumption
    <3>2. QED
      BY <1>3, <1>7, <3>1
  <2>2. CASE Differences[i].subject # "class"
    <3>1. /\ i - m \in 1..n /\ Differences[i].subject = changed[i - m]
          /\ j - m \in 1..n /\ Differences[j].subject = changed[j - m]
      BY <1>9, <1>11, <1>13, <2>2
    <3>2. i - m = j - m
      BY <1>1, <1>13, <3>1
    <3>3. QED
      BY <1>3, <1>9, <3>2
  <2>3. QED
    BY <2>1, <2>2
<1>14. ASSUME NEW c \in ColumnNames, Changed(Conn(c), model.columns[c])
       PROVE  \E i \in DOMAIN Differences : ProposedFor(Differences[i], c)
  <2>1. PICK i \in 1..n : changed[i] = c
    BY <1>1, <1>14
  <2>2. m + i \in 1..(m + n)
    BY <1>7
  <2>3. QED
    BY <1>6, <1>8, <1>9, <2>1, <2>2
<1>15. created => \E i \in DOMAIN Differences : ProposedForClass(Differences[i])
  <2>1. created => 1 \in 1..m /\ 1 \in 1..(m + n)
    BY <1>7
  <2>2. QED
    BY <1>5, <1>8, <1>9, <2>1
<1>16. m + n \in Nat
  BY <1>7
<1>17. QED
  BY <1>8, <1>12, <1>13, <1>14, <1>15, <1>16

-----------------------------------------------------------------------------
\* The forms of the model, of the database and of the scripts.

\* The class of a model is one of Classes, and its columns have types.
ModelOK(m) ==
    /\ m = [columns |-> m.columns, class |-> m.class]
    /\ m.columns = [c \in ColumnNames |-> m.columns[c]]
    /\ \A c \in ColumnNames : m.columns[c] = NoType \/ IsType(m.columns[c])
    /\ m.class \in Classes \cup {NoClass}

CatalogOK(cat) ==
    /\ cat = [columns |-> cat.columns, class |-> cat.class]
    /\ cat.columns = [c \in ColumnNames |-> cat.columns[c]]
    /\ IsCatalog(cat)

ColumnType(type) == type = NoType \/ type = NullType \/ IsType(type)

\* The operations of a project whose model has this class.
OperationOK(op, class) ==
    \/ op.subject = "class" /\ op.down = NoClass /\ class # NoClass /\ op.up = class
    \/ op.subject \in ColumnNames /\ ColumnType(op.up.call) /\ ColumnType(op.down.call)

ScriptOK(script, class) ==
    /\ Len(script) \in Nat /\ IsTuple(script, Len(script))
    /\ \A i \in 1..Len(script) : OperationOK(script[i], class)
    /\ \A i, j \in 1..Len(script) : script[i].subject = script[j].subject => i = j

ScriptsOK ==
    /\ Len(revisions) \in 0..MaxRevisions /\ IsTuple(revisions, Len(revisions))
    /\ \A r \in 1..Len(revisions) : ScriptOK(revisions[r], model.class)

ReachedOK ==
    /\ Len(reached) \in {Len(revisions), Len(revisions) + 1} /\ Len(reached) \in Nat \ {0}
    /\ IsTuple(reached, Len(reached))
    /\ \A v \in 1..Len(reached) : CatalogOK(reached[v])

NumbersOK == recorded \in 0..Len(revisions) /\ pending \in 0..Len(revisions)

RunFits ==
    /\ Running =>
         /\ run.version \in {UnknownVersion, Initialize}
         /\ run.revision \in 1..Len(revisions) /\ run.at \in 1..Len(revisions[run.revision]) + 1
         /\ run.until \in 0..Len(revisions)
         /\ run.direction = "up" => run.revision <= run.until
         /\ run.direction = "down" => run.until < run.revision
    /\ ~Running => run = Idle

StopFits ==
    \/ stopped = NotStopped
    \/ stopped.direction \in {"up", "down"} /\ stopped.revision \in 1..Len(revisions)

TypeInv ==
    /\ ModelOK(model) /\ ScriptsOK /\ ReachedOK /\ CatalogOK(catalog) /\ NumbersOK
    /\ RunFits /\ StopFits /\ server \in Servers /\ blind \in BOOLEAN

LEMMA InitModel == Init => ModelOK(model)
<1> SUFFICES ASSUME Init PROVE ModelOK(model)
  OBVIOUS
<1>1. PICK types \in [ColumnNames -> UNION {TypesOf[c] : c \in ColumnNames}] :
         /\ \A c \in ColumnNames : types[c] \in TypesOf[c]
         /\ model = [columns |-> types, class |-> NoClass]
  BY DEF Init
<1>2. model.columns = types /\ model.class = NoClass
  BY <1>1
<1>3. \A c \in ColumnNames : types[c] = NoType \/ IsType(types[c])
  BY <1>1, TypesAssumption
<1>4. types = [c \in ColumnNames |-> types[c]]
  BY <1>1
<1>5. QED
  BY <1>1, <1>2, <1>3, <1>4 DEF ModelOK

\* A model that has its class keeps it.
LEMMA ModelInv ==
  ModelOK(model) /\ [Next]_vars =>
    ModelOK(model)' /\ (model.class # NoClass => model'.class = model.class)
<1> SUFFICES ASSUME ModelOK(model), [Next]_vars
             PROVE  ModelOK(model') /\ (model.class # NoClass => model'.class = model.class)
  OBVIOUS
<1>1. CASE EditModel
  <2>1. ASSUME NEW c \in ColumnNames, NEW type \in LaterTypesOf[c], model' = [model EXCEPT !.columns[c] = type]
        PROVE  ModelOK(model') /\ model'.class = model.class
    <3>1. model' = [columns |-> [model.columns EXCEPT ![c] = type], class |-> model.class]
      BY <2>1 DEF ModelOK
    <3>2. model'.columns = [model.columns EXCEPT ![c] = type] /\ model'.class = model.class
      BY <3>1
    <3>3. model.columns = [d \in ColumnNames |-> model.columns[d]]
      BY DEF ModelOK
    <3>4. model'.columns = [d \in ColumnNames |-> IF d = c THEN type ELSE model.columns[d]]
      BY <3>2, <3>3
    <3>5. type = NoType \/ IsType(type)
      BY TypesAssumption
    <3>6. \A d \in ColumnNames : model'.columns[d] = IF d = c THEN type ELSE model.columns[d]
      BY <3>4
    <3>7. \A d \in ColumnNames : model'.columns[d] = NoType \/ IsType(model'.columns[d])
      BY <3>5, <3>6 DEF ModelOK
    <3>8. model'.columns = [d \in ColumnNames |-> model'.columns[d]]
      BY <3>4
    <3>9. QED
      BY <3>1, <3>2, <3>7, <3>8 DEF ModelOK
  <2>2. ASSUME NEW element \in Classes, model.class = NoClass, model' = [model EXCEPT !.class = element]
        PROVE  ModelOK(model')
    <3>1. model' = [columns |-> model.columns, class |-> element]
      BY <2>2 DEF ModelOK
    <3>2. model'.columns = model.columns /\ model'.class = element
      BY <3>1
    <3>3. QED
      BY <3>1, <3>2 DEF ModelOK
  <2>3. QED
    BY <1>1, <2>1, <2>2 DEF EditModel
<1>2. CASE UNCHANGED model
  BY <1>2
<1>3. QED
  BY <1>1, <1>2 DEF Next, Autogenerate, Upgrade, Downgrade, ApplyOp, UpdateVersion,
     NextRevision, Stop, CleanUp, vars

\* A table has at most one designated column, if no two ask to be it.
LEMMA OneDesignated ==
  ASSUME NEW columns, NEW i \in AutoincrementColumns(columns),
         NEW j \in AutoincrementColumns(columns),
         \A k, l \in DOMAIN columns :
             /\ columns[k].primary_key /\ columns[k].autoincrement = "true"
             /\ columns[l].primary_key /\ columns[l].autoincrement = "true"
             => k = l
  PROVE  i = j
<1> DEFINE key == {k \in DOMAIN columns : columns[k].primary_key}
<1>1. i \in key /\ j \in key
  BY DEF AutoincrementColumns
<1>2. CASE key = {i} \/ key = {j}
  BY <1>1, <1>2
<1>3. CASE key # {i} /\ key # {j}
  BY <1>1, <1>3 DEF AutoincrementColumns
<1>4. QED
  BY <1>2, <1>3

\* Columns that ask for AUTO_INCREMENT in the DDL of a Table are designated.
LEMMA AsksAreDesignated ==
  ASSUME NEW element, NEW version, element.construct = "Table"
  PROVE  CreateTable(element, version).auto_increment
           \subseteq AutoincrementColumns(element.columns)
<1> DEFINE specifications == Specifications(element, TRUE)
<1>1. CreateTable(element, version)
        = Statement(specifications, PostCreateTable(element, version))
  BY DEF CreateTable
<1>2. CreateTable(element, version).auto_increment
        = {i \in DOMAIN specifications : specifications[i].auto_increment}
  BY <1>1 DEF Statement
<1>3. ASSUME NEW i \in DOMAIN specifications, specifications[i].auto_increment
      PROVE  i \in AutoincrementColumns(element.columns)
  <2>1. specifications[i] = ColumnSpecification(element.columns, i, TRUE)
    BY DEF Specifications
  <2>2. ColumnSpecification(element.columns, i, TRUE).auto_increment
    BY <1>3, <2>1
  <2>3. ColumnSpecification(element.columns, i, TRUE).auto_increment
          => i \in AutoincrementColumns(element.columns)
    BY Zenon DEF ColumnSpecification
  <2>4. QED
    BY <2>2, <2>3
<1>4. QED
  BY <1>2, <1>3

LEMMA OneAsks ==
  ASSUME NEW element \in Classes, NEW version, element.construct = "Table"
  PROVE  Cardinality(CreateTable(element, version).auto_increment) <= 1
<1> DEFINE asks == CreateTable(element, version).auto_increment
<1>1. \A i, j \in asks : i = j
  BY AsksAreDesignated, OneDesignated, MigrationAssumption
<1>2. CASE asks = {}
  BY <1>2, FS_EmptySet
<1>3. CASE asks # {}
  <2>1. PICK i : asks = {i}
    BY <1>1, <1>3
  <2>2. Cardinality(asks) = 1
    BY <2>1, FS_Singleton
  <2>3. QED
    BY <2>2
<1>4. QED
  BY <1>2, <1>3

\* CREATE TABLE of a Table asks for at most one AUTO_INCREMENT, whatever its
\* columns and the server.
THEOREM TableAsksForOne == Spec => []OneAutoIncrement
<1>1. Init => ModelOK(model)
  BY InitModel
<1>2. ModelOK(model) => OneAutoIncrement
  BY OneAsks DEF ModelOK, OneAutoIncrement
<1>3. QED
  BY <1>1, <1>2, ModelInv, PTL DEF Spec

-----------------------------------------------------------------------------
\* Types, domains and statements.

\* A type of a column is neither of the two that say there is none.
LEMMA TypesAreKnown ==
  /\ \A type : IsType(type) => type # NoType /\ type # NullType /\ Compilable(type)
  /\ NoType # NullType /\ Compilable(NoType) /\ ~Compilable(NullType)
<1>1. NoType.class = "absent" /\ NullType.class = "NullType"
  BY DEF NoType, NullType, Plain, Type
<1>2. ASSUME NEW type, IsType(type)
      PROVE  type.class # "absent" /\ type.class # "NullType"
  BY <1>2 DEF IsType, FixedTexts, NationalTexts, GenericTexts, CollectionTexts
<1>3. QED
  BY <1>1, <1>2 DEF Compilable

LEMMA DomainsAreKnown ==
  ASSUME NEW domain, IsDomain(domain)
  PROVE  domain # NoDomain
<1>1. NoDomain.base = "absent"
  BY DEF NoDomain, Bare, Text
<1>2. domain.base # "absent"
  BY Keywords DEF IsDomain, Referred
<1>3. QED
  BY <1>1, <1>2

\* Reflection knows which columns there are.
LEMMA ReflectedForms ==
  ASSUME server \in Servers, NEW domain, domain = NoDomain \/ IsDomain(domain)
  PROVE  /\ ColumnType(Reflected(domain))
         /\ Reflected(domain) = NoType <=> domain = NoDomain
<1>1. server.bySecondName \in BOOLEAN
  BY ServersAssumption
<1>2. CASE domain = NoDomain
  BY <1>2 DEF Reflected, ColumnType
<1>3. CASE domain # NoDomain
  <2>1. /\ Reflected(domain) = ResolveType(ShowColumns(domain, server.bySecondName))
        /\ IsDomain(domain)
    BY <1>3 DEF Reflected
  <2>2. Reflected(domain) = NullType \/ IsType(Reflected(domain))
    BY <1>1, <2>1, RoundTrip
  <2>3. QED
    BY <1>3, <2>2, TypesAreKnown DEF ColumnType
<1>4. QED
  BY <1>2, <1>3

LEMMA RenderedCall == \A type : RenderType(type).call = type
  BY DEF RenderType

LEMMA ScriptWritten ==
  ASSUME ModelOK(model), CatalogOK(catalog), server \in Servers
  PROVE  ScriptOK(Differences, model.class)
<1>1. ASSUME NEW op, ProposedForClass(op)
      PROVE  OperationOK(op, model.class)
  BY <1>1, PartsOfOperation DEF ProposedForClass, OperationOK
<1>2. ASSUME NEW op, NEW c \in ColumnNames, ProposedFor(op, c)
      PROVE  OperationOK(op, model.class)
  <2>1. op.subject = c /\ op.up.call = model.columns[c] /\ op.down.call = Conn(c)
    BY <1>2, PartsOfOperation, RenderedCall DEF ProposedFor
  <2>2. ColumnType(model.columns[c])
    BY DEF ModelOK, ColumnType
  <2>3. ColumnType(Conn(c))
    BY ReflectedForms DEF CatalogOK, IsCatalog, Conn
  <2>4. QED
    BY <2>1, <2>2, <2>3 DEF OperationOK
<1>3. DOMAIN Differences = 1..Len(Differences)
  BY DifferencesForm DEF IsTuple
<1>4. \A i \in 1..Len(Differences) : OperationOK(Differences[i], model.class)
  BY <1>1, <1>2, <1>3, DifferencesForm
<1>5. QED
  BY <1>3, <1>4, DifferencesForm DEF ScriptOK

\* The statements of a script in either direction are its operations.
Place(r, a, direction) == IF direction = "up" THEN a ELSE Len(revisions[r]) + 1 - a

LEMMA OpsOfScript ==
  ASSUME NEW r, Len(revisions[r]) \in Nat, NEW a \in 1..Len(revisions[r]), NEW direction
  PROVE  /\ Place(r, a, direction) \in 1..Len(revisions[r])
         /\ Op(r, a, direction) = revisions[r][Place(r, a, direction)]
  BY DEF Op, Place

\* The domain of a column declared so.
Result(rendered) ==
    IF rendered.call = NoType THEN NoDomain ELSE Domain(Compile(rendered.call))

\* The same catalog with this domain for column c.
ColumnSet(after, cat, c, domain) ==
    /\ after = [columns |-> after.columns, class |-> cat.class]
    /\ after.class = cat.class
    /\ after.columns = [d \in ColumnNames |-> after.columns[d]]
    /\ \A d \in ColumnNames : after.columns[d] = IF d = c THEN domain ELSE cat.columns[d]

LEMMA AfterColumn ==
  ASSUME NEW cat, CatalogOK(cat), NEW op, op.subject \in ColumnNames, NEW direction, NEW version
  PROVE  ColumnSet(After(cat, op, direction, version), cat, op.subject, Result(Goal(op, direction)))
<1>1. op.subject # "class"
  BY ColumnsAssumption
<1>2. After(cat, op, direction, version) = [cat EXCEPT !.columns[op.subject] = Result(Goal(op, direction))]
  BY <1>1 DEF After, Result
<1>3. cat = [columns |-> cat.columns, class |-> cat.class] /\ cat.columns = [c \in ColumnNames |-> cat.columns[c]]
  BY DEF CatalogOK
<1>4. ASSUME NEW value
      PROVE  ColumnSet([cat EXCEPT !.columns[op.subject] = value], cat, op.subject, value)
  <2>1. [cat EXCEPT !.columns[op.subject] = value]
          = [columns |-> [cat.columns EXCEPT ![op.subject] = value], class |-> cat.class]
    BY <1>3
  <2>2. [cat.columns EXCEPT ![op.subject] = value]
          = [c \in ColumnNames |-> IF c = op.subject THEN value ELSE cat.columns[c]]
    BY <1>3
  <2>3. QED
    BY <2>1, <2>2 DEF ColumnSet
<1>5. QED
  BY <1>2, <1>4

LEMMA AfterClass ==
  ASSUME NEW cat, CatalogOK(cat), NEW op, op.subject = "class", NEW direction, NEW version
  PROVE  LET after == After(cat, op, direction, version) IN
         /\ after = [columns |-> cat.columns, class |-> after.class]
         /\ after.columns = cat.columns
         /\ after.class = IF Goal(op, direction) = NoClass THEN "absent"
                          ELSE ClassCreated(Goal(op, direction), version)
  BY DEF After, CatalogOK

LEMMA ClassMade == \A element, version : ClassCreated(element, version) \in {"plain", "referable"}
  BY DEF ClassCreated

\* Whatever statement is executed, the server has only domains it knows.
LEMMA AfterOK ==
  ASSUME NEW cat, CatalogOK(cat), NEW class, NEW op, OperationOK(op, class), NEW direction, NEW version,
         op.subject # "class" => Compilable(Goal(op, direction).call)
  PROVE  CatalogOK(After(cat, op, direction, version))
<1>1. CASE op.subject = "class"
  <2>1. After(cat, op, direction, version).class \in {"absent", "plain", "referable"}
    BY <1>1, AfterClass, ClassMade
  <2>2. QED
    BY <1>1, <2>1, AfterClass DEF CatalogOK, IsCatalog
<1>2. CASE op.subject # "class"
  <2>1. op.subject \in ColumnNames /\ ColumnType(Goal(op, direction).call)
    BY <1>2 DEF OperationOK, Goal
  <2>2. Result(Goal(op, direction)) = NoDomain \/ IsDomain(Result(Goal(op, direction)))
    <3>1. CASE Goal(op, direction).call = NoType
      BY <3>1 DEF Result
    <3>2. CASE IsType(Goal(op, direction).call)
      BY <3>2, CompiledIsDomain DEF Result
    <3>3. QED
      BY <1>2, <2>1, <3>1, <3>2, TypesAreKnown DEF ColumnType
  <2>3. QED
    BY <2>1, <2>2, AfterColumn DEF ColumnSet, CatalogOK, IsCatalog
<1>3. QED
  BY <1>1, <1>2

-----------------------------------------------------------------------------
\* The type invariant.

LEMMA InitTypes == Init => TypeInv
<1> SUFFICES ASSUME Init PROVE TypeInv
  OBVIOUS
<1>1. ModelOK(model)
  BY InitModel
<1>2. CatalogOK(catalog)
  <2>1. PICK domains \in [ColumnNames -> UNION {DomainsOf[c] : c \in ColumnNames}] :
           /\ \A c \in ColumnNames : domains[c] \in DomainsOf[c]
           /\ catalog = [columns |-> domains, class |-> "absent"]
    BY DEF Init
  <2>2. catalog.columns = domains /\ catalog.class = "absent" /\ domains = [c \in ColumnNames |-> domains[c]]
    BY <2>1
  <2>3. \A c \in ColumnNames : domains[c] = NoDomain \/ IsDomain(domains[c])
    BY <2>1, TypesAssumption
  <2>4. QED
    BY <2>1, <2>2, <2>3 DEF CatalogOK, IsCatalog
<1>3. Len(revisions) = 0 /\ IsTuple(revisions, 0)
  BY TuplesAreTuples DEF Init
<1>4. ScriptsOK
  BY <1>3, MigrationAssumption DEF ScriptsOK
<1>5. ReachedOK
  <2>1. reached = <<catalog>> /\ Len(reached) = 1 /\ IsTuple(reached, 1)
    BY TuplesAreTuples DEF Init
  <2>2. \A v \in 1..1 : reached[v] = catalog
    BY <2>1
  <2>3. QED
    BY <1>2, <1>3, <2>1, <2>2 DEF ReachedOK
<1>6. NumbersOK
  BY <1>3 DEF Init, NumbersOK
<1>7. RunFits /\ StopFits
  BY DEF Init, RunFits, StopFits, Running, Idle
<1>8. server \in Servers /\ blind \in BOOLEAN
  BY DEF Init
<1>9. QED
  BY <1>1, <1>2, <1>4, <1>5, <1>6, <1>7, <1>8 DEF TypeInv

\* Scripts stay as they were written.
LEMMA ScriptsStay ==
  ASSUME ScriptsOK, UNCHANGED revisions, model.class # NoClass => model'.class = model.class
  PROVE  ScriptsOK'
<1>1. ASSUME NEW op, OperationOK(op, model.class)
      PROVE  OperationOK(op, model'.class)
  BY <1>1 DEF OperationOK
<1>2. QED
  BY <1>1 DEF ScriptsOK, ScriptOK

LEMMA RunStays ==
  ASSUME RunFits, UNCHANGED <<run, revisions, server>>
  PROVE  RunFits'
BY DEF RunFits, Running, Initialize

LEMMA EditModelTypes ==
  ASSUME TypeInv, ModelOK(model'), model.class # NoClass => model'.class = model.class,
         UNCHANGED <<catalog, server, revisions, recorded, pending, run, stopped, reached, blind>>
  PROVE  TypeInv'
<1>1. ScriptsOK' /\ RunFits'
  BY ScriptsStay, RunStays DEF TypeInv
<1>2. ReachedOK' /\ NumbersOK' /\ StopFits'
  BY DEF TypeInv, ReachedOK, NumbersOK, StopFits
<1>3. QED
  BY <1>1, <1>2 DEF TypeInv

LEMMA AutogenerateTypes ==
  ASSUME TypeInv, IInv, Autogenerate
  PROVE  TypeInv'
<1>1. /\ run = Idle /\ stopped = NotStopped /\ recorded = Len(revisions)
      /\ Len(revisions) < MaxRevisions
      /\ revisions' = Append(revisions, Differences)
      /\ UNCHANGED <<model, catalog, server, recorded, pending, run, stopped, reached, blind>>
  BY DEF Autogenerate
<1>2. Len(revisions) \in Nat /\ Len(revisions) + 1 \in 0..MaxRevisions
  BY <1>1, MigrationAssumption DEF TypeInv, ScriptsOK
<1>3. /\ IsTuple(revisions', Len(revisions) + 1) /\ Len(revisions') = Len(revisions) + 1
      /\ revisions'[Len(revisions) + 1] = Differences
      /\ \A r \in 1..Len(revisions) : revisions'[r] = revisions[r]
  BY <1>1, <1>2, AppendTuple DEF TypeInv, ScriptsOK
<1>4. ScriptsOK'
  <2>1. ScriptOK(Differences, model.class)
    BY ScriptWritten DEF TypeInv
  <2>2. ASSUME NEW r \in 1..(Len(revisions) + 1)
        PROVE  ScriptOK(revisions'[r], model.class)
    <3>1. r \in 1..Len(revisions) \/ r = Len(revisions) + 1
      BY <1>2
    <3>2. QED
      BY <1>3, <2>1, <3>1 DEF TypeInv, ScriptsOK
  <2>3. QED
    BY <1>1, <1>2, <1>3, <2>2 DEF ScriptsOK
<1>5. ReachedOK'
  <2>1. recorded + 1 \in DOMAIN reached /\ DOMAIN reached = 1..Len(reached)
    BY DEF IInv, VersionsOK, TypeInv, ReachedOK, IsTuple
  <2>2. Len(reached) \in {Len(revisions), Len(revisions) + 1}
    BY DEF TypeInv, ReachedOK
  <2>3. recorded + 1 \in 1..Len(reached) /\ recorded = Len(revisions)
    BY <1>1, <2>1
  <2>4. Len(reached) = Len(revisions) + 1
    BY <1>2, <2>2, <2>3
  <2>5. QED
    BY <1>1, <1>2, <1>3, <2>4 DEF TypeInv, ReachedOK
<1>6. NumbersOK'
  BY <1>1, <1>2, <1>3 DEF TypeInv, NumbersOK
<1>7. RunFits' /\ StopFits'
  BY <1>1 DEF RunFits, StopFits, Running, Idle
<1>8. QED
  BY <1>1, <1>4, <1>5, <1>6, <1>7 DEF TypeInv

LEMMA StartTypes ==
  ASSUME TypeInv, Upgrade \/ Downgrade
  PROVE  TypeInv'
<1>1. /\ UNCHANGED <<model, catalog, server, revisions, recorded, pending, stopped, reached, blind>>
  BY DEF Upgrade, Downgrade
<1>2. Len(revisions) \in Nat /\ recorded \in 0..Len(revisions)
  BY DEF TypeInv, ScriptsOK, NumbersOK
<1>3. RunFits'
  <2>1. ASSUME NEW r \in 1..Len(revisions), NEW direction, NEW until \in 0..Len(revisions),
               NEW version \in {UnknownVersion, Initialize}, Start(direction, r, until, version),
               (direction = "up" /\ r <= until) \/ (direction = "down" /\ until < r)
        PROVE  RunFits'
    <3>1. Len(revisions[r]) \in Nat
      BY DEF TypeInv, ScriptsOK, ScriptOK
    <3>2. /\ run'.direction = direction /\ run'.revision = r /\ run'.at = 1 /\ run'.until = until
          /\ run'.version = version
      BY <2>1 DEF Start
    <3>3. 1 \in 1..Len(revisions[r]) + 1
      BY <3>1
    <3>4. QED
      BY <1>1, <2>1, <3>2, <3>3 DEF RunFits, Running, Initialize
  <2>2. CASE Upgrade
    <3>1. PICK until \in recorded + 1..Len(revisions), version \in {UnknownVersion, Initialize} :
             Start("up", recorded + 1, until, version)
      BY <2>2 DEF Upgrade
    <3>2. recorded + 1 \in 1..Len(revisions) /\ until \in 0..Len(revisions) /\ recorded + 1 <= until
      BY <1>2
    <3>3. QED
      BY <2>1, <3>1, <3>2
  <2>3. CASE Downgrade
    <3>1. PICK until \in 0..recorded - 1, version \in {UnknownVersion, Initialize} :
             Start("down", recorded, until, version)
      BY <2>3 DEF Downgrade
    <3>2. recorded \in 1..Len(revisions) /\ until \in 0..Len(revisions) /\ until < recorded
      BY <1>2, <2>3 DEF Downgrade
    <3>3. QED
      BY <2>1, <3>1, <3>2
  <2>4. QED
    BY <2>2, <2>3
<1>4. ScriptsOK'
  BY <1>1, ScriptsStay DEF TypeInv
<1>5. ReachedOK' /\ NumbersOK' /\ StopFits'
  BY <1>1 DEF TypeInv, ReachedOK, NumbersOK, StopFits
<1>6. QED
  BY <1>1, <1>3, <1>4, <1>5 DEF TypeInv

\* The statement a run is at.
LEMMA OpAtRun ==
  ASSUME TypeInv, Running, ~OpsDone
  PROVE  /\ run.revision \in 1..Len(revisions) /\ run.at \in 1..Len(revisions[run.revision])
         /\ Len(revisions[run.revision]) \in Nat
         /\ OperationOK(Op(run.revision, run.at, run.direction), model.class)
<1>1. run.revision \in 1..Len(revisions) /\ run.at \in 1..Len(revisions[run.revision]) + 1
  BY DEF TypeInv, RunFits
<1>2. ScriptOK(revisions[run.revision], model.class)
  BY <1>1 DEF TypeInv, ScriptsOK
<1>3. Len(revisions[run.revision]) \in Nat
  BY <1>2 DEF ScriptOK
<1>4. run.at \in 1..Len(revisions[run.revision])
  BY <1>1, <1>3 DEF OpsDone
<1>5. OperationOK(Op(run.revision, run.at, run.direction), model.class)
  BY <1>2, <1>3, <1>4, OpsOfScript DEF ScriptOK
<1>6. QED
  BY <1>1, <1>3, <1>4, <1>5

LEMMA ApplyOpTypes ==
  ASSUME TypeInv, IInv, ApplyOp
  PROVE  TypeInv'
<1> DEFINE op == Op(run.revision, run.at, run.direction)
<1>1. /\ Running /\ ~OpsDone /\ Acceptable(op, run.direction)
      /\ catalog' = After(catalog, op, run.direction, run.version)
      /\ blind' = (blind \/ (op.subject = "class" /\ run.version = UnknownVersion))
      /\ recorded' = pending /\ run' = [run EXCEPT !.at = @ + 1]
      /\ UNCHANGED <<model, server, revisions, pending, stopped, reached>>
  BY DEF ApplyOp
<1>2. OperationOK(op, model.class)
  BY <1>1, OpAtRun
<1>3. CatalogOK(catalog')
  <2>1. op.subject # "class" => Compilable(Goal(op, run.direction).call)
    BY <1>1 DEF Acceptable
  <2> HIDE DEF op
  <2>2. QED
    BY <1>1, <1>2, <2>1, AfterOK DEF TypeInv
<1> HIDE DEF op
<1>4. blind' \in BOOLEAN
  BY <1>1
<1>5. RunFits'
  <2>1. /\ run' = [run EXCEPT !.at = @ + 1]
        /\ run = [ direction |-> run.direction, revision |-> run.revision, at |-> run.at,
                   until |-> run.until, version |-> run.version ]
    BY <1>1 DEF IInv, RunOK
  <2>2. /\ run'.direction = run.direction /\ run'.revision = run.revision /\ run'.at = run.at + 1
        /\ run'.until = run.until /\ run'.version = run.version
    BY <2>1
  <2>3. /\ run.at \in 1..Len(revisions[run.revision]) /\ Len(revisions[run.revision]) \in Nat
    BY <1>1, OpAtRun
  <2>4. run.at + 1 \in 1..Len(revisions[run.revision]) + 1
    BY <2>3
  <2>5. QED
    BY <1>1, <2>2, <2>4 DEF TypeInv, RunFits, Running, Initialize
<1>6. ScriptsOK'
  BY <1>1, ScriptsStay DEF TypeInv
<1>7. ReachedOK' /\ NumbersOK' /\ StopFits'
  BY <1>1 DEF TypeInv, ReachedOK, NumbersOK, StopFits
<1>8. QED
  BY <1>1, <1>3, <1>4, <1>5, <1>6, <1>7 DEF TypeInv

\* What UPDATE alembic_version does to the history.
LEMMA ReachedAfter ==
  ASSUME TypeInv, IInv, UpdateVersion
  PROVE  /\ VersionAfter \in 0..Len(revisions)
         /\ VersionAfter + 1 \in 1..Len(reached) + 1
         /\ Len(reached') \in {Len(reached), Len(reached) + 1}
         /\ Len(reached') = Len(reached) + 1 => VersionAfter + 1 = Len(reached) + 1
         /\ IsTuple(reached', Len(reached'))
         /\ VersionAfter + 1 \in 1..Len(reached')
         /\ \A v \in 1..Len(reached') : reached'[v] = IF v = VersionAfter + 1 THEN catalog ELSE reached[v]
         /\ \A v \in 1..Len(reached') : v # VersionAfter + 1 => v \in 1..Len(reached)
<1>1. /\ OpsDone /\ Running /\ pending # VersionAfter
      /\ reached' = [v \in DOMAIN reached \cup {VersionAfter + 1} |->
                        IF v = VersionAfter + 1 THEN catalog ELSE reached[v]]
  BY DEF UpdateVersion, OpsDone
<1>2. /\ run.revision \in 1..Len(revisions) /\ Len(revisions) \in Nat
      /\ run.direction \in {"up", "down"} /\ recorded = Before(run)
  BY <1>1 DEF TypeInv, RunFits, ScriptsOK, IInv, RunOK, AtNextRevision, Running
<1>3. /\ DOMAIN reached = 1..Len(reached) /\ Len(reached) \in Nat /\ recorded + 1 \in DOMAIN reached
  BY DEF TypeInv, ReachedOK, IsTuple, IInv, VersionsOK
<1>4. VersionAfter \in 0..Len(revisions) /\ VersionAfter + 1 \in 1..Len(reached) + 1
  BY <1>2, <1>3 DEF VersionAfter, Before
<1>5. PICK n \in {Len(reached), Len(reached) + 1} :
            /\ 1..n = 1..Len(reached) \cup {VersionAfter + 1}
            /\ n = Len(reached) + 1 => VersionAfter + 1 = Len(reached) + 1
  <2>1. CASE VersionAfter + 1 \in 1..Len(reached)
    <3>1. 1..Len(reached) = 1..Len(reached) \cup {VersionAfter + 1}
      BY <2>1
    <3>2. \A n \in Nat : n # n + 1
      OBVIOUS
    <3>3. Len(reached) # Len(reached) + 1
      BY <1>3, <3>2, Zenon
    <3>4. QED
      BY <3>1, <3>3
  <2>2. CASE VersionAfter + 1 = Len(reached) + 1
    <3>1. 1..(Len(reached) + 1) = 1..Len(reached) \cup {Len(reached) + 1}
      BY <1>3
    <3>2. QED
      BY <2>2, <3>1
  <2>3. VersionAfter + 1 \in 1..Len(reached) \/ VersionAfter + 1 = Len(reached) + 1
    BY <1>3, <1>4
  <2>4. QED
    BY <2>1, <2>2, <2>3
<1>6. /\ reached' = [v \in 1..n |-> reached'[v]]
      /\ \A v \in 1..n : reached'[v] = IF v = VersionAfter + 1 THEN catalog ELSE reached[v]
  BY <1>1, <1>3, <1>5
<1>7. IsTuple(reached', n) /\ Len(reached') = n
  BY <1>6, FunctionIsTuple
<1>8. VersionAfter + 1 \in 1..n /\ \A v \in 1..n : v # VersionAfter + 1 => v \in 1..Len(reached)
  BY <1>5
<1>9. QED
  BY <1>4, <1>5, <1>6, <1>7, <1>8

LEMMA UpdateVersionTypes ==
  ASSUME TypeInv, IInv, UpdateVersion
  PROVE  TypeInv'
<1>1. /\ OpsDone /\ Running /\ pending' = VersionAfter
      /\ UNCHANGED <<model, catalog, server, revisions, recorded, run, stopped, blind>>
  BY DEF UpdateVersion, OpsDone
<1>2. Len(revisions) \in Nat /\ Len(reached) \in Nat
  BY DEF TypeInv, ScriptsOK, ReachedOK
<1>3. Len(reached') \in {Len(revisions), Len(revisions) + 1} /\ Len(reached') \in Nat \ {0}
  <2>1. Len(reached') \in {Len(reached), Len(reached) + 1}
    BY ReachedAfter
  <2>2. Len(reached') = Len(reached) + 1 => Len(reached) + 1 <= Len(revisions) + 1
    BY <1>2, ReachedAfter
  <2>3. QED
    BY <1>2, <2>1, <2>2 DEF TypeInv, ReachedOK
<1>4. \A v \in 1..Len(reached') : CatalogOK(reached'[v])
  BY ReachedAfter DEF TypeInv, ReachedOK
<1>5. ReachedOK'
  BY <1>1, <1>3, <1>4, ReachedAfter DEF ReachedOK
<1>6. NumbersOK'
  BY <1>1, ReachedAfter DEF TypeInv, NumbersOK
<1>7. ScriptsOK' /\ RunFits' /\ StopFits'
  BY <1>1, ScriptsStay, RunStays DEF TypeInv, StopFits
<1>8. QED
  BY <1>1, <1>5, <1>6, <1>7 DEF TypeInv

LEMMA NextRevisionTypes ==
  ASSUME TypeInv, IInv, NextRevision
  PROVE  TypeInv'
<1>1. /\ OpsDone /\ Running /\ pending = VersionAfter /\ recorded' = pending /\ stopped' = NotStopped
      /\ run' = IF VersionAfter = run.until
                  THEN Idle
                  ELSE [run EXCEPT !.revision = @ + Step, !.at = 1]
      /\ UNCHANGED <<model, catalog, server, revisions, pending, reached, blind>>
  BY DEF NextRevision, OpsDone, CommitsNow, TransactionalDdl
<1>2. RunFits'
  <2>1. CASE VersionAfter = run.until
    BY <1>1, <2>1 DEF RunFits, Running, Idle
  <2>2. CASE VersionAfter # run.until
    <3>1. /\ run' = [run EXCEPT !.revision = @ + Step, !.at = 1]
          /\ run = [ direction |-> run.direction, revision |-> run.revision, at |-> run.at,
                     until |-> run.until, version |-> run.version ]
          /\ run.direction \in {"none", "up", "down"}
      BY <1>1, <2>2 DEF IInv, RunOK
    <3>2. /\ run'.direction = run.direction /\ run'.revision = run.revision + Step /\ run'.at = 1
          /\ run'.until = run.until /\ run'.version = run.version
      BY <3>1
    <3>3. /\ run.version \in {UnknownVersion, Initialize}
          /\ run.revision \in 1..Len(revisions) /\ run.until \in 0..Len(revisions)
          /\ run.direction = "up" => run.revision <= run.until
          /\ run.direction = "down" => run.until < run.revision
      BY <1>1 DEF TypeInv, RunFits
    <3>4. Len(revisions) \in Nat
      BY DEF TypeInv, ScriptsOK
    <3>5. /\ run.revision + Step \in 1..Len(revisions)
          /\ run.direction = "up" => run.revision + Step <= run.until
          /\ run.direction = "down" => run.until < run.revision + Step
      <4>1. CASE run.direction = "up"
        BY <2>2, <3>3, <3>4, <4>1 DEF VersionAfter, Step
      <4>2. CASE run.direction = "down"
        BY <2>2, <3>3, <3>4, <4>2 DEF VersionAfter, Step
      <4>3. QED
        BY <1>1, <3>1, <4>1, <4>2 DEF Running
    <3>6. Len(revisions[run.revision + Step]) \in Nat
      BY <3>5 DEF TypeInv, ScriptsOK, ScriptOK
    <3>7. 1 \in 1..Len(revisions[run.revision + Step]) + 1
      BY <3>6
    <3>8. QED
      BY <1>1, <3>2, <3>3, <3>5, <3>7 DEF RunFits, Running, Initialize
  <2>3. QED
    BY <2>1, <2>2
<1>3. ScriptsOK' /\ StopFits'
  BY <1>1, ScriptsStay DEF TypeInv, StopFits
<1>4. ReachedOK' /\ NumbersOK'
  BY <1>1 DEF TypeInv, ReachedOK, NumbersOK
<1>5. QED
  BY <1>1, <1>2, <1>3, <1>4 DEF TypeInv

LEMMA StopTypes ==
  ASSUME TypeInv, IInv, Stop
  PROVE  TypeInv'
<1>1. /\ Running /\ pending' = recorded /\ run' = Idle
      /\ stopped' = IF catalog = reached[recorded + 1]
                      THEN NotStopped
                      ELSE [direction |-> run.direction, revision |-> run.revision]
      /\ UNCHANGED <<model, catalog, server, revisions, recorded, reached, blind>>
  BY DEF Stop
<1>2. RunFits'
  BY <1>1 DEF RunFits, Running, Idle
<1>3. StopFits'
  <2>1. run.direction \in {"up", "down"} /\ run.revision \in 1..Len(revisions)
    BY <1>1 DEF TypeInv, RunFits, IInv, RunOK, Running
  <2>2. QED
    BY <1>1, <2>1 DEF StopFits
<1>4. ScriptsOK'
  BY <1>1, ScriptsStay DEF TypeInv
<1>5. ReachedOK' /\ NumbersOK'
  BY <1>1 DEF TypeInv, ReachedOK, NumbersOK
<1>6. QED
  BY <1>1, <1>2, <1>3, <1>4, <1>5 DEF TypeInv

LEMMA CleanUpTypes ==
  ASSUME TypeInv, IInv, CleanUp
  PROVE  TypeInv'
<1>1. /\ catalog' = reached[recorded + 1] /\ stopped' = NotStopped
      /\ UNCHANGED <<model, server, revisions, recorded, pending, run, reached, blind>>
  BY DEF CleanUp
<1>2. CatalogOK(catalog')
  BY <1>1 DEF TypeInv, ReachedOK, IsTuple, IInv, VersionsOK
<1>3. ScriptsOK' /\ RunFits' /\ StopFits'
  BY <1>1, ScriptsStay, RunStays DEF TypeInv, StopFits
<1>4. ReachedOK' /\ NumbersOK'
  BY <1>1 DEF TypeInv, ReachedOK, NumbersOK
<1>5. QED
  BY <1>1, <1>2, <1>3, <1>4 DEF TypeInv

LEMMA NextTypes == TypeInv /\ IInv /\ [Next]_vars => TypeInv'
<1> SUFFICES ASSUME TypeInv, IInv, [Next]_vars PROVE TypeInv'
  OBVIOUS
<1>1. ModelOK(model') /\ (model.class # NoClass => model'.class = model.class)
  BY ModelInv DEF TypeInv
<1>2. CASE EditModel \/ UNCHANGED vars
  BY <1>1, <1>2, EditModelTypes DEF EditModel, vars
<1>3. QED
  BY <1>2, AutogenerateTypes, StartTypes, ApplyOpTypes, UpdateVersionTypes, NextRevisionTypes,
     StopTypes, CleanUpTypes DEF Next

LEMMA AlwaysTypes == Spec => [](TypeInv /\ IInv)
<1>1. Init => TypeInv /\ IInv
  BY InitTypes, InitInv
<1>2. (TypeInv /\ IInv) /\ [Next]_vars => (TypeInv /\ IInv)'
  BY NextTypes, NextInv
<1>3. QED
  BY <1>1, <1>2, PTL DEF Spec

\* Every database a migration makes or comes back to has only domains that the server
\* knows, and versions, runs and scripts stay within what has been written.
THEOREM TypeCorrect == Spec => []TypeOK
<1>1. TypeInv /\ IInv => TypeOK
  <2> SUFFICES ASSUME TypeInv, IInv PROVE TypeOK
    OBVIOUS
  <2>1. IsCatalog(catalog) /\ \A v \in DOMAIN reached : IsCatalog(reached[v])
    BY DEF TypeInv, ReachedOK, IsTuple, CatalogOK
  <2>2. Len(revisions) \in Nat /\ Len(revisions) <= MaxRevisions
    BY MigrationAssumption DEF TypeInv, ScriptsOK
  <2>3. Len(reached) <= Len(revisions) + 1
    BY <2>2 DEF TypeInv, ReachedOK
  <2>4. run.direction \in Directions /\ run.until \in 0..Len(revisions)
    BY <2>2 DEF TypeInv, RunFits, IInv, RunOK, Directions, Idle
  <2>5. stopped.direction \in Directions
    BY DEF TypeInv, StopFits, Directions, NotStopped
  <2>6. QED
    BY <2>1, <2>2, <2>3, <2>4, <2>5 DEF TypeOK, TypeInv, NumbersOK, RunFits
<1>2. QED
  BY <1>1, AlwaysTypes, PTL

-----------------------------------------------------------------------------
\* What autogenerate overlooks.

LEMMA QuietColumn ==
  ASSUME server \in Servers, NEW domain, domain = NoDomain \/ IsDomain(domain),
         NEW meta, meta = NoType \/ IsType(meta), ~Changed(Reflected(domain), meta)
  PROVE  LET conn == Reflected(domain) IN
         \/ domain = IF meta = NoType THEN NoDomain ELSE Domain(Compile(meta))
         \/ conn = NullType \/ Lossy(domain)
         \/ conn.class \in DOMAIN Arities /\ Len(conn.ints) # Len(Compile(meta).ints)
<1>1. server.bySecondName \in BOOLEAN
  BY ServersAssumption
<1>2. CASE NoType \in {Reflected(domain), meta}
  <2>1. Reflected(domain) = NoType /\ meta = NoType
    BY <1>2 DEF Changed
  <2>2. domain = NoDomain
    BY <2>1, ReflectedForms
  <2>3. QED
    BY <2>1, <2>2
<1>3. CASE NoType \notin {Reflected(domain), meta}
  <2>1. IsDomain(domain) /\ IsType(meta) /\ domain # NoDomain /\ meta # NoType
    BY <1>3, ReflectedForms
  <2>2. Reflected(domain) = ResolveType(ShowColumns(domain, server.bySecondName))
    BY <2>1 DEF Reflected
  <2>3. CASE Compilable(Reflected(domain))
    <3>1. ~CompareType(Reflected(domain), meta)
      BY <1>3, <2>1, <2>3, TypesAreKnown DEF Changed
    <3>2. QED
      BY <1>1, <2>1, <2>2, <3>1, QuietIsSame
  <2>4. CASE ~Compilable(Reflected(domain))
    BY <1>3, <2>4, ReflectedForms, TypesAreKnown DEF ColumnType
  <2>5. QED
    BY <2>3, <2>4
<1>4. QED
  BY <1>2, <1>3

\* Where autogenerate proposes nothing, the database has the column the model asks
\* for, unless reflection loses the type or gives another number of arguments.
THEOREM NothingOverlooked == Spec => []QuietMeansSame
<1>1. TypeInv => QuietMeansSame
  <2> SUFFICES ASSUME TypeInv, NEW c \in ColumnNames,
                      ~Changed(Reflected(catalog.columns[c]), model.columns[c])
               PROVE  LET conn == Reflected(catalog.columns[c])
                          meta == model.columns[c]
                      IN  \/ catalog.columns[c] = IF meta = NoType THEN NoDomain ELSE Domain(Compile(meta))
                          \/ conn = NullType \/ Lossy(catalog.columns[c])
                          \/ conn.class \in DOMAIN Arities /\ Len(conn.ints) # Len(Compile(meta).ints)
    BY DEF QuietMeansSame
  <2>1. catalog.columns[c] = NoDomain \/ IsDomain(catalog.columns[c])
    BY DEF TypeInv, CatalogOK, IsCatalog
  <2>2. model.columns[c] = NoType \/ IsType(model.columns[c])
    BY DEF TypeInv, ModelOK
  <2>3. server \in Servers
    BY DEF TypeInv
  <2>4. QED
    BY <2>1, <2>2, <2>3, QuietColumn
<1>2. QED
  BY <1>1, AlwaysTypes, PTL

-----------------------------------------------------------------------------
\* The class.

\* The two numbers a version begins with stay where they are.
LEMMA FirstNumbersStay ==
  ASSUME server \in Servers
  PROVE  /\ Len(Initialize) \in Nat /\ Len(Initialize) >= 2
         /\ DOMAIN Initialize = 1..Len(Initialize) /\ IsTuple(Initialize, Len(Initialize))
         /\ Initialize[1] = server.version[1].number /\ Initialize[2] = server.version[2].number
         /\ Initialize[1] \in Nat /\ Initialize[2] \in Nat
<1> DEFINE components == server.version
           numbered == {i \in DOMAIN components : components[i].number # NoNumber}
           n == Cardinality(numbered)
<1>1. /\ components \in Seq([number : Nat \cup {NoNumber}]) /\ Len(components) \in Nat /\ Len(components) >= 2
      /\ DOMAIN components = 1..Len(components)
      /\ components[1].number # NoNumber /\ components[2].number # NoNumber
  BY ServersAssumption, LenProperties
<1>2. /\ 1 \in DOMAIN components /\ 2 \in DOMAIN components
      /\ \A i \in DOMAIN components : components[i] \in [number : Nat \cup {NoNumber}]
  <2> HIDE DEF components
  <2>1. \A i \in 1..Len(components) : components[i] \in [number : Nat \cup {NoNumber}]
    BY <1>1, SeqIsTuple
  <2>2. 1 \in 1..Len(components) /\ 2 \in 1..Len(components)
    BY <1>1
  <2>3. QED
    BY <1>1, <2>1, <2>2
<1>3. components[1].number \in Nat /\ components[2].number \in Nat
  BY <1>1, <1>2
<1>4. numbered \in SUBSET (1..Len(components)) /\ 1 \in numbered /\ 2 \in numbered
  BY <1>1, <1>2
<1>5. Cardinality(numbered) \in Nat /\ \E at : Takes(at, components, numbered)
  BY <1>1, <1>4, AtPositions
<1>6. PICK at : /\ at \in [1..n -> numbered]
                /\ At(components, numbered) = [k \in 1..n |-> components[at[k]]]
                /\ \A k, l \in 1..n : k < l => at[k] < at[l]
                /\ \A i \in numbered : \E k \in 1..n : at[k] = i
  BY <1>5 DEF Takes
<1>7. Initialize = [k \in 1..n |-> components[at[k]].number]
  <2>1. numbered # {}
    BY <1>4
  <2>2. Initialize = [i \in DOMAIN At(components, numbered) |-> At(components, numbered)[i].number]
    BY <2>1 DEF Initialize, GetServerVersionInfo
  <2>3. QED
    BY <1>6, <2>2
<1>8. n \in Nat /\ \A k \in 1..n : at[k] \in 1..Len(components)
  BY <1>4, <1>5, <1>6
<1> HIDE DEF components, numbered, n
<1>9. PICK k \in 1..n, l \in 1..n : at[k] = 1 /\ at[l] = 2
  BY <1>4, <1>6
<1>10. k = 1
  <2>1. \A j \in 1..n : ~(j < k)
    <3> TAKE j \in 1..n
    <3>1. j < k => at[j] < at[k]
      BY <1>6
    <3>2. at[j] \in 1..Len(components)
      BY <1>8
    <3>3. QED
      BY <1>1, <1>9, <3>1, <3>2
  <2>2. 1 \in 1..n
    BY <1>8
  <2>3. QED
    BY <1>8, <2>1, <2>2
<1>11. l = 2
  <2>1. l # 1 /\ l \in Nat /\ 2 \in 1..n
    BY <1>8, <1>9, <1>10
  <2>2. CASE l > 2
    <3>1. at[1] < at[2] /\ at[2] < at[l]
      BY <1>6, <1>9, <2>1, <2>2, <1>10
    <3>2. at[2] \in Nat
      BY <1>1, <1>8, <2>1
    <3>3. QED
      BY <1>9, <1>10, <3>1, <3>2
  <2>3. QED
    BY <2>1, <2>2, <1>8
<1>12. at[1] = 1 /\ at[2] = 2 /\ 1 \in 1..n /\ 2 \in 1..n
  BY <1>9, <1>10, <1>11
<1>13. Initialize[1] = components[1].number /\ Initialize[2] = components[2].number
  BY <1>7, <1>12
<1>14. Len(Initialize) = n /\ DOMAIN Initialize = 1..n /\ IsTuple(Initialize, n)
  <2>1. Initialize = [j \in 1..n |-> Initialize[j]]
    BY <1>7
  <2>2. QED
    BY <1>8, <2>1, FunctionIsTuple
<1>15. n >= 2
  BY <1>8, <1>12
<1>16. QED
  BY <1>3, <1>8, <1>13, <1>14, <1>15 DEF components

LEMMA StartOf ==
  ASSUME NEW n \in Nat, NEW s, IsTuple(s, n), NEW k \in 0..n
  PROVE  SubSeq(s, 1, k) = [i \in 1..k |-> s[i]]
<1> DEFINE S == {s[i] : i \in 1..n}
<1>1. \A i \in 1..n : s[i] \in S
  OBVIOUS
<1> HIDE DEF S
<1>2. s \in Seq(S) /\ Len(s) = n
  BY <1>1, TupleIsSeq
<1>3. /\ SubSeq(s, 1, k) \in Seq(S) /\ Len(SubSeq(s, 1, k)) = k
      /\ \A i \in 1..k : SubSeq(s, 1, k)[i] = s[i]
  <2>1. 1 \in 1..Len(s) + 1 /\ k \in 1 - 1..Len(s)
    BY <1>2
  <2>2. /\ SubSeq(s, 1, k) \in Seq(S) /\ Len(SubSeq(s, 1, k)) = k - 1 + 1
        /\ \A i \in 1..k - 1 + 1 : SubSeq(s, 1, k)[i] = s[1 + i - 1]
    BY <1>2, <2>1, SubSeqProperties
  <2>3. QED
    BY <2>2
<1>4. SubSeq(s, 1, k) = [i \in 1..k |-> SubSeq(s, 1, k)[i]]
  BY <1>3, SeqIsTuple DEF IsTuple
<1>5. QED
  BY <1>3, <1>4

\* A version from 11 on is one.
LEMMA KnowsTheOption ==
  ASSUME server \in Servers, server.version[1].number >= 11
  PROVE  SupportsDontReuseOid(Initialize)
<1> DEFINE v == Initialize
           w == <<11, 0>>
<1>1. /\ Len(v) \in Nat /\ Len(v) >= 2 /\ DOMAIN v = 1..Len(v) /\ IsTuple(v, Len(v))
      /\ v[1] >= 11 /\ v[1] \in Nat /\ v[2] \in Nat
  BY FirstNumbersStay
<1>2. Len(w) = 2 /\ DOMAIN w = 1..2 /\ w[1] = 11 /\ w[2] = 0 /\ IsTuple(w, 2)
  BY TuplesAreTuples
<1> HIDE DEF v, w
<1>3. 1 \in DOMAIN v \cap DOMAIN w /\ 2 \in DOMAIN v \cap DOMAIN w
  BY <1>1, <1>2
<1>4. \A k \in 0..2 : /\ SubSeq(v, 1, k) = [i \in 1..k |-> v[i]]
                      /\ SubSeq(w, 1, k) = [i \in 1..k |-> w[i]]
  <2> TAKE k \in 0..2
  <2>1. k \in 0..Len(v)
    BY <1>1
  <2>2. QED
    BY <1>1, <1>2, <2>1, StartOf
<1>5. AtLeast(v, w)
  <2>1. CASE v[1] > 11
    <3>1. SubSeq(v, 1, 0) = SubSeq(w, 1, 0)
      <4>1. SubSeq(v, 1, 0) = [i \in 1..0 |-> v[i]] /\ SubSeq(w, 1, 0) = [i \in 1..0 |-> w[i]]
        BY <1>4
      <4>2. [i \in 1..0 |-> v[i]] = [i \in 1..0 |-> w[i]]
        OBVIOUS
      <4>3. QED
        BY <4>1, <4>2
    <3>2. v[1] > w[1] /\ SubSeq(v, 1, 1 - 1) = SubSeq(w, 1, 1 - 1)
      BY <1>2, <2>1, <3>1
    <3>3. QED
      BY <1>3, <3>2 DEF AtLeast
  <2>2. CASE v[1] = 11 /\ v[2] > 0
    <3>1. SubSeq(v, 1, 1) = SubSeq(w, 1, 1)
      <4>1. SubSeq(v, 1, 1) = [i \in 1..1 |-> v[i]] /\ SubSeq(w, 1, 1) = [i \in 1..1 |-> w[i]]
        BY <1>4
      <4>2. \A i \in 1..1 : v[i] = w[i]
        BY <1>2, <2>2
      <4>3. QED
        BY <4>1, <4>2
    <3>2. v[2] > w[2] /\ SubSeq(v, 1, 2 - 1) = SubSeq(w, 1, 2 - 1)
      BY <1>2, <2>2, <3>1
    <3>3. QED
      BY <1>3, <3>2 DEF AtLeast
  <2>3. CASE v[1] = 11 /\ v[2] = 0
    <3>1. SubSeq(v, 1, 2) = [i \in 1..2 |-> v[i]] /\ w = [i \in 1..2 |-> w[i]]
      BY <1>2, <1>4 DEF IsTuple
    <3>2. \A i \in 1..2 : v[i] = w[i]
      BY <1>2, <2>3
    <3>3. SubSeq(v, 1, 2) = w
      BY <3>1, <3>2
    <3>4. QED
      BY <1>1, <1>2, <3>3 DEF AtLeast
  <2>4. QED
    BY <1>1, <2>1, <2>2, <2>3
<1>6. QED
  BY <1>5 DEF SupportsDontReuseOid, v, w

LEMMA CreatedAsAsked ==
  ASSUME NEW element \in Classes, AsksReferable(element), NEW version, SupportsDontReuseOid(version)
  PROVE  ClassCreated(element, version) = "referable"
<1>1. CASE element.construct = "Table"
  <2>1. element.dont_reuse_oid
    BY <1>1 DEF AsksReferable
  <2>2. CreateTable(element, version).options = {"DONT_REUSE_OID"}
    BY <1>1, <2>1 DEF CreateTable, Statement, PostCreateTable
  <2>3. QED
    BY <2>2 DEF ClassCreated
<1>2. CASE element.construct = "CreateTableDontReuseOID"
  BY <1>2 DEF ClassCreated, CreateTable, Statement, CreateTableDontReuseOID
<1>3. CASE element.construct = "CreateTableUnder"
  BY <1>3, MigrationAssumption DEF AsksReferable
<1>4. QED
  BY <1>1, <1>2, <1>3, MigrationAssumption

\* The model asks for a class that this server can make referable.
CanRefer(class) == class # NoClass /\ AsksReferable(class) /\ server.version[1].number >= 11

\* A catalog's class, for a project whose model has this one.
ClassFits(made, class, known) ==
    /\ class = NoClass => made = "absent"
    /\ CanRefer(class) /\ known => made # "plain"

ClassesFit ==
    /\ ClassFits(catalog.class, model.class, ~blind)
    /\ \A v \in 1..Len(reached) : ClassFits(reached[v].class, model.class, ~blind)

LEMMA InitClasses == Init => ClassesFit
<1> SUFFICES ASSUME Init PROVE ClassesFit
  OBVIOUS
<1>1. catalog.class = "absent" /\ reached = <<catalog>>
  BY DEF Init
<1>2. Len(reached) = 1 /\ reached[1].class = "absent"
  BY <1>1
<1>3. QED
  BY <1>1, <1>2 DEF ClassesFit, ClassFits

LEMMA ApplyOpClasses ==
  ASSUME TypeInv, IInv, ClassesFit, ApplyOp
  PROVE  ClassesFit'
<1> DEFINE op == Op(run.revision, run.at, run.direction)
<1>1. /\ Running /\ ~OpsDone
      /\ catalog' = After(catalog, op, run.direction, run.version)
      /\ blind' = (blind \/ (op.subject = "class" /\ run.version = UnknownVersion))
      /\ UNCHANGED <<model, server, reached>>
  BY DEF ApplyOp
<1>2. OperationOK(op, model.class) /\ run.version \in {UnknownVersion, Initialize}
  BY <1>1, OpAtRun DEF TypeInv, RunFits
<1> HIDE DEF op
<1>3. ~blind' => ~blind
  BY <1>1
<1>4. ClassFits(catalog'.class, model.class, ~blind')
  <2>1. CASE op.subject # "class"
    <3>1. CatalogOK(catalog) /\ op.subject \in ColumnNames
      BY <1>2, <2>1 DEF OperationOK, TypeInv
    <3>2. After(catalog, op, run.direction, run.version).class = catalog.class
      <4>1. ColumnSet(After(catalog, op, run.direction, run.version), catalog, op.subject,
                      Result(Goal(op, run.direction)))
        BY <3>1, AfterColumn
      <4>2. QED
        BY <4>1 DEF ColumnSet
    <3>3. QED
      BY <1>1, <1>3, <3>2 DEF ClassesFit, ClassFits
  <2>2. CASE op.subject = "class"
    <3>1. op.down = NoClass /\ op.up = model.class /\ model.class # NoClass
      BY <1>2, <2>2, ColumnsAssumption DEF OperationOK
    <3>2. CASE run.direction = "up"
      <4>1. catalog'.class = ClassCreated(model.class, run.version)
        BY <1>1, <2>2, <3>1, <3>2, AfterClass DEF TypeInv, Goal
      <4>2. ASSUME CanRefer(model.class), ~blind'
            PROVE  catalog'.class = "referable"
        <5>1. run.version = Initialize
          BY <1>1, <1>2, <2>2, <4>2
        <5>2. model.class \in Classes
          BY <3>1 DEF TypeInv, ModelOK
        <5>3. SupportsDontReuseOid(Initialize)
          BY <4>2, KnowsTheOption DEF CanRefer, TypeInv
        <5>4. QED
          BY <4>1, <4>2, <5>1, <5>2, <5>3, CreatedAsAsked DEF CanRefer
      <4>3. QED
        BY <3>1, <4>2 DEF ClassFits
    <3>3. CASE run.direction # "up"
      <4>1. catalog'.class = "absent"
        BY <1>1, <2>2, <3>1, <3>3, AfterClass DEF TypeInv, Goal
      <4>2. QED
        BY <4>1 DEF ClassFits
    <3>4. QED
      BY <3>2, <3>3
  <2>3. QED
    BY <2>1, <2>2
<1>5. \A v \in 1..Len(reached) : ClassFits(reached[v].class, model.class, ~blind')
  BY <1>3 DEF ClassesFit, ClassFits
<1>6. QED
  BY <1>1, <1>4, <1>5 DEF ClassesFit, ClassFits, CanRefer

LEMMA NextClasses == TypeInv /\ IInv /\ ClassesFit /\ [Next]_vars => ClassesFit'
<1> SUFFICES ASSUME TypeInv, IInv, ClassesFit, [Next]_vars PROVE ClassesFit'
  OBVIOUS
<1>1. CASE EditModel
  <2>1. UNCHANGED <<catalog, server, reached, blind>>
    BY <1>1 DEF EditModel
  <2>2. CASE model.class = NoClass
    <3>1. catalog.class = "absent" /\ \A v \in 1..Len(reached) : reached[v].class = "absent"
      BY <2>2 DEF ClassesFit, ClassFits
    <3>2. QED
      BY <2>1, <3>1 DEF ClassesFit, ClassFits
  <2>3. CASE model.class # NoClass
    <3>1. model'.class = model.class
      BY <2>3, ModelInv DEF TypeInv
    <3>2. QED
      BY <2>1, <3>1 DEF ClassesFit, ClassFits, CanRefer
  <2>4. QED
    BY <2>2, <2>3
<1>2. CASE UpdateVersion
  <2>1. UNCHANGED <<model, catalog, server, blind>>
    BY <1>2 DEF UpdateVersion
  <2>2. \A v \in 1..Len(reached') :
           reached'[v] = catalog \/ (v \in 1..Len(reached) /\ reached'[v] = reached[v])
    BY <1>2, ReachedAfter
  <2>3. QED
    BY <2>1, <2>2 DEF ClassesFit, ClassFits, CanRefer
<1>3. CASE CleanUp
  <2>1. catalog' = reached[recorded + 1] /\ UNCHANGED <<model, server, reached, blind>>
    BY <1>3 DEF CleanUp
  <2>2. recorded + 1 \in 1..Len(reached)
    BY DEF IInv, VersionsOK, TypeInv, ReachedOK, IsTuple
  <2>3. QED
    BY <2>1, <2>2 DEF ClassesFit, ClassFits, CanRefer
<1>4. CASE UNCHANGED <<model, catalog, server, reached, blind>>
  BY <1>4 DEF ClassesFit, ClassFits, CanRefer
<1>5. QED
  BY <1>1, <1>2, <1>3, <1>4, ApplyOpClasses DEF Next, Autogenerate, Upgrade, Downgrade, NextRevision, Stop, vars

\* A class asked to be referable never ends up plain on a server from 11.0 on, as long
\* as no statement about the class was compiled offline.
THEOREM ReferableWhenKnown == Spec => []ReferableAsAsked
<1>1. TypeInv /\ ClassesFit => ReferableAsAsked
  <2> SUFFICES ASSUME TypeInv, ClassesFit, catalog.class = "plain", AsksReferable(model.class),
                      server.version[1].number >= 11
               PROVE  blind
    BY DEF ReferableAsAsked
  <2>1. model.class # NoClass
    BY DEF ClassesFit, ClassFits
  <2>2. CanRefer(model.class)
    BY <2>1 DEF CanRefer
  <2>3. QED
    BY <2>2 DEF ClassesFit, ClassFits
<1>2. Init => ClassesFit
  BY InitClasses
<1>3. (TypeInv /\ IInv) /\ ClassesFit /\ [Next]_vars => ClassesFit'
  BY NextClasses
<1>4. QED
  BY <1>1, <1>2, <1>3, AlwaysTypes, PTL DEF Spec

-----------------------------------------------------------------------------
\* A database between two versions.

Touches(script, subject) == \E i \in 1..Len(script) : script[i].subject = subject

OpOn(script, subject) == script[CHOOSE i \in 1..Len(script) : script[i].subject = subject]

\* Statement i of the script is among the first ones executed in this direction.
Executed(script, i, direction, done) ==
    IF direction = "up" THEN i <= done ELSE Len(script) + 1 - i <= done

\* The database has what the operation leads to.
Arrived(cat, op, direction) ==
    LET goal == Goal(op, direction)
    IN  IF op.subject = "class"
          THEN cat.class = "absent" <=> goal = NoClass
          ELSE Compilable(goal.call) /\ cat.columns[op.subject] = Result(goal)

\* Only what the script is about differs from the version the run began with, and
\* what has been executed has had its effect.
Midway(cat, base, script, direction, done) ==
    /\ \A c \in ColumnNames : ~Touches(script, c) => cat.columns[c] = base.columns[c]
    /\ ~Touches(script, "class") => cat.class = base.class
    /\ \A i \in 1..Len(script) : Executed(script, i, direction, done) => Arrived(cat, script[i], direction)

RunMidway ==
    Running =>
      Midway(catalog, reached[recorded + 1], revisions[run.revision], run.direction, run.at - 1)

StopMidway ==
    ~Running /\ stopped # NotStopped =>
      Midway(catalog, reached[recorded + 1], revisions[stopped.revision], stopped.direction, 0)

CatalogMidway == RunMidway /\ StopMidway

LEMMA TouchedOnce ==
  ASSUME NEW script, NEW class, ScriptOK(script, class), NEW i \in 1..Len(script)
  PROVE  Touches(script, script[i].subject) /\ OpOn(script, script[i].subject) = script[i]
BY DEF ScriptOK, Touches, OpOn

LEMMA NothingExecuted ==
  ASSUME NEW script, Len(script) \in Nat, NEW direction, NEW cat
  PROVE  Midway(cat, cat, script, direction, 0)
<1>1. \A i \in 1..Len(script) : ~Executed(script, i, direction, 0)
  BY DEF Executed
<1>2. QED
  BY <1>1 DEF Midway

LEMMA FewerExecuted ==
  ASSUME NEW script, Len(script) \in Nat, NEW direction, NEW other, NEW cat, NEW base, NEW done,
         Midway(cat, base, script, direction, done)
  PROVE  Midway(cat, base, script, other, 0)
<1>1. \A i \in 1..Len(script) : ~Executed(script, i, other, 0)
  BY DEF Executed
<1>2. QED
  BY <1>1 DEF Midway

\* One statement more.
LEMMA OneMoreExecuted ==
  ASSUME TypeInv, ApplyOp, NEW base, NEW script, script = revisions[run.revision],
         Midway(catalog, base, script, run.direction, run.at - 1)
  PROVE  Midway(catalog', base, script, run.direction, run.at)
<1> DEFINE op == Op(run.revision, run.at, run.direction)
           p == Place(run.revision, run.at, run.direction)
<1>1. /\ Running /\ ~OpsDone /\ Acceptable(op, run.direction)
      /\ catalog' = After(catalog, op, run.direction, run.version)
  BY DEF ApplyOp
<1>2. /\ Len(script) \in Nat /\ run.at \in 1..Len(script) /\ OperationOK(op, model.class)
      /\ p \in 1..Len(script) /\ op = script[p]
  BY <1>1, OpAtRun, OpsOfScript
<1>3. ScriptOK(script, model.class)
  BY <1>1, OpAtRun DEF TypeInv, ScriptsOK
<1>4. \A i \in 1..Len(script) :
         Executed(script, i, run.direction, run.at) =>
            i = p \/ (Executed(script, i, run.direction, run.at - 1) /\ script[i].subject # op.subject)
  <2> SUFFICES ASSUME NEW i \in 1..Len(script), Executed(script, i, run.direction, run.at), i # p
               PROVE  Executed(script, i, run.direction, run.at - 1) /\ script[i].subject # op.subject
    OBVIOUS
  <2>1. script[i].subject # op.subject
    BY <1>2, <1>3 DEF ScriptOK
  <2>2. p = IF run.direction = "up" THEN run.at ELSE Len(script) + 1 - run.at
    BY DEF Place
  <2> HIDE DEF p, op
  <2>3. Executed(script, i, run.direction, run.at - 1)
    BY <1>2, <2>2 DEF Executed
  <2>4. QED
    BY <2>1, <2>3
<1>5. Acceptable(op, run.direction) => op.subject = "class" \/ Compilable(Goal(op, run.direction).call)
  BY DEF Acceptable
<1>6. Touches(script, op.subject)
  BY <1>2, <1>3, TouchedOnce
<1> HIDE DEF op, p
<1>7. CASE op.subject = "class"
  <2>1. /\ catalog'.columns = catalog.columns
        /\ catalog'.class = IF Goal(op, run.direction) = NoClass THEN "absent"
                            ELSE ClassCreated(Goal(op, run.direction), run.version)
    BY <1>1, <1>7, AfterClass DEF TypeInv
  <2>2. Arrived(catalog', op, run.direction)
    BY <1>7, <2>1, ClassMade DEF Arrived
  <2>3. \A i \in 1..Len(script) : script[i].subject # "class" /\ Arrived(catalog, script[i], run.direction)
           => Arrived(catalog', script[i], run.direction)
    BY <2>1 DEF Arrived
  <2>4. \A i \in 1..Len(script) :
           Executed(script, i, run.direction, run.at) => Arrived(catalog', script[i], run.direction)
    BY <1>2, <1>4, <1>7, <2>2, <2>3 DEF Midway
  <2>5. QED
    BY <1>6, <1>7, <2>1, <2>4 DEF Midway
<1>8. CASE op.subject # "class"
  <2>1. op.subject \in ColumnNames /\ CatalogOK(catalog)
    BY <1>2, <1>8 DEF OperationOK, TypeInv
  <2>2. ColumnSet(catalog', catalog, op.subject, Result(Goal(op, run.direction)))
    BY <1>1, <2>1, AfterColumn
  <2>3. /\ catalog'.class = catalog.class
        /\ catalog'.columns[op.subject] = Result(Goal(op, run.direction))
        /\ \A c \in ColumnNames : c # op.subject => catalog'.columns[c] = catalog.columns[c]
    BY <2>1, <2>2 DEF ColumnSet
  <2>4. Arrived(catalog', op, run.direction)
    BY <1>1, <1>5, <1>8, <2>3 DEF Arrived
  <2>5. ASSUME NEW i \in 1..Len(script), script[i].subject # op.subject, Arrived(catalog, script[i], run.direction)
        PROVE  Arrived(catalog', script[i], run.direction)
    <3>1. script[i].subject = "class" \/ script[i].subject \in ColumnNames
      BY <1>3 DEF ScriptOK, OperationOK
    <3>2. QED
      BY <2>3, <2>5, <3>1 DEF Arrived
  <2>6. \A i \in 1..Len(script) :
           Executed(script, i, run.direction, run.at) => Arrived(catalog', script[i], run.direction)
    BY <1>2, <1>4, <2>4, <2>5 DEF Midway
  <2>7. \A c \in ColumnNames : ~Touches(script, c) => catalog'.columns[c] = base.columns[c]
    BY <1>6, <2>3 DEF Midway
  <2>8. ~Touches(script, "class") => catalog'.class = base.class
    BY <2>3 DEF Midway
  <2>9. QED
    BY <2>6, <2>7, <2>8 DEF Midway
<1>9. QED
  BY <1>7, <1>8

\* What the recorded version stands for stays in the history.
LEMMA RecordedStays ==
  ASSUME TypeInv, IInv, UpdateVersion
  PROVE  reached'[recorded + 1] = reached[recorded + 1]
<1>1. Running /\ VersionAfter # recorded /\ VersionAfter \in Int
  BY VersionMoves DEF UpdateVersion, OpsDone, IInv, AtNextRevision
<1>2. recorded \in Int /\ recorded + 1 \in 1..Len(reached) /\ Len(reached) \in Nat
  BY DEF IInv, VersionsOK, TypeInv, ReachedOK, IsTuple
<1>3. recorded + 1 # VersionAfter + 1
  BY <1>1, <1>2
<1>4. recorded + 1 \in 1..Len(reached')
  <2>1. Len(reached') \in {Len(reached), Len(reached) + 1}
    BY ReachedAfter
  <2>2. QED
    BY <1>2, <2>1
<1>5. QED
  BY <1>3, <1>4, ReachedAfter

LEMMA StartMidway ==
  ASSUME TypeInv, IInv, CatalogMidway, Upgrade \/ Downgrade
  PROVE  CatalogMidway'
<1>1. /\ ~Running /\ UNCHANGED <<catalog, revisions, recorded, stopped, reached>>
  BY DEF Upgrade, Downgrade, Running, Idle
<1>2. ASSUME NEW r \in 1..Len(revisions), NEW direction \in {"up", "down"}, NEW until, NEW version,
             Start(direction, r, until, version), stopped.direction \in {"none", direction},
             r = IF direction = "up" THEN recorded + 1 ELSE recorded
      PROVE  CatalogMidway'
  <2>1. /\ run'.direction = direction /\ run'.revision = r /\ run'.at = 1 /\ Running'
    BY <1>2 DEF Start, Running
  <2>2. Len(revisions[r]) \in Nat
    BY DEF TypeInv, ScriptsOK, ScriptOK
  <2>3. Midway(catalog, reached[recorded + 1], revisions[r], direction, 0)
    <3>1. CASE stopped = NotStopped
      <4>1. catalog = reached[recorded + 1]
        BY <1>1, <3>1 DEF IInv, BetweenRuns
      <4>2. Midway(catalog, catalog, revisions[r], direction, 0)
        BY <2>2, NothingExecuted
      <4>3. QED
        BY <4>1, <4>2
    <3>2. CASE stopped # NotStopped
      <4>1. stopped.direction = direction /\ recorded = Before(stopped) /\ stopped.revision \in Int
        BY <1>1, <1>2, <3>2 DEF IInv, BetweenRuns, TypeInv, StopFits
      <4>2. stopped.revision = r
        BY <1>2, <4>1 DEF Before
      <4>3. QED
        BY <1>1, <3>2, <4>1, <4>2 DEF CatalogMidway, StopMidway
    <3>3. QED
      BY <3>1, <3>2
  <2>4. RunMidway'
    BY <1>1, <2>1, <2>3 DEF RunMidway
  <2>5. QED
    BY <2>1, <2>4 DEF CatalogMidway, StopMidway
<1>3. Len(revisions) \in Nat /\ recorded \in 0..Len(revisions)
  BY DEF TypeInv, ScriptsOK, NumbersOK
<1>4. CASE Upgrade
  <2>1. PICK until \in recorded + 1..Len(revisions), version \in {UnknownVersion, Initialize} :
           Start("up", recorded + 1, until, version)
    BY <1>4 DEF Upgrade
  <2>2. recorded + 1 \in 1..Len(revisions) /\ stopped.direction \in {"none", "up"}
    BY <1>3, <1>4 DEF Upgrade
  <2>3. QED
    BY <1>2, <2>1, <2>2
<1>5. CASE Downgrade
  <2>1. PICK until, version : Start("down", recorded, until, version)
    BY <1>5 DEF Downgrade
  <2>2. recorded \in 1..Len(revisions) /\ stopped.direction \in {"none", "down"}
    BY <1>3, <1>5 DEF Downgrade
  <2>3. QED
    BY <1>2, <2>1, <2>2
<1>6. QED
  BY <1>4, <1>5

LEMMA ApplyOpMidway ==
  ASSUME TypeInv, IInv, CatalogMidway, ApplyOp
  PROVE  CatalogMidway'
<1>1. /\ Running /\ ~OpsDone /\ recorded' = pending /\ run' = [run EXCEPT !.at = @ + 1]
      /\ UNCHANGED <<revisions, stopped, reached>>
  BY DEF ApplyOp
<1>2. recorded' = recorded
  BY <1>1 DEF IInv, AtNextRevision
<1>3. run'.direction = run.direction /\ run'.revision = run.revision /\ run'.at = run.at + 1 /\ Running'
  <2>1. run = [ direction |-> run.direction, revision |-> run.revision, at |-> run.at,
                until |-> run.until, version |-> run.version ]
    BY DEF IInv, RunOK
  <2>2. QED
    BY <1>1, <2>1 DEF Running
<1>4. Midway(catalog', reached[recorded + 1], revisions[run.revision], run.direction, run.at)
  BY <1>1, OneMoreExecuted DEF CatalogMidway, RunMidway
<1>5. run'.at - 1 = run.at
  <2>1. run.at \in Nat
    BY <1>1, OpAtRun
  <2>2. QED
    BY <1>3, <2>1
<1>6. RunMidway'
  <2>1. /\ revisions'[run'.revision] = revisions[run.revision]
        /\ reached'[recorded' + 1] = reached[recorded + 1]
    BY <1>1, <1>2, <1>3
  <2>2. Midway(catalog', reached'[recorded' + 1], revisions'[run'.revision], run'.direction, run'.at - 1)
    BY <1>3, <1>4, <1>5, <2>1, Zenon
  <2>3. QED
    BY <2>2 DEF RunMidway
<1>7. QED
  BY <1>3, <1>6 DEF CatalogMidway, StopMidway

LEMMA NextRevisionMidway ==
  ASSUME TypeInv, TypeInv', IInv, CatalogMidway, NextRevision
  PROVE  CatalogMidway'
<1>1. /\ OpsDone /\ Running /\ pending = VersionAfter /\ recorded' = pending /\ stopped' = NotStopped
      /\ UNCHANGED <<catalog, reached, revisions>>
      /\ run' = IF VersionAfter = run.until
                  THEN Idle
                  ELSE [run EXCEPT !.revision = @ + Step, !.at = 1]
  BY DEF NextRevision, OpsDone, CommitsNow, TransactionalDdl
<1>2. catalog = reached[pending + 1]
  BY <1>1, VersionMoves DEF IInv, AtNextRevision
<1>3. CASE ~Running'
  BY <1>1, <1>3 DEF CatalogMidway, RunMidway, StopMidway
<1>4. CASE Running'
  <2>1. run'.at = 1
    BY <1>1, <1>4 DEF Running, Idle, IInv, RunOK
  <2>2. run'.revision \in 1..Len(revisions)
    BY <1>1, <1>4 DEF TypeInv, RunFits
  <2>3. Len(revisions[run'.revision]) \in Nat
    BY <2>2 DEF TypeInv, ScriptsOK, ScriptOK
  <2>4. Midway(catalog, catalog, revisions[run'.revision], run'.direction, 0)
    BY <2>3, NothingExecuted
  <2>5. RunMidway'
    BY <1>1, <1>2, <2>1, <2>4 DEF RunMidway
  <2>6. QED
    BY <1>4, <2>5 DEF CatalogMidway, StopMidway
<1>5. QED
  BY <1>3, <1>4

LEMMA StopMidwayNext ==
  ASSUME TypeInv, IInv, CatalogMidway, Stop
  PROVE  CatalogMidway'
<1>1. /\ Running /\ ~Running'
      /\ stopped' = IF catalog = reached[recorded + 1]
                      THEN NotStopped
                      ELSE [direction |-> run.direction, revision |-> run.revision]
      /\ UNCHANGED <<catalog, revisions, recorded, reached>>
  BY DEF Stop, Running, Idle
<1>2. Midway(catalog, reached[recorded + 1], revisions[run.revision], run.direction, run.at - 1)
  BY <1>1 DEF CatalogMidway, RunMidway
<1>3. run.revision \in 1..Len(revisions)
  BY <1>1 DEF TypeInv, RunFits
<1>4. Len(revisions[run.revision]) \in Nat
  BY <1>3 DEF TypeInv, ScriptsOK, ScriptOK
<1>5. Midway(catalog, reached[recorded + 1], revisions[run.revision], run.direction, 0)
  BY <1>2, <1>4, FewerExecuted
<1>6. StopMidway'
  <2>1. CASE catalog = reached[recorded + 1]
    BY <1>1, <2>1 DEF StopMidway
  <2>2. CASE catalog # reached[recorded + 1]
    <3>1. stopped'.direction = run.direction /\ stopped'.revision = run.revision
      BY <1>1, <2>2
    <3>2. QED
      BY <1>1, <1>5, <3>1 DEF StopMidway
  <2>3. QED
    BY <2>1, <2>2
<1>7. QED
  BY <1>1, <1>6 DEF CatalogMidway, RunMidway

LEMMA NextMidway == TypeInv /\ TypeInv' /\ IInv /\ CatalogMidway /\ [Next]_vars => CatalogMidway'
<1> SUFFICES ASSUME TypeInv, TypeInv', IInv, CatalogMidway, [Next]_vars PROVE CatalogMidway'
  OBVIOUS
<1>1. CASE UpdateVersion
  <2>1. UNCHANGED <<catalog, revisions, recorded, run, stopped>> /\ Running
    BY <1>1 DEF UpdateVersion, OpsDone
  <2>2. reached'[recorded + 1] = reached[recorded + 1]
    BY <1>1, RecordedStays
  <2>3. QED
    BY <2>1, <2>2 DEF CatalogMidway, RunMidway, StopMidway, Running
<1>2. CASE CleanUp
  BY <1>2 DEF CleanUp, Running, Idle, CatalogMidway, RunMidway, StopMidway
<1>3. CASE Autogenerate
  BY <1>3 DEF Autogenerate, Running, Idle, CatalogMidway, RunMidway, StopMidway
<1>4. CASE UNCHANGED <<catalog, revisions, recorded, run, stopped, reached>>
  BY <1>4 DEF CatalogMidway, RunMidway, StopMidway, Running
<1>5. QED
  BY <1>1, <1>2, <1>3, <1>4, StartMidway, ApplyOpMidway, NextRevisionMidway, StopMidwayNext
     DEF Next, EditModel, vars

\* When the version is updated, the database has what all statements lead to.
LEMMA AllExecuted ==
  ASSUME TypeInv, IInv, CatalogMidway, UpdateVersion
  PROVE  LET script == revisions[run.revision]
             base == reached[recorded + 1]
         IN  /\ \A c \in ColumnNames :
                   IF Touches(script, c)
                     THEN LET goal == Goal(OpOn(script, c), run.direction)
                          IN  Compilable(goal.call) /\ catalog.columns[c] = Result(goal)
                     ELSE catalog.columns[c] = base.columns[c]
             /\ IF Touches(script, "class")
                  THEN catalog.class = "absent" <=> run.direction # "up"
                  ELSE catalog.class = base.class
<1> DEFINE script == revisions[run.revision]
           base == reached[recorded + 1]
<1>1. OpsDone /\ Running
  BY DEF UpdateVersion, OpsDone
<1>2. /\ run.revision \in 1..Len(revisions) /\ run.at \in 1..Len(script) + 1
      /\ ~(run.at <= Len(script)) /\ Midway(catalog, base, script, run.direction, run.at - 1)
  <2>1. run.revision \in 1..Len(revisions) /\ run.at \in 1..Len(script) + 1
    BY <1>1 DEF TypeInv, RunFits
  <2>2. Len(script) \in Nat
    BY <2>1 DEF TypeInv, ScriptsOK, ScriptOK
  <2>3. ~(run.at <= Len(script))
    BY <1>1, <2>1, <2>2 DEF OpsDone
  <2>4. QED
    BY <1>1, <2>1, <2>3 DEF CatalogMidway, RunMidway
<1>3. ScriptOK(script, model.class) /\ Len(script) \in Nat
  BY <1>2 DEF TypeInv, ScriptsOK, ScriptOK
<1> HIDE DEF script, base
<1>4. \A i \in 1..Len(script) : Arrived(catalog, script[i], run.direction)
  <2>1. \A i \in 1..Len(script) : Executed(script, i, run.direction, run.at - 1)
    BY <1>2, <1>3 DEF Executed
  <2>2. QED
    BY <1>2, <2>1 DEF Midway
<1>5. \A subject : Touches(script, subject) =>
         \E i \in 1..Len(script) : /\ OpOn(script, subject) = script[i] /\ script[i].subject = subject
                                   /\ Arrived(catalog, OpOn(script, subject), run.direction)
                                   /\ OperationOK(script[i], model.class)
  <2> SUFFICES ASSUME NEW subject, NEW i \in 1..Len(script), script[i].subject = subject
               PROVE  /\ OpOn(script, subject) = script[i]
                      /\ Arrived(catalog, OpOn(script, subject), run.direction)
                      /\ OperationOK(script[i], model.class)
    BY DEF Touches
  <2>1. OpOn(script, subject) = script[i]
    BY <1>3, TouchedOnce
  <2>2. OperationOK(script[i], model.class)
    BY <1>3 DEF ScriptOK
  <2>3. QED
    BY <1>4, <2>1, <2>2
<1>6. ASSUME NEW c \in ColumnNames
      PROVE  IF Touches(script, c)
               THEN LET goal == Goal(OpOn(script, c), run.direction)
                    IN  Compilable(goal.call) /\ catalog.columns[c] = Result(goal)
               ELSE catalog.columns[c] = base.columns[c]
  <2>1. c # "class"
    BY ColumnsAssumption
  <2>2. CASE Touches(script, c)
    BY <1>5, <2>1, <2>2 DEF Arrived
  <2>3. CASE ~Touches(script, c)
    BY <1>2, <2>3 DEF Midway
  <2>4. QED
    BY <2>2, <2>3
<1>7. CASE Touches(script, "class")
  <2>1. PICK i \in 1..Len(script) :
           /\ script[i].subject = "class" /\ Arrived(catalog, script[i], run.direction)
           /\ OperationOK(script[i], model.class)
    BY <1>5, <1>7
  <2>2. script[i].down = NoClass /\ script[i].up # NoClass
    BY <2>1, ColumnsAssumption DEF OperationOK
  <2>3. catalog.class = "absent" <=> run.direction # "up"
    BY <2>1, <2>2 DEF Arrived, Goal
  <2>4. QED
    BY <1>6, <1>7, <2>3 DEF script, base
<1>8. CASE ~Touches(script, "class")
  BY <1>2, <1>6, <1>8 DEF Midway, script, base
<1>9. QED
  BY <1>7, <1>8

LEMMA HistoryBounds ==
  ASSUME TypeInv, IInv
  PROVE  Len(revisions) \in Nat /\ Len(reached) \in Nat /\ recorded + 1 \in 1..Len(reached)
<1>1. Len(revisions) \in Nat
  BY DEF TypeInv, ScriptsOK
<1>2. Len(reached) \in Nat /\ DOMAIN reached = 1..Len(reached)
  BY DEF TypeInv, ReachedOK, IsTuple
<1>3. recorded + 1 \in DOMAIN reached
  BY DEF IInv, VersionsOK
<1>4. QED
  BY <1>1, <1>2, <1>3

\* Where the histories change.
LEMMA UpdateUp ==
  ASSUME TypeInv, IInv, UpdateVersion, run.direction = "up"
  PROVE  /\ run.revision \in 1..Len(revisions) /\ run.revision \in 1..Len(reached)
         /\ Len(revisions) \in Nat /\ Len(reached) \in Nat
         /\ recorded = run.revision - 1 /\ recorded + 1 = run.revision /\ pending' = run.revision
         /\ UNCHANGED <<revisions, recorded>>
         /\ run.revision + 1 \in 1..Len(reached')
         /\ \A v \in 1..Len(reached') :
               /\ reached'[v] = IF v = run.revision + 1 THEN catalog ELSE reached[v]
               /\ v # run.revision + 1 => v \in 1..Len(reached)
         /\ \A v \in 1..Len(revisions) : v \in 1..Len(reached)
<1>1. OpsDone /\ Running /\ pending' = VersionAfter /\ UNCHANGED <<revisions, recorded>>
  BY DEF UpdateVersion, OpsDone
<1>2. VersionAfter = run.revision /\ recorded = run.revision - 1 /\ run.revision \in 1..Len(revisions)
  BY <1>1 DEF VersionAfter, IInv, AtNextRevision, Before, TypeInv, RunFits
<1>3. Len(revisions) \in Nat /\ Len(reached) \in Nat /\ recorded + 1 \in 1..Len(reached)
  BY HistoryBounds
<1>4. recorded + 1 = run.revision
  BY <1>2, <1>3
<1>5. Len(reached) \in {Len(revisions), Len(revisions) + 1}
  BY DEF TypeInv, ReachedOK
<1>6. \A v \in 1..Len(revisions) : v \in 1..Len(reached)
  BY <1>3, <1>5
<1>7. QED
  BY <1>1, <1>2, <1>3, <1>4, <1>6, ReachedAfter

LEMMA UpdateDown ==
  ASSUME TypeInv, IInv, UpdateVersion, run.direction # "up"
  PROVE  /\ run.revision \in 1..Len(revisions)
         /\ run.revision \in 1..Len(reached) /\ run.revision + 1 \in 1..Len(reached)
         /\ Len(revisions) \in Nat /\ Len(reached) \in Nat
         /\ recorded = run.revision /\ pending' = run.revision - 1
         /\ UNCHANGED <<revisions, recorded>>
         /\ Len(reached') = Len(reached)
         /\ \A v \in 1..Len(reached) : reached'[v] = IF v = run.revision THEN catalog ELSE reached[v]
<1>1. OpsDone /\ Running /\ pending' = VersionAfter /\ UNCHANGED <<revisions, recorded>>
  BY DEF UpdateVersion, OpsDone
<1>2. /\ VersionAfter = run.revision - 1 /\ recorded = run.revision /\ run.revision \in 1..Len(revisions)
  BY <1>1 DEF VersionAfter, IInv, AtNextRevision, Before, TypeInv, RunFits
<1>3. Len(revisions) \in Nat /\ Len(reached) \in Nat /\ recorded + 1 \in 1..Len(reached)
  BY HistoryBounds
<1>4. VersionAfter + 1 = run.revision
  BY <1>2, <1>3
<1>5. Len(reached') = Len(reached)
  <2>1. /\ Len(reached') \in {Len(reached), Len(reached) + 1}
        /\ Len(reached') = Len(reached) + 1 => VersionAfter + 1 = Len(reached) + 1
    BY ReachedAfter
  <2>2. VersionAfter + 1 # Len(reached) + 1
    BY <1>2, <1>3, <1>4
  <2>3. QED
    BY <2>1, <2>2
<1>6. run.revision \in 1..Len(reached) /\ run.revision + 1 \in 1..Len(reached)
  BY <1>2, <1>3
<1>7. QED
  BY <1>1, <1>2, <1>3, <1>4, <1>5, <1>6, ReachedAfter

-----------------------------------------------------------------------------
\* The class in the history.

MakesClass(r) == Touches(revisions[r], "class")

\* One revision at most is about the class; the versions from there on have it, and
\* the ones on either side of another revision agree on it.
OneMakesClass ==
    \A r, q \in 1..Len(revisions) : MakesClass(r) /\ MakesClass(q) => r = q

ClassOnceMade ==
    \A v \in 1..Len(reached) :
        reached[v].class = "absent" <=> \A r \in 1..v - 1 : ~MakesClass(r)

ClassStays ==
    \A r \in 1..Len(revisions) :
        (r <= recorded \/ r <= pending) /\ ~MakesClass(r) => reached[r].class = reached[r + 1].class

ClassHistory == OneMakesClass /\ ClassOnceMade /\ ClassStays

LEMMA InitClassHistory == Init => ClassHistory
<1> SUFFICES ASSUME Init PROVE ClassHistory
  OBVIOUS
<1>1. Len(revisions) = 0 /\ reached = <<catalog>> /\ catalog.class = "absent"
  BY DEF Init
<1>2. Len(reached) = 1 /\ reached[1].class = "absent"
  BY <1>1
<1>3. QED
  BY <1>1, <1>2 DEF ClassHistory, OneMakesClass, ClassOnceMade, ClassStays

LEMMA AutogenerateClass ==
  ASSUME TypeInv, IInv, ClassHistory, Autogenerate
  PROVE  ClassHistory'
<1> DEFINE n == Len(revisions)
<1>1. /\ run = Idle /\ stopped = NotStopped /\ recorded = n /\ revisions' = Append(revisions, Differences)
      /\ UNCHANGED <<model, catalog, recorded, pending, reached>>
  BY DEF Autogenerate
<1>2. n \in Nat /\ Len(reached) \in Nat /\ n + 1 \in 1..Len(reached) /\ Len(reached) = n + 1
  <2>1. n \in Nat /\ Len(reached) \in Nat /\ recorded + 1 \in 1..Len(reached)
    BY HistoryBounds
  <2>2. Len(reached) \in {n, n + 1}
    BY DEF TypeInv, ReachedOK
  <2>3. QED
    BY <1>1, <2>1, <2>2
<1>3. pending = n /\ catalog = reached[n + 1]
  BY <1>1 DEF IInv, BetweenRuns, Running, Idle
<1>4. /\ Len(revisions') = n + 1 /\ revisions'[n + 1] = Differences
      /\ \A r \in 1..n : revisions'[r] = revisions[r]
  BY <1>1, <1>2, AppendTuple DEF TypeInv, ScriptsOK
<1>5. \A r \in 1..n : MakesClass(r)' <=> MakesClass(r)
  BY <1>4 DEF MakesClass
<1>6. Touches(Differences, "class") => \A r \in 1..n : ~MakesClass(r)
  <2> SUFFICES ASSUME Touches(Differences, "class")
               PROVE  \A r \in 1..n : ~MakesClass(r)
    OBVIOUS
  <2>1. PICK i \in 1..Len(Differences) : Differences[i].subject = "class"
    BY DEF Touches
  <2>2. ~\E c \in ColumnNames : ProposedFor(Differences[i], c)
    BY <2>1, ColumnsAssumption, PartsOfOperation DEF ProposedFor
  <2>3. i \in DOMAIN Differences
    BY <2>1, DifferencesForm DEF IsTuple
  <2>4. catalog.class = "absent"
    BY <2>2, <2>3, DifferencesForm DEF ProposedForClass
  <2>5. \A r \in 1..(n + 1) - 1 : ~MakesClass(r)
    BY <1>2, <1>3, <2>4 DEF ClassHistory, ClassOnceMade
  <2>6. QED
    BY <1>2, <2>5
<1> HIDE DEF n
<1>7. OneMakesClass'
  <2>1. ASSUME NEW r \in 1..n + 1, NEW q \in 1..n + 1, MakesClass(r)', MakesClass(q)'
        PROVE  r = q
    <3>1. (r \in 1..n \/ r = n + 1) /\ (q \in 1..n \/ q = n + 1)
      BY <1>2
    <3>2. CASE r \in 1..n /\ q \in 1..n
      <4>1. MakesClass(r) /\ MakesClass(q)
        BY <1>5, <2>1, <3>2
      <4>2. QED
        BY <3>2, <4>1 DEF ClassHistory, OneMakesClass, n
    <3>3. \A x \in {r, q} : x = n + 1 => Touches(Differences, "class")
      BY <1>4, <2>1 DEF MakesClass
    <3>4. \A x \in {r, q} : x \in 1..n => MakesClass(x)
      BY <1>5, <2>1
    <3>5. QED
      BY <1>6, <3>1, <3>2, <3>3, <3>4
  <2>2. QED
    BY <1>4, <2>1 DEF OneMakesClass
<1>8. ClassOnceMade'
  <2>1. \A v \in 1..Len(reached) : \A r \in 1..v - 1 : r \in 1..n
    BY <1>2
  <2>2. QED
    BY <1>1, <1>5, <2>1 DEF ClassHistory, ClassOnceMade
<1>9. ClassStays'
  <2>1. \A r \in 1..n + 1 : r <= n => r \in 1..n
    BY <1>2
  <2>2. QED
    BY <1>1, <1>3, <1>4, <1>5, <2>1 DEF ClassHistory, ClassStays, n
<1>10. QED
  BY <1>7, <1>8, <1>9 DEF ClassHistory

LEMMA UpdateUpClass ==
  ASSUME TypeInv, IInv, CatalogMidway, ClassHistory, UpdateVersion, run.direction = "up"
  PROVE  ClassHistory'
<1> DEFINE r == run.revision
<1>1. /\ r \in 1..Len(revisions) /\ r \in 1..Len(reached) /\ r \in Nat
      /\ Len(revisions) \in Nat /\ Len(reached) \in Nat
      /\ recorded = r - 1 /\ recorded + 1 = r /\ pending' = r
      /\ UNCHANGED <<revisions, recorded>>
      /\ \A v \in 1..Len(reached') :
            /\ reached'[v] = IF v = r + 1 THEN catalog ELSE reached[v]
            /\ v # r + 1 => v \in 1..Len(reached)
      /\ r + 1 \in 1..Len(reached')
  BY UpdateUp
<1>2. IF MakesClass(r)
        THEN catalog.class # "absent"
        ELSE catalog.class = reached[r].class
  BY <1>1, AllExecuted DEF MakesClass
<1>3. \A q : MakesClass(q)' <=> MakesClass(q)
  BY <1>1 DEF MakesClass
<1> HIDE DEF r
<1>4. OneMakesClass'
  BY <1>1, <1>3 DEF ClassHistory, OneMakesClass
<1>5. catalog.class = "absent" <=> \A q \in 1..(r + 1) - 1 : ~MakesClass(q)
  <2>1. \A q \in 1..(r + 1) - 1 : q \in 1..r - 1 \/ q = r
    BY <1>1
  <2>2. (\A q \in 1..r - 1 : q \in 1..(r + 1) - 1) /\ r \in 1..(r + 1) - 1
    BY <1>1
  <2>3. reached[r].class = "absent" <=> \A q \in 1..r - 1 : ~MakesClass(q)
    BY <1>1 DEF ClassHistory, ClassOnceMade
  <2>4. CASE MakesClass(r)
    BY <1>2, <2>2, <2>4
  <2>5. CASE ~MakesClass(r)
    BY <1>2, <2>1, <2>2, <2>3, <2>5
  <2>6. QED
    BY <2>4, <2>5
<1>6. ClassOnceMade'
  <2> SUFFICES ASSUME NEW v \in 1..Len(reached')
               PROVE  reached'[v].class = "absent" <=> \A q \in 1..v - 1 : ~MakesClass(q)
    BY <1>3 DEF ClassOnceMade
  <2>1. CASE v = r + 1
    BY <1>1, <1>5, <2>1
  <2>2. CASE v # r + 1
    BY <1>1, <2>2 DEF ClassHistory, ClassOnceMade
  <2>3. QED
    BY <2>1, <2>2
<1>7. ClassStays'
  <2> SUFFICES ASSUME NEW q \in 1..Len(revisions), q <= r, ~MakesClass(q)
               PROVE  reached'[q].class = reached'[q + 1].class
    <3>1. \A q \in 1..Len(revisions) : q <= r - 1 => q <= r
      BY <1>1
    <3>2. QED
      BY <1>1, <1>3, <3>1 DEF ClassStays
  <2>1. q \in 1..Len(reached') /\ q + 1 \in 1..Len(reached') /\ q # r + 1
    BY <1>1
  <2>2. CASE q = r
    <3>1. reached'[r] = reached[r] /\ reached'[r + 1] = catalog
      BY <1>1, <2>1, <2>2
    <3>2. QED
      BY <1>2, <2>2, <3>1
  <2>3. CASE q # r
    <3>1. q <= recorded /\ q + 1 # r + 1
      BY <1>1, <2>3
    <3>2. QED
      BY <1>1, <2>1, <3>1 DEF ClassHistory, ClassStays
  <2>4. QED
    BY <2>2, <2>3
<1>8. QED
  BY <1>4, <1>6, <1>7 DEF ClassHistory

\* A downgrade leaves the version it comes back to with the class it had, or without.
LEMMA DownSameClass ==
  ASSUME TypeInv, IInv, CatalogMidway, ClassHistory, UpdateVersion, run.direction # "up"
  PROVE  catalog.class = reached[run.revision].class
<1> DEFINE r == run.revision
<1>1. /\ r \in 1..Len(revisions) /\ r \in 1..Len(reached) /\ Len(revisions) \in Nat /\ recorded = r
  BY UpdateDown
<1>2. CASE MakesClass(r)
  <2>1. catalog.class = "absent"
    BY <1>2, AllExecuted DEF MakesClass
  <2>2. \A q \in 1..r - 1 : q \in 1..Len(revisions) /\ q # r
    BY <1>1
  <2>3. \A q \in 1..r - 1 : ~MakesClass(q)
    BY <1>1, <1>2, <2>2 DEF ClassHistory, OneMakesClass
  <2>4. reached[r].class = "absent"
    BY <1>1, <2>3 DEF ClassHistory, ClassOnceMade
  <2>5. QED
    BY <2>1, <2>4
<1>3. CASE ~MakesClass(r)
  <2>1. catalog.class = reached[r + 1].class
    BY <1>1, <1>3, AllExecuted DEF MakesClass
  <2>2. r <= recorded
    BY <1>1
  <2>3. reached[r].class = reached[r + 1].class
    BY <1>1, <1>3, <2>2 DEF ClassHistory, ClassStays
  <2>4. QED
    BY <2>1, <2>3
<1>4. QED
  BY <1>2, <1>3

LEMMA UpdateDownClass ==
  ASSUME TypeInv, IInv, CatalogMidway, ClassHistory, UpdateVersion, run.direction # "up"
  PROVE  ClassHistory'
<1> DEFINE r == run.revision
<1>1. /\ r \in 1..Len(revisions) /\ r + 1 \in 1..Len(reached)
      /\ Len(revisions) \in Nat /\ Len(reached) \in Nat
      /\ recorded = r /\ pending' = r - 1 /\ UNCHANGED <<revisions, recorded>>
      /\ Len(reached') = Len(reached)
      /\ \A v \in 1..Len(reached) : reached'[v] = IF v = r THEN catalog ELSE reached[v]
  BY UpdateDown
<1>2. \A v \in 1..Len(reached) : reached'[v].class = reached[v].class
  BY <1>1, DownSameClass
<1>3. \A q : MakesClass(q)' <=> MakesClass(q)
  BY <1>1 DEF MakesClass
<1>4. OneMakesClass'
  BY <1>1, <1>3 DEF ClassHistory, OneMakesClass
<1>5. ClassOnceMade'
  BY <1>1, <1>2, <1>3 DEF ClassHistory, ClassOnceMade
<1>6. ClassStays'
  <2> SUFFICES ASSUME NEW q \in 1..Len(revisions), q <= r, ~MakesClass(q)
               PROVE  reached'[q].class = reached'[q + 1].class
    <3>1. \A q \in 1..Len(revisions) : q <= r - 1 => q <= r
      BY <1>1
    <3>2. QED
      BY <1>1, <1>3, <3>1 DEF ClassStays
  <2>1. q \in 1..Len(reached) /\ q + 1 \in 1..Len(reached)
    BY <1>1
  <2>2. QED
    BY <1>1, <1>2, <2>1 DEF ClassHistory, ClassStays
<1>7. QED
  BY <1>4, <1>5, <1>6 DEF ClassHistory

LEMMA NextClassHistory ==
  TypeInv /\ IInv /\ CatalogMidway /\ ClassHistory /\ [Next]_vars => ClassHistory'
<1> SUFFICES ASSUME TypeInv, IInv, CatalogMidway, ClassHistory, [Next]_vars PROVE ClassHistory'
  OBVIOUS
<1>1. ASSUME UNCHANGED <<revisions, reached>>, \A q : q <= recorded' \/ q <= pending' => q <= recorded \/ q <= pending
      PROVE  ClassHistory'
  <2>1. \A q : MakesClass(q)' <=> MakesClass(q)
    BY <1>1 DEF MakesClass
  <2>2. QED
    BY <1>1, <2>1 DEF ClassHistory, OneMakesClass, ClassOnceMade, ClassStays
<1>2. CASE ApplyOp
  BY <1>1, <1>2 DEF ApplyOp
<1>3. CASE NextRevision
  BY <1>1, <1>3 DEF NextRevision, CommitsNow, TransactionalDdl
<1>4. CASE Stop
  BY <1>1, <1>4 DEF Stop
<1>5. CASE UNCHANGED <<revisions, reached, recorded, pending>>
  BY <1>1, <1>5
<1>6. QED
  BY <1>2, <1>3, <1>4, <1>5, AutogenerateClass, UpdateUpClass, UpdateDownClass
     DEF Next, EditModel, Upgrade, Downgrade, CleanUp, vars

-----------------------------------------------------------------------------
\* The columns in the history.

Kept(before, after) == after = before \/ Lossy(before)

LEMMA KeptTwice ==
  ASSUME NEW x, NEW y, NEW z, Kept(x, y), Kept(y, z)
  PROVE  Kept(x, z)
BY DEF Kept

\* The column that a script makes of a version's, forwards and backwards.
Forward(script, c, before) ==
    IF Touches(script, c) THEN Result(OpOn(script, c).up) ELSE before.columns[c]

KeepsBack(script, c, before) ==
    Touches(script, c) /\ Compilable(OpOn(script, c).down.call) =>
      Kept(before.columns[c], Result(OpOn(script, c).down))

\* Downgrading a revision gives the version before it, and upgrading it the one after,
\* domains that reflection loses aside.
ColumnHistory ==
    \A r \in 1..Len(revisions), c \in ColumnNames :
        /\ KeepsBack(revisions[r], c, reached[r])
        /\ r + 1 \in 1..Len(reached) =>
              Kept(Forward(revisions[r], c, reached[r]), reached[r + 1].columns[c])

\* The down side of a new operation gives the column as it is.
LEMMA WrittenBack ==
  ASSUME TypeInv, NEW c \in ColumnNames, Touches(Differences, c)
  PROVE  /\ Changed(Conn(c), model.columns[c])
         /\ OpOn(Differences, c).up.call = model.columns[c]
         /\ OpOn(Differences, c).down.call = Conn(c)
<1>1. PICK i \in 1..Len(Differences) : Differences[i].subject = c
  BY DEF Touches
<1>2. ScriptOK(Differences, model.class)
  BY ScriptWritten DEF TypeInv
<1>3. OpOn(Differences, c) = Differences[i]
  BY <1>1, <1>2, TouchedOnce
<1>4. i \in DOMAIN Differences
  BY <1>1, DifferencesForm DEF IsTuple
<1>5. ~ProposedForClass(Differences[i])
  BY <1>1, ColumnsAssumption, PartsOfOperation DEF ProposedForClass
<1>6. PICK d \in ColumnNames : ProposedFor(Differences[i], d)
  BY <1>4, <1>5, DifferencesForm
<1>7. d = c
  BY <1>1, <1>6, PartsOfOperation DEF ProposedFor
<1>8. QED
  BY <1>3, <1>6, <1>7, PartsOfOperation, RenderedCall DEF ProposedFor

LEMMA WrittenKeepsBack ==
  ASSUME TypeInv, NEW c \in ColumnNames
  PROVE  KeepsBack(Differences, c, catalog)
<1> SUFFICES ASSUME Touches(Differences, c), Compilable(OpOn(Differences, c).down.call)
             PROVE  Kept(catalog.columns[c], Result(OpOn(Differences, c).down))
  BY DEF KeepsBack
<1> DEFINE domain == catalog.columns[c]
<1>1. OpOn(Differences, c).down.call = Reflected(domain) /\ Compilable(Reflected(domain))
  BY WrittenBack DEF Conn
<1>2. domain = NoDomain \/ IsDomain(domain)
  BY DEF TypeInv, CatalogOK, IsCatalog
<1>3. server \in Servers /\ server.bySecondName \in BOOLEAN
  BY ServersAssumption DEF TypeInv
<1>4. Reflected(domain) = NoType <=> domain = NoDomain
  BY <1>2, <1>3, ReflectedForms
<1> HIDE DEF domain
<1>5. CASE domain = NoDomain
  <2>1. Result(OpOn(Differences, c).down) = NoDomain
    BY <1>1, <1>4, <1>5 DEF Result
  <2>2. QED
    BY <1>5, <2>1 DEF Kept, domain
<1>6. CASE domain # NoDomain
  <2>1. Result(OpOn(Differences, c).down) = Domain(Compile(Reflected(domain)))
    BY <1>1, <1>4, <1>6 DEF Result
  <2>2. Reflected(domain) = ResolveType(ShowColumns(domain, server.bySecondName)) /\ IsDomain(domain)
    BY <1>2, <1>6 DEF Reflected
  <2>3. Reflected(domain) # NullType
    BY <1>1, TypesAreKnown
  <2>4. Domain(Compile(Reflected(domain))) = domain \/ Lossy(domain)
    BY <1>3, <2>2, <2>3, RoundTrip
  <2>5. QED
    BY <2>1, <2>4 DEF Kept, domain
<1>7. QED
  BY <1>5, <1>6

LEMMA AutogenerateColumns ==
  ASSUME TypeInv, IInv, ColumnHistory, Autogenerate
  PROVE  ColumnHistory'
<1> DEFINE n == Len(revisions)
<1>1. /\ run = Idle /\ stopped = NotStopped /\ recorded = n /\ revisions' = Append(revisions, Differences)
      /\ UNCHANGED reached
  BY DEF Autogenerate
<1>2. n \in Nat /\ Len(reached) \in Nat /\ Len(reached) = n + 1
  <2>1. n \in Nat /\ Len(reached) \in Nat /\ recorded + 1 \in 1..Len(reached)
    BY HistoryBounds
  <2>2. Len(reached) \in {n, n + 1}
    BY DEF TypeInv, ReachedOK
  <2>3. QED
    BY <1>1, <2>1, <2>2
<1>3. catalog = reached[n + 1]
  BY <1>1 DEF IInv, BetweenRuns, Running, Idle
<1>4. /\ Len(revisions') = n + 1 /\ revisions'[n + 1] = Differences
      /\ \A r \in 1..n : revisions'[r] = revisions[r]
  BY <1>1, <1>2, AppendTuple DEF TypeInv, ScriptsOK
<1>5. ASSUME NEW r \in 1..n + 1, NEW c \in ColumnNames
      PROVE  /\ KeepsBack(revisions'[r], c, reached[r])
             /\ r + 1 \in 1..Len(reached) =>
                   Kept(Forward(revisions'[r], c, reached[r]), reached[r + 1].columns[c])
  <2>1. CASE r \in 1..n
    BY <1>4, <2>1 DEF ColumnHistory
  <2>2. CASE r = n + 1
    <3>1. r + 1 \notin 1..Len(reached)
      BY <1>2, <2>2
    <3>2. QED
      BY <1>3, <1>4, <2>2, <3>1, WrittenKeepsBack
  <2>3. QED
    BY <1>2, <2>1, <2>2
<1>6. QED
  BY <1>1, <1>4, <1>5 DEF ColumnHistory

LEMMA UpColumn ==
  ASSUME TypeInv, IInv, CatalogMidway, UpdateVersion, run.direction = "up", NEW c \in ColumnNames
  PROVE  catalog.columns[c] = Forward(revisions[run.revision], c, reached[run.revision])
<1>1. recorded + 1 = run.revision
  BY UpdateUp
<1>2. QED
  BY <1>1, AllExecuted DEF Forward, Goal

LEMMA DownColumn ==
  ASSUME TypeInv, IInv, CatalogMidway, UpdateVersion, run.direction # "up", NEW c \in ColumnNames
  PROVE  IF Touches(revisions[run.revision], c)
           THEN /\ Compilable(OpOn(revisions[run.revision], c).down.call)
                /\ catalog.columns[c] = Result(OpOn(revisions[run.revision], c).down)
           ELSE catalog.columns[c] = reached[run.revision + 1].columns[c]
<1>1. recorded = run.revision
  BY UpdateDown
<1>2. QED
  BY <1>1, AllExecuted DEF Goal

\* A downgrade brings a column back.
LEMMA DownKeeps ==
  ASSUME TypeInv, IInv, CatalogMidway, ColumnHistory, UpdateVersion, run.direction # "up",
         NEW c \in ColumnNames
  PROVE  Kept(reached[run.revision].columns[c], catalog.columns[c])
<1> DEFINE r == run.revision
<1>1. r \in 1..Len(revisions) /\ r + 1 \in 1..Len(reached)
  BY UpdateDown
<1>2. CASE Touches(revisions[r], c)
  BY <1>1, <1>2, DownColumn DEF ColumnHistory, KeepsBack
<1>3. CASE ~Touches(revisions[r], c)
  BY <1>1, <1>3, DownColumn DEF ColumnHistory, Forward
<1>4. QED
  BY <1>2, <1>3

LEMMA UpdateUpColumns ==
  ASSUME TypeInv, IInv, CatalogMidway, ColumnHistory, UpdateVersion, run.direction = "up"
  PROVE  ColumnHistory'
<1> DEFINE r == run.revision
<1>1. /\ r \in 1..Len(revisions) /\ r \in 1..Len(reached) /\ r \in Nat
      /\ Len(revisions) \in Nat /\ Len(reached) \in Nat
      /\ UNCHANGED revisions /\ r + 1 \in 1..Len(reached')
      /\ \A v \in 1..Len(reached') :
            /\ reached'[v] = IF v = r + 1 THEN catalog ELSE reached[v]
            /\ v # r + 1 => v \in 1..Len(reached)
      /\ \A v \in 1..Len(revisions) : v \in 1..Len(reached)
  BY UpdateUp
<1>2. \A c \in ColumnNames : catalog.columns[c] = Forward(revisions[r], c, reached[r])
  BY UpColumn
<1>3. Len(reached') \in Nat /\ \A v \in 1..Len(reached) : v \in 1..Len(reached')
  <2>1. Len(reached') \in {Len(reached), Len(reached) + 1}
    BY ReachedAfter
  <2>2. QED
    BY <1>1, <2>1
<1> HIDE DEF r
<1>4. ASSUME NEW q \in 1..Len(revisions), NEW c \in ColumnNames
      PROVE  /\ KeepsBack(revisions[q], c, reached'[q])
             /\ q + 1 \in 1..Len(reached') =>
                   Kept(Forward(revisions[q], c, reached'[q]), reached'[q + 1].columns[c])
  <2>1. q \in 1..Len(reached) /\ q \in 1..Len(reached') /\ q \in Nat
    BY <1>1, <1>3
  <2>2. CASE q = r
    <3>1. reached'[q] = reached[q] /\ reached'[q + 1] = catalog
      BY <1>1, <2>1, <2>2
    <3>2. KeepsBack(revisions[q], c, reached[q])
      BY DEF ColumnHistory
    <3>3. QED
      BY <1>2, <2>2, <3>1, <3>2 DEF Kept
  <2>3. CASE q = r + 1
    <3>1. reached'[q] = catalog
      BY <1>1, <2>1, <2>3
    <3>2. Kept(catalog.columns[c], reached[q].columns[c])
      BY <1>1, <1>2, <2>1, <2>3 DEF ColumnHistory
    <3>3. KeepsBack(revisions[q], c, catalog)
      BY <3>2, KeptTwice DEF ColumnHistory, KeepsBack
    <3>4. ASSUME q + 1 \in 1..Len(reached')
          PROVE  Kept(Forward(revisions[q], c, catalog), reached'[q + 1].columns[c])
      <4>1. reached'[q + 1] = reached[q + 1] /\ q + 1 \in 1..Len(reached)
        BY <1>1, <2>1, <2>3, <3>4
      <4>2. Kept(Forward(revisions[q], c, reached[q]), reached[q + 1].columns[c])
        BY <4>1 DEF ColumnHistory
      <4>3. CASE Touches(revisions[q], c)
        BY <4>1, <4>2, <4>3 DEF Forward
      <4>4. CASE ~Touches(revisions[q], c)
        BY <3>2, <4>1, <4>2, <4>4, KeptTwice DEF Forward
      <4>5. QED
        BY <4>3, <4>4
    <3>5. QED
      BY <3>1, <3>3, <3>4
  <2>4. CASE q # r /\ q # r + 1
    <3>1. reached'[q] = reached[q] /\ q + 1 # r + 1
      BY <1>1, <2>1, <2>4
    <3>2. q + 1 \in 1..Len(reached') => q + 1 \in 1..Len(reached) /\ reached'[q + 1] = reached[q + 1]
      BY <1>1, <3>1
    <3>3. QED
      BY <3>1, <3>2 DEF ColumnHistory
  <2>5. QED
    BY <2>2, <2>3, <2>4
<1>5. QED
  BY <1>1, <1>4 DEF ColumnHistory

LEMMA UpdateDownColumns ==
  ASSUME TypeInv, IInv, CatalogMidway, ColumnHistory, UpdateVersion, run.direction # "up"
  PROVE  ColumnHistory'
<1> DEFINE r == run.revision
<1>1. /\ r \in 1..Len(revisions) /\ r \in 1..Len(reached) /\ r + 1 \in 1..Len(reached) /\ r \in Nat
      /\ Len(revisions) \in Nat /\ Len(reached) \in Nat
      /\ UNCHANGED revisions /\ Len(reached') = Len(reached)
      /\ \A v \in 1..Len(reached) : reached'[v] = IF v = r THEN catalog ELSE reached[v]
  BY UpdateDown
<1>2. \A c \in ColumnNames :
         IF Touches(revisions[r], c)
           THEN catalog.columns[c] = Result(OpOn(revisions[r], c).down)
           ELSE catalog.columns[c] = reached[r + 1].columns[c]
  BY DownColumn
<1>3. \A c \in ColumnNames : Kept(reached[r].columns[c], catalog.columns[c])
  BY DownKeeps
<1>4. \A q \in 1..Len(revisions) : q \in 1..Len(reached)
  <2>1. Len(reached) \in {Len(revisions), Len(revisions) + 1}
    BY DEF TypeInv, ReachedOK
  <2>2. QED
    BY <1>1, <2>1
<1> HIDE DEF r
<1>5. ASSUME NEW q \in 1..Len(revisions), NEW c \in ColumnNames
      PROVE  /\ KeepsBack(revisions[q], c, reached'[q])
             /\ q + 1 \in 1..Len(reached) =>
                   Kept(Forward(revisions[q], c, reached'[q]), reached'[q + 1].columns[c])
  <2>1. q \in 1..Len(reached) /\ q \in Nat
    BY <1>1, <1>4
  <2>2. CASE q = r
    <3>1. reached'[q] = catalog /\ reached'[q + 1] = reached[q + 1]
      BY <1>1, <2>1, <2>2
    <3>2. KeepsBack(revisions[q], c, catalog)
      BY <1>2, <2>2 DEF KeepsBack, Kept
    <3>3. Kept(Forward(revisions[q], c, catalog), reached[q + 1].columns[c])
      <4>1. CASE Touches(revisions[q], c)
        BY <1>1, <2>2, <4>1 DEF ColumnHistory, Forward
      <4>2. CASE ~Touches(revisions[q], c)
        BY <1>2, <2>2, <4>2 DEF Forward, Kept
      <4>3. QED
        BY <4>1, <4>2
    <3>4. QED
      BY <3>1, <3>2, <3>3
  <2>3. CASE q + 1 = r
    <3>1. reached'[q] = reached[q] /\ reached'[q + 1] = catalog
      BY <1>1, <2>1, <2>3
    <3>2. Kept(Forward(revisions[q], c, reached[q]), reached[r].columns[c])
      BY <1>1, <2>3 DEF ColumnHistory
    <3>3. Kept(Forward(revisions[q], c, reached[q]), catalog.columns[c])
      BY <1>3, <3>2, KeptTwice
    <3>4. QED
      BY <3>1, <3>3 DEF ColumnHistory
  <2>4. CASE q # r /\ q + 1 # r
    <3>1. reached'[q] = reached[q] /\ (q + 1 \in 1..Len(reached) => reached'[q + 1] = reached[q + 1])
      BY <1>1, <2>1, <2>4
    <3>2. QED
      BY <3>1 DEF ColumnHistory
  <2>5. QED
    BY <2>2, <2>3, <2>4
<1>6. QED
  BY <1>1, <1>5 DEF ColumnHistory

LEMMA NextColumnHistory ==
  TypeInv /\ IInv /\ CatalogMidway /\ ColumnHistory /\ [Next]_vars => ColumnHistory'
<1> SUFFICES ASSUME TypeInv, IInv, CatalogMidway, ColumnHistory, [Next]_vars PROVE ColumnHistory'
  OBVIOUS
<1>1. CASE UNCHANGED <<revisions, reached>>
  BY <1>1 DEF ColumnHistory
<1>2. QED
  BY <1>1, AutogenerateColumns, UpdateUpColumns, UpdateDownColumns
     DEF Next, EditModel, Upgrade, Downgrade, ApplyOp, NextRevision, Stop, CleanUp, vars

\* Where a database is at every moment, and what its history says of it.
HistoryInv == TypeInv /\ IInv /\ CatalogMidway /\ ClassHistory /\ ColumnHistory

LEMMA AlwaysHistory == Spec => []HistoryInv
<1>1. Init => HistoryInv
  <2> SUFFICES ASSUME Init PROVE HistoryInv
    OBVIOUS
  <2>1. CatalogMidway
    BY DEF Init, CatalogMidway, RunMidway, StopMidway, Running, Idle
  <2>2. ColumnHistory
    <3>1. Len(revisions) = 0
      BY DEF Init
    <3>2. QED
      BY <3>1 DEF ColumnHistory
  <2>3. QED
    BY <2>1, <2>2, InitTypes, InitInv, InitClassHistory DEF HistoryInv
<1>2. HistoryInv /\ [Next]_vars => HistoryInv'
  BY NextTypes, NextInv, NextMidway, NextClassHistory, NextColumnHistory DEF HistoryInv
<1>3. QED
  BY <1>1, <1>2, PTL DEF Spec

\* A downgrade gives the class back as it was, and every column with the domain it had,
\* unless that is one reflection loses.
THEOREM DowngradeBringsBack == Spec => DowngradeRestores
<1> DEFINE A == run.direction = "down" =>
                  \A v \in DOMAIN reached :
                      /\ reached'[v].class = reached[v].class
                      /\ \A c \in ColumnNames :
                            \/ reached'[v].columns[c] = reached[v].columns[c]
                            \/ Lossy(reached[v].columns[c])
<1>1. HistoryInv /\ [Next]_vars => [A]_vars
  <2> SUFFICES ASSUME HistoryInv, [Next]_vars, run.direction = "down" PROVE A
    OBVIOUS
  <2>1. CASE UNCHANGED reached
    BY <2>1
  <2>2. CASE UpdateVersion
    <3>1. /\ run.revision \in 1..Len(reached)
          /\ \A v \in 1..Len(reached) : reached'[v] = IF v = run.revision THEN catalog ELSE reached[v]
      BY <2>2, UpdateDown DEF HistoryInv
    <3>2. DOMAIN reached = 1..Len(reached)
      BY DEF HistoryInv, TypeInv, ReachedOK, IsTuple
    <3>3. catalog.class = reached[run.revision].class
      BY <2>2, DownSameClass DEF HistoryInv
    <3>4. \A c \in ColumnNames : Kept(reached[run.revision].columns[c], catalog.columns[c])
      BY <2>2, DownKeeps DEF HistoryInv
    <3>5. QED
      BY <3>1, <3>2, <3>3, <3>4 DEF Kept
  <2>3. QED
    BY <2>1, <2>2 DEF Next, EditModel, Autogenerate, Upgrade, Downgrade, ApplyOp, NextRevision,
       Stop, CleanUp, vars
<1>2. QED
  BY <1>1, AlwaysHistory, PTL DEF Spec, DowngradeRestores

-----------------------------------------------------------------------------
\* What the last script was written for.

\* No revision from r on is about the column.
Settled(r, c) == \A q \in 1..Len(revisions) : q >= r => ~Touches(revisions[q], c)

\* A version has just what its script made of a column, as long as no later script is
\* about that column: it is a later one's downgrade that may bring back another domain.
ColumnsStay ==
    \A r \in 1..Len(revisions), c \in ColumnNames :
        r + 1 \in 1..Len(reached) /\ Settled(r + 1, c) =>
          reached[r + 1].columns[c] = Forward(revisions[r], c, reached[r])

\* The last script leads from the version it was written at to the model it was
\* written for.
LeadsTo(script, c, domain, type) ==
    IF Touches(script, c) THEN OpOn(script, c).up.call = type ELSE ~Changed(Reflected(domain), type)

LastScript ==
    Len(revisions) > 0 =>
      /\ \A c \in ColumnNames :
            LeadsTo(revisions[Len(revisions)], c, reached[Len(revisions)].columns[c], target.columns[c])
      /\ target.class # NoClass => \E r \in 1..Len(revisions) : MakesClass(r)

LEMMA AutogenerateStay ==
  ASSUME HistoryInv, ColumnsStay, Autogenerate
  PROVE  ColumnsStay'
<1> DEFINE n == Len(revisions)
<1>1. n \in Nat /\ Len(reached) \in {n, n + 1}
  BY HistoryBounds DEF HistoryInv, TypeInv, ReachedOK
<1>2. UNCHANGED reached /\ revisions' = Append(revisions, Differences)
  BY DEF Autogenerate
<1>3. /\ Len(revisions') = n + 1
      /\ \A r \in 1..n : revisions'[r] = revisions[r] /\ r \in 1..n + 1
  BY <1>1, <1>2, AppendTuple DEF HistoryInv, TypeInv, ScriptsOK
<1>4. \A r, c : Settled(r, c)' => Settled(r, c)
  BY <1>3 DEF Settled
<1> HIDE DEF n
<1>5. ASSUME NEW r \in 1..n + 1, NEW c \in ColumnNames, r + 1 \in 1..Len(reached), Settled(r + 1, c)
      PROVE  reached[r + 1].columns[c] = Forward(revisions'[r], c, reached[r])
  <2>1. r \in 1..n
    BY <1>1, <1>5
  <2>2. QED
    BY <1>3, <1>5, <2>1 DEF ColumnsStay, n
<1>6. QED
  BY <1>2, <1>3, <1>4, <1>5 DEF ColumnsStay

LEMMA UpdateUpStay ==
  ASSUME HistoryInv, ColumnsStay, UpdateVersion, run.direction = "up"
  PROVE  ColumnsStay'
<1> DEFINE r == run.revision
<1>1. /\ r \in 1..Len(revisions) /\ r \in 1..Len(reached) /\ r \in Nat
      /\ Len(revisions) \in Nat /\ Len(reached) \in Nat
      /\ UNCHANGED revisions /\ r + 1 \in 1..Len(reached')
      /\ \A v \in 1..Len(reached') :
            /\ reached'[v] = IF v = r + 1 THEN catalog ELSE reached[v]
            /\ v # r + 1 => v \in 1..Len(reached)
      /\ \A v \in 1..Len(revisions) : v \in 1..Len(reached)
  BY UpdateUp DEF HistoryInv
<1>2. \A c \in ColumnNames : catalog.columns[c] = Forward(revisions[r], c, reached[r])
  BY UpColumn DEF HistoryInv
<1>3. Len(reached') \in Nat /\ \A v \in 1..Len(reached) : v \in 1..Len(reached')
  <2>1. Len(reached') \in {Len(reached), Len(reached) + 1}
    BY ReachedAfter DEF HistoryInv
  <2>2. QED
    BY <1>1, <2>1
<1>4. \A q, c : Settled(q, c)' <=> Settled(q, c)
  BY <1>1 DEF Settled
<1> HIDE DEF r
<1>5. ASSUME NEW q \in 1..Len(revisions), NEW c \in ColumnNames, q + 1 \in 1..Len(reached'), Settled(q + 1, c)
      PROVE  reached'[q + 1].columns[c] = Forward(revisions[q], c, reached'[q])
  <2>1. q \in 1..Len(reached) /\ q \in 1..Len(reached') /\ q \in Nat
    BY <1>1, <1>3
  <2>2. CASE q = r
    <3>1. reached'[q] = reached[q] /\ reached'[q + 1] = catalog
      BY <1>1, <2>1, <2>2
    <3>2. QED
      BY <1>2, <2>2, <3>1
  <2>3. CASE q = r + 1
    <3>1. reached'[q] = catalog /\ reached'[q + 1] = reached[q + 1] /\ q + 1 \in 1..Len(reached)
      BY <1>1, <1>5, <2>1, <2>3
    <3>2. reached[q + 1].columns[c] = Forward(revisions[q], c, reached[q])
      BY <1>5, <3>1 DEF ColumnsStay
    <3>3. CASE Touches(revisions[q], c)
      BY <3>1, <3>2, <3>3 DEF Forward
    <3>4. CASE ~Touches(revisions[q], c)
      <4>1. \A x \in 1..Len(revisions) : x >= r + 1 => x = q \/ x >= q + 1
        BY <1>1, <2>3
      <4>2. Settled(r + 1, c)
        BY <1>5, <3>4, <4>1 DEF Settled
      <4>3. reached[r + 1].columns[c] = catalog.columns[c]
        BY <1>1, <1>2, <2>1, <2>3, <4>2 DEF ColumnsStay
      <4>4. QED
        BY <2>3, <3>1, <3>2, <3>4, <4>3 DEF Forward
    <3>5. QED
      BY <3>3, <3>4
  <2>4. CASE q # r /\ q # r + 1
    <3>1. reached'[q] = reached[q] /\ q + 1 # r + 1
      BY <1>1, <2>1, <2>4
    <3>2. q + 1 \in 1..Len(reached) /\ reached'[q + 1] = reached[q + 1]
      BY <1>1, <1>5, <3>1
    <3>3. QED
      BY <1>5, <3>1, <3>2 DEF ColumnsStay
  <2>5. QED
    BY <2>2, <2>3, <2>4
<1>6. QED
  BY <1>1, <1>4, <1>5 DEF ColumnsStay

LEMMA UpdateDownStay ==
  ASSUME HistoryInv, ColumnsStay, UpdateVersion, run.direction # "up"
  PROVE  ColumnsStay'
<1> DEFINE r == run.revision
<1>1. /\ r \in 1..Len(revisions) /\ r \in 1..Len(reached) /\ r + 1 \in 1..Len(reached) /\ r \in Nat
      /\ Len(revisions) \in Nat /\ Len(reached) \in Nat
      /\ UNCHANGED revisions /\ Len(reached') = Len(reached)
      /\ \A v \in 1..Len(reached) : reached'[v] = IF v = r THEN catalog ELSE reached[v]
  BY UpdateDown DEF HistoryInv
<1>2. \A c \in ColumnNames :
         ~Touches(revisions[r], c) => catalog.columns[c] = reached[r + 1].columns[c]
  BY DownColumn DEF HistoryInv
<1>3. \A q \in 1..Len(revisions) : q \in 1..Len(reached)
  <2>1. Len(reached) \in {Len(revisions), Len(revisions) + 1}
    BY DEF HistoryInv, TypeInv, ReachedOK
  <2>2. QED
    BY <1>1, <2>1
<1>4. \A q, c : Settled(q, c)' <=> Settled(q, c)
  BY <1>1 DEF Settled
<1> HIDE DEF r
<1>5. ASSUME NEW q \in 1..Len(revisions), NEW c \in ColumnNames, q + 1 \in 1..Len(reached), Settled(q + 1, c)
      PROVE  reached'[q + 1].columns[c] = Forward(revisions[q], c, reached'[q])
  <2>1. /\ q \in 1..Len(reached) /\ q \in Nat
        /\ reached[q + 1].columns[c] = Forward(revisions[q], c, reached[q])
    BY <1>1, <1>3, <1>5 DEF ColumnsStay
  <2>2. CASE q = r
    <3>1. reached'[q] = catalog /\ reached'[q + 1] = reached[q + 1]
      BY <1>1, <2>1, <2>2
    <3>2. QED
      BY <1>2, <2>1, <2>2, <3>1 DEF Forward
  <2>3. CASE q + 1 = r
    <3>1. reached'[q] = reached[q] /\ reached'[q + 1] = catalog
      BY <1>1, <2>1, <2>3
    <3>2. ~Touches(revisions[r], c) /\ Settled(r + 1, c)
      BY <1>1, <1>5, <2>3 DEF Settled
    <3>3. reached[r + 1].columns[c] = Forward(revisions[r], c, reached[r])
      BY <1>1, <3>2 DEF ColumnsStay
    <3>4. catalog.columns[c] = reached[r].columns[c]
      BY <1>2, <3>2, <3>3 DEF Forward
    <3>5. QED
      BY <2>1, <2>3, <3>1, <3>4
  <2>4. CASE q # r /\ q + 1 # r
    <3>1. reached'[q] = reached[q] /\ reached'[q + 1] = reached[q + 1]
      BY <1>1, <1>5, <2>1, <2>4
    <3>2. QED
      BY <2>1, <3>1
  <2>5. QED
    BY <2>2, <2>3, <2>4
<1>6. QED
  BY <1>1, <1>4, <1>5 DEF ColumnsStay

LEMMA NextStay == HistoryInv /\ ColumnsStay /\ [Next]_vars => ColumnsStay'
<1> SUFFICES ASSUME HistoryInv, ColumnsStay, [Next]_vars PROVE ColumnsStay'
  OBVIOUS
<1>1. CASE UNCHANGED <<revisions, reached>>
  BY <1>1 DEF ColumnsStay, Settled
<1>2. QED
  BY <1>1, AutogenerateStay, UpdateUpStay, UpdateDownStay
     DEF Next, EditModel, Upgrade, Downgrade, ApplyOp, NextRevision, Stop, CleanUp, vars

LEMMA AutogenerateLast ==
  ASSUME HistoryInv, LastScript, Autogenerate
  PROVE  LastScript'
<1> DEFINE n == Len(revisions)
<1>1. /\ run = Idle /\ stopped = NotStopped /\ recorded = n /\ revisions' = Append(revisions, Differences)
      /\ target' = model /\ UNCHANGED <<reached, server>>
  BY DEF Autogenerate
<1>2. n \in Nat /\ n + 1 \in 1..Len(reached)
  BY <1>1, HistoryBounds DEF HistoryInv
<1>3. catalog = reached[n + 1]
  BY <1>1 DEF HistoryInv, IInv, BetweenRuns, Running, Idle
<1>4. /\ Len(revisions') = n + 1 /\ revisions'[n + 1] = Differences
      /\ \A r \in 1..n : revisions'[r] = revisions[r]
  BY <1>1, <1>2, AppendTuple DEF HistoryInv, TypeInv, ScriptsOK
<1>5. /\ revisions'[Len(revisions')] = Differences /\ reached'[Len(revisions')] = catalog
      /\ \A script, c, domain, type : LeadsTo(script, c, domain, type)' <=> LeadsTo(script, c, domain, type)
  BY <1>1, <1>3, <1>4 DEF LeadsTo, Reflected
<1>6. ASSUME NEW c \in ColumnNames
      PROVE  LeadsTo(Differences, c, catalog.columns[c], model.columns[c])
  <2>1. CASE Touches(Differences, c)
    BY <2>1, WrittenBack DEF HistoryInv, LeadsTo
  <2>2. CASE ~Touches(Differences, c)
    <3>1. ASSUME Changed(Conn(c), model.columns[c])
          PROVE  FALSE
      <4>1. PICK i \in DOMAIN Differences : ProposedFor(Differences[i], c)
        BY <3>1, DifferencesForm
      <4>2. Differences[i].subject = c /\ i \in 1..Len(Differences)
        BY <4>1, DifferencesForm, PartsOfOperation DEF ProposedFor, IsTuple
      <4>3. QED
        BY <2>2, <4>2 DEF Touches
    <3>2. QED
      BY <2>2, <3>1 DEF Conn, LeadsTo
  <2>3. QED
    BY <2>1, <2>2
<1>7. ASSUME model.class # NoClass
      PROVE  \E r \in 1..n + 1 : Touches(revisions'[r], "class")
  <2>1. CASE catalog.class = "absent"
    <3>1. PICK i \in DOMAIN Differences : ProposedForClass(Differences[i])
      BY <1>7, <2>1, DifferencesForm
    <3>2. Differences[i].subject = "class" /\ i \in 1..Len(Differences)
      BY <3>1, DifferencesForm, PartsOfOperation DEF ProposedForClass, IsTuple
    <3>3. Touches(revisions'[n + 1], "class")
      BY <1>4, <3>2 DEF Touches
    <3>4. QED
      BY <1>2, <3>3
  <2>2. CASE catalog.class # "absent"
    <3>1. PICK r \in 1..(n + 1) - 1 : MakesClass(r)
      BY <1>2, <1>3, <2>2 DEF HistoryInv, ClassHistory, ClassOnceMade
    <3>2. r \in 1..n /\ r \in 1..n + 1
      BY <1>2
    <3>3. QED
      BY <1>4, <3>1, <3>2 DEF MakesClass
  <2>3. QED
    BY <2>1, <2>2
<1> HIDE DEF n
<1>8. \A c \in ColumnNames :
         LeadsTo(revisions'[Len(revisions')], c, reached'[Len(revisions')].columns[c], target'.columns[c])
  BY <1>1, <1>5, <1>6
<1>9. target'.class # NoClass => \E r \in 1..Len(revisions') : Touches(revisions'[r], "class")
  BY <1>1, <1>4, <1>7
<1>10. QED
  BY <1>5, <1>8, <1>9 DEF LastScript, MakesClass

LEMMA UpdateVersionLast ==
  ASSUME HistoryInv, ColumnsStay, LastScript, UpdateVersion
  PROVE  LastScript'
<1> DEFINE n == Len(revisions)
<1>1. UNCHANGED <<revisions, target, server>>
  BY DEF UpdateVersion
<1>2. \A script, c, domain, type : LeadsTo(script, c, domain, type)' <=> LeadsTo(script, c, domain, type)
  BY <1>1 DEF LeadsTo, Reflected
<1>3. ASSUME NEW c \in ColumnNames, n > 0, ~Touches(revisions[n], c)
      PROVE  reached'[n].columns[c] = reached[n].columns[c]
  <2>1. n \in Nat /\ Settled(n, c)
    BY <1>3, HistoryBounds DEF HistoryInv, Settled
  <2> DEFINE r == run.revision
  <2>2. CASE run.direction = "up"
    <3>1. /\ r \in 1..n /\ r \in Nat
          /\ \A v \in 1..Len(reached') : reached'[v] = IF v = r + 1 THEN catalog ELSE reached[v]
          /\ \A v \in 1..n : v \in 1..Len(reached)
          /\ Len(reached) \in Nat
      BY <2>2, UpdateUp DEF HistoryInv
    <3>2. n \in 1..Len(reached') /\ n \in 1..Len(reached)
      <4>1. Len(reached') \in {Len(reached), Len(reached) + 1}
        BY ReachedAfter DEF HistoryInv
      <4>2. n \in 1..n
        BY <1>3, <2>1
      <4>3. n \in 1..Len(reached)
        BY <3>1, <4>2
      <4>4. QED
        BY <3>1, <4>1, <4>3
    <3>3. CASE n = r + 1
      <4>1. reached[r + 1].columns[c] = Forward(revisions[r], c, reached[r])
        BY <2>1, <3>1, <3>2, <3>3 DEF ColumnsStay
      <4>2. catalog.columns[c] = Forward(revisions[r], c, reached[r])
        BY <2>2, UpColumn DEF HistoryInv
      <4>3. QED
        BY <3>1, <3>2, <3>3, <4>1, <4>2
    <3>4. CASE n # r + 1
      BY <3>1, <3>2, <3>4
    <3>5. QED
      BY <3>3, <3>4
  <2>3. CASE run.direction # "up"
    <3>1. /\ r \in 1..n /\ r + 1 \in 1..Len(reached) /\ Len(reached) \in Nat
          /\ \A v \in 1..Len(reached) : reached'[v] = IF v = r THEN catalog ELSE reached[v]
      BY <2>3, UpdateDown DEF HistoryInv
    <3>2. n \in 1..Len(reached)
      <4>1. Len(reached) \in {n, n + 1}
        BY DEF HistoryInv, TypeInv, ReachedOK
      <4>2. QED
        BY <1>3, <2>1, <3>1, <4>1
    <3>3. CASE n = r
      <4>1. catalog.columns[c] = reached[r + 1].columns[c]
        BY <1>3, <2>3, <3>3, DownColumn DEF HistoryInv
      <4>2. \A q \in 1..n : ~(q >= r + 1)
        BY <2>1, <3>3
      <4>3. Settled(r + 1, c)
        BY <4>2 DEF Settled
      <4>4. reached[r + 1].columns[c] = Forward(revisions[r], c, reached[r])
        BY <3>1, <4>3 DEF ColumnsStay
      <4>5. QED
        BY <1>3, <3>1, <3>2, <3>3, <4>1, <4>4 DEF Forward
    <3>4. CASE n # r
      BY <3>1, <3>2, <3>4
    <3>5. QED
      BY <3>3, <3>4
  <2>4. QED
    BY <2>2, <2>3
<1>4. QED
  BY <1>1, <1>2, <1>3 DEF LastScript, LeadsTo, MakesClass

LEMMA NextLast == HistoryInv /\ ColumnsStay /\ LastScript /\ [Next]_vars => LastScript'
<1> SUFFICES ASSUME HistoryInv, ColumnsStay, LastScript, [Next]_vars PROVE LastScript'
  OBVIOUS
<1>1. CASE UNCHANGED <<revisions, reached, target, server>>
  BY <1>1 DEF LastScript, LeadsTo, MakesClass, Reflected
<1>2. QED
  BY <1>1, AutogenerateLast, UpdateVersionLast
     DEF Next, EditModel, Upgrade, Downgrade, ApplyOp, NextRevision, Stop, CleanUp, vars

\* What a column is when the last script has been executed.
LEMMA AtTheHead ==
  ASSUME HistoryInv, ColumnsStay, LastScript, NEW c \in ColumnNames,
         run = Idle, stopped = NotStopped, model = target, recorded = Len(revisions), Len(revisions) > 0
  PROVE  \/ catalog.columns[c] = IF model.columns[c] = NoType THEN NoDomain ELSE Domain(Compile(model.columns[c]))
         \/ ~Changed(Conn(c), model.columns[c])
<1> DEFINE n == Len(revisions)
<1>1. n \in Nat /\ n \in 1..n /\ n + 1 \in 1..Len(reached)
  BY HistoryBounds DEF HistoryInv
<1>2. catalog = reached[n + 1]
  BY DEF HistoryInv, IInv, BetweenRuns, Running, Idle
<1>3. Settled(n + 1, c)
  <2>1. \A q \in 1..n : ~(q >= n + 1)
    BY <1>1
  <2>2. QED
    BY <2>1 DEF Settled
<1>4. catalog.columns[c] = Forward(revisions[n], c, reached[n])
  BY <1>1, <1>2, <1>3 DEF ColumnsStay
<1>5. CASE Touches(revisions[n], c)
  <2>1. OpOn(revisions[n], c).up.call = model.columns[c]
    BY <1>5 DEF LastScript, LeadsTo
  <2>2. QED
    BY <1>4, <1>5, <2>1 DEF Forward, Result
<1>6. CASE ~Touches(revisions[n], c)
  <2>1. ~Changed(Reflected(reached[n].columns[c]), model.columns[c])
    BY <1>6 DEF LastScript, LeadsTo
  <2>2. QED
    BY <1>4, <1>6, <2>1 DEF Forward, Conn
<1>7. QED
  BY <1>5, <1>6

\* A column that has just what the model asks for is proposed to be changed only if it
\* cannot be reflected as that.
LEMMA FreshIsQuiet ==
  ASSUME HistoryInv, NEW c \in ColumnNames, Changed(Conn(c), model.columns[c]),
         catalog.columns[c] = IF model.columns[c] = NoType THEN NoDomain ELSE Domain(Compile(model.columns[c]))
  PROVE  ReflectsDifferently(model.columns[c])
<1> DEFINE meta == model.columns[c]
<1>1. server.bySecondName \in BOOLEAN /\ server \in Servers
  BY ServersAssumption DEF HistoryInv, TypeInv
<1>2. meta = NoType \/ IsType(meta)
  BY DEF HistoryInv, TypeInv, ModelOK
<1>3. CASE meta = NoType
  <2>1. Conn(c) = NoType
    BY <1>3 DEF Conn, Reflected
  <2>2. QED
    BY <1>3, <2>1 DEF Changed
<1>4. CASE meta # NoType
  <2>1. IsType(meta) /\ catalog.columns[c] = Domain(Compile(meta)) /\ IsDomain(Domain(Compile(meta)))
    BY <1>2, <1>4, CompiledIsDomain
  <2>2. catalog.columns[c] # NoDomain
    BY <2>1, DomainsAreKnown
  <2>3. Conn(c) = ResolveType(ShowColumns(Domain(Compile(meta)), server.bySecondName))
    BY <2>1, <2>2 DEF Conn, Reflected
  <2>4. Conn(c) # NoType
    BY <1>1, <2>1, <2>2, ReflectedForms DEF Conn
  <2>5. Compilable(Conn(c)) /\ CompareType(Conn(c), meta)
    BY <1>4, <2>4 DEF Changed
  <2>6. Conn(c) # NullType
    BY <2>5, TypesAreKnown
  <2>7. QED
    BY <1>1, <2>1, <2>3, <2>5, <2>6, FreshColumnIsQuiet
<1>5. QED
  BY <1>3, <1>4

\* After an upgrade to the head autogenerate proposes no change of the model the head
\* was written for, but of columns that are reflected otherwise than the model spells
\* them.
THEOREM HeadIsQuiet == Spec => []NoPhantomChange
<1>1. HistoryInv /\ ColumnsStay /\ LastScript => NoPhantomChange
  <2> SUFFICES ASSUME HistoryInv, ColumnsStay, LastScript,
                      run = Idle, stopped = NotStopped, model = target, recorded = Len(revisions),
                      revisions # <<>>, NEW i \in DOMAIN Differences
               PROVE  /\ Differences[i].subject # "class"
                      /\ ReflectsDifferently(model.columns[Differences[i].subject])
    BY DEF NoPhantomChange
  <2>1. Len(revisions) \in Nat /\ Len(revisions) > 0 /\ Len(revisions) + 1 \in 1..Len(reached)
    <3>1. Len(revisions) \in Nat /\ IsTuple(revisions, Len(revisions)) /\ Len(revisions) + 1 \in 1..Len(reached)
      BY HistoryBounds DEF HistoryInv, TypeInv, ScriptsOK
    <3>2. Len(revisions) # 0
      BY <3>1, TuplesAreTuples DEF IsTuple
    <3>3. QED
      BY <3>1, <3>2
  <2>2. ~ProposedForClass(Differences[i])
    <3> SUFFICES ASSUME model.class # NoClass, catalog.class = "absent" PROVE FALSE
      BY DEF ProposedForClass
    <3>1. PICK r \in 1..Len(revisions) : MakesClass(r)
      BY <2>1 DEF LastScript
    <3>2. catalog = reached[Len(revisions) + 1]
      BY DEF HistoryInv, IInv, BetweenRuns, Running, Idle
    <3>3. r \in 1..(Len(revisions) + 1) - 1
      BY <2>1
    <3>4. QED
      BY <2>1, <3>1, <3>2, <3>3 DEF HistoryInv, ClassHistory, ClassOnceMade
  <2>3. PICK c \in ColumnNames : ProposedFor(Differences[i], c)
    BY <2>2, DifferencesForm
  <2>4. Differences[i].subject = c /\ Changed(Conn(c), model.columns[c])
    BY <2>3, PartsOfOperation DEF ProposedFor
  <2>5. catalog.columns[c] = IF model.columns[c] = NoType THEN NoDomain ELSE Domain(Compile(model.columns[c]))
    BY <2>1, <2>4, AtTheHead
  <2>6. QED
    BY <2>4, <2>5, FreshIsQuiet, ColumnsAssumption
<1>2. Init => ColumnsStay /\ LastScript
  <2> SUFFICES ASSUME Init PROVE ColumnsStay /\ LastScript
    OBVIOUS
  <2>1. Len(revisions) = 0
    BY DEF Init
  <2>2. QED
    BY <2>1 DEF ColumnsStay, LastScript
<1>3. HistoryInv /\ (ColumnsStay /\ LastScript) /\ [Next]_vars => (ColumnsStay /\ LastScript)'
  BY NextStay, NextLast
<1>4. QED
  BY <1>1, <1>2, <1>3, AlwaysHistory, PTL DEF Spec
=============================================================================
