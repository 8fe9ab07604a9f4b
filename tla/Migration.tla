------------------------------ MODULE Migration ------------------------------
(****************************************************************************)
(* Alembic migrations of a CUBRID database with CubridImpl: autogenerate     *)
(* compares the model with what reflection makes of the database and writes  *)
(* a revision; upgrades and downgrades run revisions statement by statement, *)
(* and may stop between any two.                                             *)
(*                                                                           *)
(* The model has one existing table, whose columns come, go and change their *)
(* types, and one class that the model may ask to have created, to which     *)
(* columns of type CubridOID refer. The server commits at every DDL          *)
(* statement (alembic_impl.py:29); the row of alembic_version is ordinary    *)
(* data.                                                                     *)
(****************************************************************************)
EXTENDS TableDDL

CONSTANTS
    Columns,            \* the table's columns, in the order Alembic visits them
    TypesOf,            \* the types a model may give each column to begin with
    LaterTypesOf,       \* the types edits may give each column (a bound)
    DomainsOf,          \* the domains each column may have to begin with
    Classes,            \* the elements that may create the class
    Servers,            \* version, as components, and bySecondName of ShowColumns
    MaxRevisions

ColumnNames == {Columns[i] : i \in DOMAIN Columns}

\* No such column, in a model and in the database.
NoType   == Plain("absent")
NoDomain == Bare("absent")
NoClass  == [construct |-> "absent"]

ASSUME MigrationAssumption ==
    /\ MaxRevisions \in Nat
    /\ \A element \in Classes :
          /\ element.construct \in {"Table", "CreateTableDontReuseOID", "CreateTableUnder"}
          \* CreateTableUnder has no such option.
          /\ element.construct = "CreateTableUnder" => ~element.dont_reuse_oid
          \* Table._autoincrement_column raises otherwise.
          /\ element.construct = "Table" =>
                \A i, j \in DOMAIN element.columns :
                    /\ element.columns[i].primary_key /\ element.columns[i].autoincrement = "true"
                    /\ element.columns[j].primary_key /\ element.columns[j].autoincrement = "true"
                    => i = j

\* A table names its columns once.
ASSUME ColumnsAssumption ==
    /\ Columns \in Seq(ColumnNames) /\ "class" \notin ColumnNames
    /\ \A i, j \in DOMAIN Columns : Columns[i] = Columns[j] => i = j

ASSUME TypesAssumption ==
    \A c \in ColumnNames :
        /\ \A type \in TypesOf[c] \cup LaterTypesOf[c] : type = NoType \/ IsType(type)
        /\ \A domain \in DomainsOf[c] : domain = NoDomain \/ IsDomain(domain)

\* Versions begin with two numbers, as in 11.4.0.1778.
ASSUME ServersAssumption ==
    \A s \in Servers :
        /\ s.version \in Seq([number : Nat \cup {NoNumber}]) /\ Len(s.version) >= 2
        /\ NoNumber \notin {s.version[1].number, s.version[2].number}
        /\ s.bySecondName \in BOOLEAN

VARIABLES
    model,              \* the metadata: a type for every column, and the class
    catalog,            \* the database: a domain for every column, and the class
    server,             \* the CUBRID server
    revisions,          \* the scripts, oldest first
    target,             \* history: the model when the last script was written
    recorded,           \* alembic_version, as committed
    pending,            \* alembic_version, in the open transaction
    run,                \* the upgrade or downgrade under way
    stopped,            \* the last run, if it stopped in the middle
    reached,            \* history: the catalog at each recorded version
    blind               \* history: a statement about the class was compiled without
                        \* knowing the server

vars == << model, catalog, server, revisions, target, recorded, pending, run,
           stopped, reached, blind >>

\* A run executes `revision`, whose next statement is number `at`, and goes on
\* until version `until`. `version` is _cubrid_version of its dialect.
Idle == [ direction |-> "none", revision |-> 0, at |-> 0, until |-> 0,
          version |-> UnknownVersion ]

\* Where a run stopped.
NotStopped == [direction |-> "none", revision |-> 0]

\* CubridDialect.initialize, on the first connection.
Initialize == GetServerVersionInfo(server.version)

----------------------------------------------------------------------------
\* Scripts. An operation takes its subject from one state to the other.

Operation(subject, up, down) == [subject |-> subject, up |-> up, down |-> down]

\* The type get_columns gives a column.
Reflected(domain) ==
    IF domain = NoDomain THEN NoType ELSE ResolveType(ShowColumns(domain, server.bySecondName))

\* Alembic proposes a change of type when both types are known and differ.
Changed(conn, meta) ==
    IF NoType \in {conn, meta}
      THEN conn # meta
      ELSE Compilable(conn) /\ Compilable(meta) /\ CompareType(conn, meta)

\* The metadata is compared with the reflected columns. MetaData cannot hold a
\* CreateTableUnder or CreateTableDontReuseOID: its author puts it into the script
\* where Alembic would have created the class.
Differences ==
    LET Conn(c) == Reflected(catalog.columns[c])
        IsChanged(c) == Changed(Conn(c), model.columns[c])
        changed == At(Columns, {i \in DOMAIN Columns : IsChanged(Columns[i])})
        created == model.class # NoClass /\ catalog.class = "absent"
    IN  (IF created THEN <<Operation("class", model.class, NoClass)>> ELSE <<>>)
        \o [ i \in DOMAIN changed |->
               Operation(changed[i], RenderType(model.columns[changed[i]]),
                         RenderType(Conn(changed[i]))) ]

----------------------------------------------------------------------------
\* Statements on the server.

\* One operation in one direction, compiled by a dialect of this version.
\* Downgrades run a script backwards.
Op(revision, i, direction) ==
    IF direction = "up" THEN revisions[revision][i]
    ELSE LET ops == revisions[revision] IN ops[Len(ops) + 1 - i]

Goal(op, direction) == IF direction = "up" THEN op.up ELSE op.down
Origin(op, direction) == IF direction = "up" THEN op.down ELSE op.up

ClassCreated(element, version) ==
    IF "DONT_REUSE_OID" \in CreateTable(element, version).options THEN "referable" ELSE "plain"

\* The database after the operation.
After(cat, op, direction, version) ==
    LET goal == Goal(op, direction)
    IN  IF op.subject = "class"
          THEN [cat EXCEPT !.class =
                  IF goal = NoClass THEN "absent" ELSE ClassCreated(goal, version)]
          ELSE [cat EXCEPT !.columns[op.subject] =
                  IF goal.call = NoType THEN NoDomain ELSE Domain(Compile(goal.call))]

\* What the server refuses: what is there already, what is not there, a column
\* that refers to a class it cannot, and a second AUTO_INCREMENT.
Acceptable(op, direction) ==
    LET goal == Goal(op, direction)
    IN  IF op.subject = "class"
          THEN /\ \/ (goal = NoClass) # (catalog.class = "absent")
                  \/ goal = NoClass /\ DropTableInheritance(Origin(op, direction))
               /\ goal # NoClass =>
                     Cardinality(CreateTable(goal, run.version).auto_increment) <= 1
          ELSE /\ Compilable(goal.call)
               /\ (Origin(op, direction).call = NoType) = (catalog.columns[op.subject] = NoDomain)
               /\ goal.call.class = "CubridOID" => catalog.class = "referable"

----------------------------------------------------------------------------
Init ==
    /\ catalog \in [columns : {d \in [ColumnNames -> UNION {DomainsOf[c] : c \in ColumnNames}] :
                                  \A c \in ColumnNames : d[c] \in DomainsOf[c]},
                    class : {"absent"}]
    /\ model \in [columns : {t \in [ColumnNames -> UNION {TypesOf[c] : c \in ColumnNames}] :
                                  \A c \in ColumnNames : t[c] \in TypesOf[c]},
                  class : {NoClass}]
    /\ server \in Servers
    /\ revisions = <<>>
    /\ target = model
    /\ recorded = 0 /\ pending = 0
    /\ run = Idle /\ stopped = NotStopped
    /\ reached = <<catalog>>
    /\ blind = FALSE

\* The project changes one thing of its model (a bound: once between revisions).
EditModel ==
    /\ Len(revisions) < MaxRevisions /\ run = Idle
    /\ model = target
    /\ \/ \E c \in ColumnNames : \E type \in LaterTypesOf[c] :
             model' = [model EXCEPT !.columns[c] = type]
       \/ \E element \in Classes :
             model.class = NoClass /\ model' = [model EXCEPT !.class = element]
    /\ UNCHANGED << catalog, server, revisions, target, recorded, pending, run, stopped,
                    reached, blind >>

\* alembic revision --autogenerate, with the database up to date.
Autogenerate ==
    /\ run = Idle /\ stopped = NotStopped
    /\ recorded = Len(revisions) /\ Len(revisions) < MaxRevisions
    /\ Differences # <<>>
    /\ revisions' = Append(revisions, Differences)
    /\ target' = model
    /\ UNCHANGED <<model, catalog, server, recorded, pending, run, stopped, reached, blind>>

Start(direction, revision, until, version) ==
    run' = [ direction |-> direction, revision |-> revision, at |-> 1, until |-> until,
             version |-> version ]

\* alembic upgrade. Offline (--sql), the dialect compiles without ever having
\* connected. A run that stopped may only be repeated, or cleaned up by hand.
Upgrade ==
    /\ run = Idle /\ stopped.direction \in {"none", "up"}
    /\ \E until \in recorded + 1..Len(revisions), version \in {UnknownVersion, Initialize} :
          Start("up", recorded + 1, until, version)
    /\ UNCHANGED << model, catalog, server, revisions, target, recorded, pending, stopped,
                    reached, blind >>

\* alembic downgrade
Downgrade ==
    /\ run = Idle /\ stopped.direction \in {"none", "down"}
    /\ recorded > 0
    /\ \E until \in 0..recorded - 1, version \in {UnknownVersion, Initialize} :
          Start("down", recorded, until, version)
    /\ UNCHANGED << model, catalog, server, revisions, target, recorded, pending, stopped,
                    reached, blind >>

Running == run.direction # "none"
OpsDone == Running /\ run.at > Len(revisions[run.revision])
Step    == IF run.direction = "up" THEN 1 ELSE -1

\* One statement; DDL commits what is pending.
ApplyOp ==
    /\ Running /\ ~OpsDone
    /\ LET op == Op(run.revision, run.at, run.direction)
       IN  /\ Acceptable(op, run.direction)
           /\ catalog' = After(catalog, op, run.direction, run.version)
           /\ blind' = (blind \/ (op.subject = "class" /\ run.version = UnknownVersion))
    /\ recorded' = pending
    /\ run' = [run EXCEPT !.at = @ + 1]
    /\ UNCHANGED <<model, server, revisions, target, pending, stopped, reached>>

\* The version is updated when a revision's statements are done.
VersionAfter == IF run.direction = "up" THEN run.revision ELSE run.revision - 1

\* Mutant: DDL is taken for transactional.
TransactionalDdlOn == TRUE

\* CubridImpl.transactional_ddl
TransactionalDdl == FALSE

\* With transactional_ddl, all revisions of a run share a transaction.
CommitsNow == ~TransactionalDdl \/ VersionAfter = run.until

\* UPDATE alembic_version.
UpdateVersion ==
    /\ OpsDone /\ pending # VersionAfter
    /\ pending' = VersionAfter
    /\ reached' = [v \in DOMAIN reached \cup {VersionAfter + 1} |->
                      IF v = VersionAfter + 1 THEN catalog ELSE reached[v]]
    /\ UNCHANGED <<model, catalog, server, revisions, target, recorded, run, stopped, blind>>

\* The transaction of the revision ends, and the next one begins.
NextRevision ==
    /\ OpsDone /\ pending = VersionAfter
    /\ recorded' = IF CommitsNow THEN pending ELSE recorded
    /\ run' = IF VersionAfter = run.until
                THEN Idle
                ELSE [run EXCEPT !.revision = @ + Step, !.at = 1]
    /\ stopped' = NotStopped
    /\ UNCHANGED <<model, catalog, server, revisions, target, pending, reached, blind>>

\* The server refuses a statement, or the process dies: what is not committed is
\* lost. Whether a server accepts the syntax of Alembic's ALTER is not known here,
\* so any statement may be refused. A run that stops before its first change leaves nothing behind.
Stop ==
    /\ Running
    /\ pending' = recorded
    /\ run' = Idle
    /\ stopped' = IF catalog = reached[recorded + 1]
                    THEN NotStopped
                    ELSE [direction |-> run.direction, revision |-> run.revision]
    /\ UNCHANGED <<model, catalog, server, revisions, target, recorded, reached, blind>>

\* Manual cleanup: back to the recorded version.
CleanUp ==
    /\ run = Idle /\ stopped # NotStopped
    /\ catalog' = reached[recorded + 1]
    /\ stopped' = NotStopped
    /\ UNCHANGED <<model, server, revisions, target, recorded, pending, run, reached, blind>>

Next ==
    \/ EditModel \/ Autogenerate
    \/ Upgrade \/ Downgrade
    \/ ApplyOp \/ UpdateVersion \/ NextRevision
    \/ Stop \/ CleanUp

Spec == Init /\ [][Next]_vars

----------------------------------------------------------------------------
Directions == {"none", "up", "down"}

IsCatalog(cat) ==
    /\ cat.class \in {"absent", "plain", "referable"}
    /\ \A c \in ColumnNames : cat.columns[c] = NoDomain \/ IsDomain(cat.columns[c])

\* Type invariant; the type compiler only asks for domains the server has.
TypeOK ==
    /\ IsCatalog(catalog) /\ \A v \in DOMAIN reached : IsCatalog(reached[v])
    /\ Len(revisions) <= MaxRevisions
    /\ Len(reached) <= Len(revisions) + 1
    /\ recorded \in 0..Len(revisions) /\ pending \in 0..Len(revisions)
    /\ run.direction \in Directions /\ run.until \in 0..Len(revisions)
    /\ Running => run.revision \in 1..Len(revisions) /\ run.at \in 1..Len(revisions[run.revision]) + 1
    /\ stopped.direction \in Directions
    /\ blind \in BOOLEAN

\* The version before the revision of a run, in its direction.
Before(r) == IF r.direction = "up" THEN r.revision - 1 ELSE r.revision

LastRun == IF Running THEN run ELSE stopped

\* Whoever finds a database after a migration can rely on alembic_version: unless
\* a run is in the middle of a revision, or stopped there, the database is as it
\* was when that version was reached; otherwise it names the version before that one
\* revision, however many revisions the run was to execute.
RecordedIsTrue ==
    IF LastRun = NotStopped
      THEN catalog = reached[recorded + 1]
      ELSE recorded = Before(LastRun)

\* A downgrade brings a version's columns back to the domains they had, types
\* that reflection loses aside: the round trip through SHOW COLUMNS, _resolve_type
\* and the type compiler keeps every other type, length and element type.
DowngradeRestores ==
    [][run.direction = "down" =>
          \A v \in DOMAIN reached :
              /\ reached'[v].class = reached[v].class
              /\ \A c \in ColumnNames :
                    \/ reached'[v].columns[c] = reached[v].columns[c]
                    \/ Lossy(reached[v].columns[c])]_vars

\* After an upgrade to the head, autogenerate has nothing more to propose for the
\* model the head was written from, those types aside; in particular collections
\* are compared without regard to case (alembic_impl.py:62).
NoPhantomChange ==
    run = Idle /\ stopped = NotStopped /\ model = target /\ recorded = Len(revisions)
    /\ revisions # <<>> =>
        \A i \in DOMAIN Differences :
            LET subject == Differences[i].subject
            IN  subject # "class" /\ ReflectsDifferently(model.columns[subject])

\* Where autogenerate sees no change there is none, but where reflection loses
\* the type or the two sides give different numbers of arguments. A STRING column
\* is reflected without a length, so a model that wants VARCHAR(50) there is not
\* noticed; nor is a model that wants NUMERIC(10) where there is NUMERIC(10,2).
QuietMeansSame ==
    \A c \in ColumnNames :
        LET meta == model.columns[c]
            conn == Reflected(catalog.columns[c])
        IN  ~Changed(conn, meta) =>
                \/ catalog.columns[c] = IF meta = NoType THEN NoDomain ELSE Domain(Compile(meta))
                \/ conn = NullType \/ Lossy(catalog.columns[c])
                \/ conn.class \in DOMAIN Arities /\ Len(conn.ints) # Len(Compile(meta).ints)

\* A class asked to be referable is, on a server that can have such classes, unless
\* the statement was compiled before the dialect knew the server's version.
ReferableAsAsked ==
    /\ catalog.class = "plain" /\ AsksReferable(model.class)
    /\ server.version[1].number >= 11
    => blind

\* No Table asks for a second AUTO_INCREMENT, which the server would refuse
\* (compiler.py:335); columns given to a construct without a Table may.
OneAutoIncrement ==
    model.class # NoClass /\ model.class.construct = "Table" =>
        Cardinality(CreateTable(model.class, Initialize).auto_increment) <= 1
=============================================================================
