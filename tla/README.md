# TLA+ verification of sqlalchemy-cubrid

The SQLAlchemy dialect for CUBRID (`sqlalchemy_cubrid/`) is a library of
callbacks: SQLAlchemy's engine, pool, compiler and Inspector call it, and it
calls the pycubrid driver. It starts no thread of its own, but it runs inside
a connection pool that many threads share, against a server that other
sessions change, and most of what it promises is about state kept in three
places at once: an attribute hung on the raw connection, the driver's own
state, and the server session. Those promises are what the modules here state
and check. All paths below are relative to `src/`.

## Inventory

| Part | Code | State | Operations | What is hard | What makes it correct |
|---|---|---|---|---|---|
| Isolation level, connection set-up | `dialect.py` 133-195, 232-235 | `_sa_isolation_level` on the raw connection, driver autocommit, server level, `default_isolation_level` | `on_connect`, `get/set/reset_isolation_level`, `initialize` | a failure between two of the three places; undoing a client's level at check-in; a level assumed and never read | what is tracked is true; a client gets the level it is entitled to; pooled connections are at the engine's level |
| Disconnects | `dialect.py` 197-230 | none; the pool acts on the answers | `is_disconnect`, `do_ping` | dead connections waiting in the pool; an error message that looks like a disconnect; a restart nobody noticed | what the pool was told is dead is not handed out; with pre-ping nothing dead is |
| Savepoints | `dialect.py` 208-210 | savepoints on the server, nested transactions in the client | `do_release_savepoint` | savepoints that are never released; DDL that commits | nested transactions undo exactly their own writes |
| Reflection | `dialect.py` 237-812 | `info_cache` of an Inspector | 12 `get_*` methods with `@reflection.cache`, `has_table`, `has_index`, `has_sequence`, three CUBRID-specific ones | DDL of other sessions between two statements; refused statements; three caching schemes | answers are of a moment of the call; answers are repeatable; NoSuchTableError means what it says |
| Tracing | `trace.py` | `_active`, the session's trace switch | `trace_query`, `QueryTracer.start/stop`, `with` | refused statements; nesting; sessions that outlive clients | whoever traces can stop; pooled sessions do not trace |
| Collection values | `types.py` | a parser's offset | three result processors, `_parse_collection_bytes` | sizes and counts come from the data; truncated data | reads back what was encoded, stays in bounds, ends |
| Types | `dialect.py` 317-429, `compiler.py` 419-501, `types.py` 30-40, `oid.py` 53-71 | none | `_resolve_type`, `CubridTypeCompiler`, `get_col_spec` | a type goes from model to text to domain to text to type, and each step may lose some of it | what comes back compiles to what was there, but for a named list |
| CREATE TABLE | `compiler.py` 325-382, `oid.py` 114-149, `inheritance.py` 36-79 | `_cubrid_version` | `get_column_specification`, `post_create_table`, the constructs of `oid.py` and `inheritance.py` | columns without a table; a version not known yet | at most one AUTO_INCREMENT; a class is referable when asked |
| DML constructs | `dml.py`, `merge.py`, `compiler.py` 140-218 | the clauses of a statement, the caller's dictionaries | `on_duplicate_key_update`, `Merge.*`, the two visit methods | statements with several names; calls repeated or in any order; dictionaries kept by reference | a statement compiles to what its own calls asked for |
| Statement cache | custom elements of `hierarchical.py`, `oid.py`, `functions.py`, `merge.py`, `dml.py` | SQLAlchemy's compiled cache | `inherit_cache` | two statements with one key | elements with arguments opt out |
| Migrations | `alembic_impl.py` | DDL done, version recorded | `transactional_ddl`, `compare_type`, `render_type` | a failure half-way; scripts written from reflected types | the recorded version is true; downgrades restore; autogenerate settles and overlooks nothing |
| Sequences, last row id | `base.py` 436-457 | none | `fire_sequence`, `get_lastrowid` | - | - |
| Rendering, reserved words, test adapters | `compiler.py`, `functions.py`, `dblink.py`, `base.py`, `requirements.py`, `provision.py` | none | text | - | - |

Interaction: the pool calls `on_connect` and the engine's own
`set_isolation_level` for each new raw connection, `initialize` with the first
one, `do_ping` at check-out with `pool_pre_ping`, and
`reset_isolation_level` at check-in of a connection whose client changed the
level. `Connection` calls `set_isolation_level` for `execution_options`,
`do_release_savepoint` for a nested commit, and `is_disconnect` for every
DB-API error; if that says yes it invalidates the pool, as far as that connection
is no older than the last invalidation. An `Inspector` calls
the reflection methods with its cache. Tracers execute statements on a
connection a client holds. Result processors run on each fetched value.
Alembic calls the reflection methods for what the database has, `compare_type`
for what changed, `render_type` for the script, and the DDL and type compilers
when the script runs; whether it commits after each revision it takes from
`transactional_ddl`. The DDL compiler reads the version that `initialize` left
on the dialect, if it ran.

`PROJECT.json` lists, at its line, everything in this code that a test hardly
reaches (`hazards`), with the property that watches it.

## Modules

| Module | Models | Checked by |
|---|---|---|
| `DbapiConnection` | one raw connection: each dialect method as the set of its outcomes (returned or raised, and the connection it leaves) | through `EnginePool` |
| `EnginePool` (`MCEnginePool`) | those methods inside a pool with clients, refused statements, broken links and outages | `pool`, `pool_preping`, `autocommit_option` |
| `EnginePoolProofs` | the inductive invariants of `EnginePool` and seven theorems | TLAPS |
| `NestedTransactions` | abstract: a stack of layers of writes, one per open nested transaction | as a property of `Savepoints` |
| `Savepoints` (`MCSavepoints`) | a client's nested transactions over a server that keeps every savepoint | `savepoints` |
| `SavepointsProofs` | the server's log as a value, its invariant, and the refinement of `NestedTransactions` | TLAPS |
| `QueryTrace` | `trace_query` and tracers on pooled connections | `trace`, `trace_query_error` |
| `QueryTraceProofs` | the invariants of `QueryTrace` for any connections and tracers | TLAPS |
| `CollectionCodec` (`MCCollectionCodec`) | a result processor reading one value, element by element | `collection`, `collection_cut` |
| `CollectionCodecProofs` | bounds of the parser for any bytes, and that it reads back any collection | TLAPS |
| `ColumnTypes` | types, their texts, the server's domains, and Alembic's comparison: operators without state | through `Migration` |
| `ColumnTypesProofs` | the round trips of a type, for every domain and every type | TLAPS |
| `TableDDL` | CREATE TABLE in its three forms, for a version: operators without state | through `Migration` |
| `Migration` (`MCMigration`) | a model, a database and scripts: autogenerate, upgrade, downgrade, failures | `migration` |
| `MigrationProofs` | every property of the `migration` run, for any columns, types, servers and revisions | TLAPS |
| `Statements` (`MCStatements`) | builder calls on INSERT and MERGE and what they compile to | `statements` |
| `StatementsProofs` | that statements compile to what was asked, for any tables, dictionaries and calls | TLAPS |
| `Reflection` | every reflection method, one statement a step, with DDL in between | `reflection`, `reflection_refused` |
| `ReflectionProofs` | that an Inspector's answers repeat and are of a moment, for any definitions and DDL | TLAPS |

### DbapiConnection and EnginePool

A raw connection is `[link, autocommit, tracked, server]`: `tracked` is
`_sa_isolation_level`, `server` what the session really runs at.
`SetIsolationLevel` is the whole of `set_isolation_level`: leave autocommit,
look the level up, execute, track, where each of the steps that talk to the
server can succeed, be refused, or find or lose the link. `DoPing` answers
FALSE for any driver error, also one on a live link. `IsDisconnect` sees an
exception as its class, the tell-tale word its message contains and its code.

`EnginePool` puts connections in pool records (`Slots`). Actions are
check-out (pooled, reconnecting, failing), statements (succeeding, refused,
meeting a dead link), commit or rollback, setting the isolation option, the
three kinds of check-in, and link losses. The pool is SQLAlchemy's and so is
modelled from the calls it makes on the dialect and what it does with the
answers: invalidation marks every open connection `stale`, which is replaced
at its next check-out, unless the connection found broken is stale itself: then
the pool's time of invalidation stays and nothing is marked (`Invalidated`); a
disconnect returns the record with no finalizer run; a reset that raises loses
the record. The history `condemned` keeps which connections were dead when
another was found broken, less those that this rule lets through; the property
about dead connections, `DeadNeverReissued`, reads it. A client is one thread, so each of its
calls on its connection is one step; clients of different records interleave.
`initialize` runs with an engine's first connection; running it again, as
`CheckoutReconnects` does, assigns what is there already.

### Savepoints

The server's transaction is a log of rows and savepoints; `RollbackTo` cuts
it at the latest savepoint of a name, `DoReleaseSavepoint` leaves it alone.
The client has SQLAlchemy's stack of names. `ImplementsNesting` maps the log
between the client's open savepoints to the layers of `NestedTransactions`.
Both modules record the client's last `call`, so a release that acts like a
rollback does not pass for one, and the abstract specification lets no call
of a client without DDL fail.
`ExecuteDDL` is CUBRID's commit at DDL, the fact `alembic_impl.py:29` states. A
behaviour belongs to a client that uses DDL or to one that does not
(`usesDDL`): only the second is promised nested transactions, the first only
that a rollback that cannot be done says so.

### QueryTrace

`traceOn` is the session's switch, `active` the tracers whose `_active` is
True. `stop()` keeps `_active` until `SET TRACE OFF` was accepted, so a
refused `stop()` changes nothing (`StopRefused`) and can be repeated.
`abandoned` and `raised` record the two ways in which a session is left
tracing for good, `interrupted` that a SET TRACE OFF ended more than its own.

### CollectionCodec

One behaviour is one call of a result processor, on one delivery: the column it
is for, a value, the items the server meant, and whether the value is their
whole encoding, a cut of it, or anything at all. `PassNone` and `PassNative`
return the value as it is, `EncodeRaises` is the `UnicodeEncodeError` of a `str`
outside latin-1, `Reject` the fallback; otherwise `Enter` begins the loop,
`Element` is one round of it, and `Finish` returns what `AsColumn` makes of it: a
set for a SET column, the list for the two others.

A text is a sequence of characters and a character the sequence of its UTF-8
bytes; `Starts` and `IsCharacter` are the standard's table of byte sequences.
`Decode` is `bytes.decode("utf-8", errors="replace")`, a decoder that takes byte
after byte and replaces what is no character, or no whole one, by U+FFFD. The
encoder in `MCCollectionCodec` follows the wire format in the docstring
(`types.py:54-56`), with and without the last null. `Begins`, `LaidOut` and
`Complete` state that format without an encoder, as `InputsAssumption` needs it:
where each element begins, and how much of it the data holds. A cut may come at
any byte, inside a character too: `CutIsPrefix` says what is left then
(`Remnants`).

### Reflection

`catalog` is what one name stands for: nothing, or a table, view or serial at
one of several versions that differ in everything. A method is chosen when
the behaviour starts: the methods share no cache key (`reflection.cache` keys
by method name and by how the arguments are passed, so `has_index` does not
even share with `get_indexes` as the Inspector calls it), so one method at a
time is all an Inspector can show. Every statement is a step, `CreateOrDrop`
and `Alter` interleave with them, `Refuse` fails one: a `DatabaseError` or
`ProgrammingError` meets the code's except clauses, an `InterfaceError`
passes them. An answer says which version each part of it was read from.
The functions of `inheritance.py` are methods of the same kind that take a
connection and so have no cache (`Uncached`).

### ColumnTypes and TableDDL

A type is a class with its integers (length, precision, scale) and words
(labels, element type, class name); a text is a base name with the same. The
regular expression that splits the one from the other is left out, so a label
with a quote in it is no value here. `ResolveType` is `_resolve_type`: the map,
the arguments each class takes (`Arities`), and the bare type when they do not
fit. Arguments a class does not look at are no part of a type (`IsType`), nor are
domains of forms the server does not keep (`IsDomain`). `Compile` is the type compiler, with SQLAlchemy's generic methods where
the dialect has none of its own. `Domain` and `ShowColumns` are the server's
side, as `docs/en/types.md`, `docs/en/introspection.md` and the tests show it:
defaults filled in, SHORT for SMALLINT, and the second names of VARCHAR and
SEQUENCE_OF on servers that print those.

`ColumnSpecification` keeps of `get_column_specification` the type and the
AUTO_INCREMENT; the default, NOT NULL and comment are text. The parameter
`hasTable` tells a column of a `Table` from one given to `CreateTableUnder` or
`CreateTableDontReuseOID`, which has none.

### Migration

The model gives two columns a type or none, and a class it may ask for;
`catalog` has domains for the columns and says whether the class is there and
may be referred to. `Autogenerate` compares as Alembic does and writes a script
of operations, each from one state to another: the downgrade side is what
*reflection* said, rendered into the script, so whatever reflection loses is
lost there. `Upgrade` and `Downgrade` choose how many revisions to run and
whether the dialect has connected; `ApplyOp` runs one statement, which commits
everything pending; `UpdateVersion` and `NextRevision` are Alembic's bookkeeping,
with `transactional_ddl` deciding whether a transaction spans one revision or
all. `Stop` may come anywhere: the repository does not say which of Alembic's
ALTER statements a server takes, so any may be refused. A stopped run is
repeated in the same direction or cleaned up by hand; what it does not model is
someone going on in the other direction from a half-done revision.

The histories `reached` (the catalog at each version), `target` (the model the
last script was for) and `blind` (a statement about the class was compiled
without knowing the server) are read by properties, and by `Stop`, `CleanUp` and
`EditModel` only as what an operator knows.

### Statements

A handle is a variable of the client's program that holds a statement.
`on_duplicate_key_update` gives one handle a changed copy (`Generated`);
Merge's methods change the object and give one more handle to it (`MergeCall`).
`dict` is what the client's dictionaries hold now: clauses that keep one by
reference compile to that, not to what it held. `VisitOnDuplicateKeyUpdate` and
`VisitMerge` compile at any moment; what they yield is looked at in every state.

## Runs

Runs that pass:

| Run | Shows | Bounds |
|---|---|---|
| `pool` | `TracksServer`, `EntitledIsolation`, `PooledIsHome`, `DeadNeverReissued`, no engine level, no ping | 2 records, 3 levels, the link-error shapes of docs/en/connection.md:165-170, two refusals of which one looks like a disconnect |
| `pool_preping` | `EntitledIsolation`, `PingedAlive` for an engine at SERIALIZABLE with pre-ping | the same |
| `savepoints` | `ImplementsNesting`, `NoSilentPartialRollback` | 3 rows, `MaxSavepoints` = 4 |
| `trace` | `TracingIsOwned`, `BlockIsTraced` | 2 connections, 2 tracers each |
| `collection` | `ReadsBack`, `CutIsPrefix`, `InBounds`, `Terminates` | up to 3 items of 5 texts with characters of one to four bytes, every cut of them, arbitrary bodies of up to 5 bytes of 5 values, counts up to 1000, every other type of value |
| `migration` | `RecordedIsTrue`, `DowngradeRestores`, `NoPhantomChange`, `QuietMeansSame`, `ReferableAsAsked`, `OneAutoIncrement` | 2 columns, 13 types, 11 domains, 3 constructs for the class, a server before and one from 11.0 on, `MaxRevisions` = 2 |
| `statements` | `UpsertAsAsked`, `MergeAsAsked` | 2 Inserts, 2 Merges, 1 dictionary, 12 calls of `on_duplicate_key_update`, `MaxCalls` = 4 |
| `reflection` | `AnswerOfAMoment`, `AnswersAreRepeated` | 2 versions, 3 kinds, any number of DDL statements, any statement refused |

Why the bounds are enough. Two records are one that a client uses while the
other is in the pool, or two clients at once; no rule of the pool relates
three. Three levels are a start, a requested and a third one. Four savepoints
reach a released one inside an open one inside an open one, with one more set
afterwards; the names never come back. Two tracers are one inside the other. Three items are a first, a
middle (padded) and a last (unpadded) one; five arbitrary bytes are an element
with its padding and the size of another, or sizes that overrun, over broken and
whole characters. Two versions are a before and an after.
Two revisions are the least with which a run has one behind it and one before
it, and a version recorded for one is not the other's; a model edit between
them (`EditModel` makes one, to one of the types of `LaterTypesOf`) makes the
second script undo or extend the first. Two columns and a class give scripts of
up to three statements, with a middle to fail in. The types are one of each way
through `_resolve_type` and the type compiler. Four calls on a statement are two
to bring a second handle to it, and two that conflict; a third handle adds no
new relation between two of them, which is also why handles and source tables
are symmetric (`MCSymmetry`).

`MaxSavepoints` (and with it the number of statements between two commits),
`MaxRevisions` and `MaxCalls` cut behaviours short; `MaxItems` and `MaxBody`
bound inputs. Nothing else in the models grows, so the other state spaces are
explored whole. `CHECK_DEADLOCK FALSE` is set where the system really stops: a
pool all of whose records are lost, a processor that has returned, a model
that needs no migration, and a client whose calls are done.

Runs that violate, each a disagreement of the code with what the repository
says (quoted in `PROJECT.json`, `findings`):

| Run | Disagreement |
|---|---|
| `autocommit_option` | a refused switch out of AUTOCOMMIT leaves a connection that says AUTOCOMMIT and does not commit |
| `trace_query_error` | a `trace_query` that raises leaves the pooled session tracing |
| `collection_cut` | a truncated value comes back with an item never stored |
| `reflection_refused` | a refused statement is reported as a table that does not exist |

Other disagreements met on the way. No run is spent on them: each is visible
in one definition of the model, or is an assumption or an exception that a
checked property names.

- The tracked level is assumed at connection (`dialect.py:193`) and never read
  from the server, though a test says that it "can read current isolation
  level from a live connection" (`tests/test_connection_lifecycle.py:60`). It is
  wrong from the start on a server whose sessions begin at another level:
  the assumption `ServerAtDefault`.
- The example in `docs/en/connection.md:187-194` calls `conn.rollback()`
  inside `begin_nested()` and comments it as ROLLBACK TO SAVEPOINT.
  `Connection.rollback()` ends the whole transaction (`Rollback`).
- "SQLAlchemy invalidates the connection and removes it from the pool" when
  `is_disconnect` says yes (`docs/en/connection.md:172`). It also replaces the
  other connections opened until then, but only if the one found broken was no
  older than the last time; a client that kept its connection through an earlier
  invalidation leaves the pool as it is (`Invalidated`, the exception in
  `DeadNeverReissued`).
- A `str` with a character above 255 raises out of the processor
  (`EncodeRaises`), where `CHANGELOG.md:33` speaks of empty collections.
- A tracer's `stop()` inside another tracer's block ends the tracing of both
  (`interrupted`), though a tracer is meant for an arbitrary block
  (`trace.py:66`).
- A `str` too short to parse becomes its characters (`Fallback`), where
  `CHANGELOG.md:33` speaks of empty collections.
- All reflection methods are said to be cached (`docs/en/introspection.md:297`);
  `has_table` is not, and a `None` of `get_super_class_name` is not kept
  (`Remember`, the exceptions of `AnswersAreRepeated`).
- A table dropped between `_has_object` and the query that follows is
  answered, and cached, as a table without keys (`VanishedMeanwhile`), and
  columns may come with the comments of another definition (`TornColumns`).
- `docs/en/types.md:200` shows an Enum column as `ENUM(...)` in DDL. The type
  compiler has no method for it, so that it becomes a VARCHAR as long as the
  longest label (`EnumText`, `Lossy`).
- `docs/en/types.md:57-59` and `:213` say that collections are reflected as
  `NullType`; the code (`TypeMap`) and `docs/en/introspection.md:343` say
  otherwise.
- `docs/en/types.md:212` says that `FLOAT(p)` extracts the precision; a column
  declared by the dialect as `FLOAT` has none to extract, and the type that
  comes back compiles to `DOUBLE` (`NoPhantomChange`, `DowngradeRestores`).
- `docs/en/cubrid-features.md:273` says that the dialect omits DONT_REUSE_OID
  below 11.0. It also does so for any server before it has connected, as in
  Alembic's offline mode (`blind` in `ReferableAsAsked`).
- `compiler.py:335` says "CUBRID allows only 1 per table"; columns given to
  `CreateTableUnder` or `CreateTableDontReuseOID` each ask for AUTO_INCREMENT,
  and no PRIMARY KEY is rendered for them (`OneAutoIncrement` speaks of Tables).
- `dml.py:67-68` says that `inserted` renders `VALUES(col)`; `compiler.py:141`
  says that the server has no such function, and nothing renders it.
- A key of `on_duplicate_key_update` that is no column of the table is left out
  in silence; when no other is left, the clause is empty and the server refuses
  the statement (`VisitOnDuplicateKeyUpdate`).
- An empty dictionary or list is refused (`dml.py:134-145`), an empty
  `ColumnCollection` is not: it becomes a clause with nothing in it (`Accepted`,
  the exception in `Statements!TypeOK`).

Fairness: only `CollectionCodec` states any, weak fairness of its next step:
a Python function that is running goes on running. The other properties are
safety; the code schedules nothing that could be assumed fair.

## Proofs

Eight modules hold theorems. Every invariant and every action property of every
passing run is stated by one of them for all values of the constants, and so is
the refinement. `PROJECT.json` lists them with the properties they state; the
assumptions are those of the modules, named where the constants are declared
and evaluated by TLC on each run, and two that a theorem states as a hypothesis.

`EnginePoolProofs`: for any set of records, any levels, any errors, any engine
level, with or without pre-ping. `TypeCorrect` and `PingKeepsDeadAway` assume
nothing more. `TrackingIsTrue`, `IsolationIsKept` and `PoolIsHome` assume
`ServerAtDefault`, that a session starts at the level `on_connect` notes unless
the engine sets one itself: without it `TracksServer` fails with the first
connection opened. `NoDeadConnectionAgain` assumes `LinkErrorsRecognised`, that
`is_disconnect` says yes to what pycubrid raises on a broken link, which
`docs/en/connection.md:165-170` tabulates; a driver that raised something else
would leave the pool as it is. What it says of a broken connection found by a
client depends on the age of that connection: if it is no older than the last
invalidation, every connection dead by then is kept from later clients;
otherwise only those as old as it are, and a younger one may be handed out dead.

None of these is inductive. A client's level is right only because what
is tracked is true (`TracksTruth`: tracked and server agree while the link is
up, and a tracked transactional level means autocommit is off) and equals
the entitlement (`HeldAsEntitled`); the pool is home only because a level
other than the engine's is always accompanied by a finalizer
(`HomeUnlessReset`), a pooled record has none left (`PooledIsClean`), and the
target of the reset, `default_isolation_level`, was assigned before there was
any connection to reset (`Initialized`). `IInv` is `TypeOK` with these five
for every record. The lemmas `AssignOutcome`, `ExecuteOutcome`, `SetReturns`
and `SetRaises` say what each step of `set_isolation_level` can leave behind,
the crux being that a method that raises keeps the tracked level and keeps it
true. Then one lemma per group of actions, with `OtherSlots` for the records
an action does not concern. For dead connections the invariant is
`CondemnedIsDead`: a condemned connection is still dead, and if it is in the pool
it is stale or gone, whether it was marked on this occasion or an earlier one
(`OtherFound`).

`SavepointsProofs`: for any rows and any number of savepoints.
`NestingImplemented` is the refinement of `NestedTransactions`, action by
action; `NoPartialRollback` the promise to a client that issues DDL as well.
The first half of the module speaks of logs and stacks as values: names grow
along the log, so that a name is found once; a stack of names cuts the log into
levels (`Low`, `High`, `LayerOf`), and each operation on the log is an operation
on the levels. The second half is the invariant: `NamesFresh`, `IdleIsEmpty`,
`SnapshotsKept` (the rows before a savepoint are what its level began with) and
`LevelsOnServer` (only DDL takes savepoints away). That released savepoints stay
on the log is harmless because `Covered` holds without them: a released
savepoint is just an entry inside the level around it.

`QueryTraceProofs`: for any connections and any number of tracers. With `TypeOK`
the two invariants are inductive as they stand.

`CollectionCodecProofs`: `ParserTypeCorrect` and `ParserStaysInBounds` for any
bytes, any size bytes and any count; `CollectionsReadBack` and `CutYieldsPrefix`
for any texts in UTF-8, any number of them, and any value that holds their
encoding or a beginning of it, up to any byte (`InputsAssumption`). The invariant
relates the parser to the items: while data remain, the offset is where element
`i` begins, and what is read so far are the first `i` items, of which the last
may be a remnant (`BeginningsRead`), or is whole too when the value is
(`ItemsRead`). That the decoder gives a remnant is `DecodesRemnant`: after any
number of bytes of a text it has the characters that are all there, and waits
with the first bytes of the next (`Beginning`, `OneLonger`), which it replaces by
one U+FFFD if no more come.

`ReflectionProofs`: for any versions. `InspectorRepeats` rests on `Kept`, which
ties the cache to the history: no entry means no answer yet; an entry means
that no call is at the server, and yields the first answer and the last one.
`ReturnKept` is the heart of it: whichever statement ends a call, an answer is
stored and given, an exception neither. `AnswersOfMoments` rests on `MomentInv`:
what a call under way has read so far is of moments it has seen (`ReadSoFar`), and
between two kinds of object the name stood for nothing (`KindsApart`), so that a
method that asked for one kind and read of another has a moment to blame.

`ColumnTypesProofs` has no specification to prove about, but the theorems the
types of `Migration` need, for every domain of the server (`IsDomain`), every type
that compiles (`IsType`), and either way of printing domains: what reflection
makes of a domain declares it again (`RoundTrip`), a type that compares as
unchanged declares what is there (`QuietIsSame`), and a column just created
compares as unchanged (`FreshColumnIsQuiet`), each with its named exceptions.
They are proved by cases over the names of the type map.

`MigrationProofs`: for any columns, types, domains, classes, servers and
number of revisions. In the order of the module:

- `RecordedVersionIsTrue`: a run is always at the revision next to the recorded
  version (`AtNextRevision`), and the UPDATE of `alembic_version` is pending only
  when all of that revision's statements are done, so that a DDL statement never
  commits it early; between runs nothing is pending (`BetweenRuns`).
  `NextRevisionInv` is where `transactional_ddl = False` is needed: with True the
  version would lag behind by as many revisions as the run has done.
- `TableAsksForOne`: a key has at most one designated column (`OneDesignated`),
  given what SQLAlchemy enforces (`MigrationAssumption`).
- `TypeCorrect`: the type compiler only asks for domains the server has.
- `NothingOverlooked`: `QuietIsSame` in every reachable state.
- `ReferableWhenKnown`: a class fits what was asked, now and at each version
  (`ClassesFit`).
- `DowngradeBringsBack`: in the middle of a revision the catalog is the version
  below with the statements done so far applied (`CatalogMidway`), whether the
  run goes on, is stopped or is repeated; each script leads from its version to
  the next and back, losses aside (`ColumnHistory`, `ClassHistory`).
- `HeadIsQuiet`: a column is just what the last script about it made of it, as
  long as nothing was downgraded past a later one (`ColumnsStay`), and the last
  script was written for the model (`LastScript`); then `FreshColumnIsQuiet`.

`StatementsProofs`: for any table, dictionaries, values, handles and number of
calls. A clause is made of the update its handle asked for and of nothing else
(`ClausesAsAsked`); the clauses of a Merge are of the last calls of every handle
that knows of all its changes (`MergesReflect`). The compiler's loops over columns
are `Keeping`, a recursive function; the lemmas about it (`KeepingConcat`,
`KeepingTwice`, `KeepingAll`, `KeepingNone`) carry the order asked for through the
column lists that `VisitOnDuplicateKeyUpdate` puts together.

Induction. The library's induction theorems take an operator and so cannot be
used, but that a nonempty set of numbers has a least element follows from
`NatLessThanWellFounded` and `WFMin` (`LeastNumber`), and facts about the
recursive functions are proved from it: by least counterexample for `Keeping`
(`Shortest`), and for `Begins`, the concatenation in `Utf8` and the decoder by a
set that holds 0 and with a number the next (`UpTo`, `RecursiveFunction`).

The proofs corrected the models in five places. A `BIT VARYING` shorter than the
longest comes back as the longest, so it is in `Lossy`. A model's `NUMERIC(10)` is
not noticed beside `NUMERIC(10,2)`, so `QuietMeansSame` speaks of the number of
arguments and not of missing ones. The cases of `ShowColumns` overlapped. The
version comparison needs two numbers to compare (`ServersAssumption`). And an
update that is an empty `ColumnCollection` is kept, as the exception in
`Statements!TypeOK` says. The first, second and last are in the runs too since.

Only model-checked: that the collection parser ends (`Terminates`), because
liveness and ENABLED are out of this prover's reach; what is proved of it is
the variant, `i <= offset <= Len(body) + 3` in `InBounds`, with one more element
each round. And the four runs that violate, each of which is one behaviour of an
instance.

## Plan

Done: the modules above, most important first: what a client's transaction runs
under, what it rolls back, what it reads, what a migration leaves behind, and
what a statement says; and a theorem for every property of a passing run. What
is left:

1. Which of `TracksServer`, `EntitledIsolation` and `PooledIsHome` survive, and in
   what form, on a server whose sessions start at another level than
   `ServerAtDefault` says.
2. `NoSilentCorruption`, `NoSuchTableIsTrue`, `AutocommitPromise` and `PooledUntraced`,
   the properties the code violates: theorems that say under which condition on
   the environment they hold.
3. Shorter proofs, where two lemmas of `MigrationProofs` or `SavepointsProofs` split
   the same cases.

## Not modelled

The rendering of clauses with no state (functions, DBLINK, partitions,
hierarchical queries, hints, CREATE INDEX, CREATE SERIAL, comments, the text of
REPLACE and TRUNCATE), the reserved-word table, the flags of `requirements.py`
and `provision.py`, the foreign-key regular expression, `fire_sequence` and
`get_lastrowid` (one statement, one attribute), and what pycubrid and the server
do beyond the statements the dialect sends. A model of any of them would repeat
the text it renders.

The cache of compiled statements is SQLAlchemy's. The dialect's part is
`inherit_cache`: `_Prior`, `sys_connect_by_path`, `connect_by_root`,
`HierarchicalSelect`, `OIDDeref`, `Insert`, `Replace` and `Merge` say False, which
takes a statement that contains them out of the cache; the elements that say True
have no arguments, or are `GenericFunction`s whose arguments are part of
SQLAlchemy's key. With nothing of the dialect's in the cache there is no state
to model.

How CUBRID locks a table's schema against concurrent DDL is not in the
repository; the reflection model assumes nothing about it. Nor is what a server
does when its version changes under a living engine, whose `_cubrid_version` was
read once.
