------------------------------ MODULE Savepoints ------------------------------
(****************************************************************************)
(* Nested transactions on a CUBRID server, which has SAVEPOINT and ROLLBACK  *)
(* TO SAVEPOINT but no RELEASE: CubridDialect.do_release_savepoint sends     *)
(* nothing, so a released savepoint stays on the server while the client     *)
(* goes on as if it were gone. DDL makes the server commit what it holds.    *)
(****************************************************************************)
EXTENDS Integers, Sequences, SequencesExt

CONSTANTS
    Rows,               \* the rows a client may insert
    MaxSavepoints       \* bound on the savepoints of one connection

ASSUME SavepointAssumption ==
    MaxSavepoints \in Nat

VARIABLES
    usesDDL,            \* the client also issues DDL statements
    durable,            \* the server: rows other sessions see
    log,                \* the server: the transaction so far, the savepoints
                        \*   set and the rows written, oldest first
    begun,              \* the client: a root transaction is open
    stack,              \* the client: names of its open nested transactions
    seq,                \* the client: __savepoint_seq, never reset
    call,               \* the client's last call
    broken,             \* it raised
    snapshots           \* history: the rows visible when each open nested
                        \*   transaction began

vars == <<usesDDL, durable, log, begun, stack, seq, call, broken, snapshots>>

Save(name) == [kind |-> "savepoint", name |-> name]
Row(row)   == [kind |-> "row", name |-> row]

Entries == {Save(n) : n \in 1..MaxSavepoints} \cup {Row(r) : r \in Rows}

RowsOf(entries) == { e.name : e \in {x \in Range(entries) : x.kind = "row"} }
Visible == durable \cup RowsOf(log)

\* Where the server finds a savepoint: the latest of that name.
Position(name) == SelectLastInSeq(log, LAMBDA e : e = Save(name))

TypeOK ==
    /\ usesDDL \in BOOLEAN
    /\ durable \subseteq Rows
    /\ log \in Seq(Entries)
    /\ begun \in BOOLEAN
    /\ stack \in Seq(1..MaxSavepoints)
    /\ seq \in 0..MaxSavepoints
    /\ call \in {"none", "begin", "begin_nested", "write", "release",
                "rollback_nested", "commit", "rollback", "ddl"}
    /\ broken \in BOOLEAN
    /\ snapshots \in [DOMAIN stack -> SUBSET Rows]

Init ==
    /\ usesDDL \in BOOLEAN
    /\ durable = {}
    /\ log = <<>>
    /\ begun = FALSE
    /\ stack = <<>>
    /\ seq = 0
    /\ call = "none"
    /\ broken = FALSE
    /\ snapshots = <<>>

-----------------------------------------------------------------------------
(* What the server does with a savepoint statement: [ok, log]. *)

RollbackTo(name) ==
    IF Position(name) = 0
      THEN [ok |-> FALSE, log |-> log]
      ELSE [ok |-> TRUE, log |-> SubSeq(log, 1, Position(name))]

\* Mutant: release is emulated with the only statement there is.
ReleaseByRollback(name) == RollbackTo(name)

DoReleaseSavepoint(name) == [ok |-> TRUE, log |-> log]

\* Mutant: every savepoint has the same name.
FixedSavepointName == 1

\* Mutant: the sequence is read before it is incremented.
SavepointNameBefore == seq

\* sa_savepoint_<n>: a name is never used twice by one connection.
NextSavepointName == seq + 1

-----------------------------------------------------------------------------

Begin ==
    /\ ~begun
    /\ begun' = TRUE
    /\ broken' = FALSE
    /\ call' = "begin"
    /\ UNCHANGED <<usesDDL, durable, log, stack, seq, snapshots>>

BeginNested ==
    /\ begun
    /\ seq < MaxSavepoints
    /\ seq' = seq + 1
    /\ log' = Append(log, Save(NextSavepointName))
    /\ stack' = Append(stack, NextSavepointName)
    /\ snapshots' = Append(snapshots, Visible)
    /\ broken' = FALSE
    /\ call' = "begin_nested"
    /\ UNCHANGED <<usesDDL, durable, begun>>

Write(row) ==
    /\ begun
    /\ row \notin Visible
    /\ log' = Append(log, Row(row))
    /\ broken' = FALSE
    /\ call' = "write"
    /\ UNCHANGED <<usesDDL, durable, begun, stack, seq, snapshots>>

\* NestedTransaction.commit() of the innermost.
Release ==
    /\ stack # <<>>
    /\ LET r == DoReleaseSavepoint(Last(stack))
       IN  log' = r.log /\ broken' = ~r.ok
    /\ stack' = Front(stack)
    /\ snapshots' = Front(snapshots)
    /\ call' = "release"
    /\ UNCHANGED <<usesDDL, durable, begun, seq>>

\* NestedTransaction.rollback() of the innermost, by hand or because its
\* block raised.
RollbackNested ==
    /\ stack # <<>>
    /\ LET r == RollbackTo(Last(stack))
       IN  log' = r.log /\ broken' = ~r.ok
    /\ stack' = Front(stack)
    /\ snapshots' = Front(snapshots)
    /\ call' = "rollback_nested"
    /\ UNCHANGED <<usesDDL, durable, begun, seq>>

\* Connection.commit(): ends the root transaction, cancelling what is nested.
Commit ==
    /\ begun
    /\ durable' = Visible
    /\ log' = <<>>
    /\ begun' = FALSE
    /\ stack' = <<>>
    /\ snapshots' = <<>>
    /\ broken' = FALSE
    /\ call' = "commit"
    /\ UNCHANGED <<usesDDL, seq>>

\* Connection.rollback() ends the root transaction too.
Rollback ==
    /\ begun
    /\ log' = <<>>
    /\ begun' = FALSE
    /\ stack' = <<>>
    /\ snapshots' = <<>>
    /\ broken' = FALSE
    /\ call' = "rollback"
    /\ UNCHANGED <<usesDDL, durable, seq>>

\* The server commits, savepoints and all; the client does not notice.
ExecuteDDL ==
    /\ usesDDL
    /\ begun
    /\ durable' = Visible
    /\ log' = <<>>
    /\ broken' = FALSE
    /\ call' = "ddl"
    /\ UNCHANGED <<usesDDL, begun, stack, seq, snapshots>>

Next ==
    \/ Begin
    \/ BeginNested
    \/ \E row \in Rows : Write(row)
    \/ Release
    \/ RollbackNested
    \/ Commit
    \/ Rollback
    \/ ExecuteDDL

Spec == Init /\ [][Next]_vars

-----------------------------------------------------------------------------
(* Properties *)

\* The level a client believes in, seen on the server: the rows between one
\* open savepoint and the next.
Layer(i) ==
    LET from == IF i = 1 THEN 1 ELSE Position(stack[i - 1])
        to   == IF i > Len(stack) THEN Len(log) ELSE Position(stack[i])
    IN  RowsOf(SubSeq(log, from, to))

\* The refinement mapping. A client that issues DDL is promised nothing, and
\* maps to no step.
Committed == IF usesDDL THEN {} ELSE durable
Levels ==
    IF begun /\ ~usesDDL THEN [i \in 1..Len(stack) + 1 |-> Layer(i)] ELSE <<>>
Asked ==
    CASE usesDDL            -> "none"
      [] ~usesDDL /\ broken -> "failed"
      [] OTHER              -> call

Nested == INSTANCE NestedTransactions WITH
    durable <- Committed, layers <- Levels, call <- Asked

\* do_release_savepoint: with nothing sent, every nested transaction still
\* undoes exactly its own writes and those of the levels released into it
\* (docs/en/connection.md:185, "works correctly").
ImplementsNesting == Nested!Spec

\* A rollback of a nested transaction that reports success leaves visible
\* what was visible when it began - with unreleased savepoints piling up, and
\* after DDL has thrown its savepoint away, when the rollback must fail
\* rather than find another savepoint in its place.
NoSilentPartialRollback ==
    [][(RollbackNested /\ ~broken') => Visible' = Last(snapshots)]_vars
=============================================================================
