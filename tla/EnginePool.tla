------------------------------ MODULE EnginePool ------------------------------
(****************************************************************************)
(* CubridDialect's connection methods at work inside an Engine: raw          *)
(* connections are opened, handed to one client after another by the pool,   *)
(* given another isolation level for a while, found dead, and replaced.      *)
(*                                                                           *)
(* The pool, its records and the Connection a client holds are SQLAlchemy's: *)
(* they are modelled from the calls they make on the dialect (on_connect,    *)
(* initialize, set_isolation_level, reset_isolation_level, do_ping,          *)
(* is_disconnect) and from what they do with the answers.                    *)
(****************************************************************************)
EXTENDS DbapiConnection

CONSTANTS
    Slots,              \* the pool's connection records
    EngineLevel,        \* create_engine(isolation_level=...), or Unset
    PrePing,            \* create_engine(pool_pre_ping=...)
    LinkErrors,         \* the exceptions pycubrid raises on a broken link
    SqlErrors           \* the exceptions it raises for a refused statement

ASSUME EngineAssumption ==
    /\ EngineLevel \in LevelValues \cup {Unset}
    /\ PrePing \in BOOLEAN

VARIABLES
    conn,               \* conn[s]: the raw connection of record s
    holder,             \* holder[s]: "pool", "client", or "lost" for a record
                        \*   that is in nobody's hands any more
    finalizer,          \* finalizer[s]: a reset of the level is due at check-in
    stale,              \* stale[s]: opened before the pool was last invalidated
    work,               \* work[s]: the client's transaction, "none", "begun",
                        \*   or "dirty" once it holds uncommitted writes
    default_isolation_level,    \* the dialect's attribute
    entitled,           \* history: the level the client of s may count on
    condemned           \* history: s was dead when another was found broken,
                        \*   and not younger than the last invalidation if
                        \*   that other was older

vars == <<conn, holder, finalizer, stale, work, default_isolation_level,
          entitled, condemned>>

\* The level a client gets that asks for none.
HomeLevel == IF EngineLevel = Unset THEN DefaultLevel ELSE EngineLevel

Connected(s) == conn[s].link # "none"

TypeOK ==
    /\ conn \in [Slots -> Connection]
    /\ holder \in [Slots -> {"pool", "client", "lost"}]
    /\ finalizer \in [Slots -> BOOLEAN]
    /\ stale \in [Slots -> BOOLEAN]
    /\ work \in [Slots -> {"none", "begun", "dirty"}]
    /\ default_isolation_level \in Levels \cup {Unset}
    /\ entitled \in [Slots -> LevelValues]
    /\ condemned \in [Slots -> BOOLEAN]

Init ==
    /\ conn = [s \in Slots |-> Blank]
    /\ holder = [s \in Slots |-> "pool"]
    /\ finalizer = [s \in Slots |-> FALSE]
    /\ stale = [s \in Slots |-> FALSE]
    /\ work = [s \in Slots |-> "none"]
    /\ default_isolation_level = Unset
    /\ entitled = [s \in Slots |-> HomeLevel]
    /\ condemned = [s \in Slots |-> FALSE]

-----------------------------------------------------------------------------
(* Check-out: get_connection of a record, with the pool's "connect" events   *)
(* (on_connect, the engine's own level, initialize) when it must connect.    *)

\* The connections a successful connect can leave. set_isolation_level runs
\* only for an engine that was given a level.
FreshConnections ==
    LET opened == { OnConnect(RawConnection(ac)) : ac \in BOOLEAN }
    IN  IF EngineLevel = Unset
          THEN opened
          ELSE { r.conn : r \in { x \in UNION { SetIsolationLevel(d, EngineLevel) : d \in opened }
                                  : x.ok } }

Usable(s) == Connected(s) /\ ~stale[s]

PingFails(s) == PrePing /\ FALSE \in DoPing(conn[s])

\* pool._invalidate on account of s: what was opened until now is replaced at
\* its next check-out - but nothing changes when the connection of s is itself
\* from before the last invalidation (_invalidate_time < rec.starttime).
Invalidated(s) == IF stale[s] THEN stale ELSE [t \in Slots |-> Connected(t)]

\* The dead connections that the pool has no excuse to hand out once it was
\* told that s is broken.
Condemned(s) ==
    [t \in Slots |-> condemned[t] \/ (conn[t].link = "down" /\ (stale[s] => stale[t]))]

CheckoutPooled(s) ==
    /\ holder[s] = "pool"
    /\ Usable(s)
    /\ PrePing => TRUE \in DoPing(conn[s])
    /\ holder' = [holder EXCEPT ![s] = "client"]
    /\ entitled' = [entitled EXCEPT ![s] = HomeLevel]
    /\ UNCHANGED <<conn, finalizer, stale, work, default_isolation_level, condemned>>

\* A failed ping invalidates the whole pool before the record reconnects.
CheckoutReconnects(s) ==
    /\ holder[s] = "pool"
    /\ ~Usable(s) \/ PingFails(s)
    /\ \E d \in FreshConnections : conn' = [conn EXCEPT ![s] = d]
    /\ stale' = [IF Usable(s) THEN Invalidated(s) ELSE stale EXCEPT ![s] = FALSE]
    /\ default_isolation_level' = GetDefaultIsolationLevel
    /\ holder' = [holder EXCEPT ![s] = "client"]
    /\ entitled' = [entitled EXCEPT ![s] = HomeLevel]
    /\ condemned' = [IF Usable(s) THEN Condemned(s) ELSE condemned EXCEPT ![s] = FALSE]
    /\ UNCHANGED <<finalizer, work>>

\* connect(), or one of its events, raises: the record goes back empty.
CheckoutFails(s) ==
    /\ holder[s] = "pool"
    /\ ~Usable(s) \/ PingFails(s)
    /\ conn' = [conn EXCEPT ![s] = Blank]
    /\ stale' = [IF Usable(s) THEN Invalidated(s) ELSE stale EXCEPT ![s] = FALSE]
    /\ condemned' = [IF Usable(s) THEN Condemned(s) ELSE condemned EXCEPT ![s] = FALSE]
    /\ UNCHANGED <<holder, finalizer, work, default_isolation_level, entitled>>

-----------------------------------------------------------------------------
(* What a client does with its connection. *)

\* A statement succeeds; in autocommit its writes are durable at once.
Execute(s, writes) ==
    /\ holder[s] = "client"
    /\ conn[s].link = "up"
    /\ work' = [work EXCEPT ![s] = CASE writes /\ ~conn[s].autocommit -> "dirty"
                                     [] @ = "none"                    -> "begun"
                                     [] OTHER                         -> @]
    /\ UNCHANGED <<conn, holder, finalizer, stale, default_isolation_level,
                   entitled, condemned>>

\* _handle_dbapi_exception after is_disconnect answered True: the pool is
\* invalidated, this connection is closed, and its record goes back to the
\* pool with no finalizer run.
DropConnection(s) ==
    /\ conn' = [conn EXCEPT ![s] = Blank]
    /\ stale' = [Invalidated(s) EXCEPT ![s] = FALSE]
    /\ holder' = [holder EXCEPT ![s] = "pool"]
    /\ finalizer' = [finalizer EXCEPT ![s] = FALSE]
    /\ work' = [work EXCEPT ![s] = "none"]

\* A statement, a commit or a rollback meets a broken link.
LinkFails(s, e) ==
    /\ holder[s] = "client"
    /\ Connected(s)
    /\ \/ /\ IsDisconnect(e)
          /\ DropConnection(s)
       \/ /\ ~IsDisconnect(e)
          /\ conn' = [conn EXCEPT ![s].link = "down"]
          /\ work' = [work EXCEPT ![s] = IF @ = "none" THEN "begun" ELSE @]
          /\ UNCHANGED <<holder, finalizer, stale>>
    /\ condemned' = Condemned(s)
    /\ UNCHANGED <<default_isolation_level, entitled>>

\* The server refuses a statement on a healthy link. A refusal whose message
\* contains one of the words is_disconnect looks for costs the connection.
StatementRefused(s, e) ==
    /\ holder[s] = "client"
    /\ conn[s].link = "up"
    /\ \/ /\ IsDisconnect(e)
          /\ DropConnection(s)
       \/ /\ ~IsDisconnect(e)
          /\ work' = [work EXCEPT ![s] = IF @ = "none" THEN "begun" ELSE @]
          /\ UNCHANGED <<conn, holder, finalizer, stale>>
    /\ UNCHANGED <<default_isolation_level, entitled, condemned>>

\* Commit or rollback; the level tracked on the connection survives both.
EndTransaction(s) ==
    /\ holder[s] = "client"
    /\ conn[s].link = "up"
    /\ work[s] # "none"
    /\ work' = [work EXCEPT ![s] = "none"]
    /\ UNCHANGED <<conn, holder, finalizer, stale, default_isolation_level,
                   entitled, condemned>>

\* connection.execution_options(isolation_level=level): refused inside a
\* transaction; the reset at check-in is arranged once the level is set.
SetOption(s, level) ==
    /\ holder[s] = "client"
    /\ Connected(s)
    /\ work[s] = "none"
    /\ \E r \in SetIsolationLevel(conn[s], level) :
         /\ conn' = [conn EXCEPT ![s] = r.conn]
         /\ finalizer' = [finalizer EXCEPT ![s] = @ \/ r.ok]
         /\ entitled' = [entitled EXCEPT ![s] = IF r.ok THEN level ELSE @]
    /\ UNCHANGED <<holder, stale, work, default_isolation_level, condemned>>

\* dialect.set_isolation_level called directly with a name that is no level
\* (the ValueError of tests/test_connection_lifecycle.py:82).
SetUnknownLevel(s) ==
    /\ holder[s] = "client"
    /\ Connected(s)
    /\ work[s] = "none"
    /\ \E r \in SetIsolationLevel(conn[s], Unset) : conn' = [conn EXCEPT ![s] = r.conn]
    /\ UNCHANGED <<holder, finalizer, stale, work, default_isolation_level,
                   entitled, condemned>>

-----------------------------------------------------------------------------
(* Check-in: roll back, then the finalizers. *)

\* Mutant: an engine's own level is forgotten.
ResetTargetDefault == default_isolation_level

ResetTarget ==
    IF EngineLevel # Unset THEN EngineLevel ELSE default_isolation_level

ResetIsolationLevel(d) == SetIsolationLevel(d, ResetTarget)

\* Mutant: the connection goes back with its transaction open.
CloseWithoutRollback(s) ==
    /\ holder[s] = "client"
    /\ conn[s].link = "up"
    /\ ~finalizer[s]
    /\ holder' = [holder EXCEPT ![s] = "pool"]
    /\ UNCHANGED <<conn, finalizer, stale, work, default_isolation_level,
                   entitled, condemned>>

Close(s) ==
    /\ holder[s] = "client"
    /\ conn[s].link = "up"
    /\ ~finalizer[s]
    /\ holder' = [holder EXCEPT ![s] = "pool"]
    /\ work' = [work EXCEPT ![s] = "none"]
    /\ UNCHANGED <<conn, finalizer, stale, default_isolation_level, entitled,
                   condemned>>

\* The reset raises out of close(): the finalizer is gone and the record has
\* not been returned, so the slot is lost and its connection is collected.
CloseWithReset(s) ==
    /\ holder[s] = "client"
    /\ conn[s].link = "up"
    /\ finalizer[s]
    /\ \E r \in ResetIsolationLevel(conn[s]) :
         /\ conn' = [conn EXCEPT ![s] = IF r.ok THEN r.conn ELSE Blank]
         /\ holder' = [holder EXCEPT ![s] = IF r.ok THEN "pool" ELSE "lost"]
         /\ stale' = [stale EXCEPT ![s] = @ /\ r.ok]
         /\ condemned' = [condemned EXCEPT ![s] = @ /\ r.ok]
    /\ finalizer' = [finalizer EXCEPT ![s] = FALSE]
    /\ work' = [work EXCEPT ![s] = "none"]
    /\ UNCHANGED <<default_isolation_level, entitled>>

\* The rollback meets a broken link: the record is invalidated and returned,
\* its finalizers popped without running. Inside a transaction the error also
\* passes is_disconnect.
CloseBroken(s, e) ==
    /\ holder[s] = "client"
    /\ conn[s].link = "down"
    /\ conn' = [conn EXCEPT ![s] = Blank]
    /\ holder' = [holder EXCEPT ![s] = "pool"]
    /\ finalizer' = [finalizer EXCEPT ![s] = FALSE]
    /\ work' = [work EXCEPT ![s] = "none"]
    /\ stale' = [IF work[s] # "none" /\ IsDisconnect(e) THEN Invalidated(s) ELSE stale
                 EXCEPT ![s] = FALSE]
    /\ condemned' = [IF work[s] # "none" THEN Condemned(s) ELSE condemned EXCEPT ![s] = FALSE]
    /\ UNCHANGED <<default_isolation_level, entitled>>

-----------------------------------------------------------------------------
(* The network and the server. *)

\* One connection's broker process goes away, in use or idle.
LoseLink(s) ==
    /\ conn[s].link = "up"
    /\ conn' = [conn EXCEPT ![s].link = "down"]
    /\ UNCHANGED <<holder, finalizer, stale, work, default_isolation_level,
                   entitled, condemned>>

\* The server restarts: every connection is gone at once.
Outage ==
    /\ \E s \in Slots : conn[s].link = "up"
    /\ conn' = [s \in Slots |-> IF Connected(s) THEN [conn[s] EXCEPT !.link = "down"]
                                                ELSE conn[s]]
    /\ UNCHANGED <<holder, finalizer, stale, work, default_isolation_level,
                   entitled, condemned>>

Next ==
    \/ \E s \in Slots :
         \/ CheckoutPooled(s)
         \/ CheckoutReconnects(s)
         \/ CheckoutFails(s)
         \/ \E writes \in BOOLEAN : Execute(s, writes)
         \/ \E e \in LinkErrors : LinkFails(s, e)
         \/ \E e \in SqlErrors : StatementRefused(s, e)
         \/ EndTransaction(s)
         \/ \E level \in LevelValues : SetOption(s, level)
         \/ SetUnknownLevel(s)
         \/ Close(s)
         \/ CloseWithReset(s)
         \/ \E e \in LinkErrors : CloseBroken(s, e)
         \/ LoseLink(s)
    \/ Outage

Spec == Init /\ [][Next]_vars

-----------------------------------------------------------------------------
(* Properties *)

\* A new session starts at the level on_connect assumes without asking.
ServerAtDefault == EngineLevel = Unset => ServerDefault = DefaultLevel

\* set_isolation_level with a failure at any of its steps: a connection that
\* get_isolation_level says is at a transactional level has autocommit off
\* and, while its session lives, the server runs at that very level.
TracksServer ==
    \A s \in Slots :
      (Connected(s) /\ GetIsolationLevel(conn[s]) \in Levels) =>
         /\ ~conn[s].autocommit
         /\ conn[s].link = "up" => conn[s].server = GetIsolationLevel(conn[s])

\* What a client asked for, or the engine's own level, is what its session
\* runs at whoever had the connection before, whatever failed since, and it
\* is what get_isolation_level tells it.
EntitledIsolation ==
    \A s \in Slots :
      (holder[s] = "client" /\ conn[s].link = "up") =>
         /\ GetIsolationLevel(conn[s]) = entitled[s]
         /\ entitled[s] \in Levels =>
              conn[s].server = entitled[s] /\ ~conn[s].autocommit

\* check-in and reset_isolation_level: a connection waiting in the pool holds
\* no transaction and is back at the level the next client will assume.
PooledIsHome ==
    \A s \in Slots :
      (holder[s] = "pool" /\ conn[s].link = "up") =>
         /\ work[s] = "none"
         /\ GetIsolationLevel(conn[s]) = HomeLevel

\* is_disconnect and do_ping: once a connection is found broken, no connection
\* that was dead at that moment is ever handed out again, whoever holds it now,
\* whatever the shape of the error, ping or no ping. The one found must not be
\* from before the last invalidation: SQLAlchemy then leaves the pool as it is,
\* and what was opened since may be handed out dead.
DeadNeverReissued ==
    [][\A s \in Slots :
         (holder[s] = "pool" /\ holder'[s] = "client") => ~condemned'[s]]_vars

\* do_ping: with pool_pre_ping every connection is alive when it is handed
\* out, even after an outage no statement has met yet.
PingedAlive ==
    [][\A s \in Slots :
         (PrePing /\ holder[s] = "pool" /\ holder'[s] = "client")
            => conn'[s].link = "up"]_vars

\* docs/en/connection.md:75: under AUTOCOMMIT each statement commits
\* immediately, so nothing a client writes is ever left pending.
AutocommitPromise ==
    \A s \in Slots :
      (holder[s] = "client" /\ conn[s].link = "up" /\ entitled[s] = AUTOCOMMIT)
         => work[s] # "dirty"
=============================================================================
