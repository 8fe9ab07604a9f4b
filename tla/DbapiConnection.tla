--------------------------- MODULE DbapiConnection ---------------------------
(****************************************************************************)
(* The part of CubridDialect (dialect.py) that works on one raw pycubrid     *)
(* connection: the on_connect callback, the isolation level methods,         *)
(* do_ping and is_disconnect.                                                *)
(*                                                                           *)
(* A raw connection is a record of                                           *)
(*   link        "none" (no connection), "up", or "down" (the server side is *)
(*               gone and the client has not yet been told);                 *)
(*   autocommit  the driver's autocommit attribute;                          *)
(*   tracked     the attribute _sa_isolation_level the dialect hangs on the  *)
(*               connection, Unset while it does not exist;                  *)
(*   server      the level the server session really runs at.                *)
(*                                                                           *)
(* A method that talks to the server can end in several ways. It is modelled *)
(* by the set of its outcomes, each saying whether the call returned (ok) or *)
(* raised, and how it left the connection.                                   *)
(****************************************************************************)
EXTENDS Integers

CONSTANTS
    Levels,             \* the keys of _ISOLATION_LEVEL_REVERSE
    DefaultLevel,       \* "READ COMMITTED"
    AUTOCOMMIT,         \* the pseudo level "AUTOCOMMIT"
    Unset,              \* no such attribute, or None
    ServerDefault       \* the level the server gives a new session

ASSUME LevelsAssumption ==
    /\ DefaultLevel \in Levels
    /\ ServerDefault \in Levels
    /\ AUTOCOMMIT \notin Levels
    /\ Unset \notin Levels \cup {AUTOCOMMIT}

\* get_isolation_level_values: what SQLAlchemy lets a caller ask for.
LevelValues == Levels \cup {AUTOCOMMIT}

Connection ==
    [ link       : {"none", "up", "down"},
      autocommit : BOOLEAN,
      tracked    : LevelValues \cup {Unset},
      server     : Levels ]

Outcome == [ ok : BOOLEAN, conn : Connection ]

Returns(d) == [ ok |-> TRUE, conn |-> d ]
Raises(d)  == [ ok |-> FALSE, conn |-> d ]

\* No connection: a pool record that is empty or was invalidated.
Blank ==
    [ link |-> "none", autocommit |-> FALSE, tracked |-> Unset,
      server |-> ServerDefault ]

\* What pycubrid.connect() returns. Nothing here relies on the driver's own
\* autocommit default.
RawConnection(autocommit) ==
    [ link |-> "up", autocommit |-> autocommit, tracked |-> Unset,
      server |-> ServerDefault ]

Severed(d) == [ d EXCEPT !.link = "down" ]

-----------------------------------------------------------------------------
(* on_connect, get_isolation_level *)

OnConnect(d) == [ d EXCEPT !.autocommit = FALSE, !.tracked = DefaultLevel ]

\* Mutant: the first of get_isolation_level_values is taken for the default.
FirstLevelValue == AUTOCOMMIT

GetDefaultIsolationLevel == DefaultLevel

GetIsolationLevel(d) == IF d.tracked = Unset THEN DefaultLevel ELSE d.tracked

-----------------------------------------------------------------------------
(* set_isolation_level, reset_isolation_level *)

\* Assigning dbapi_connection.autocommit is a round trip of the driver's: on a
\* broken link, or one that breaks under it, it raises and assigns nothing.
AssignAutocommit(d, value) ==
    (IF d.link = "up" THEN {Returns([d EXCEPT !.autocommit = value])} ELSE {})
      \cup {Raises(Severed(d))}

\* cursor.execute("SET TRANSACTION ISOLATION LEVEL n"): accepted, rejected by
\* the server, or the link is lost on the way.
ExecuteSetLevel(d, level) ==
    (IF d.link = "up"
       THEN {Returns([d EXCEPT !.server = level]), Raises(d)}
       ELSE {})
      \cup {Raises(Severed(d))}

\* The method's last step, reached when the one before it returned.
Track(r, level) ==
    IF r.ok THEN Returns([r.conn EXCEPT !.tracked = level]) ELSE r

EnterAutocommit(d) == { Track(r, AUTOCOMMIT) : r \in AssignAutocommit(d, TRUE) }

\* Autocommit is switched off before the level is looked up and before the
\* server has answered; _sa_isolation_level is assigned last.
LeaveAutocommit(d) ==
    IF d.tracked = AUTOCOMMIT THEN AssignAutocommit(d, FALSE) ELSE {Returns(d)}

SetServerLevel(d, level) ==
    IF level \in Levels
      THEN { Track(r, level) : r \in ExecuteSetLevel(d, level) }
      ELSE {Raises(d)}

\* Mutant: switching to a level leaves the driver in autocommit.
SetKeepsAutocommit(d, level) ==
    IF level = AUTOCOMMIT THEN EnterAutocommit(d) ELSE SetServerLevel(d, level)

\* Mutant: the level is tracked before the server has accepted it.
SetTracksFirst(d, level) ==
    IF level = AUTOCOMMIT
      THEN EnterAutocommit(d)
      ELSE UNION { IF r.ok THEN SetServerLevel([r.conn EXCEPT !.tracked = level], level)
                           ELSE {r} : r \in LeaveAutocommit(d) }

SetIsolationLevel(d, level) ==
    IF level = AUTOCOMMIT
      THEN EnterAutocommit(d)
      ELSE UNION { IF r.ok THEN SetServerLevel(r.conn, level) ELSE {r}
                   : r \in LeaveAutocommit(d) }

-----------------------------------------------------------------------------
(* do_ping, is_disconnect *)

\* Mutant: the ping asks the driver object instead of the server.
PingDriverOnly(d) == {TRUE}

\* The results do_ping can return. Every pycubrid.Error is turned into FALSE,
\* an error on a healthy link included.
DoPing(d) == IF d.link = "up" THEN BOOLEAN ELSE {FALSE}

\* An exception as is_disconnect sees it: its DB-API class, the one of the
\* words the dialect looks for that its message contains, and args[0] when
\* that is an integer.
DisconnectCodes == {-4, -11, -21003}
NoCode == 0

\* Mutant: the exception's class and message are not looked at.
IsDisconnectByCodeOnly(e) == e.code \in DisconnectCodes

IsDisconnect(e) ==
    \/ /\ e.class = "InterfaceError"
       /\ e.word \in {"closed", "connection"}
    \/ /\ e.class = "OperationalError"
       /\ e.word \in {"communication", "connection"}
    \/ e.code \in DisconnectCodes
=============================================================================
