--------------------------- MODULE EnginePoolProofs ---------------------------
(****************************************************************************)
(* What EnginePool's specification guarantees for any number of pool         *)
(* records, any set of levels, any engine level and any error shapes.        *)
(*                                                                           *)
(* The properties are not inductive as they stand: that a failed             *)
(* set_isolation_level leaves the client where it was needs the tracked      *)
(* level to be the client's own at every moment (HeldAsEntitled), and that a *)
(* client finds its level at check-out needs to know which connections still *)
(* have a reset due (HomeUnlessReset).                                       *)
(****************************************************************************)
EXTENDS EnginePool, TLAPS

\* on_connect has run on every open connection, and initialize on the dialect.
Initialized(s) ==
    Connected(s) => /\ conn[s].tracked \in LevelValues
                    /\ default_isolation_level = DefaultLevel

\* A raw connection whose tracked level, if transactional, is the truth.
Coherent(d) ==
    d.tracked \in Levels =>
      /\ ~d.autocommit
      /\ d.link = "up" => d.server = d.tracked

TracksTruth(s) == Connected(s) => Coherent(conn[s])

HeldAsEntitled(s) ==
    (Connected(s) /\ holder[s] = "client") => conn[s].tracked = entitled[s]

HomeUnlessReset(s) ==
    (Connected(s) /\ ~finalizer[s]) => conn[s].tracked = HomeLevel

PooledIsClean(s) == holder[s] = "pool" => ~finalizer[s] /\ work[s] = "none"

SlotInv(s) ==
    /\ Initialized(s)
    /\ TracksTruth(s)
    /\ HeldAsEntitled(s)
    /\ HomeUnlessReset(s)
    /\ PooledIsClean(s)

IInv == TypeOK /\ \A s \in Slots : SlotInv(s)

-----------------------------------------------------------------------------
(* What one call of a dialect method may do to a connection. *)

\* Losing the link changes nothing else.
LEMMA SeveredConnection ==
  ASSUME NEW d \in Connection
  PROVE  /\ Severed(d) \in Connection
         /\ Severed(d).link = "down"
         /\ Severed(d).tracked = d.tracked
         /\ Severed(d).autocommit = d.autocommit
  BY DEF Connection, Severed

\* What assigning the autocommit attribute, executing SET TRANSACTION and
\* assigning _sa_isolation_level do, one at a time.
LEMMA AssignOutcome ==
  ASSUME NEW d \in Connection, NEW b \in BOOLEAN, NEW r \in AssignAutocommit(d, b)
  PROVE  /\ r.conn \in Connection
         /\ r.conn.tracked = d.tracked
         /\ r.conn.link # "none"
         /\ r.ok => d.link = "up" /\ r.conn.link = "up" /\ r.conn.autocommit = b
         /\ ~r.ok => r.conn.link = "down" /\ r.conn.autocommit = d.autocommit
<1>1. CASE r = Returns([d EXCEPT !.autocommit = b]) /\ d.link = "up"
  <2> DEFINE e == [d EXCEPT !.autocommit = b]
  <2>1. r.ok /\ r.conn = e
    BY <1>1 DEF Returns
  <2>2. /\ e \in Connection /\ e.autocommit = b
        /\ e.link = d.link /\ e.tracked = d.tracked
    BY DEF Connection
  <2> HIDE DEF e
  <2>3. QED
    BY <1>1, <2>1, <2>2
<1>2. CASE r = Raises(Severed(d))
  <2>1. ~r.ok /\ r.conn = Severed(d)
    BY <1>2 DEF Raises
  <2>2. QED
    BY <2>1, SeveredConnection
<1>3. QED
  BY <1>1, <1>2 DEF AssignAutocommit

LEMMA ExecuteOutcome ==
  ASSUME NEW d \in Connection, NEW level \in Levels, NEW r \in ExecuteSetLevel(d, level)
  PROVE  /\ r.conn \in Connection
         /\ r.conn.autocommit = d.autocommit
         /\ r.conn.tracked = d.tracked
         /\ r.conn.link # "none"
         /\ r.ok => d.link = "up" /\ r.conn.link = "up" /\ r.conn.server = level
         /\ ~r.ok => r.conn = d \/ r.conn.link = "down"
<1>1. CASE r = Returns([d EXCEPT !.server = level]) /\ d.link = "up"
  <2> DEFINE e == [d EXCEPT !.server = level]
  <2>1. r.ok /\ r.conn = e
    BY <1>1 DEF Returns
  <2>2. /\ e \in Connection /\ e.server = level /\ e.link = d.link
        /\ e.autocommit = d.autocommit /\ e.tracked = d.tracked
    BY DEF Connection
  <2> HIDE DEF e
  <2>3. QED
    BY <1>1, <2>1, <2>2
<1>2. CASE r = Raises(d) /\ d.link = "up"
  BY <1>2 DEF Raises
<1>3. CASE r = Raises(Severed(d))
  <2>1. ~r.ok /\ r.conn = Severed(d)
    BY <1>3 DEF Raises
  <2>2. QED
    BY <2>1, SeveredConnection
<1>4. QED
  BY <1>1, <1>2, <1>3 DEF ExecuteSetLevel

LEMMA TrackOutcome ==
  ASSUME NEW q, q.conn \in Connection, NEW level \in LevelValues
  PROVE  /\ q.ok => /\ Track(q, level).ok
                    /\ Track(q, level).conn \in Connection
                    /\ Track(q, level).conn.tracked = level
                    /\ Track(q, level).conn.link = q.conn.link
                    /\ Track(q, level).conn.autocommit = q.conn.autocommit
                    /\ Track(q, level).conn.server = q.conn.server
         /\ ~q.ok => Track(q, level) = q
<1>1. CASE q.ok
  <2> DEFINE e == [q.conn EXCEPT !.tracked = level]
  <2>1. Track(q, level).ok /\ Track(q, level).conn = e
    BY <1>1 DEF Track, Returns
  <2>2. /\ e \in Connection /\ e.tracked = level /\ e.link = q.conn.link
        /\ e.autocommit = q.conn.autocommit /\ e.server = q.conn.server
    BY DEF Connection
  <2> HIDE DEF e
  <2>3. QED
    BY <1>1, <2>1, <2>2
<1>2. QED
  BY <1>1 DEF Track

\* A set_isolation_level that returns has reached the server: the level is
\* tracked, and autocommit is off for a transactional one.
LEMMA SetReturns ==
  ASSUME NEW d \in Connection, NEW level \in LevelValues,
         NEW r \in SetIsolationLevel(d, level), r.ok,
         d.tracked # AUTOCOMMIT => ~d.autocommit
  PROVE  /\ r.conn \in Connection
         /\ r.conn.link = "up"
         /\ r.conn.tracked = level
         /\ Coherent(r.conn)
<1>1. CASE level = AUTOCOMMIT
  <2>1. PICK q \in AssignAutocommit(d, TRUE) : r = Track(q, AUTOCOMMIT)
    BY <1>1 DEF SetIsolationLevel, EnterAutocommit
  <2>2. q.conn \in Connection /\ (q.ok => q.conn.link = "up")
    BY AssignOutcome
  <2>3. q.ok
    BY <2>1, <2>2, <1>1, TrackOutcome
  <2>4. QED
    BY <1>1, <2>1, <2>2, <2>3, TrackOutcome, LevelsAssumption DEF Coherent
<1>2. CASE level \in Levels
  <2>1. PICK q \in LeaveAutocommit(d) : r \in IF q.ok THEN SetServerLevel(q.conn, level)
                                                     ELSE {q}
    BY <1>2, LevelsAssumption DEF SetIsolationLevel
  <2>2. q.ok /\ r \in SetServerLevel(q.conn, level)
    BY <2>1
  <2>3. q.conn \in Connection /\ ~q.conn.autocommit
    <3>1. CASE d.tracked = AUTOCOMMIT
      BY <2>2, <3>1, AssignOutcome DEF LeaveAutocommit
    <3>2. CASE d.tracked # AUTOCOMMIT
      BY <3>2 DEF LeaveAutocommit, Returns
    <3>3. QED
      BY <3>1, <3>2
  <2>4. PICK p \in ExecuteSetLevel(q.conn, level) : r = Track(p, level)
    BY <1>2, <2>2 DEF SetServerLevel
  <2>5. /\ p.conn \in Connection
        /\ p.conn.autocommit = q.conn.autocommit
        /\ p.ok => p.conn.link = "up" /\ p.conn.server = level
    BY <1>2, <2>3, ExecuteOutcome
  <2>6. p.ok
    BY <2>4, <2>5, TrackOutcome
  <2>7. QED
    BY <2>3, <2>4, <2>5, <2>6, TrackOutcome DEF Coherent
<1>3. QED
  BY <1>1, <1>2 DEF LevelValues

\* A set_isolation_level that raises leaves the tracked level, and what it
\* says of the connection, as they were - for any level, unknown ones too.
LEMMA SetRaises ==
  ASSUME NEW d \in Connection, NEW level,
         NEW r \in SetIsolationLevel(d, level), ~r.ok, d.link # "none"
  PROVE  /\ r.conn \in Connection
         /\ r.conn.link # "none"
         /\ r.conn.tracked = d.tracked
         /\ Coherent(d) => Coherent(r.conn)
<1>1. CASE level = AUTOCOMMIT
  <2>1. PICK q \in AssignAutocommit(d, TRUE) : r = Track(q, AUTOCOMMIT)
    BY <1>1 DEF SetIsolationLevel, EnterAutocommit
  <2>2. /\ q.conn \in Connection
        /\ q.conn.tracked = d.tracked
        /\ ~q.ok => q.conn.link = "down" /\ q.conn.autocommit = d.autocommit
    BY AssignOutcome
  <2>3. ~q.ok /\ r = q
    BY <2>1, <2>2, TrackOutcome DEF LevelValues
  <2>4. QED
    BY <2>2, <2>3 DEF Coherent
<1>2. CASE level # AUTOCOMMIT
  <2>1. PICK q \in LeaveAutocommit(d) :
          r \in IF q.ok THEN SetServerLevel(q.conn, level) ELSE {q}
    BY <1>2 DEF SetIsolationLevel
  <2>2. /\ q.conn \in Connection
        /\ q.conn.link # "none"
        /\ q.conn.tracked = d.tracked
        /\ Coherent(d) => Coherent(q.conn)
    <3>1. CASE d.tracked = AUTOCOMMIT
      BY <3>1, AssignOutcome, LevelsAssumption DEF LeaveAutocommit, Coherent
    <3>2. CASE d.tracked # AUTOCOMMIT
      BY <3>2 DEF LeaveAutocommit, Returns
    <3>3. QED
      BY <3>1, <3>2
  <2>3. CASE q.ok /\ level \in Levels
    <3>1. PICK p \in ExecuteSetLevel(q.conn, level) : r = Track(p, level)
      BY <2>1, <2>3 DEF SetServerLevel
    <3>2. /\ p.conn \in Connection
          /\ p.conn.autocommit = q.conn.autocommit
          /\ p.conn.tracked = q.conn.tracked
          /\ p.conn.link # "none"
          /\ ~p.ok => p.conn = q.conn \/ p.conn.link = "down"
      BY <2>2, <2>3, ExecuteOutcome
    <3>3. ~p.ok /\ r = p
      BY <2>3, <3>1, <3>2, TrackOutcome DEF LevelValues
    <3>4. QED
      BY <2>2, <3>2, <3>3 DEF Coherent
  <2>4. CASE q.ok /\ level \notin Levels
    BY <2>1, <2>2, <2>4 DEF SetServerLevel, Raises
  <2>5. CASE ~q.ok
    BY <2>1, <2>2, <2>5
  <2>6. QED
    BY <2>3, <2>4, <2>5
<1>3. QED
  BY <1>1, <1>2

LEMMA BlankType == Blank \in Connection /\ Blank.link = "none"
  BY LevelsAssumption DEF Blank, Connection

\* Every connection the pool opens is at the engine's own level, and the
\* tracked level is the truth from the start.
LEMMA FreshIsHome ==
  ASSUME ServerAtDefault, NEW d \in FreshConnections
  PROVE  /\ d \in Connection
         /\ d.link # "none"
         /\ d.tracked = HomeLevel
         /\ Coherent(d)
<1> DEFINE Opened(ac) == OnConnect(RawConnection(ac))
<1>1. ASSUME NEW ac \in BOOLEAN
      PROVE  /\ Opened(ac) \in Connection
             /\ Opened(ac).link = "up"
             /\ Opened(ac).tracked = DefaultLevel
             /\ ~Opened(ac).autocommit
             /\ Opened(ac).server = ServerDefault
  BY LevelsAssumption DEF OnConnect, RawConnection, Connection, LevelValues
<1>2. CASE EngineLevel = Unset
  <2>1. PICK ac \in BOOLEAN : d = Opened(ac)
    BY <1>2 DEF FreshConnections
  <2>2. QED
    BY <1>1, <1>2, <2>1 DEF HomeLevel, Coherent, ServerAtDefault
<1>3. CASE EngineLevel # Unset
  <2>1. PICK ac \in BOOLEAN :
          \E r \in SetIsolationLevel(Opened(ac), EngineLevel) : r.ok /\ d = r.conn
    BY <1>3 DEF FreshConnections
  <2>2. EngineLevel \in LevelValues
    BY <1>3, EngineAssumption
  <2> HIDE DEF Opened
  <2>3. PICK r \in SetIsolationLevel(Opened(ac), EngineLevel) : r.ok /\ d = r.conn
    BY <2>1
  <2>4. QED
    BY <1>1, <1>3, <2>2, <2>3, SetReturns DEF HomeLevel
<1>4. QED
  BY <1>2, <1>3

-----------------------------------------------------------------------------
(* Types, and which connections are alive. Nothing here depends on the       *)
(* level a session starts at.                                                *)

\* Any set_isolation_level, whatever the level and the outcome, leaves a raw
\* connection, and one that was not alive is not alive afterwards.
LEMMA SetLink ==
  ASSUME NEW d \in Connection, NEW level, NEW r \in SetIsolationLevel(d, level)
  PROVE  /\ r.conn \in Connection
         /\ r.ok => r.conn.link = "up"
         /\ d.link # "up" => ~r.ok /\ r.conn.link # "up"
<1>1. ASSUME NEW q, q.conn \in Connection, NEW k \in LevelValues
      PROVE  /\ Track(q, k).conn \in Connection
             /\ Track(q, k).conn.link = q.conn.link
             /\ Track(q, k).ok <=> q.ok
  BY <1>1, TrackOutcome
<1>2. CASE level = AUTOCOMMIT
  <2>1. PICK q \in AssignAutocommit(d, TRUE) : r = Track(q, AUTOCOMMIT)
    BY <1>2 DEF SetIsolationLevel, EnterAutocommit
  <2>2. /\ q.conn \in Connection
        /\ q.ok => d.link = "up" /\ q.conn.link = "up"
        /\ ~q.ok => q.conn.link = "down"
    <3>1. q \in AssignAutocommit(d, TRUE) /\ TRUE \in BOOLEAN
      OBVIOUS
    <3>2. QED
      BY <3>1, AssignOutcome, Zenon
  <2>3. AUTOCOMMIT \in LevelValues
    BY DEF LevelValues
  <2>4. r.conn \in Connection /\ r.conn.link = q.conn.link /\ (r.ok <=> q.ok)
    BY <2>1, <2>2, <2>3, <1>1
  <2>5. QED
    BY <2>2, <2>4
<1>3. CASE level # AUTOCOMMIT
  <2>1. PICK q \in LeaveAutocommit(d) :
          r \in IF q.ok THEN SetServerLevel(q.conn, level) ELSE {q}
    BY <1>3 DEF SetIsolationLevel
  <2>2. /\ q.conn \in Connection
        /\ d.link # "up" => q.conn.link # "up"
    <3>1. CASE d.tracked = AUTOCOMMIT
      BY <3>1, AssignOutcome DEF LeaveAutocommit
    <3>2. CASE d.tracked # AUTOCOMMIT
      BY <3>2 DEF LeaveAutocommit, Returns
    <3>3. QED
      BY <3>1, <3>2
  <2>3. CASE q.ok /\ level \in Levels
    <3>1. PICK p \in ExecuteSetLevel(q.conn, level) : r = Track(p, level)
      BY <2>1, <2>3 DEF SetServerLevel
    <3>2. /\ p.conn \in Connection
          /\ p.ok => q.conn.link = "up" /\ p.conn.link = "up"
          /\ ~p.ok => p.conn = q.conn \/ p.conn.link = "down"
      BY <2>2, <2>3, ExecuteOutcome
    <3>3. QED
      BY <2>2, <2>3, <3>1, <3>2, <1>1 DEF LevelValues
  <2>4. CASE q.ok /\ level \notin Levels
    <3>1. ~r.ok /\ r.conn = q.conn
      BY <2>1, <2>4 DEF SetServerLevel, Raises
    <3>2. QED
      BY <2>2, <3>1
  <2>5. CASE ~q.ok
    <3>1. r = q
      BY <2>1, <2>5
    <3>2. QED
      BY <2>2, <2>5, <3>1
  <2>6. QED
    BY <2>3, <2>4, <2>5
<1>4. QED
  BY <1>2, <1>3

\* Every connection the pool opens is alive.
LEMMA FreshIsAlive ==
  ASSUME NEW d \in FreshConnections
  PROVE  d \in Connection /\ d.link = "up"
<1> DEFINE Opened(ac) == OnConnect(RawConnection(ac))
<1>1. ASSUME NEW ac \in BOOLEAN
      PROVE  Opened(ac) \in Connection /\ Opened(ac).link = "up"
  BY LevelsAssumption DEF OnConnect, RawConnection, Connection, LevelValues
<1>2. CASE EngineLevel = Unset
  <2>1. PICK ac \in BOOLEAN : d = Opened(ac)
    BY <1>2 DEF FreshConnections
  <2>2. QED
    BY <1>1, <2>1
<1>3. CASE EngineLevel # Unset
  <2>1. PICK ac \in BOOLEAN :
          \E r \in SetIsolationLevel(Opened(ac), EngineLevel) : r.ok /\ d = r.conn
    BY <1>3 DEF FreshConnections
  <2> HIDE DEF Opened
  <2>2. PICK r \in SetIsolationLevel(Opened(ac), EngineLevel) : r.ok /\ d = r.conn
    BY <2>1
  <2>3. QED
    BY <1>1, <2>2, SetLink
<1>4. QED
  BY <1>2, <1>3

\* What a client gets that asks for nothing is a level one may ask for.
LEMMA HomeIsLevel == HomeLevel \in LevelValues
  BY LevelsAssumption, EngineAssumption DEF HomeLevel, LevelValues

\* What an invalidation marks, and what the history records with it.
LEMMA MarkTypes ==
  ASSUME TypeOK, NEW s \in Slots
  PROVE  /\ Invalidated(s) \in [Slots -> BOOLEAN]
         /\ Condemned(s) \in [Slots -> BOOLEAN]
         /\ \A t \in Slots : Invalidated(s)[t] \in {stale[t], Connected(t)}
  BY DEF TypeOK, Invalidated, Condemned, Connected

\* The types hold at the start, and a step keeps them.
LEMMA InitType == Init => TypeOK
  BY BlankType, HomeIsLevel DEF Init, TypeOK

LEMMA TypeNext ==
  ASSUME TypeOK, [Next]_vars
  PROVE  TypeOK'
<1> USE DEF TypeOK
<1>1. CASE UNCHANGED vars
  BY <1>1 DEF vars
<1>2. ASSUME NEW s \in Slots, CheckoutPooled(s) PROVE TypeOK'
  BY <1>2, HomeIsLevel DEF CheckoutPooled
<1>3. ASSUME NEW s \in Slots, CheckoutReconnects(s) PROVE TypeOK'
  BY <1>3, FreshIsAlive, HomeIsLevel, LevelsAssumption, MarkTypes
     DEF CheckoutReconnects, GetDefaultIsolationLevel
<1>4. ASSUME NEW s \in Slots, CheckoutFails(s) PROVE TypeOK'
  BY <1>4, BlankType, MarkTypes DEF CheckoutFails
<1>5. ASSUME NEW s \in Slots, NEW writes \in BOOLEAN, Execute(s, writes) PROVE TypeOK'
  BY <1>5 DEF Execute
<1>6. ASSUME NEW s \in Slots, DropConnection(s),
             UNCHANGED <<default_isolation_level, entitled>>,
             condemned' \in [Slots -> BOOLEAN]
      PROVE  TypeOK'
  BY <1>6, BlankType, MarkTypes DEF DropConnection
<1>7. ASSUME NEW s \in Slots, NEW e \in LinkErrors, LinkFails(s, e) PROVE TypeOK'
  <2>1. condemned' \in [Slots -> BOOLEAN] /\ UNCHANGED <<default_isolation_level, entitled>>
    BY <1>7, MarkTypes DEF LinkFails
  <2>2. CASE DropConnection(s)
    BY <1>6, <2>1, <2>2
  <2>3. CASE ~DropConnection(s)
    <3>1. /\ conn' = [conn EXCEPT ![s] = Severed(conn[s])]
          /\ work' = [work EXCEPT ![s] = IF @ = "none" THEN "begun" ELSE @]
          /\ UNCHANGED <<holder, finalizer, stale>>
      BY <1>7, <2>3 DEF LinkFails, Severed
    <3>2. Severed(conn[s]) \in Connection
      BY SeveredConnection
    <3>3. QED
      BY <2>1, <3>1, <3>2
  <2>4. QED
    BY <2>2, <2>3
<1>8. ASSUME NEW s \in Slots, NEW e \in SqlErrors, StatementRefused(s, e) PROVE TypeOK'
  <2>1. CASE DropConnection(s)
    BY <1>6, <1>8, <2>1 DEF StatementRefused
  <2>2. CASE ~DropConnection(s)
    BY <1>8, <2>2 DEF StatementRefused
  <2>3. QED
    BY <2>1, <2>2
<1>9. ASSUME NEW s \in Slots, EndTransaction(s) PROVE TypeOK'
  BY <1>9 DEF EndTransaction
<1>10. ASSUME NEW s \in Slots, NEW level \in LevelValues, SetOption(s, level) PROVE TypeOK'
  <2>1. PICK r \in SetIsolationLevel(conn[s], level) :
          /\ conn' = [conn EXCEPT ![s] = r.conn]
          /\ finalizer' = [finalizer EXCEPT ![s] = @ \/ r.ok]
          /\ entitled' = [entitled EXCEPT ![s] = IF r.ok THEN level ELSE @]
    BY <1>10 DEF SetOption
  <2>2. r.conn \in Connection /\ (finalizer[s] \/ r.ok) \in BOOLEAN
    BY SetLink
  <2>3. QED
    BY <1>10, <2>1, <2>2 DEF SetOption
<1>11. ASSUME NEW s \in Slots, SetUnknownLevel(s) PROVE TypeOK'
  BY <1>11, SetLink DEF SetUnknownLevel
<1>12. ASSUME NEW s \in Slots, Close(s) PROVE TypeOK'
  BY <1>12 DEF Close
<1>13. ASSUME NEW s \in Slots, CloseWithReset(s) PROVE TypeOK'
  <2>1. PICK r \in SetIsolationLevel(conn[s], ResetTarget) :
          /\ conn' = [conn EXCEPT ![s] = IF r.ok THEN r.conn ELSE Blank]
          /\ holder' = [holder EXCEPT ![s] = IF r.ok THEN "pool" ELSE "lost"]
          /\ stale' = [stale EXCEPT ![s] = @ /\ r.ok]
          /\ condemned' = [condemned EXCEPT ![s] = @ /\ r.ok]
    BY <1>13 DEF CloseWithReset, ResetIsolationLevel
  <2>2. /\ (IF r.ok THEN r.conn ELSE Blank) \in Connection
        /\ (IF r.ok THEN "pool" ELSE "lost") \in {"pool", "client", "lost"}
    BY SetLink, BlankType
  <2>3. stale' \in [Slots -> BOOLEAN] /\ condemned' \in [Slots -> BOOLEAN]
    BY <2>1
  <2>4. QED
    BY <1>13, <2>1, <2>2, <2>3 DEF CloseWithReset
<1>14. ASSUME NEW s \in Slots, NEW e \in LinkErrors, CloseBroken(s, e) PROVE TypeOK'
  BY <1>14, BlankType, MarkTypes DEF CloseBroken
<1>15. ASSUME NEW s \in Slots, LoseLink(s) PROVE TypeOK'
  <2>1. conn' = [conn EXCEPT ![s] = Severed(conn[s])]
    BY <1>15 DEF LoseLink, Severed
  <2>2. QED
    BY <1>15, <2>1, SeveredConnection DEF LoseLink
<1>16. CASE Outage
  <2>1. conn' = [s \in Slots |-> IF Connected(s) THEN Severed(conn[s]) ELSE conn[s]]
    BY <1>16 DEF Outage, Severed
  <2>2. QED
    BY <1>16, <2>1, SeveredConnection DEF Outage
<1>17. QED
  BY <1>1, <1>2, <1>3, <1>4, <1>5, <1>7, <1>8, <1>9, <1>10, <1>11, <1>12, <1>13,
     <1>14, <1>15, <1>16 DEF Next

-----------------------------------------------------------------------------
(* The invariant. *)

\* No action of one record touches another record's connection, holder,
\* finalizer, transaction or entitlement, except to sever its link.
LEMMA OtherSlots ==
  ASSUME IInv, NEW t \in Slots,
         UNCHANGED <<conn[t], holder[t], finalizer[t], work[t], entitled[t]>>,
         default_isolation_level' \in {default_isolation_level, DefaultLevel}
  PROVE  SlotInv(t)'
  BY DEF IInv, SlotInv, Initialized, TracksTruth, HeldAsEntitled, HomeUnlessReset,
     PooledIsClean, Connected, Coherent

\* A record without a connection, back in the pool or lost, owes nothing.
LEMMA EmptySlot ==
  ASSUME NEW s \in Slots, conn'[s] = Blank,
         holder'[s] = "pool" => ~finalizer'[s] /\ work'[s] = "none"
  PROVE  SlotInv(s)'
  BY BlankType DEF SlotInv, Initialized, TracksTruth, HeldAsEntitled,
     HomeUnlessReset, PooledIsClean, Connected

LEMMA InitInv == Init => IInv
<1> SUFFICES ASSUME Init PROVE IInv
  OBVIOUS
<1>1. TypeOK
  BY InitType
<1>2. ASSUME NEW s \in Slots PROVE SlotInv(s)
  BY BlankType DEF Init, SlotInv, Initialized, TracksTruth, HeldAsEntitled,
     HomeUnlessReset, PooledIsClean, Connected
<1>3. QED
  BY <1>1, <1>2 DEF IInv

LEMMA CheckoutInv ==
  ASSUME IInv, TypeOK', ServerAtDefault, NEW s \in Slots,
         CheckoutPooled(s) \/ CheckoutReconnects(s) \/ CheckoutFails(s)
  PROVE  IInv'
<1> USE DEF IInv
<1>1. CASE CheckoutPooled(s)
  <2>1. SlotInv(s)'
    BY <1>1 DEF CheckoutPooled, TypeOK, SlotInv, Initialized, TracksTruth, Coherent,
       HeldAsEntitled, HomeUnlessReset, PooledIsClean, Connected
  <2>2. ASSUME NEW t \in Slots \ {s} PROVE SlotInv(t)'
    BY <1>1, OtherSlots DEF CheckoutPooled, TypeOK
  <2>3. QED
    BY <2>1, <2>2
<1>2. CASE CheckoutReconnects(s)
  <2>1. PICK d \in FreshConnections : conn' = [conn EXCEPT ![s] = d]
    BY <1>2 DEF CheckoutReconnects
  <2>2. /\ d \in Connection
        /\ d.link # "none"
        /\ d.tracked = HomeLevel
        /\ Coherent(d)
    BY FreshIsHome
  <2>3. SlotInv(s)'
    <3>1. conn'[s] = d /\ entitled'[s] = HomeLevel /\ holder'[s] = "client"
      BY <1>2, <2>1 DEF CheckoutReconnects, TypeOK
    <3>2. default_isolation_level' = DefaultLevel
      BY <1>2 DEF CheckoutReconnects, GetDefaultIsolationLevel
    <3>3. QED
      BY <2>2, <3>1, <3>2, HomeIsLevel DEF SlotInv, Initialized, TracksTruth,
         Coherent, HeldAsEntitled, HomeUnlessReset, PooledIsClean, Connected
  <2>4. ASSUME NEW t \in Slots \ {s} PROVE SlotInv(t)'
    BY <1>2, <2>1, OtherSlots DEF CheckoutReconnects, GetDefaultIsolationLevel, TypeOK
  <2>5. QED
    BY <2>3, <2>4
<1>3. CASE CheckoutFails(s)
  <2>1. SlotInv(s)'
    BY <1>3, EmptySlot DEF CheckoutFails, TypeOK, SlotInv, PooledIsClean
  <2>2. ASSUME NEW t \in Slots \ {s} PROVE SlotInv(t)'
    BY <1>3, OtherSlots DEF CheckoutFails, TypeOK
  <2>3. QED
    BY <2>1, <2>2
<1>4. QED
  BY <1>1, <1>2, <1>3

\* Losing one connection to a failed statement leaves an empty record.
LEMMA DropInv ==
  ASSUME IInv, TypeOK', NEW s \in Slots, DropConnection(s),
         UNCHANGED <<default_isolation_level, entitled>>
  PROVE  IInv'
<1> USE DEF IInv
<1>1. SlotInv(s)'
  BY EmptySlot DEF DropConnection, TypeOK
<1>2. ASSUME NEW t \in Slots \ {s} PROVE SlotInv(t)'
  <2>1. UNCHANGED <<conn[t], holder[t], finalizer[t], work[t], entitled[t],
                    default_isolation_level>>
    BY DEF DropConnection, TypeOK
  <2>2. QED
    BY <2>1, OtherSlots
<1>3. QED
  BY <1>1, <1>2

\* Changing the client's transaction, and no more than the link of its
\* connection besides, keeps the record as it should be.
LEMMA KeepsSlot ==
  ASSUME IInv, NEW s \in Slots, conn'[s] \in {conn[s], Severed(conn[s])}, Connected(s),
         UNCHANGED <<holder[s], finalizer[s], entitled[s], default_isolation_level>>,
         holder[s] = "pool" => work'[s] = "none"
  PROVE  SlotInv(s)'
<1>1. conn[s] \in Connection
  BY DEF IInv, TypeOK
<1>2. /\ conn'[s].link # "none"
      /\ conn'[s].tracked = conn[s].tracked
      /\ Coherent(conn[s]) => Coherent(conn'[s])
  BY <1>1, SeveredConnection DEF Coherent, Connected
<1>3. QED
  BY <1>2 DEF IInv, SlotInv, Initialized, TracksTruth, HeldAsEntitled,
     HomeUnlessReset, PooledIsClean, Connected

LEMMA StatementInv ==
  ASSUME IInv, TypeOK', NEW s \in Slots,
         \/ \E writes \in BOOLEAN : Execute(s, writes)
         \/ \E e \in LinkErrors : LinkFails(s, e)
         \/ \E e \in SqlErrors : StatementRefused(s, e)
         \/ EndTransaction(s)
  PROVE  IInv'
<1>1. CASE \E writes \in BOOLEAN : Execute(s, writes)
  <2>1. PICK writes \in BOOLEAN : Execute(s, writes)
    BY <1>1
  <2>2. SlotInv(s)'
    BY <2>1, KeepsSlot DEF IInv, TypeOK, Execute, Connected
  <2>3. ASSUME NEW t \in Slots \ {s} PROVE SlotInv(t)'
    BY <2>1, OtherSlots DEF IInv, TypeOK, Execute
  <2>4. QED
    BY <2>2, <2>3 DEF IInv
<1>2. CASE \E e \in LinkErrors : LinkFails(s, e)
  <2>1. PICK e \in LinkErrors : LinkFails(s, e)
    BY <1>2
  <2>2. CASE DropConnection(s)
    BY <2>1, <2>2, DropInv DEF LinkFails
  <2>3. CASE ~DropConnection(s)
    <3>1. /\ conn' = [conn EXCEPT ![s] = Severed(conn[s])]
          /\ work' = [work EXCEPT ![s] = IF @ = "none" THEN "begun" ELSE @]
          /\ UNCHANGED <<holder, finalizer, stale, default_isolation_level, entitled>>
          /\ holder[s] = "client" /\ Connected(s)
      BY <2>1, <2>3 DEF LinkFails, Severed
    <3>2. conn[s] \in Connection /\ Severed(conn[s]) \in Connection
      BY SeveredConnection DEF IInv, TypeOK
    <3>3. SlotInv(s)'
      BY <3>1, KeepsSlot DEF IInv, TypeOK
    <3>4. ASSUME NEW t \in Slots \ {s} PROVE SlotInv(t)'
      BY <3>1, OtherSlots DEF IInv, TypeOK
    <3>5. QED
      BY <3>3, <3>4 DEF IInv
  <2>4. QED
    BY <2>2, <2>3
<1>3. CASE \E e \in SqlErrors : StatementRefused(s, e)
  <2>1. PICK e \in SqlErrors : StatementRefused(s, e)
    BY <1>3
  <2>2. CASE DropConnection(s)
    BY <2>1, <2>2, DropInv DEF StatementRefused, IInv, TypeOK
  <2>3. CASE ~DropConnection(s)
    <3>1. /\ work' = [work EXCEPT ![s] = IF @ = "none" THEN "begun" ELSE @]
          /\ UNCHANGED <<conn, holder, finalizer, stale, default_isolation_level,
                         entitled, condemned>>
          /\ holder[s] = "client" /\ Connected(s)
      BY <2>1, <2>3 DEF StatementRefused, Connected
    <3>2. SlotInv(s)'
      BY <3>1, KeepsSlot DEF IInv, TypeOK
    <3>3. ASSUME NEW t \in Slots \ {s} PROVE SlotInv(t)'
      BY <3>1, OtherSlots DEF IInv, TypeOK
    <3>4. QED
      BY <3>2, <3>3 DEF IInv
  <2>4. QED
    BY <2>2, <2>3
<1>4. CASE EndTransaction(s)
  <2>1. SlotInv(s)'
    BY <1>4, KeepsSlot DEF IInv, TypeOK, EndTransaction, Connected
  <2>2. ASSUME NEW t \in Slots \ {s} PROVE SlotInv(t)'
    BY <1>4, OtherSlots DEF IInv, TypeOK, EndTransaction
  <2>3. QED
    BY <2>1, <2>2 DEF IInv
<1>5. QED
  BY <1>1, <1>2, <1>3, <1>4

\* The client's own calls of set_isolation_level: where it raised, the
\* tracked level is still the one the client is entitled to.
LEMMA SetLevelInv ==
  ASSUME IInv, TypeOK', NEW s \in Slots,
         (\E level \in LevelValues : SetOption(s, level)) \/ SetUnknownLevel(s)
  PROVE  IInv'
<1>1. /\ conn[s] \in Connection
      /\ holder[s] = "client"
      /\ conn[s].link # "none"
      /\ SlotInv(s)
  BY DEF IInv, TypeOK, SetOption, SetUnknownLevel, Connected
<1>2. conn[s].tracked # AUTOCOMMIT => ~conn[s].autocommit
  BY <1>1 DEF SlotInv, Initialized, TracksTruth, Coherent, Connected, LevelValues
<1>3. CASE \E level \in LevelValues : SetOption(s, level)
  <2>1. PICK level \in LevelValues : SetOption(s, level)
    BY <1>3
  <2>2. PICK r \in SetIsolationLevel(conn[s], level) :
          /\ conn' = [conn EXCEPT ![s] = r.conn]
          /\ finalizer' = [finalizer EXCEPT ![s] = @ \/ r.ok]
          /\ entitled' = [entitled EXCEPT ![s] = IF r.ok THEN level ELSE @]
    BY <2>1 DEF SetOption
  <2>3. /\ r.conn \in Connection
        /\ r.conn.link # "none"
        /\ r.conn.tracked = IF r.ok THEN level ELSE conn[s].tracked
        /\ Coherent(conn[s]) => Coherent(r.conn)
    <3>1. CASE r.ok
      BY <1>1, <1>2, <3>1, SetReturns
    <3>2. CASE ~r.ok
      BY <1>1, <3>2, SetRaises
    <3>3. QED
      BY <3>1, <3>2
  <2>4. (finalizer[s] \/ r.ok) \in BOOLEAN
    OBVIOUS
  <2>5. SlotInv(s)'
    <3>1. /\ conn'[s] = r.conn
          /\ finalizer'[s] = (finalizer[s] \/ r.ok)
          /\ entitled'[s] = IF r.ok THEN level ELSE entitled[s]
          /\ UNCHANGED <<holder, work, default_isolation_level>>
      BY <2>1, <2>2 DEF SetOption, IInv, TypeOK
    <3>2. QED
      BY <1>1, <2>3, <3>1 DEF SlotInv, Initialized, TracksTruth, HeldAsEntitled,
         HomeUnlessReset, PooledIsClean, Connected
  <2>6. ASSUME NEW t \in Slots \ {s} PROVE SlotInv(t)'
    BY <2>1, <2>2, OtherSlots DEF SetOption, IInv, TypeOK
  <2>7. QED
    BY <2>5, <2>6 DEF IInv
<1>4. CASE SetUnknownLevel(s)
  <2>1. PICK r \in SetIsolationLevel(conn[s], Unset) : conn' = [conn EXCEPT ![s] = r.conn]
    BY <1>4 DEF SetUnknownLevel
  <2>2. ~r.ok
    <3>1. PICK q \in LeaveAutocommit(conn[s]) :
            r \in IF q.ok THEN SetServerLevel(q.conn, Unset) ELSE {q}
      BY <2>1, LevelsAssumption DEF SetIsolationLevel
    <3>2. QED
      BY <3>1, LevelsAssumption DEF SetServerLevel, Raises
  <2>3. /\ r.conn \in Connection
        /\ r.conn.link # "none"
        /\ r.conn.tracked = conn[s].tracked
        /\ Coherent(conn[s]) => Coherent(r.conn)
    BY <1>1, <2>2, SetRaises
  <2>4. SlotInv(s)'
    <3>1. /\ conn'[s] = r.conn
          /\ UNCHANGED <<holder, finalizer, work, entitled, default_isolation_level>>
      BY <1>4, <2>1 DEF SetUnknownLevel, IInv, TypeOK
    <3>2. QED
      BY <1>1, <2>3, <3>1 DEF SlotInv, Initialized, TracksTruth, HeldAsEntitled,
         HomeUnlessReset, PooledIsClean, Connected
  <2>5. ASSUME NEW t \in Slots \ {s} PROVE SlotInv(t)'
    BY <1>4, <2>1, OtherSlots DEF SetUnknownLevel, IInv, TypeOK
  <2>6. QED
    BY <2>4, <2>5 DEF IInv
<1>5. QED
  BY <1>3, <1>4

\* Check-in: a reset that returns brings the connection home, one that
\* raises costs the record, and a broken connection leaves an empty one.
LEMMA CloseInv ==
  ASSUME IInv, TypeOK', NEW s \in Slots,
         Close(s) \/ CloseWithReset(s) \/ \E e \in LinkErrors : CloseBroken(s, e)
  PROVE  IInv'
<1>1. CASE Close(s)
  <2>1. SlotInv(s)'
    BY <1>1 DEF Close, IInv, TypeOK, SlotInv, Initialized, TracksTruth, Coherent,
       HeldAsEntitled, HomeUnlessReset, PooledIsClean, Connected
  <2>2. ASSUME NEW t \in Slots \ {s} PROVE SlotInv(t)'
    BY <1>1, OtherSlots DEF Close, IInv, TypeOK
  <2>3. QED
    BY <2>1, <2>2 DEF IInv
<1>2. CASE CloseWithReset(s)
  <2>1. PICK r \in ResetIsolationLevel(conn[s]) :
          /\ conn' = [conn EXCEPT ![s] = IF r.ok THEN r.conn ELSE Blank]
          /\ holder' = [holder EXCEPT ![s] = IF r.ok THEN "pool" ELSE "lost"]
          /\ stale' = [stale EXCEPT ![s] = @ /\ r.ok]
          /\ condemned' = [condemned EXCEPT ![s] = @ /\ r.ok]
    BY <1>2 DEF CloseWithReset
  <2>2. /\ conn[s] \in Connection
        /\ conn[s].link = "up"
        /\ conn[s].tracked # AUTOCOMMIT => ~conn[s].autocommit
        /\ ResetTarget = HomeLevel
    BY <1>2 DEF CloseWithReset, IInv, TypeOK, SlotInv, Initialized, TracksTruth,
       Coherent, Connected, LevelValues, ResetTarget, HomeLevel
  <2>3. r.ok => /\ r.conn \in Connection
                /\ r.conn.link = "up"
                /\ r.conn.tracked = HomeLevel
                /\ Coherent(r.conn)
    BY <2>2, HomeIsLevel, SetReturns DEF ResetIsolationLevel
  <2>4. SlotInv(s)'
    <3>1. /\ conn'[s] = IF r.ok THEN r.conn ELSE Blank
          /\ holder'[s] # "client"
          /\ finalizer'[s] = FALSE
          /\ work'[s] = "none"
          /\ UNCHANGED <<default_isolation_level, entitled>>
      BY <1>2, <2>1 DEF CloseWithReset, IInv, TypeOK
    <3>2. CASE r.ok
      BY <2>2, <2>3, <3>1, <3>2, HomeIsLevel DEF IInv, SlotInv, Initialized,
         TracksTruth, HeldAsEntitled, HomeUnlessReset, PooledIsClean, Connected
    <3>3. CASE ~r.ok
      BY <3>1, <3>3, EmptySlot
    <3>4. QED
      BY <3>2, <3>3
  <2>5. ASSUME NEW t \in Slots \ {s} PROVE SlotInv(t)'
    <3>1. UNCHANGED <<conn[t], holder[t], finalizer[t], work[t], entitled[t],
                      default_isolation_level>>
      BY <1>2, <2>1 DEF CloseWithReset, IInv, TypeOK
    <3>2. QED
      BY <3>1, OtherSlots
  <2>6. QED
    BY <2>4, <2>5 DEF IInv
<1>3. CASE \E e \in LinkErrors : CloseBroken(s, e)
  <2>1. PICK e \in LinkErrors : CloseBroken(s, e)
    BY <1>3
  <2>2. SlotInv(s)'
    BY <2>1, EmptySlot DEF CloseBroken, IInv, TypeOK
  <2>3. ASSUME NEW t \in Slots \ {s} PROVE SlotInv(t)'
    <3>1. UNCHANGED <<conn[t], holder[t], finalizer[t], work[t], entitled[t],
                      default_isolation_level>>
      BY <2>1 DEF CloseBroken, IInv, TypeOK
    <3>2. QED
      BY <3>1, OtherSlots
  <2>4. QED
    BY <2>2, <2>3 DEF IInv
<1>4. QED
  BY <1>1, <1>2, <1>3

LEMMA LinkInv ==
  ASSUME IInv, TypeOK', (\E s \in Slots : LoseLink(s)) \/ Outage
  PROVE  IInv'
<1>1. UNCHANGED <<holder, finalizer, stale, work, default_isolation_level,
                  entitled, condemned>>
  BY DEF LoseLink, Outage
<1>2. /\ conn' \in [Slots -> Connection]
      /\ \A t \in Slots :
           \/ conn'[t] = conn[t]
           \/ conn'[t] = Severed(conn[t]) /\ Connected(t)
  <2>1. CASE \E s \in Slots : LoseLink(s)
    <3>1. PICK s \in Slots : conn' = [conn EXCEPT ![s] = Severed(conn[s])] /\ Connected(s)
      BY <2>1 DEF LoseLink, Severed, Connected
    <3>2. QED
      BY <3>1, SeveredConnection DEF IInv, TypeOK
  <2>2. CASE Outage
    <3>1. conn' = [s \in Slots |-> IF Connected(s) THEN Severed(conn[s]) ELSE conn[s]]
      BY <2>2 DEF Outage, Severed
    <3>2. QED
      BY <3>1, SeveredConnection DEF IInv, TypeOK
  <2>3. QED
    BY <2>1, <2>2
<1>3. ASSUME NEW t \in Slots PROVE SlotInv(t)'
  <2>1. CASE conn'[t] = conn[t]
    BY <1>1, <2>1, OtherSlots
  <2>2. CASE conn'[t] = Severed(conn[t]) /\ Connected(t)
    BY <1>1, <2>2, KeepsSlot DEF IInv, SlotInv, PooledIsClean
  <2>3. QED
    BY <1>2, <2>1, <2>2
<1>4. QED
  BY <1>3 DEF IInv

LEMMA NextInv ==
  ASSUME IInv, ServerAtDefault, [Next]_vars
  PROVE  IInv'
<1> TypeOK'
  BY TypeNext DEF IInv
<1>1. CASE UNCHANGED vars
  BY <1>1 DEF vars, IInv, TypeOK, SlotInv, Initialized, TracksTruth, Coherent,
     HeldAsEntitled, HomeUnlessReset, PooledIsClean, Connected
<1>2. ASSUME NEW s \in Slots,
             CheckoutPooled(s) \/ CheckoutReconnects(s) \/ CheckoutFails(s)
      PROVE  IInv'
  BY <1>2, CheckoutInv
<1>3. ASSUME NEW s \in Slots,
             \/ \E writes \in BOOLEAN : Execute(s, writes)
             \/ \E e \in LinkErrors : LinkFails(s, e)
             \/ \E e \in SqlErrors : StatementRefused(s, e)
             \/ EndTransaction(s)
      PROVE  IInv'
  BY <1>3, StatementInv
<1>4. ASSUME NEW s \in Slots,
             (\E level \in LevelValues : SetOption(s, level)) \/ SetUnknownLevel(s)
      PROVE  IInv'
  BY <1>4, SetLevelInv
<1>5. ASSUME NEW s \in Slots,
             Close(s) \/ CloseWithReset(s) \/ \E e \in LinkErrors : CloseBroken(s, e)
      PROVE  IInv'
  BY <1>5, CloseInv
<1>6. ASSUME (\E s \in Slots : LoseLink(s)) \/ Outage
      PROVE  IInv'
  BY <1>6, LinkInv
<1>7. QED
  BY <1>1, <1>2, <1>3, <1>4, <1>5, <1>6 DEF Next

-----------------------------------------------------------------------------
(* Dead connections. *)

\* docs/en/connection.md:165-170: is_disconnect recognises what pycubrid
\* raises on a broken link.
LinkErrorsRecognised == \A e \in LinkErrors : IsDisconnect(e)

\* A connection that was dead when another was found broken is still dead, and
\* the pool cannot hand it out: it was invalidated then or before, or its
\* record is empty.
CondemnedIsDead(s) ==
    condemned[s] => /\ conn[s].link # "up"
                    /\ holder[s] = "pool" => ~Usable(s)

DeadInv == TypeOK /\ \A s \in Slots : CondemnedIsDead(s)

\* A record stays as it should be through a step that revives nothing, puts
\* nothing into the pool and, if at all, invalidates what is connected.
LEMMA StaysDead ==
  ASSUME DeadInv, NEW t \in Slots,
         condemned'[t] => condemned[t],
         conn[t].link # "up" => conn'[t].link # "up",
         conn'[t].link # "none" => conn[t].link # "none",
         holder'[t] = "pool" => holder[t] = "pool",
         stale[t] => stale'[t]
  PROVE  CondemnedIsDead(t)'
  BY DEF DeadInv, CondemnedIsDead, Usable, Connected

\* So does a record that is empty afterwards, or cleared of the mark.
LEMMA EmptyOrCleared ==
  ASSUME NEW t \in Slots, conn'[t] = Blank \/ ~condemned'[t]
  PROVE  CondemnedIsDead(t)'
  BY BlankType DEF CondemnedIsDead, Usable, Connected

\* What a step does not touch stays as it was.
LEMMA OtherDead ==
  ASSUME DeadInv, NEW t \in Slots,
         UNCHANGED <<conn[t], holder[t], condemned[t]>>,
         stale'[t] \in {stale[t], Connected(t)}
  PROVE  CondemnedIsDead(t)'
  BY DEF DeadInv, CondemnedIsDead, Usable, Connected

\* Nor does it matter that another record was found broken: what is condemned
\* then was opened before, or is stale already.
LEMMA OtherFound ==
  ASSUME DeadInv, NEW s \in Slots, NEW t \in Slots,
         UNCHANGED <<conn[t], holder[t]>>,
         stale'[t] = Invalidated(s)[t],
         condemned'[t] = Condemned(s)[t]
  PROVE  CondemnedIsDead(t)'
<1>1. condemned'[t] => condemned[t] \/ (conn[t].link = "down" /\ (stale[s] => stale[t]))
  BY DEF Condemned
<1>2. stale'[t] = IF stale[s] THEN stale[t] ELSE Connected(t)
  BY DEF Invalidated
<1>3. QED
  BY <1>1, <1>2 DEF DeadInv, CondemnedIsDead, Usable, Connected

\* An open connection is never marked and returned in the same step.
LEMMA DeadNext ==
  ASSUME DeadInv, LinkErrorsRecognised, [Next]_vars
  PROVE  DeadInv'
<1> USE DEF DeadInv
<1> TypeOK'
  BY TypeNext
<1>1. CASE UNCHANGED vars
  BY <1>1 DEF vars, CondemnedIsDead, Usable, Connected
<1>2. ASSUME NEW s \in Slots, CheckoutPooled(s), NEW t \in Slots
      PROVE  CondemnedIsDead(t)'
  BY <1>2 DEF CheckoutPooled, CondemnedIsDead, Usable, Connected, TypeOK
<1>3. ASSUME NEW s \in Slots, CheckoutReconnects(s) \/ CheckoutFails(s), NEW t \in Slots
      PROVE  CondemnedIsDead(t)'
  <2>1. CASE t = s
    BY <1>3, <2>1, EmptyOrCleared DEF CheckoutReconnects, CheckoutFails, TypeOK
  <2>2. CASE t # s /\ Usable(s)
    <3>1. /\ UNCHANGED <<conn[t], holder[t]>>
          /\ stale'[t] = Invalidated(s)[t]
          /\ condemned'[t] = Condemned(s)[t]
      BY <1>3, <2>2, MarkTypes DEF CheckoutReconnects, CheckoutFails, TypeOK
    <3>2. QED
      BY <3>1, OtherFound
  <2>3. CASE t # s /\ ~Usable(s)
    BY <1>3, <2>3, OtherDead DEF CheckoutReconnects, CheckoutFails, TypeOK
  <2>4. QED
    BY <2>1, <2>2, <2>3
<1>4. ASSUME NEW s \in Slots, NEW t \in Slots,
             \/ \E writes \in BOOLEAN : Execute(s, writes)
             \/ EndTransaction(s)
      PROVE  CondemnedIsDead(t)'
  BY <1>4, OtherDead DEF Execute, EndTransaction
<1>5. ASSUME NEW s \in Slots, NEW e \in LinkErrors, LinkFails(s, e), NEW t \in Slots
      PROVE  CondemnedIsDead(t)'
  <2>1. DropConnection(s) /\ condemned' = Condemned(s)
    BY <1>5 DEF LinkFails, LinkErrorsRecognised
  <2>2. CASE t = s
    BY <2>1, <2>2, EmptyOrCleared DEF DropConnection, TypeOK
  <2>3. CASE t # s
    <3>1. UNCHANGED <<conn[t], holder[t]>> /\ stale'[t] = Invalidated(s)[t]
      BY <2>1, <2>3, MarkTypes DEF DropConnection, TypeOK
    <3>2. QED
      BY <2>1, <3>1, OtherFound
  <2>4. QED
    BY <2>2, <2>3
<1>6. ASSUME NEW s \in Slots, NEW e \in SqlErrors, StatementRefused(s, e), NEW t \in Slots
      PROVE  CondemnedIsDead(t)'
  <2>1. CASE DropConnection(s)
    <3>1. CASE t = s
      BY <2>1, <3>1, EmptyOrCleared DEF DropConnection, TypeOK
    <3>2. CASE t # s
      <4>1. UNCHANGED <<conn[t], holder[t], condemned[t]>>
        BY <1>6, <2>1, <3>2 DEF StatementRefused, DropConnection, TypeOK
      <4>2. stale'[t] = Invalidated(s)[t]
        BY <2>1, <3>2, MarkTypes DEF DropConnection
      <4>3. QED
        BY <4>1, <4>2, OtherDead, MarkTypes
    <3>3. QED
      BY <3>1, <3>2
  <2>2. CASE ~DropConnection(s)
    BY <1>6, <2>2, OtherDead DEF StatementRefused
  <2>3. QED
    BY <2>1, <2>2
<1>7. ASSUME NEW s \in Slots, NEW t \in Slots,
             (\E level \in LevelValues : SetOption(s, level)) \/ SetUnknownLevel(s)
      PROVE  CondemnedIsDead(t)'
  <2>1. /\ holder[s] = "client" /\ Connected(s)
        /\ UNCHANGED <<holder, stale, condemned>>
    BY <1>7 DEF SetOption, SetUnknownLevel
  <2>2. PICK d \in Connection :
          /\ conn' = [conn EXCEPT ![s] = d]
          /\ conn[s].link # "up" => d.link # "up"
    BY <1>7, SetLink DEF SetOption, SetUnknownLevel, TypeOK
  <2>3. CASE t = s
    <3>1. conn'[t] = d
      BY <2>2, <2>3 DEF TypeOK
    <3>2. QED
      BY <2>1, <2>2, <2>3, <3>1, StaysDead DEF Connected
  <2>4. CASE t # s
    BY <2>1, <2>2, <2>4, OtherDead DEF TypeOK
  <2>5. QED
    BY <2>3, <2>4
<1>8. ASSUME NEW s \in Slots, NEW t \in Slots,
             \/ Close(s)
             \/ CloseWithReset(s)
             \/ \E e \in LinkErrors : CloseBroken(s, e)
      PROVE  CondemnedIsDead(t)'
  <2>1. CASE t = s
    <3>1. ~condemned'[s]
      <4>1. CASE Close(s)
        BY <4>1 DEF Close, CondemnedIsDead
      <4>2. CASE CloseWithReset(s)
        BY <4>2 DEF CloseWithReset, CondemnedIsDead, TypeOK
      <4>3. CASE \E e \in LinkErrors : CloseBroken(s, e)
        BY <4>3 DEF CloseBroken, TypeOK
      <4>4. QED
        BY <1>8, <4>1, <4>2, <4>3
    <3>2. QED
      BY <2>1, <3>1, EmptyOrCleared
  <2>2. CASE t # s
    <3>1. CASE Close(s) \/ CloseWithReset(s)
      BY <2>2, <3>1, OtherDead DEF Close, CloseWithReset, TypeOK
    <3>2. ASSUME NEW e \in LinkErrors, CloseBroken(s, e), work[s] # "none"
          PROVE  CondemnedIsDead(t)'
      <4>1. /\ UNCHANGED <<conn[t], holder[t]>>
            /\ stale'[t] = Invalidated(s)[t]
            /\ condemned'[t] = Condemned(s)[t]
        BY <2>2, <3>2, MarkTypes DEF CloseBroken, LinkErrorsRecognised, TypeOK
      <4>2. QED
        BY <4>1, OtherFound
    <3>3. ASSUME NEW e \in LinkErrors, CloseBroken(s, e), work[s] = "none"
          PROVE  CondemnedIsDead(t)'
      <4>1. /\ stale' = [stale EXCEPT ![s] = FALSE]
            /\ condemned' = [condemned EXCEPT ![s] = FALSE]
            /\ conn' = [conn EXCEPT ![s] = Blank]
            /\ holder' = [holder EXCEPT ![s] = "pool"]
        BY <3>3 DEF CloseBroken
      <4>2. QED
        BY <2>2, <4>1, OtherDead DEF TypeOK
    <3>4. QED
      BY <1>8, <3>1, <3>2, <3>3
  <2>3. QED
    BY <2>1, <2>2
<1>9. ASSUME (\E s \in Slots : LoseLink(s)) \/ Outage, NEW t \in Slots
      PROVE  CondemnedIsDead(t)'
  <2>1. UNCHANGED <<holder, stale, condemned>>
    BY <1>9 DEF LoseLink, Outage
  <2>2. conn'[t] = conn[t] \/ (conn'[t].link = "down" /\ Connected(t))
    <3>1. CASE \E s \in Slots : LoseLink(s)
      <4>1. PICK s \in Slots : conn' = [conn EXCEPT ![s] = Severed(conn[s])] /\ Connected(s)
        BY <3>1 DEF LoseLink, Severed, Connected
      <4>2. QED
        BY <4>1, SeveredConnection DEF TypeOK
    <3>2. CASE Outage
      <4>1. conn' = [s \in Slots |-> IF Connected(s) THEN Severed(conn[s]) ELSE conn[s]]
        BY <3>2 DEF Outage, Severed
      <4>2. QED
        BY <4>1, SeveredConnection DEF TypeOK
    <3>3. QED
      BY <1>9, <3>1, <3>2
  <2>3. QED
    BY <2>1, <2>2, StaysDead DEF Connected
<1>10. QED
  BY <1>1, <1>2, <1>3, <1>4, <1>5, <1>6, <1>7, <1>8, <1>9 DEF Next

\* A check-out clears the mark, and takes an unmarked connection unless it
\* reconnects; nothing else moves a record from the pool to a client.
LEMMA CheckoutSteps ==
  ASSUME TypeOK, [Next]_vars, NEW s \in Slots,
         holder[s] = "pool", holder'[s] = "client"
  PROVE  CheckoutPooled(s) \/ CheckoutReconnects(s)
<1>1. ASSUME NEW t \in Slots, CheckoutPooled(t) \/ CheckoutReconnects(t)
      PROVE  t = s
  BY <1>1 DEF CheckoutPooled, CheckoutReconnects, TypeOK
<1>2. CASE UNCHANGED vars \/ Outage
  BY <1>2 DEF vars, Outage
<1>3. ASSUME NEW t \in Slots,
             \/ CheckoutFails(t)
             \/ \E writes \in BOOLEAN : Execute(t, writes)
             \/ \E e \in LinkErrors : LinkFails(t, e)
             \/ \E e \in SqlErrors : StatementRefused(t, e)
             \/ EndTransaction(t)
             \/ \E level \in LevelValues : SetOption(t, level)
             \/ SetUnknownLevel(t)
             \/ LoseLink(t)
      PROVE  FALSE
  BY <1>3 DEF CheckoutFails, Execute, LinkFails, DropConnection, StatementRefused,
     EndTransaction, SetOption, SetUnknownLevel, LoseLink, TypeOK
<1>4. ASSUME NEW t \in Slots,
             Close(t) \/ CloseWithReset(t) \/ \E e \in LinkErrors : CloseBroken(t, e)
      PROVE  FALSE
  BY <1>4 DEF Close, CloseWithReset, CloseBroken, TypeOK
<1>5. QED
  BY <1>1, <1>2, <1>3, <1>4 DEF Next

-----------------------------------------------------------------------------
(* Theorems. *)

\* Type correctness, at any number of records and levels.
THEOREM TypeCorrect == Spec => []TypeOK
<1>1. Init => TypeOK
  BY InitType
<1>2. TypeOK /\ [Next]_vars => TypeOK'
  BY TypeNext
<1>3. QED
  BY <1>1, <1>2, PTL DEF Spec

\* The inductive invariant holds in every reachable state, provided a new
\* session of an engine without a level starts at READ COMMITTED.
THEOREM Invariance == ServerAtDefault => (Spec => []IInv)
<1> SUFFICES ASSUME ServerAtDefault PROVE Spec => []IInv
  OBVIOUS
<1>1. Init => IInv
  BY InitInv
<1>2. IInv /\ [Next]_vars => IInv'
  BY NextInv
<1>3. QED
  BY <1>1, <1>2, PTL DEF Spec

\* What get_isolation_level reports of a transactional connection is true,
\* whichever steps of set_isolation_level failed before.
THEOREM TrackingIsTrue == ServerAtDefault => (Spec => []TracksServer)
<1>1. IInv => TracksServer
  BY LevelsAssumption DEF IInv, SlotInv, Initialized, TracksTruth, Coherent,
     TracksServer, GetIsolationLevel, LevelValues
<1>2. QED
  BY <1>1, Invariance, PTL

\* A client's session runs at the level the client is entitled to.
THEOREM IsolationIsKept == ServerAtDefault => (Spec => []EntitledIsolation)
<1>1. IInv => EntitledIsolation
  BY LevelsAssumption DEF IInv, SlotInv, Initialized, TracksTruth, Coherent,
     HeldAsEntitled, EntitledIsolation, GetIsolationLevel, LevelValues, Connected
<1>2. QED
  BY <1>1, Invariance, PTL

\* A pooled connection holds no transaction and is at the engine's level.
THEOREM PoolIsHome == ServerAtDefault => (Spec => []PooledIsHome)
<1>1. IInv => PooledIsHome
  BY LevelsAssumption DEF IInv, SlotInv, Initialized, HomeUnlessReset,
     PooledIsClean, PooledIsHome, GetIsolationLevel, LevelValues, Connected
<1>2. QED
  BY <1>1, Invariance, PTL

\* Once a connection is found broken, no connection that was dead at that
\* moment is handed out again, provided is_disconnect recognises the errors
\* of a broken link and the one found was not itself from before the last
\* invalidation. In that case this holds of the dead ones that are as old; what
\* was opened since is not invalidated. Whether the pool pings plays no part.
THEOREM NoDeadConnectionAgain ==
  LinkErrorsRecognised => (Spec => DeadNeverReissued)
<1> SUFFICES ASSUME LinkErrorsRecognised PROVE Spec => DeadNeverReissued
  OBVIOUS
<1>1. Init => DeadInv
  BY InitType DEF Init, DeadInv, CondemnedIsDead
<1>2. DeadInv /\ [Next]_vars => DeadInv'
  BY DeadNext
<1>3. DeadInv /\ [Next]_vars =>
        [\A s \in Slots :
           (holder[s] = "pool" /\ holder'[s] = "client") => ~condemned'[s]]_vars
  <2> SUFFICES ASSUME DeadInv, [Next]_vars, NEW s \in Slots,
                      holder[s] = "pool", holder'[s] = "client"
               PROVE  ~condemned'[s]
    OBVIOUS
  <2>1. CASE CheckoutPooled(s)
    BY <2>1 DEF CheckoutPooled, DeadInv, CondemnedIsDead
  <2>2. CASE CheckoutReconnects(s)
    BY <2>2, MarkTypes DEF CheckoutReconnects, DeadInv, TypeOK
  <2>3. QED
    BY <2>1, <2>2, CheckoutSteps DEF DeadInv
<1>4. QED
  BY <1>1, <1>2, <1>3, PTL DEF Spec, DeadNeverReissued

\* With pool_pre_ping every connection is alive when a client gets it: the
\* ping has answered, or the record has just been connected.
THEOREM PingKeepsDeadAway == Spec => PingedAlive
<1>1. TypeOK /\ [Next]_vars =>
        [\A s \in Slots :
           (PrePing /\ holder[s] = "pool" /\ holder'[s] = "client")
              => conn'[s].link = "up"]_vars
  <2> SUFFICES ASSUME TypeOK, [Next]_vars, NEW s \in Slots, PrePing,
                      holder[s] = "pool", holder'[s] = "client"
               PROVE  conn'[s].link = "up"
    OBVIOUS
  <2>1. CASE CheckoutPooled(s)
    BY <2>1 DEF CheckoutPooled, DoPing
  <2>2. CASE CheckoutReconnects(s)
    BY <2>2, FreshIsAlive DEF CheckoutReconnects, TypeOK
  <2>3. QED
    BY <2>1, <2>2, CheckoutSteps
<1>2. QED
  BY <1>1, TypeCorrect, PTL DEF Spec, PingedAlive
=============================================================================
