------------------------------ MODULE QueryTrace ------------------------------
(****************************************************************************)
(* trace_query and QueryTracer (trace.py) on the connections of a pool.      *)
(*                                                                           *)
(* Tracing is a switch of the server session, which outlives the client: the *)
(* pool rolls a connection back at check-in and leaves the switch alone. A   *)
(* tracer works on the one connection it was made for; that a client is one  *)
(* thread makes each of its calls a step, whichever of the call's statements *)
(* the server refuses.                                                       *)
(****************************************************************************)
CONSTANTS
    Conns,              \* the pooled connections
    Tracers             \* the QueryTracer objects a client makes for one

VARIABLES
    held,               \* held[c]: a client has connection c
    traceOn,            \* traceOn[c]: the session is tracing
    active,             \* active[c]: the tracers of c whose _active is True
    abandoned,          \* history: c went back with a tracer still active
    raised,             \* history: a trace_query on c raised half-way
    interrupted         \* history: SET TRACE OFF ended the tracing of a tracer
                        \*   that was to go on

vars == <<held, traceOn, active, abandoned, raised, interrupted>>

TypeOK ==
    /\ held \in [Conns -> BOOLEAN]
    /\ traceOn \in [Conns -> BOOLEAN]
    /\ active \in [Conns -> SUBSET Tracers]
    /\ abandoned \in [Conns -> BOOLEAN]
    /\ raised \in [Conns -> BOOLEAN]
    /\ interrupted \in [Conns -> BOOLEAN]

Init ==
    /\ held = [c \in Conns |-> FALSE]
    /\ traceOn = [c \in Conns |-> FALSE]
    /\ active = [c \in Conns |-> {}]
    /\ abandoned = [c \in Conns |-> FALSE]
    /\ raised = [c \in Conns |-> FALSE]
    /\ interrupted = [c \in Conns |-> FALSE]

\* SET TRACE OFF, which settles whatever was left on before, whichever
\* tracers were to go on.
TraceOff(c, others) ==
    /\ traceOn' = [traceOn EXCEPT ![c] = FALSE]
    /\ abandoned' = [abandoned EXCEPT ![c] = FALSE]
    /\ raised' = [raised EXCEPT ![c] = FALSE]
    /\ interrupted' = [interrupted EXCEPT ![c] = others # {}]

-----------------------------------------------------------------------------
(* QueryTracer *)

\* Mutant: the connection is noted down instead of the tracer.
StartNotesConnection(c, t) ==
    /\ held[c]
    /\ traceOn' = [traceOn EXCEPT ![c] = TRUE]
    /\ active' = [active EXCEPT ![c] = @ \cup {c}]
    /\ interrupted' = [interrupted EXCEPT ![c] = FALSE]
    /\ UNCHANGED <<held, abandoned, raised>>

\* start(), also the way into a with block. A refused SET TRACE ON leaves
\* everything as it was.
Start(c, t) ==
    /\ held[c]
    /\ traceOn' = [traceOn EXCEPT ![c] = TRUE]
    /\ active' = [active EXCEPT ![c] = @ \cup {t}]
    /\ interrupted' = [interrupted EXCEPT ![c] = FALSE]
    /\ UNCHANGED <<held, abandoned, raised>>

\* stop(), also the way out of a with block: SHOW TRACE, SET TRACE OFF, and
\* only then _active := False. For a tracer that is not active it does
\* nothing.
Stop(c, t) ==
    /\ held[c]
    /\ t \in active[c]
    /\ active' = [active EXCEPT ![c] = @ \ {t}]
    /\ TraceOff(c, active[c] \ {t})
    /\ UNCHANGED held

\* Mutant: _active is cleared before the statements.
StopRefusedInactive(c, t) ==
    /\ held[c]
    /\ t \in active[c]
    /\ active' = [active EXCEPT ![c] = @ \ {t}]
    /\ UNCHANGED <<held, traceOn, abandoned, raised, interrupted>>

\* Mutant: SET TRACE OFF comes before the SHOW TRACE that is refused.
StopRefusedSwitchedOff(c, t) ==
    /\ held[c]
    /\ t \in active[c]
    /\ traceOn' = [traceOn EXCEPT ![c] = FALSE]
    /\ UNCHANGED <<held, active, abandoned, raised, interrupted>>

\* SHOW TRACE or SET TRACE OFF is refused, and stop() raises.
StopRefused(c, t) ==
    /\ held[c]
    /\ t \in active[c]
    /\ UNCHANGED vars

-----------------------------------------------------------------------------
(* trace_query *)

TraceQuery(c) ==
    /\ held[c]
    /\ TraceOff(c, active[c])
    /\ UNCHANGED <<held, active>>

\* The statement itself, SHOW TRACE or SET TRACE OFF raises: there is no
\* finally, and tracing stays on.
TraceQueryRaises(c) ==
    /\ held[c]
    /\ traceOn' = [traceOn EXCEPT ![c] = TRUE]
    /\ raised' = [raised EXCEPT ![c] = TRUE]
    /\ interrupted' = [interrupted EXCEPT ![c] = FALSE]
    /\ UNCHANGED <<held, active, abandoned>>

-----------------------------------------------------------------------------
(* The client and the pool *)

Checkout(c) ==
    /\ ~held[c]
    /\ held' = [held EXCEPT ![c] = TRUE]
    /\ UNCHANGED <<traceOn, active, abandoned, raised, interrupted>>

\* The next client will make tracers of its own.
Checkin(c) ==
    /\ held[c]
    /\ held' = [held EXCEPT ![c] = FALSE]
    /\ active' = [active EXCEPT ![c] = {}]
    /\ abandoned' = [abandoned EXCEPT ![c] = @ \/ active[c] # {}]
    /\ interrupted' = [interrupted EXCEPT ![c] = FALSE]
    /\ UNCHANGED <<traceOn, raised>>

Next ==
    \E c \in Conns :
      \/ \E t \in Tracers :
           \/ Start(c, t)
           \/ Stop(c, t)
           \/ StopRefused(c, t)
      \/ TraceQuery(c)
      \/ TraceQueryRaises(c)
      \/ Checkout(c)
      \/ Checkin(c)

Spec == Init /\ [][Next]_vars

-----------------------------------------------------------------------------
(* Properties *)

\* QueryTracer.stop: a session never goes on tracing without an active tracer
\* that can still turn it off - a stop() that raised half-way can be called
\* again - unless a client let go of one, or a trace_query raised.
TracingIsOwned ==
    \A c \in Conns : traceOn[c] => active[c] # {} \/ abandoned[c] \/ raised[c]

\* docs/en/alembic.md:248: the tracing utilities end with SET TRACE OFF, so a
\* client whose predecessors stopped their tracers gets a connection that is
\* not tracing.
PooledUntraced == \A c \in Conns : ~held[c] /\ traceOn[c] => abandoned[c]

\* trace.py:66: a QueryTracer is wrapped around an arbitrary block of SQL
\* operations, and whatever runs in the block is traced - also after a stop()
\* that raised - until another tracer or a trace_query inside the block ends:
\* SET TRACE OFF is not counted, and ends them all.
BlockIsTraced ==
    \A c \in Conns : active[c] # {} => traceOn[c] \/ interrupted[c]
=============================================================================
