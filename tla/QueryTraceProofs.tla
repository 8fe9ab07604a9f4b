--------------------------- MODULE QueryTraceProofs ---------------------------
(* The invariants of QueryTrace, for any connections and any tracers. *)
EXTENDS QueryTrace, TLAPS

\* TypeOK makes the two safety invariants inductive: both only speak of one
\* connection, and each action changes one.
IInv == TypeOK /\ TracingIsOwned /\ BlockIsTraced

LEMMA InitInv == Init => IInv
  BY DEF Init, IInv, TypeOK, TracingIsOwned, BlockIsTraced

\* start() makes its tracer the owner of the switch.
LEMMA StartInv ==
  ASSUME IInv, NEW c \in Conns, NEW t \in Tracers, Start(c, t)
  PROVE  IInv'
<1>1. TypeOK'
  BY DEF IInv, Start, TypeOK
<1>2. TracingIsOwned'
  BY DEF IInv, Start, TypeOK, TracingIsOwned
<1>3. BlockIsTraced'
  BY DEF IInv, Start, TypeOK, BlockIsTraced
<1>4. QED
  BY <1>1, <1>2, <1>3 DEF IInv

\* stop() settles the switch, or leaves its tracer the owner.
LEMMA StopInv ==
  ASSUME IInv, NEW c \in Conns, NEW t \in Tracers, Stop(c, t) \/ StopRefused(c, t)
  PROVE  IInv'
<1>1. CASE Stop(c, t)
  <2>1. TypeOK'
    BY <1>1 DEF IInv, Stop, TraceOff, TypeOK
  <2>2. TracingIsOwned'
    BY <1>1 DEF IInv, Stop, TraceOff, TypeOK, TracingIsOwned
  <2>3. BlockIsTraced'
    BY <1>1 DEF IInv, Stop, TraceOff, TypeOK, BlockIsTraced
  <2>4. QED
    BY <2>1, <2>2, <2>3 DEF IInv
<1>2. CASE StopRefused(c, t)
  BY <1>2 DEF StopRefused, vars, IInv, TypeOK, TracingIsOwned, BlockIsTraced
<1>3. QED
  BY <1>1, <1>2

LEMMA TraceQueryInv ==
  ASSUME IInv, NEW c \in Conns, TraceQuery(c) \/ TraceQueryRaises(c)
  PROVE  IInv'
<1>1. CASE TraceQuery(c)
  <2>1. TypeOK'
    BY <1>1 DEF IInv, TraceQuery, TraceOff, TypeOK
  <2>2. TracingIsOwned'
    BY <1>1 DEF IInv, TraceQuery, TraceOff, TypeOK, TracingIsOwned
  <2>3. BlockIsTraced'
    BY <1>1 DEF IInv, TraceQuery, TraceOff, TypeOK, BlockIsTraced
  <2>4. QED
    BY <2>1, <2>2, <2>3 DEF IInv
<1>2. CASE TraceQueryRaises(c)
  <2>1. TypeOK'
    BY <1>2 DEF IInv, TraceQueryRaises, TypeOK
  <2>2. TracingIsOwned'
    BY <1>2 DEF IInv, TraceQueryRaises, TypeOK, TracingIsOwned
  <2>3. BlockIsTraced'
    BY <1>2 DEF IInv, TraceQueryRaises, TypeOK, BlockIsTraced
  <2>4. QED
    BY <2>1, <2>2, <2>3 DEF IInv
<1>3. QED
  BY <1>1, <1>2

\* Check-in forgets the tracers of a connection but not that it had some.
LEMMA PoolInv ==
  ASSUME IInv, NEW c \in Conns, Checkout(c) \/ Checkin(c)
  PROVE  IInv'
<1>1. CASE Checkout(c)
  BY <1>1 DEF Checkout, IInv, TypeOK, TracingIsOwned, BlockIsTraced
<1>2. CASE Checkin(c)
  <2>1. TypeOK'
    BY <1>2 DEF IInv, Checkin, TypeOK
  <2>2. TracingIsOwned'
    BY <1>2 DEF IInv, Checkin, TypeOK, TracingIsOwned
  <2>3. BlockIsTraced'
    BY <1>2 DEF IInv, Checkin, TypeOK, BlockIsTraced
  <2>4. QED
    BY <2>1, <2>2, <2>3 DEF IInv
<1>3. QED
  BY <1>1, <1>2

LEMMA NextInv == IInv /\ [Next]_vars => IInv'
<1> SUFFICES ASSUME IInv, [Next]_vars PROVE IInv'
  OBVIOUS
<1>1. CASE UNCHANGED vars
  BY <1>1 DEF vars, IInv, TypeOK, TracingIsOwned, BlockIsTraced
<1>2. ASSUME NEW c \in Conns, NEW t \in Tracers,
             Start(c, t) \/ Stop(c, t) \/ StopRefused(c, t)
      PROVE  IInv'
  BY <1>2, StartInv, StopInv
<1>3. ASSUME NEW c \in Conns, TraceQuery(c) \/ TraceQueryRaises(c)
      PROVE  IInv'
  BY <1>3, TraceQueryInv
<1>4. ASSUME NEW c \in Conns, Checkout(c) \/ Checkin(c)
      PROVE  IInv'
  BY <1>4, PoolInv
<1>5. QED
  BY <1>1, <1>2, <1>3, <1>4 DEF Next

LEMMA Invariance == Spec => []IInv
<1>1. Init => IInv
  BY InitInv
<1>2. IInv /\ [Next]_vars => IInv'
  BY NextInv
<1>3. QED
  BY <1>1, <1>2, PTL DEF Spec

\* Type correctness: whoever starts and stops them, a connection's active
\* tracers are tracers made for it.
THEOREM TypeCorrect == Spec => []TypeOK
<1>1. IInv => TypeOK
  BY DEF IInv
<1>2. QED
  BY <1>1, Invariance, PTL

\* Whatever is refused, and however many tracers overlap, a tracing session
\* has someone who can end it, or was abandoned.
THEOREM SwitchIsOwned == Spec => []TracingIsOwned
<1>1. IInv => TracingIsOwned
  BY DEF IInv
<1>2. QED
  BY <1>1, Invariance, PTL

\* A tracer's block is traced until another one of the connection ends.
THEOREM TracersTrace == Spec => []BlockIsTraced
<1>1. IInv => BlockIsTraced
  BY DEF IInv
<1>2. QED
  BY <1>1, Invariance, PTL
=============================================================================
