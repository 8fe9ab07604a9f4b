--------------------------- MODULE SavepointsProofs ---------------------------
(* Nested transactions keep their promise, for any rows and any number of    *)
(* savepoints: what the server's log looks like while savepoints pile up on  *)
(* it, the invariant that follows, and the refinement of NestedTransactions. *)
EXTENDS Savepoints, SequenceTheorems, TLAPS

-----------------------------------------------------------------------------
(* The log, as a value: where a name is found in it, what rows lie between    *)
(* two positions, and the levels a stack of names cuts it into.              *)

Pos(l, name) == SelectLastInSeq(l, LAMBDA e : e = Save(name))

RowsIn(l, m, n) == {r \in Rows : \E k \in m..n : l[k] = Row(r)}

Low(l, st, i)  == IF i = 1 THEN 1 ELSE Pos(l, st[i - 1])
High(l, st, i) == IF i > Len(st) THEN Len(l) ELSE Pos(l, st[i])
LayerOf(l, st, i) == RowsOf(SubSeq(l, Low(l, st, i), High(l, st, i)))

\* Later savepoints have greater names, so a name is on the log once at most.
NamesGrow(l) ==
    \A j \in 1..Len(l), i \in 1..Len(l) :
        i < j /\ l[i].kind = "savepoint" /\ l[j].kind = "savepoint"
            => l[i].name < l[j].name

StackGrows(st) == \A j \in 1..Len(st), i \in 1..Len(st) : i < j => st[i] < st[j]

\* Every open nested transaction has its savepoint on the server.
AllFound(l, st) == \A i \in 1..Len(st) : \E p \in 1..Len(l) : l[p] = Save(st[i])

Nesting(l, st) ==
    /\ l \in Seq(Entries)
    /\ st \in Seq(1..MaxSavepoints)
    /\ NamesGrow(l)
    /\ StackGrows(st)
    /\ AllFound(l, st)

\* No part of the log lies outside the levels.
Covered(l, st) ==
    \A k \in 1..Len(l) : \E i \in 1..Len(st) + 1 : k \in Low(l, st, i)..High(l, st, i)

-----------------------------------------------------------------------------

LEMMA Named == \A n : Position(n) = Pos(log, n)
BY DEF Position, Pos, SelectLastInSeq

LEMMA LayerIsLayerOf == \A i : Layer(i) = LayerOf(log, stack, i)
BY Named DEF LayerOf, Layer, Low, High

LEMMA LayerIsLayerOfNext == \A i : Layer(i)' = LayerOf(log', stack', i)
BY DEF LayerOf, Layer, Low, High, Position, Pos, SelectLastInSeq

LEMMA EntryKinds ==
  /\ \A n : Save(n).kind = "savepoint" /\ Save(n).name = n
  /\ \A r : Row(r).kind = "row" /\ Row(r).name = r
  /\ \A n, r : Save(n) # Row(r)
  /\ \A n \in 1..MaxSavepoints : Save(n) \in Entries
  /\ \A r \in Rows : Row(r) \in Entries
BY DEF Save, Row, Entries

LEMMA PosFound ==
  ASSUME NEW l \in Seq(Entries), NamesGrow(l), NEW n \in Nat,
         NEW p \in 1..Len(l), l[p] = Save(n)
  PROVE  Pos(l, n) = p /\ \A q \in 1..Len(l) : l[q] = Save(n) => q = p
<1>1. \A q \in 1..Len(l) : l[q] = Save(n) => q = p
  BY EntryKinds DEF NamesGrow
<1>2. QED
  BY <1>1 DEF Pos, SelectLastInSeq, Max

LEMMA PosNonzero ==
  ASSUME NEW l \in Seq(Entries), NamesGrow(l), NEW n \in Nat, Pos(l, n) # 0
  PROVE  Pos(l, n) \in 1..Len(l) /\ l[Pos(l, n)] = Save(n)
<1>1. PICK p \in 1..Len(l) : l[p] = Save(n)
  BY DEF Pos, SelectLastInSeq
<1>2. QED
  BY <1>1, PosFound

LEMMA RowsOfIs ==
  ASSUME NEW l \in Seq(Entries)
  PROVE  RowsOf(l) = RowsIn(l, 1, Len(l))
BY DEF RowsOf, RowsIn, Range, Entries, Row, Save

LEMMA RowsOfPart ==
  ASSUME NEW l \in Seq(Entries), NEW m \in Nat \ {0}, NEW n \in 0..Len(l)
  PROVE  /\ SubSeq(l, m, n) \in Seq(Entries)
         /\ RowsOf(SubSeq(l, m, n)) = RowsIn(l, m, n)
<1> DEFINE part == SubSeq(l, m, n)
<1>1. /\ part \in Seq(Entries)
      /\ Len(part) = IF m <= n THEN n - m + 1 ELSE 0
      /\ \A i \in 1..n - m + 1 : part[i] = l[m + i - 1]
  BY SubSeqProperties
<1>2. RowsOf(part) = RowsIn(part, 1, Len(part))
  BY <1>1, RowsOfIs
<1>3. ASSUME NEW r \in Rows
      PROVE  (\E k \in 1..Len(part) : part[k] = Row(r)) <=> (\E k \in m..n : l[k] = Row(r))
  <2>1. ASSUME NEW k \in m..n, l[k] = Row(r) PROVE k - m + 1 \in 1..Len(part) /\ part[k - m + 1] = Row(r)
    BY <2>1, <1>1
  <2>2. ASSUME NEW k \in 1..Len(part), part[k] = Row(r) PROVE k + m - 1 \in m..n /\ l[k + m - 1] = Row(r)
    BY <2>2, <1>1
  <2>3. QED
    BY <2>1, <2>2
<1>4. QED
  BY <1>1, <1>2, <1>3 DEF RowsIn

\* The savepoints of the open levels are on the log in the order of the stack.
LEMMA Places ==
  ASSUME NEW l, NEW st, Nesting(l, st)
  PROVE  \A i \in 1..Len(st) :
            /\ Pos(l, st[i]) \in 1..Len(l)
            /\ l[Pos(l, st[i])] = Save(st[i])
            /\ \A p \in 1..Len(l) : l[p] = Save(st[i]) => p = Pos(l, st[i])
            /\ \A j \in 1..Len(st) : i < j => Pos(l, st[i]) < Pos(l, st[j])
<1>0. /\ l \in Seq(Entries) /\ Len(l) \in Nat /\ NamesGrow(l) /\ Len(st) \in Nat
      /\ \A i \in 1..Len(st) : st[i] \in Nat
  BY SavepointAssumption DEF Nesting
<1>1. \A i \in 1..Len(st) :
        /\ Pos(l, st[i]) \in 1..Len(l)
        /\ l[Pos(l, st[i])] = Save(st[i])
        /\ \A p \in 1..Len(l) : l[p] = Save(st[i]) => p = Pos(l, st[i])
  <2> TAKE i \in 1..Len(st)
  <2>1. PICK p \in 1..Len(l) : l[p] = Save(st[i])
    BY DEF Nesting, AllFound
  <2>2. QED
    BY <1>0, <2>1, PosFound
<1>2. ASSUME NEW i \in 1..Len(st), NEW j \in 1..Len(st), i < j
      PROVE  Pos(l, st[i]) < Pos(l, st[j])
  <2>1. st[i] < st[j] /\ st[i] \in Nat /\ st[j] \in Nat
    BY <1>0, <1>2 DEF Nesting, StackGrows
  <2>2. CASE Pos(l, st[j]) = Pos(l, st[i])
    BY <1>1, <2>1, <2>2, EntryKinds
  <2>3. CASE Pos(l, st[j]) < Pos(l, st[i])
    <3>1. /\ l[Pos(l, st[i])].kind = "savepoint" /\ l[Pos(l, st[i])].name = st[i]
          /\ l[Pos(l, st[j])].kind = "savepoint" /\ l[Pos(l, st[j])].name = st[j]
      BY <1>1, EntryKinds
    <3>2. l[Pos(l, st[j])].name < l[Pos(l, st[i])].name
      BY <1>0, <1>1, <2>3, <3>1 DEF NamesGrow
    <3>3. QED
      BY <3>1, <3>2, <2>1
  <2>4. QED
    BY <1>0, <1>1, <2>2, <2>3
<1>3. QED
  BY <1>1, <1>2

\* A level is a stretch of the log.
LEMMA LayerRows ==
  ASSUME NEW l, NEW st, Nesting(l, st), NEW i \in 1..Len(st) + 1
  PROVE  /\ Low(l, st, i) \in Nat \ {0}
         /\ High(l, st, i) \in 0..Len(l)
         /\ i # 1 => Low(l, st, i) \in 1..Len(l)
         /\ i <= Len(st) => Low(l, st, i) <= High(l, st, i)
         /\ LayerOf(l, st, i) = RowsIn(l, Low(l, st, i), High(l, st, i))
<1>1. Low(l, st, i) \in Nat \ {0} /\ High(l, st, i) \in 0..Len(l) /\ (i # 1 => Low(l, st, i) \in 1..Len(l))
  BY Places DEF Low, High, Nesting
<1>2. i <= Len(st) => Low(l, st, i) <= High(l, st, i)
  BY Places DEF Low, High, Nesting
<1>3. QED
  BY <1>1, <1>2, RowsOfPart DEF LayerOf, Nesting

-----------------------------------------------------------------------------
(* What each statement does to the log and to the levels.                    *)

\* An entry at the end leaves the savepoints where they are.
LEMMA AppendKeepsPlaces ==
  ASSUME NEW l, NEW st, Nesting(l, st), NEW e \in Entries, Nesting(Append(l, e), st)
  PROVE  /\ Append(l, e) \in Seq(Entries)
         /\ Len(Append(l, e)) = Len(l) + 1
         /\ \A k \in 1..Len(l) : Append(l, e)[k] = l[k]
         /\ Append(l, e)[Len(l) + 1] = e
         /\ \A i \in 1..Len(st) : Pos(Append(l, e), st[i]) = Pos(l, st[i])
<1> DEFINE ll == Append(l, e)
<1>1. /\ ll \in Seq(Entries) /\ Len(ll) = Len(l) + 1
      /\ \A k \in 1..Len(l) : ll[k] = l[k]
      /\ ll[Len(l) + 1] = e
  BY AppendProperties DEF Nesting
<1>2. ASSUME NEW i \in 1..Len(st) PROVE Pos(ll, st[i]) = Pos(l, st[i])
  <2>1. Pos(l, st[i]) \in 1..Len(l) /\ l[Pos(l, st[i])] = Save(st[i])
    BY Places
  <2>2. Pos(l, st[i]) \in 1..Len(ll) /\ ll[Pos(l, st[i])] = Save(st[i])
    BY <1>1, <2>1
  <2>3. Nesting(ll, st)
    OBVIOUS
  <2> HIDE DEF ll
  <2>4. QED
    BY <2>2, <2>3, Places
<1>3. QED
  BY <1>1, <1>2

LEMMA WriteGrows ==
  ASSUME NEW l \in Seq(Entries), NamesGrow(l), NEW r \in Rows
  PROVE  NamesGrow(Append(l, Row(r)))
<1> DEFINE ll == Append(l, Row(r))
<1>1. /\ ll \in Seq(Entries) /\ Len(ll) = Len(l) + 1 /\ Len(l) \in Nat
      /\ \A k \in 1..Len(l) : ll[k] = l[k]
      /\ ll[Len(l) + 1] = Row(r)
  BY EntryKinds, AppendProperties
<1> HIDE DEF ll
<1>2. NamesGrow(ll)
  BY <1>1, EntryKinds DEF NamesGrow
<1>3. QED
  BY <1>2 DEF ll

LEMMA WriteNesting ==
  ASSUME NEW l, NEW st, Nesting(l, st), NEW r \in Rows
  PROVE  Nesting(Append(l, Row(r)), st)
<1> DEFINE ll == Append(l, Row(r))
<1>1. /\ ll \in Seq(Entries) /\ Len(ll) = Len(l) + 1 /\ Len(l) \in Nat
      /\ \A k \in 1..Len(l) : ll[k] = l[k]
  BY EntryKinds, AppendProperties DEF Nesting
<1>2. NamesGrow(ll)
  BY WriteGrows DEF Nesting
<1> HIDE DEF ll
<1>3. AllFound(ll, st)
  BY <1>1 DEF Nesting, AllFound
<1>4. QED
  BY <1>1, <1>2, <1>3 DEF Nesting, ll

\* A row belongs to the innermost level.
LEMMA WriteLayers ==
  ASSUME NEW l, NEW st, Nesting(l, st), NEW r \in Rows
  PROVE  /\ \A i \in 1..Len(st) : LayerOf(Append(l, Row(r)), st, i) = LayerOf(l, st, i)
         /\ LayerOf(Append(l, Row(r)), st, Len(st) + 1) = LayerOf(l, st, Len(st) + 1) \cup {r}
         /\ Covered(l, st) => Covered(Append(l, Row(r)), st)
<1> DEFINE ll == Append(l, Row(r))
<1>1. Nesting(ll, st)
  BY WriteNesting
<1>2. /\ Len(ll) = Len(l) + 1 /\ Len(l) \in Nat /\ Len(st) \in Nat
      /\ \A k \in 1..Len(l) : ll[k] = l[k]
      /\ ll[Len(l) + 1] = Row(r)
      /\ \A i \in 1..Len(st) : Pos(ll, st[i]) = Pos(l, st[i])
  BY <1>1, EntryKinds, AppendKeepsPlaces DEF Nesting
<1> HIDE DEF ll
<1>3. \A i \in 1..Len(st) + 1 : Low(ll, st, i) = Low(l, st, i)
  BY <1>2 DEF Low
<1>4. \A i \in 1..Len(st) : High(ll, st, i) = High(l, st, i)
  BY <1>2 DEF High
<1>5. High(ll, st, Len(st) + 1) = Len(l) + 1 /\ High(l, st, Len(st) + 1) = Len(l)
  BY <1>2 DEF High
<1>6. ASSUME NEW i \in 1..Len(st) PROVE LayerOf(ll, st, i) = LayerOf(l, st, i)
  <2>1. High(l, st, i) \in 0..Len(l) /\ Low(l, st, i) \in Nat \ {0}
    BY LayerRows
  <2>2. RowsIn(ll, Low(l, st, i), High(l, st, i)) = RowsIn(l, Low(l, st, i), High(l, st, i))
    BY <1>2, <2>1 DEF RowsIn
  <2>3. QED
    BY <1>1, <1>3, <1>4, <2>2, LayerRows
<1>7. LayerOf(ll, st, Len(st) + 1) = LayerOf(l, st, Len(st) + 1) \cup {r}
  <2> DEFINE m == Low(l, st, Len(st) + 1)
  <2>1. m \in Nat \ {0} /\ (m = 1 \/ m \in 1..Len(l))
    BY <1>2, LayerRows DEF Low
  <2>2. RowsIn(ll, m, Len(l) + 1) = RowsIn(l, m, Len(l)) \cup {r}
    <3>1. \A k \in m..Len(l) : ll[k] = l[k]
      BY <1>2, <2>1
    <3>2. Len(l) + 1 \in m..Len(l) + 1 /\ \A k \in m..Len(l) + 1 : k \in m..Len(l) \/ k = Len(l) + 1
      BY <1>2, <2>1
    <3>3. \A x : Row(r) = Row(x) => x = r
      BY EntryKinds
    <3>4. m..Len(l) \subseteq m..Len(l) + 1
      BY <1>2, <2>1
    <3> HIDE DEF m
    <3>5. QED
      BY <1>2, <3>1, <3>2, <3>3, <3>4 DEF RowsIn
  <2>3. QED
    BY <1>1, <1>2, <1>3, <1>5, <2>2, LayerRows
<1>8. ASSUME Covered(l, st) PROVE Covered(ll, st)
  <2>1. Len(l) + 1 \in Low(ll, st, Len(st) + 1)..High(ll, st, Len(st) + 1)
    BY <1>2, <1>3, <1>5, LayerRows DEF Low
  <2>2. ASSUME NEW k \in 1..Len(l), NEW i \in 1..Len(st) + 1, k \in Low(l, st, i)..High(l, st, i)
        PROVE k \in Low(ll, st, i)..High(ll, st, i)
    BY <1>2, <1>3, <1>4, <1>5, <2>2, LayerRows
  <2>3. QED
    BY <1>2, <1>8, <2>1, <2>2 DEF Covered
<1>9. QED
  BY <1>6, <1>7, <1>8 DEF ll

LEMMA PushGrows ==
  ASSUME NEW l \in Seq(Entries), NamesGrow(l), NEW n \in 1..MaxSavepoints,
         \A i \in 1..Len(l) : l[i].kind = "savepoint" => l[i].name < n
  PROVE  NamesGrow(Append(l, Save(n)))
<1> DEFINE ll == Append(l, Save(n))
<1>1. /\ Len(ll) = Len(l) + 1 /\ Len(l) \in Nat
      /\ \A k \in 1..Len(l) : ll[k] = l[k]
      /\ ll[Len(l) + 1] = Save(n)
  BY EntryKinds, AppendProperties
<1> SUFFICES ASSUME NEW j \in 1..Len(ll), NEW i \in 1..Len(ll), i < j,
                    ll[i].kind = "savepoint", ll[j].kind = "savepoint"
             PROVE  ll[i].name < ll[j].name
  BY DEF NamesGrow
<1> HIDE DEF ll
<1>2. i \in 1..Len(l) /\ ll[i] = l[i]
  BY <1>1
<1>3. CASE j \in 1..Len(l)
  BY <1>1, <1>2, <1>3 DEF NamesGrow
<1>4. CASE j = Len(l) + 1
  BY <1>1, <1>2, <1>4, EntryKinds
<1>5. QED
  BY <1>1, <1>3, <1>4

LEMMA PushStackGrows ==
  ASSUME NEW st \in Seq(1..MaxSavepoints), StackGrows(st), NEW n \in 1..MaxSavepoints,
         \A i \in 1..Len(st) : st[i] < n
  PROVE  StackGrows(Append(st, n))
<1> DEFINE ss == Append(st, n)
<1>1. /\ Len(ss) = Len(st) + 1 /\ Len(st) \in Nat
      /\ \A i \in 1..Len(st) : ss[i] = st[i]
      /\ ss[Len(st) + 1] = n
  BY AppendProperties
<1> HIDE DEF ss
<1>2. StackGrows(ss)
  BY <1>1 DEF StackGrows
<1>3. QED
  BY <1>2 DEF ss

LEMMA PushNesting ==
  ASSUME NEW l, NEW st, Nesting(l, st), NEW n \in 1..MaxSavepoints,
         \A i \in 1..Len(l) : l[i].kind = "savepoint" => l[i].name < n,
         \A i \in 1..Len(st) : st[i] < n
  PROVE  Nesting(Append(l, Save(n)), Append(st, n))
<1> DEFINE ll == Append(l, Save(n))
           ss == Append(st, n)
<1>1. /\ ll \in Seq(Entries) /\ Len(ll) = Len(l) + 1 /\ Len(l) \in Nat
      /\ \A k \in 1..Len(l) : ll[k] = l[k]
      /\ ll[Len(l) + 1] = Save(n)
  BY EntryKinds, AppendProperties DEF Nesting
<1>2. /\ ss \in Seq(1..MaxSavepoints) /\ Len(ss) = Len(st) + 1 /\ Len(st) \in Nat
      /\ \A i \in 1..Len(st) : ss[i] = st[i]
      /\ ss[Len(st) + 1] = n
  BY AppendProperties DEF Nesting
<1>3. NamesGrow(ll) /\ StackGrows(ss)
  BY PushGrows, PushStackGrows DEF Nesting
<1> HIDE DEF ll, ss
<1>4. AllFound(ll, ss)
  <2>1. ASSUME NEW i \in 1..Len(st) PROVE \E p \in 1..Len(ll) : ll[p] = Save(ss[i])
    BY <1>1, <1>2 DEF Nesting, AllFound
  <2>2. \E p \in 1..Len(ll) : ll[p] = Save(ss[Len(st) + 1])
    BY <1>1, <1>2
  <2>3. \A i \in 1..Len(ss) : i \in 1..Len(st) \/ i = Len(st) + 1
    BY <1>2
  <2>4. QED
    BY <2>1, <2>2, <2>3 DEF AllFound
<1>5. QED
  BY <1>1, <1>2, <1>3, <1>4 DEF Nesting, ll, ss

\* A new savepoint closes the innermost level and opens an empty one.
LEMMA PushLayers ==
  ASSUME NEW l, NEW st, Nesting(l, st), NEW n \in 1..MaxSavepoints,
         \A i \in 1..Len(l) : l[i].kind = "savepoint" => l[i].name < n,
         \A i \in 1..Len(st) : st[i] < n
  PROVE  /\ \A i \in 1..Len(st) + 1 :
                LayerOf(Append(l, Save(n)), Append(st, n), i) = LayerOf(l, st, i)
         /\ LayerOf(Append(l, Save(n)), Append(st, n), Len(st) + 2) = {}
         /\ Covered(l, st) => Covered(Append(l, Save(n)), Append(st, n))
<1> DEFINE ll == Append(l, Save(n))
           ss == Append(st, n)
<1>1. Nesting(ll, ss)
  BY PushNesting
<1>2. /\ Len(ll) = Len(l) + 1 /\ Len(l) \in Nat
      /\ \A k \in 1..Len(l) : ll[k] = l[k]
      /\ ll[Len(l) + 1] = Save(n)
  BY EntryKinds, AppendProperties DEF Nesting
<1>3. /\ Len(ss) = Len(st) + 1 /\ Len(st) \in Nat
      /\ \A i \in 1..Len(st) : ss[i] = st[i]
      /\ ss[Len(st) + 1] = n
  BY AppendProperties DEF Nesting
<1> HIDE DEF ll, ss
<1>4. \A i \in 1..Len(st) : Pos(ll, ss[i]) = Pos(l, st[i])
  <2> TAKE i \in 1..Len(st)
  <2>1. Pos(l, st[i]) \in 1..Len(l) /\ l[Pos(l, st[i])] = Save(st[i])
    BY Places
  <2>2. Pos(l, st[i]) \in 1..Len(ll) /\ ll[Pos(l, st[i])] = Save(ss[i]) /\ i \in 1..Len(ss)
    BY <1>2, <1>3, <2>1
  <2> DEFINE p == Pos(l, st[i])
             m == st[i]
  <2>3. p \in 1..Len(ll) /\ ll[p] = Save(ss[i]) /\ i \in 1..Len(ss) /\ ss[i] = m
    BY <1>3, <2>2
  <2> HIDE DEF p, m
  <2>4. Pos(ll, ss[i]) = p
    BY <1>1, <2>3, Places
  <2>5. QED
    BY <2>3, <2>4 DEF p, m
<1>5. Pos(ll, ss[Len(ss)]) = Len(l) + 1
  <2>1. Len(ss) \in 1..Len(ss) /\ Len(l) + 1 \in 1..Len(ll) /\ ll[Len(l) + 1] = Save(ss[Len(ss)])
    BY <1>2, <1>3
  <2>2. QED
    BY <1>1, <2>1, Places
<1>6. \A i \in 1..Len(st) + 1 : Low(ll, ss, i) = Low(l, st, i)
  BY <1>3, <1>4 DEF Low
<1>7. \A i \in 1..Len(st) : High(ll, ss, i) = High(l, st, i)
  BY <1>3, <1>4 DEF High
<1>8. /\ High(ll, ss, Len(st) + 1) = Len(l) + 1 /\ High(l, st, Len(st) + 1) = Len(l)
      /\ Low(ll, ss, Len(st) + 2) = Len(l) + 1 /\ High(ll, ss, Len(st) + 2) = Len(l) + 1
  BY <1>2, <1>3, <1>5 DEF High, Low
<1>9. ASSUME NEW i \in 1..Len(st) + 1 PROVE LayerOf(ll, ss, i) = LayerOf(l, st, i)
  <2>1. High(l, st, i) \in 0..Len(l) /\ Low(l, st, i) \in Nat \ {0}
    BY LayerRows
  <2>2. RowsIn(ll, Low(l, st, i), High(ll, ss, i)) = RowsIn(l, Low(l, st, i), High(l, st, i))
    <3>1. CASE i \in 1..Len(st)
      <4>1. High(ll, ss, i) = High(l, st, i)
        BY <1>7, <3>1
      <4>2. \A k \in Low(l, st, i)..High(l, st, i) : ll[k] = l[k]
        BY <1>2, <2>1
      <4>3. QED
        BY <4>1, <4>2 DEF RowsIn
    <3>2. CASE i = Len(st) + 1
      BY <1>2, <1>8, <2>1, <3>2, EntryKinds DEF RowsIn
    <3>3. QED
      BY <1>3, <3>1, <3>2
  <2>3. i \in 1..Len(ss) + 1
    BY <1>3
  <2>4. QED
    BY <1>1, <1>6, <2>2, <2>3, LayerRows
<1>10. LayerOf(ll, ss, Len(st) + 2) = {}
  <2>1. RowsIn(ll, Len(l) + 1, Len(l) + 1) = {}
    BY <1>2, EntryKinds DEF RowsIn
  <2>2. Len(st) + 2 \in 1..Len(ss) + 1
    BY <1>3
  <2>3. QED
    BY <1>1, <1>8, <2>1, <2>2, LayerRows
<1>11. ASSUME Covered(l, st) PROVE Covered(ll, ss)
  <2>1. Len(l) + 1 \in Low(ll, ss, Len(st) + 2)..High(ll, ss, Len(st) + 2)
    BY <1>2, <1>8
  <2>2. ASSUME NEW k \in 1..Len(l), NEW i \in 1..Len(st) + 1, k \in Low(l, st, i)..High(l, st, i)
        PROVE k \in Low(ll, ss, i)..High(ll, ss, i)
    <3>1. CASE i \in 1..Len(st)
      BY <1>6, <1>7, <2>2, <3>1
    <3>2. CASE i = Len(st) + 1
      BY <1>2, <1>6, <1>8, <2>2, <3>2
    <3>3. QED
      BY <1>3, <3>1, <3>2
  <2>3. QED
    BY <1>2, <1>3, <1>11, <2>1, <2>2 DEF Covered
<1>12. QED
  BY <1>9, <1>10, <1>11 DEF ll, ss

LEMMA FrontIs ==
  ASSUME NEW S, NEW s \in Seq(S), s # <<>>
  PROVE  /\ Front(s) \in Seq(S) /\ Len(Front(s)) = Len(s) - 1
         /\ Len(s) \in Nat \ {0} /\ Last(s) = s[Len(s)] /\ Last(s) \in S
         /\ \A i \in 1..Len(s) - 1 : Front(s)[i] = s[i]
<1>1. Len(s) \in Nat \ {0} /\ \A i \in 1..Len(s) - 1 : s[i] \in S
  BY EmptySeq, LenProperties, ElementOfSeq
<1> DEFINE n == Len(s) - 1
<1>2. n \in Int /\ \A i \in 1..n : s[i] \in S
  BY <1>1
<1> HIDE DEF n
<1>3. /\ SubSeq(s, 1, n) \in Seq(S)
      /\ Len(SubSeq(s, 1, n)) = IF 1 <= n THEN n - 1 + 1 ELSE 0
      /\ \A i \in 1..n - 1 + 1 : SubSeq(s, 1, n)[i] = s[1 + i - 1]
  BY <1>2, SubSeqProperties
<1>4. Front(s) = SubSeq(s, 1, n) /\ Last(s) = s[Len(s)] /\ Len(s) \in 1..Len(s)
  BY <1>1 DEF Front, Last, n
<1>5. Len(s) = n + 1 /\ n \in Nat
  BY <1>1 DEF n
<1>6. \A i \in 1..n : SubSeq(s, 1, n)[i] = s[i]
  BY <1>3, <1>5
<1>7. Last(s) \in S
  BY <1>4
<1>8. QED
  BY <1>1, <1>3, <1>4, <1>5, <1>6, <1>7 DEF n

LEMMA PopStackGrows ==
  ASSUME NEW st \in Seq(1..MaxSavepoints), StackGrows(st), st # <<>>
  PROVE  StackGrows(Front(st))
<1> DEFINE ss == Front(st)
<1>1. /\ Len(ss) = Len(st) - 1 /\ Len(st) \in Nat \ {0}
      /\ \A i \in 1..Len(st) - 1 : ss[i] = st[i]
  BY FrontIs
<1> SUFFICES ASSUME NEW j \in 1..Len(ss), NEW i \in 1..Len(ss), i < j
             PROVE  ss[i] < ss[j]
  BY DEF StackGrows
<1> HIDE DEF ss
<1>2. i \in 1..Len(st) - 1 /\ j \in 1..Len(st) - 1
  BY <1>1
<1>3. st[i] < st[j]
  BY <1>1, <1>2 DEF StackGrows
<1>4. QED
  BY <1>1, <1>2, <1>3

LEMMA PopNesting ==
  ASSUME NEW l, NEW st, Nesting(l, st), st # <<>>
  PROVE  Nesting(l, Front(st))
<1> DEFINE ss == Front(st)
<1>1. /\ ss \in Seq(1..MaxSavepoints) /\ Len(ss) = Len(st) - 1 /\ Len(st) \in Nat \ {0}
      /\ \A i \in 1..Len(st) - 1 : ss[i] = st[i]
  BY FrontIs DEF Nesting
<1>2. StackGrows(ss)
  BY PopStackGrows DEF Nesting
<1> HIDE DEF ss
<1>3. AllFound(l, ss)
  BY <1>1 DEF Nesting, AllFound
<1>4. QED
  BY <1>1, <1>2, <1>3 DEF Nesting, ss

\* A savepoint the client forgets leaves two levels in one.
LEMMA PopLayers ==
  ASSUME NEW l, NEW st, Nesting(l, st), st # <<>>
  PROVE  /\ \A i \in 1..Len(st) - 1 : LayerOf(l, Front(st), i) = LayerOf(l, st, i)
         /\ LayerOf(l, Front(st), Len(st)) = LayerOf(l, st, Len(st)) \cup LayerOf(l, st, Len(st) + 1)
         /\ Covered(l, st) => Covered(l, Front(st))
<1> DEFINE ss == Front(st)
<1>1. Nesting(l, ss)
  BY PopNesting
<1>2. /\ Len(ss) = Len(st) - 1 /\ Len(st) \in Nat \ {0} /\ Len(l) \in Nat
      /\ \A i \in 1..Len(st) - 1 : ss[i] = st[i]
  BY FrontIs DEF Nesting
<1> HIDE DEF ss
<1>3. \A i \in 1..Len(st) : Low(l, ss, i) = Low(l, st, i)
  BY <1>2 DEF Low
<1>4. \A i \in 1..Len(st) - 1 : High(l, ss, i) = High(l, st, i)
  BY <1>2 DEF High
<1>5. /\ High(l, ss, Len(st)) = Len(l) /\ High(l, st, Len(st) + 1) = Len(l)
      /\ Low(l, st, Len(st) + 1) = High(l, st, Len(st))
  BY <1>2 DEF High, Low
<1>6. ASSUME NEW i \in 1..Len(st) - 1 PROVE LayerOf(l, ss, i) = LayerOf(l, st, i)
  BY <1>1, <1>2, <1>3, <1>4, LayerRows
<1>7. LayerOf(l, ss, Len(st)) = LayerOf(l, st, Len(st)) \cup LayerOf(l, st, Len(st) + 1)
  <2> DEFINE m == Low(l, st, Len(st))
             p == High(l, st, Len(st))
  <2>1. m \in Nat \ {0} /\ p \in 0..Len(l) /\ m <= p
    BY <1>2, LayerRows
  <2>2. RowsIn(l, m, Len(l)) = RowsIn(l, m, p) \cup RowsIn(l, p, Len(l))
    BY <1>2, <2>1 DEF RowsIn
  <2>3. LayerOf(l, st, Len(st)) = RowsIn(l, m, p) /\ LayerOf(l, st, Len(st) + 1) = RowsIn(l, p, Len(l))
    BY <1>2, <1>5, LayerRows
  <2>4. Low(l, ss, Len(st)) = m /\ Len(st) \in 1..Len(ss) + 1
    BY <1>2, <1>3
  <2>5. LayerOf(l, ss, Len(st)) = RowsIn(l, m, Len(l))
    BY <1>1, <1>5, <2>4, LayerRows
  <2>6. QED
    BY <2>2, <2>3, <2>5
<1>8. ASSUME Covered(l, st) PROVE Covered(l, ss)
  <2>1. ASSUME NEW k \in 1..Len(l), NEW i \in 1..Len(st) + 1, k \in Low(l, st, i)..High(l, st, i)
        PROVE \E j \in 1..Len(ss) + 1 : k \in Low(l, ss, j)..High(l, ss, j)
    <3>1. CASE i \in 1..Len(st) - 1
      BY <1>2, <1>3, <1>4, <2>1, <3>1
    <3>2. CASE i \in {Len(st), Len(st) + 1}
      <4>1. Low(l, st, Len(st)) <= k
        BY <1>2, <1>5, <2>1, <3>2, LayerRows
      <4>2. Low(l, ss, Len(st)) = Low(l, st, Len(st)) /\ Len(st) \in 1..Len(ss) + 1
        BY <1>2, <1>3
      <4>3. Low(l, st, Len(st)) \in Nat
        BY <1>2, LayerRows
      <4>4. k \in Low(l, ss, Len(st))..High(l, ss, Len(st))
        BY <1>2, <1>5, <4>1, <4>2, <4>3
      <4>5. QED
        BY <4>2, <4>4
    <3>3. QED
      BY <1>2, <3>1, <3>2
  <2>2. QED
    BY <1>8, <2>1 DEF Covered
<1>9. QED
  BY <1>6, <1>7, <1>8 DEF ss

LEMMA LastPlace ==
  ASSUME NEW l, NEW st, Nesting(l, st), st # <<>>
  PROVE  /\ Pos(l, Last(st)) \in 1..Len(l)
         /\ l[Pos(l, Last(st))] = Save(Last(st))
         /\ \A i \in 1..Len(st) - 1 :
                /\ i \in 1..Len(st)
                /\ Pos(l, st[i]) \in 1..Len(l) /\ l[Pos(l, st[i])] = Save(st[i])
                /\ Pos(l, st[i]) < Pos(l, Last(st))
<1>1. Len(st) \in Nat \ {0} /\ Last(st) = st[Len(st)]
  BY FrontIs DEF Nesting
<1> DEFINE n == Len(st)
           last == st[n]
<1>2. n \in Nat \ {0} /\ n \in 1..n /\ \A i \in 1..n - 1 : i \in 1..n /\ i < n
  BY <1>1
<1> HIDE DEF n
<1>3. /\ Pos(l, last) \in 1..Len(l) /\ l[Pos(l, last)] = Save(last)
      /\ \A i \in 1..n - 1 :
            /\ Pos(l, st[i]) \in 1..Len(l) /\ l[Pos(l, st[i])] = Save(st[i])
            /\ Pos(l, st[i]) < Pos(l, last)
  BY <1>2, Places DEF n
<1>4. QED
  BY <1>1, <1>2, <1>3 DEF n

LEMMA CutIs ==
  ASSUME NEW l \in Seq(Entries), NEW p \in 1..Len(l)
  PROVE  /\ SubSeq(l, 1, p) \in Seq(Entries) /\ Len(SubSeq(l, 1, p)) = p
         /\ p \in Nat \ {0} /\ Len(l) \in Nat
         /\ \A k \in 1..p : SubSeq(l, 1, p)[k] = l[k]
<1>1. p \in Nat \ {0} /\ Len(l) \in Nat /\ \A i \in 1..p : l[i] \in Entries
  BY ElementOfSeq
<1>2. /\ SubSeq(l, 1, p) \in Seq(Entries)
      /\ Len(SubSeq(l, 1, p)) = IF 1 <= p THEN p - 1 + 1 ELSE 0
      /\ \A i \in 1..p - 1 + 1 : SubSeq(l, 1, p)[i] = l[1 + i - 1]
  BY <1>1, SubSeqProperties
<1>3. QED
  BY <1>1, <1>2

LEMMA CutNames ==
  ASSUME NEW l \in Seq(Entries), NamesGrow(l), NEW p \in 1..Len(l)
  PROVE  NamesGrow(SubSeq(l, 1, p))
<1> DEFINE ll == SubSeq(l, 1, p)
<1> SUFFICES ASSUME NEW j \in 1..Len(ll), NEW i \in 1..Len(ll), i < j,
                    ll[i].kind = "savepoint", ll[j].kind = "savepoint"
             PROVE  ll[i].name < ll[j].name
  BY DEF NamesGrow
<1>1. i \in 1..p /\ j \in 1..p /\ i \in 1..Len(l) /\ j \in 1..Len(l) /\ ll[i] = l[i] /\ ll[j] = l[j]
  BY CutIs
<1> HIDE DEF ll
<1>2. QED
  BY <1>1 DEF NamesGrow

\* ROLLBACK TO the innermost savepoint of the client.
LEMMA CutNesting ==
  ASSUME NEW l, NEW st, Nesting(l, st), st # <<>>
  PROVE  Nesting(SubSeq(l, 1, Pos(l, Last(st))), Front(st))
<1> DEFINE p == Pos(l, Last(st))
           ll == SubSeq(l, 1, p)
           ss == Front(st)
<1>1. /\ ss \in Seq(1..MaxSavepoints) /\ Len(ss) = Len(st) - 1 /\ Len(st) \in Nat \ {0}
      /\ \A i \in 1..Len(st) - 1 : ss[i] = st[i]
      /\ Last(st) = st[Len(st)]
  BY FrontIs DEF Nesting
<1>2. /\ p \in 1..Len(l)
      /\ \A i \in 1..Len(st) - 1 :
            /\ i \in 1..Len(st)
            /\ Pos(l, st[i]) \in 1..Len(l) /\ l[Pos(l, st[i])] = Save(st[i])
            /\ Pos(l, st[i]) < p
  BY LastPlace
<1>3. /\ ll \in Seq(Entries) /\ Len(ll) = p /\ p \in Nat \ {0} /\ Len(l) \in Nat
      /\ \A k \in 1..p : ll[k] = l[k]
  BY <1>2, CutIs DEF Nesting
<1>4. Nesting(l, ss)
  BY PopNesting
<1>5. ASSUME NEW i \in 1..Len(ss) PROVE \E q \in 1..Len(ll) : ll[q] = Save(ss[i])
  <2>1. i \in 1..Len(st) - 1 /\ i \in 1..Len(st) /\ ss[i] = st[i]
    BY <1>1
  <2>2. Pos(l, st[i]) \in 1..p /\ l[Pos(l, st[i])] = Save(st[i])
    BY <1>2, <1>3, <2>1
  <2>3. QED
    BY <1>3, <2>1, <2>2
<1> HIDE DEF p, ll, ss
<1>6. AllFound(ll, ss)
  BY <1>5 DEF AllFound
<1>7. NamesGrow(ll)
  BY <1>2, <1>3, CutNames DEF Nesting, ll
<1>8. QED
  BY <1>3, <1>4, <1>6, <1>7 DEF Nesting, p, ll, ss

\* It throws the innermost level away and nothing else.
LEMMA CutLayers ==
  ASSUME NEW l, NEW st, Nesting(l, st), st # <<>>
  PROVE  LET ll == SubSeq(l, 1, Pos(l, Last(st)))
         IN  /\ \A i \in 1..Len(st) : LayerOf(ll, Front(st), i) = LayerOf(l, st, i)
             /\ Covered(l, st) => Covered(ll, Front(st))
<1> DEFINE p == Pos(l, Last(st))
           ll == SubSeq(l, 1, p)
           ss == Front(st)
<1>1. /\ ss \in Seq(1..MaxSavepoints) /\ Len(ss) = Len(st) - 1 /\ Len(st) \in Nat \ {0}
      /\ \A i \in 1..Len(st) - 1 : ss[i] = st[i]
      /\ Last(st) = st[Len(st)]
  BY FrontIs DEF Nesting
<1>2. /\ p \in 1..Len(l)
      /\ \A i \in 1..Len(st) - 1 :
            /\ i \in 1..Len(st)
            /\ Pos(l, st[i]) \in 1..Len(l) /\ l[Pos(l, st[i])] = Save(st[i])
            /\ Pos(l, st[i]) < p
  BY LastPlace
<1>3. /\ ll \in Seq(Entries) /\ Len(ll) = p /\ p \in Nat \ {0} /\ Len(l) \in Nat
      /\ \A k \in 1..p : ll[k] = l[k]
  BY <1>2, CutIs DEF Nesting
<1>4. Nesting(ll, ss)
  BY CutNesting
<1>5. ASSUME NEW i \in 1..Len(st) - 1 PROVE Pos(ll, ss[i]) = Pos(l, st[i])
  <2> DEFINE q == Pos(l, st[i])
             m == st[i]
  <2>1. q \in 1..p /\ l[q] = Save(m) /\ i \in 1..Len(ss) /\ ss[i] = m
    BY <1>1, <1>2, <1>3
  <2>2. q \in 1..Len(ll) /\ ll[q] = Save(ss[i])
    BY <1>3, <2>1
  <2> HIDE DEF q, m, ll, ss, p
  <2>3. Pos(ll, ss[i]) = q
    BY <1>4, <2>1, <2>2, Places
  <2>4. QED
    BY <2>3 DEF q, m
<1>6. p = Pos(l, st[Len(st)])
  BY <1>1
<1> HIDE DEF p, ll, ss
<1>7. \A i \in 1..Len(st) : Low(ll, ss, i) = Low(l, st, i)
  BY <1>1, <1>5 DEF Low
<1>8. \A i \in 1..Len(st) : High(ll, ss, i) = High(l, st, i)
  BY <1>1, <1>3, <1>5, <1>6 DEF High
<1>9. \A i \in 1..Len(st) : High(l, st, i) <= p
  <2> TAKE i \in 1..Len(st)
  <2>1. High(l, st, i) = Pos(l, st[i])
    BY <1>1 DEF High
  <2>2. CASE i = Len(st)
    BY <1>3, <1>6, <2>1, <2>2
  <2>3. CASE i \in 1..Len(st) - 1
    <3>1. Pos(l, st[i]) < p /\ Pos(l, st[i]) \in Nat
      BY <1>2, <1>3, <2>3
    <3>2. QED
      BY <1>3, <2>1, <3>1
  <2>4. QED
    BY <1>1, <2>2, <2>3
<1>10. Low(l, st, Len(st) + 1) = p
  BY <1>1, <1>6 DEF Low
<1>11. ASSUME NEW i \in 1..Len(st) PROVE LayerOf(ll, ss, i) = LayerOf(l, st, i)
  <2> DEFINE m == Low(l, st, i)
             n == High(l, st, i)
  <2>1. m \in Nat \ {0} /\ n \in 0..Len(l) /\ n <= p
    BY <1>1, <1>9, LayerRows
  <2>2. \A k \in m..n : ll[k] = l[k]
    BY <1>3, <2>1
  <2>3. RowsIn(ll, m, n) = RowsIn(l, m, n)
    BY <2>2 DEF RowsIn
  <2>4. i \in 1..Len(ss) + 1
    BY <1>1
  <2>5. QED
    BY <1>1, <1>4, <1>7, <1>8, <2>3, <2>4, LayerRows
<1>12. ASSUME Covered(l, st) PROVE Covered(ll, ss)
  <2> SUFFICES ASSUME NEW k \in 1..Len(ll)
               PROVE  \E j \in 1..Len(ss) + 1 : k \in Low(ll, ss, j)..High(ll, ss, j)
    BY DEF Covered
  <2>1. k \in 1..p /\ k \in 1..Len(l)
    BY <1>2, <1>3
  <2>2. PICK i \in 1..Len(st) + 1 : k \in Low(l, st, i)..High(l, st, i)
    BY <1>12, <2>1 DEF Covered
  <2>3. CASE i \in 1..Len(st)
    BY <1>1, <1>7, <1>8, <2>2, <2>3
  <2>4. CASE i = Len(st) + 1
    <3>1. k = p
      BY <1>3, <1>10, <2>1, <2>2, <2>4
    <3>2. Low(ll, ss, Len(st)) <= High(ll, ss, Len(st)) /\ High(ll, ss, Len(st)) = p
      BY <1>1, <1>3, <1>6, <1>7, <1>8, LayerRows DEF High
    <3>3. Len(st) \in 1..Len(st) + 1 /\ Len(st) \in 1..Len(ss) + 1 /\ Low(ll, ss, Len(st)) \in Nat
      BY <1>1, <1>4, LayerRows
    <3>4. QED
      BY <1>3, <3>1, <3>2, <3>3
  <2>5. QED
    BY <1>1, <2>3, <2>4
<1>13. QED
  BY <1>11, <1>12 DEF p, ll, ss


-----------------------------------------------------------------------------
(* The invariant.                                                            *)

NamesFresh ==
    /\ NamesGrow(log)
    /\ StackGrows(stack)
    /\ \A i \in 1..Len(log) : log[i].kind = "savepoint" => log[i].name <= seq
    /\ \A i \in 1..Len(stack) : stack[i] <= seq

IdleIsEmpty == ~begun => log = <<>> /\ stack = <<>>

\* Where a savepoint of an open level is on the log, the rows before it are
\* those the level began with.
SnapshotsKept ==
    \A i \in 1..Len(stack), p \in 1..Len(log) :
        log[p] = Save(stack[i])
            => snapshots[i] = durable \cup RowsIn(log, 1, p)

\* Only DDL takes savepoints away.
LevelsOnServer ==
    ~usesDDL => ~broken /\ AllFound(log, stack) /\ Covered(log, stack)

IInv == TypeOK /\ NamesFresh /\ IdleIsEmpty /\ SnapshotsKept /\ LevelsOnServer

LEMMA FunIsSeq ==
  ASSUME NEW n \in Nat, NEW S, NEW s \in [1..n -> S]
  PROVE  s \in Seq(S) /\ Len(s) = n
BY IsASeq, LenProperties

LEMMA Typed ==
  ASSUME TypeOK
  PROVE  /\ MaxSavepoints \in Nat /\ seq \in Nat /\ seq <= MaxSavepoints
         /\ log \in Seq(Entries) /\ Len(log) \in Nat
         /\ stack \in Seq(1..MaxSavepoints) /\ Len(stack) \in Nat
         /\ DOMAIN stack = 1..Len(stack)
         /\ snapshots \in Seq(SUBSET Rows) /\ Len(snapshots) = Len(stack)
         /\ \A i \in 1..Len(stack) : stack[i] \in 1..MaxSavepoints /\ stack[i] \in Nat
         /\ RowsOf(log) = RowsIn(log, 1, Len(log)) /\ RowsOf(log) \subseteq Rows
         /\ Visible \subseteq Rows
<1>1. /\ MaxSavepoints \in Nat /\ seq \in Nat /\ seq <= MaxSavepoints
      /\ log \in Seq(Entries) /\ Len(log) \in Nat
      /\ stack \in Seq(1..MaxSavepoints) /\ Len(stack) \in Nat
      /\ DOMAIN stack = 1..Len(stack)
  BY SavepointAssumption, LenProperties DEF TypeOK
<1>2. snapshots \in Seq(SUBSET Rows) /\ Len(snapshots) = Len(stack)
  BY <1>1, FunIsSeq DEF TypeOK
<1>3. \A i \in 1..Len(stack) : stack[i] \in 1..MaxSavepoints /\ stack[i] \in Nat
  BY <1>1
<1>4. RowsOf(log) = RowsIn(log, 1, Len(log)) /\ RowsOf(log) \subseteq Rows
  BY <1>1, RowsOfIs DEF RowsIn
<1>5. Visible \subseteq Rows
  BY <1>4 DEF Visible, TypeOK
<1>6. QED
  BY <1>1, <1>2, <1>3, <1>4, <1>5

LEMMA SeqIsFun ==
  ASSUME NEW T, NEW t \in Seq(T), NEW S, NEW s \in Seq(S), Len(s) = Len(t)
  PROVE  s \in [DOMAIN t -> S]
BY LenProperties

\* A prefix that both logs have holds the same rows.
LEMMA SameRows ==
  ASSUME NEW l, NEW k, NEW p, \A i \in 1..p : k[i] = l[i]
  PROVE  RowsIn(k, 1, p) = RowsIn(l, 1, p)
BY DEF RowsIn

LEMMA InitInv == Init => IInv
<1> SUFFICES ASSUME Init PROVE IInv
  OBVIOUS
<1>1. snapshots \in [DOMAIN stack -> SUBSET Rows]
  BY EmptySeq, SeqIsFun DEF Init
<1>2. log \in Seq(Entries) /\ stack \in Seq(1..MaxSavepoints) /\ seq \in 0..MaxSavepoints
  BY EmptySeq, SavepointAssumption DEF Init
<1>3. TypeOK
  BY <1>1, <1>2 DEF Init, TypeOK
<1>4. NamesFresh /\ IdleIsEmpty /\ SnapshotsKept
  BY DEF Init, NamesFresh, NamesGrow, StackGrows, IdleIsEmpty, SnapshotsKept
<1>5. LevelsOnServer
  BY DEF Init, LevelsOnServer, AllFound, Covered
<1>6. QED
  BY <1>3, <1>4, <1>5 DEF IInv

LEMMA BeginInv == IInv /\ Begin => IInv'
<1> SUFFICES ASSUME IInv, Begin PROVE IInv'
  OBVIOUS
<1>1. TypeOK'
  BY DEF IInv, TypeOK, Begin
<1>2. NamesFresh' /\ IdleIsEmpty' /\ SnapshotsKept'
  BY DEF IInv, Begin, NamesFresh, IdleIsEmpty, SnapshotsKept
<1>3. LevelsOnServer'
  BY DEF IInv, Begin, LevelsOnServer
<1>4. QED
  BY <1>1, <1>2, <1>3 DEF IInv

LEMMA BeginNestedInv == IInv /\ BeginNested => IInv'
<1> SUFFICES ASSUME IInv, BeginNested PROVE IInv'
  OBVIOUS
<1> DEFINE n == seq + 1
<1>1. /\ n \in 1..MaxSavepoints /\ n \in Nat /\ seq' = n /\ seq \in Nat
      /\ Save(n) \in Entries
      /\ log' = Append(log, Save(n)) /\ stack' = Append(stack, n)
      /\ snapshots' = Append(snapshots, Visible)
  BY Typed, EntryKinds DEF IInv, BeginNested, NextSavepointName
<1>2. /\ log' \in Seq(Entries) /\ Len(log') = Len(log) + 1 /\ Len(log) \in Nat
      /\ \A k \in 1..Len(log) : log'[k] = log[k]
      /\ log'[Len(log) + 1] = Save(n)
  BY <1>1, Typed, AppendProperties DEF IInv
<1>3. /\ stack' \in Seq(1..MaxSavepoints) /\ Len(stack') = Len(stack) + 1 /\ Len(stack) \in Nat
      /\ \A i \in 1..Len(stack) : stack'[i] = stack[i]
      /\ stack'[Len(stack) + 1] = n
  BY <1>1, Typed, AppendProperties DEF IInv
<1>4. /\ snapshots' \in Seq(SUBSET Rows) /\ Len(snapshots') = Len(stack) + 1
      /\ \A i \in 1..Len(stack) : snapshots'[i] = snapshots[i]
      /\ snapshots'[Len(stack) + 1] = Visible
  BY <1>1, Typed, AppendProperties DEF IInv
<1>5. TypeOK'
  <2>1. snapshots' \in [DOMAIN stack' -> SUBSET Rows]
    BY <1>3, <1>4, SeqIsFun
  <2>2. seq' \in 0..MaxSavepoints
    BY <1>1
  <2>3. QED
    BY <1>2, <1>3, <2>1, <2>2 DEF IInv, TypeOK, BeginNested
<1>6. \A i \in 1..Len(log) : log[i].kind = "savepoint" => log[i].name \in 1..seq /\ log[i].name < n
  <2> TAKE i \in 1..Len(log)
  <2> HAVE log[i].kind = "savepoint"
  <2>1. PICK m \in 1..MaxSavepoints : log[i] = Save(m)
    BY Typed, EntryKinds DEF IInv, Entries
  <2>2. log[i].name = m /\ m <= seq /\ m \in Nat
    BY <2>1, SavepointAssumption, EntryKinds DEF IInv, NamesFresh
  <2>3. QED
    BY <1>1, <2>2, SavepointAssumption
<1>7. \A i \in 1..Len(stack) : stack[i] <= seq /\ stack[i] < n /\ stack[i] \in Nat
  BY <1>1, Typed DEF IInv, NamesFresh
<1> HIDE DEF n
<1>8. NamesFresh'
  <2>1. NamesGrow(log') /\ StackGrows(stack')
    BY <1>1, <1>6, <1>7, Typed, PushGrows, PushStackGrows DEF IInv, NamesFresh
  <2>2. \A i \in 1..Len(log') : log'[i].kind = "savepoint" => log'[i].name <= n
    <3> TAKE i \in 1..Len(log')
    <3>1. CASE i \in 1..Len(log)
      BY <1>1, <1>2, <1>6, <3>1
    <3>2. CASE i = Len(log) + 1
      BY <1>1, <1>2, <3>2, EntryKinds
    <3>3. QED
      BY <1>2, <3>1, <3>2
  <2>3. \A i \in 1..Len(stack') : stack'[i] <= n
    BY <1>1, <1>3, <1>7
  <2>4. QED
    BY <1>1, <2>1, <2>2, <2>3 DEF NamesFresh
<1>9. IdleIsEmpty'
  BY DEF BeginNested, IdleIsEmpty
<1>10. SnapshotsKept'
  <2> SUFFICES ASSUME NEW i \in 1..Len(stack'), NEW p \in 1..Len(log'), log'[p] = Save(stack'[i])
               PROVE  snapshots'[i] = durable \cup RowsIn(log', 1, p)
    BY DEF SnapshotsKept, BeginNested
  <2>1. CASE i \in 1..Len(stack) /\ p \in 1..Len(log)
    <3>1. \A k \in 1..p : log'[k] = log[k]
      BY <1>2, <2>1
    <3>2. RowsIn(log', 1, p) = RowsIn(log, 1, p)
      BY <3>1, SameRows
    <3>3. log[p] = Save(stack[i]) /\ snapshots'[i] = snapshots[i]
      BY <1>2, <1>3, <1>4, <2>1
    <3>4. QED
      BY <2>1, <3>2, <3>3 DEF IInv, SnapshotsKept
  <2>2. CASE i \in 1..Len(stack) /\ p = Len(log) + 1
    <3>1. Save(n) = Save(stack[i])
      BY <1>2, <1>3, <2>2
    <3>2. n = stack[i]
      BY <3>1, EntryKinds
    <3>3. QED
      BY <1>1, <1>7, <2>2, <3>2
  <2>3. CASE i = Len(stack) + 1 /\ p \in 1..Len(log)
    <3>1. log[p] = Save(n)
      BY <1>2, <1>3, <2>3
    <3>2. log[p].kind = "savepoint" /\ log[p].name = n
      BY <3>1, EntryKinds
    <3>3. QED
      BY <1>1, <1>6, <2>3, <3>2
  <2>4. CASE i = Len(stack) + 1 /\ p = Len(log) + 1
    <3>1. RowsIn(log', 1, p) = RowsIn(log, 1, Len(log))
      BY <1>2, <2>4, EntryKinds DEF RowsIn
    <3>2. QED
      BY <1>4, <2>4, <3>1, Typed DEF Visible, IInv
  <2>5. QED
    BY <1>2, <1>3, <2>1, <2>2, <2>3, <2>4
<1>11. LevelsOnServer'
  <2> SUFFICES ASSUME ~usesDDL PROVE AllFound(log', stack') /\ Covered(log', stack')
    BY DEF LevelsOnServer, BeginNested
  <2>1. Nesting(log, stack) /\ Covered(log, stack)
    BY Typed DEF IInv, NamesFresh, LevelsOnServer, Nesting
  <2>2. Nesting(log', stack') /\ Covered(log', stack')
    BY <1>1, <1>6, <1>7, <2>1, PushNesting, PushLayers
  <2>3. QED
    BY <2>2 DEF Nesting
<1>12. QED
  BY <1>5, <1>8, <1>9, <1>10, <1>11 DEF IInv

LEMMA WriteInv == ASSUME IInv, NEW row \in Rows, Write(row) PROVE IInv'
<1>1. /\ Row(row) \in Entries /\ log' = Append(log, Row(row))
      /\ log \in Seq(Entries) /\ Len(log) \in Nat
  BY Typed, EntryKinds DEF IInv, Write
<1>2. /\ log' \in Seq(Entries) /\ Len(log') = Len(log) + 1
      /\ \A k \in 1..Len(log) : log'[k] = log[k]
      /\ log'[Len(log) + 1] = Row(row)
  BY <1>1, AppendProperties
<1>3. TypeOK'
  BY <1>2 DEF IInv, TypeOK, Write
<1>4. NamesFresh'
  <2>1. NamesGrow(log')
    BY <1>1, WriteGrows DEF IInv, NamesFresh
  <2>2. \A i \in 1..Len(log') : log'[i].kind = "savepoint" => i \in 1..Len(log)
    BY <1>1, <1>2, EntryKinds
  <2>3. QED
    BY <1>2, <2>1, <2>2 DEF IInv, NamesFresh, Write
<1>5. IdleIsEmpty'
  BY DEF Write, IdleIsEmpty
<1>6. SnapshotsKept'
  <2> SUFFICES ASSUME NEW i \in 1..Len(stack), NEW p \in 1..Len(log'), log'[p] = Save(stack[i])
               PROVE  snapshots[i] = durable \cup RowsIn(log', 1, p)
    BY DEF SnapshotsKept, Write
  <2>1. p \in 1..Len(log)
    BY <1>1, <1>2, EntryKinds
  <2>2. \A k \in 1..p : log'[k] = log[k]
    BY <1>1, <1>2, <2>1
  <2>3. RowsIn(log', 1, p) = RowsIn(log, 1, p)
    BY <2>2, SameRows
  <2>4. log[p] = Save(stack[i])
    BY <1>2, <2>1
  <2>5. QED
    BY <2>1, <2>3, <2>4 DEF IInv, SnapshotsKept
<1>7. LevelsOnServer'
  <2> SUFFICES ASSUME ~usesDDL PROVE AllFound(log', stack) /\ Covered(log', stack)
    BY DEF LevelsOnServer, Write
  <2>1. Nesting(log, stack) /\ Covered(log, stack)
    BY Typed DEF IInv, NamesFresh, LevelsOnServer, Nesting
  <2>2. Nesting(log', stack) /\ Covered(log', stack)
    BY <1>1, <2>1, WriteNesting, WriteLayers
  <2>3. QED
    BY <2>2 DEF Nesting
<1>8. QED
  BY <1>3, <1>4, <1>5, <1>6, <1>7 DEF IInv

\* What Release and RollbackNested do to the client's side.
LEMMA PopTyped ==
  ASSUME IInv, stack # <<>>
  PROVE  /\ Len(stack) \in Nat \ {0} /\ Last(stack) = stack[Len(stack)]
         /\ Last(snapshots) = snapshots[Len(stack)]
         /\ Front(stack) \in Seq(1..MaxSavepoints) /\ Len(Front(stack)) = Len(stack) - 1
         /\ \A i \in 1..Len(stack) - 1 : Front(stack)[i] = stack[i] /\ Front(snapshots)[i] = snapshots[i]
         /\ Front(snapshots) \in [DOMAIN Front(stack) -> SUBSET Rows]
         /\ StackGrows(Front(stack))
         /\ \A i \in 1..Len(Front(stack)) : i \in 1..Len(stack) - 1 /\ i \in 1..Len(stack)
<1>1. /\ stack \in Seq(1..MaxSavepoints) /\ snapshots \in Seq(SUBSET Rows)
      /\ Len(snapshots) = Len(stack) /\ StackGrows(stack)
  BY Typed DEF IInv, NamesFresh
<1>2. /\ Len(stack) \in Nat \ {0} /\ Last(stack) = stack[Len(stack)]
      /\ Front(stack) \in Seq(1..MaxSavepoints) /\ Len(Front(stack)) = Len(stack) - 1
      /\ \A i \in 1..Len(stack) - 1 : Front(stack)[i] = stack[i]
  BY <1>1, FrontIs
<1>3. snapshots # <<>>
  BY <1>1, <1>2, EmptySeq
<1>4. /\ Last(snapshots) = snapshots[Len(stack)]
      /\ Front(snapshots) \in Seq(SUBSET Rows) /\ Len(Front(snapshots)) = Len(stack) - 1
      /\ \A i \in 1..Len(stack) - 1 : Front(snapshots)[i] = snapshots[i]
  BY <1>1, <1>3, FrontIs
<1>5. Front(snapshots) \in [DOMAIN Front(stack) -> SUBSET Rows]
  BY <1>2, <1>4, SeqIsFun
<1>6. StackGrows(Front(stack))
  BY <1>1, PopStackGrows
<1>7. \A i \in 1..Len(Front(stack)) : i \in 1..Len(stack) - 1 /\ i \in 1..Len(stack)
  BY <1>2
<1>8. QED
  BY <1>2, <1>4, <1>5, <1>6, <1>7

LEMMA ReleaseInv == IInv /\ Release => IInv'
<1> SUFFICES ASSUME IInv, Release PROVE IInv'
  OBVIOUS
<1>1. /\ stack # <<>> /\ log' = log /\ broken' = FALSE
      /\ stack' = Front(stack) /\ snapshots' = Front(snapshots)
  BY DEF Release, DoReleaseSavepoint
<1>2. TypeOK'
  BY <1>1, PopTyped DEF IInv, TypeOK, Release
<1>3. NamesFresh'
  BY <1>1, PopTyped DEF IInv, NamesFresh, Release
<1>4. begun /\ IdleIsEmpty'
  BY <1>1 DEF Release, IInv, TypeOK, IdleIsEmpty
<1>5. SnapshotsKept'
  <2> SUFFICES ASSUME NEW i \in 1..Len(stack'), NEW p \in 1..Len(log), log[p] = Save(stack'[i])
               PROVE  snapshots'[i] = durable \cup RowsIn(log, 1, p)
    BY <1>1 DEF SnapshotsKept, Release
  <2>1. i \in 1..Len(stack) /\ stack'[i] = stack[i] /\ snapshots'[i] = snapshots[i]
    BY <1>1, PopTyped
  <2>2. QED
    BY <2>1 DEF IInv, SnapshotsKept
<1>6. LevelsOnServer'
  <2> SUFFICES ASSUME ~usesDDL PROVE AllFound(log, stack') /\ Covered(log, stack')
    BY <1>1 DEF LevelsOnServer, Release
  <2>1. Nesting(log, stack) /\ Covered(log, stack)
    BY Typed DEF IInv, NamesFresh, LevelsOnServer, Nesting
  <2>2. Nesting(log, stack') /\ Covered(log, stack')
    BY <1>1, <2>1, PopNesting, PopLayers
  <2>3. QED
    BY <2>2 DEF Nesting
<1>7. QED
  BY <1>2, <1>3, <1>4, <1>5, <1>6 DEF IInv

\* ROLLBACK TO either finds the savepoint, and cuts the log there, or fails.
LEMMA RollbackNestedIs ==
  ASSUME IInv, RollbackNested
  PROVE  /\ stack # <<>> /\ Last(stack) \in Nat
         /\ stack' = Front(stack) /\ snapshots' = Front(snapshots)
         /\ ~usesDDL => ~broken'
         /\ \/ log' = log /\ broken'
            \/ /\ ~broken'
               /\ Pos(log, Last(stack)) \in 1..Len(log)
               /\ log[Pos(log, Last(stack))] = Save(Last(stack))
               /\ log' = SubSeq(log, 1, Pos(log, Last(stack)))
<1> DEFINE p == Pos(log, Last(stack))
<1>1. stack # <<>> /\ stack' = Front(stack) /\ snapshots' = Front(snapshots)
  BY DEF RollbackNested
<1>2. Last(stack) \in Nat /\ log \in Seq(Entries) /\ NamesGrow(log)
  <2>1. Len(stack) \in 1..Len(stack) /\ Last(stack) = stack[Len(stack)]
    BY <1>1, PopTyped
  <2>2. QED
    BY <2>1, Typed DEF IInv, NamesFresh
<1>3. ~usesDDL => p # 0
  <2> SUFFICES ASSUME ~usesDDL PROVE p # 0
    OBVIOUS
  <2>1. Nesting(log, stack)
    BY Typed DEF IInv, NamesFresh, LevelsOnServer, Nesting
  <2>2. QED
    BY <1>1, <2>1, LastPlace
<1>4. CASE p = 0
  BY <1>1, <1>2, <1>3, <1>4, Named DEF RollbackNested, RollbackTo
<1>5. CASE p # 0
  <2>1. p \in 1..Len(log) /\ log[p] = Save(Last(stack))
    BY <1>2, <1>5, PosNonzero
  <2>2. log' = SubSeq(log, 1, p) /\ ~broken'
    BY <1>5, Named DEF RollbackNested, RollbackTo
  <2>3. QED
    BY <1>1, <1>2, <2>1, <2>2
<1>6. QED
  BY <1>4, <1>5

LEMMA RollbackNestedInv == IInv /\ RollbackNested => IInv'
<1> SUFFICES ASSUME IInv, RollbackNested PROVE IInv'
  OBVIOUS
<1> DEFINE p == Pos(log, Last(stack))
<1>1. /\ stack # <<>> /\ stack' = Front(stack) /\ snapshots' = Front(snapshots)
      /\ \/ log' = log
         \/ p \in 1..Len(log) /\ log' = SubSeq(log, 1, p)
  BY RollbackNestedIs
<1>2. /\ log' \in Seq(Entries) /\ NamesGrow(log')
      /\ \A k \in 1..Len(log') : k \in 1..Len(log) /\ \A i \in 1..k : log'[i] = log[i]
  <2>1. log \in Seq(Entries) /\ NamesGrow(log) /\ Len(log) \in Nat
    BY Typed DEF IInv, NamesFresh
  <2>2. CASE log' = log
    BY <2>1, <2>2
  <2>3. CASE p \in 1..Len(log) /\ log' = SubSeq(log, 1, p)
    <3> HIDE DEF p
    <3>1. QED
      BY <2>1, <2>3, CutIs, CutNames
  <2>4. QED
    BY <1>1, <2>2, <2>3
<1> HIDE DEF p
<1>3. TypeOK'
  BY <1>1, <1>2, PopTyped DEF IInv, TypeOK, RollbackNested, RollbackTo
<1>4. NamesFresh'
  <2>1. \A i \in 1..Len(log') : log'[i].kind = "savepoint" => log'[i].name <= seq
    <3> TAKE i \in 1..Len(log')
    <3>1. i \in 1..Len(log) /\ log'[i] = log[i]
      BY <1>2, Typed DEF IInv
    <3>2. QED
      BY <3>1 DEF IInv, NamesFresh
  <2>2. QED
    BY <1>1, <1>2, <2>1, PopTyped DEF IInv, NamesFresh, RollbackNested
<1>5. IdleIsEmpty'
  BY <1>1 DEF RollbackNested, IInv, TypeOK, IdleIsEmpty
<1>6. SnapshotsKept'
  <2> SUFFICES ASSUME NEW i \in 1..Len(stack'), NEW q \in 1..Len(log'), log'[q] = Save(stack'[i])
               PROVE  snapshots'[i] = durable \cup RowsIn(log', 1, q)
    BY DEF SnapshotsKept, RollbackNested
  <2>1. /\ i \in 1..Len(stack) /\ stack'[i] = stack[i] /\ snapshots'[i] = snapshots[i]
    BY <1>1, PopTyped
  <2>2. q \in 1..Len(log) /\ log'[q] = log[q] /\ RowsIn(log', 1, q) = RowsIn(log, 1, q)
    BY <1>2, Typed, SameRows DEF IInv
  <2>3. QED
    BY <2>1, <2>2 DEF IInv, SnapshotsKept
<1>7. LevelsOnServer'
  <2> SUFFICES ASSUME ~usesDDL PROVE ~broken' /\ AllFound(log', stack') /\ Covered(log', stack')
    BY DEF LevelsOnServer, RollbackNested
  <2>1. Nesting(log, stack) /\ Covered(log, stack)
    BY Typed DEF IInv, NamesFresh, LevelsOnServer, Nesting
  <2>2. log' = SubSeq(log, 1, Pos(log, Last(stack))) /\ ~broken'
    BY RollbackNestedIs
  <2>3. Nesting(log', stack') /\ Covered(log', stack')
    BY <1>1, <2>1, <2>2, CutNesting, CutLayers
  <2>4. QED
    BY <2>2, <2>3 DEF Nesting
<1>8. QED
  BY <1>3, <1>4, <1>5, <1>6, <1>7 DEF IInv

\* Commit, Rollback and ExecuteDDL leave an empty log.
LEMMA EmptyLogInv == IInv /\ (Commit \/ Rollback \/ ExecuteDDL) => IInv'
<1> SUFFICES ASSUME IInv, Commit \/ Rollback \/ ExecuteDDL PROVE IInv'
  OBVIOUS
<1>1. log' = <<>> /\ Len(log') = 0 /\ log' \in Seq(Entries)
  BY EmptySeq DEF Commit, Rollback, ExecuteDDL
<1>2. TypeOK'
  <2>1. durable' \subseteq Rows
    BY Typed DEF IInv, TypeOK, Commit, Rollback, ExecuteDDL
  <2>2. CASE stack' = <<>> /\ snapshots' = <<>>
    BY <1>1, <2>1, <2>2, EmptySeq, SeqIsFun DEF IInv, TypeOK, Commit, Rollback, ExecuteDDL
  <2>3. CASE UNCHANGED <<stack, snapshots>>
    BY <1>1, <2>1, <2>3 DEF IInv, TypeOK, Commit, Rollback, ExecuteDDL
  <2>4. QED
    BY <2>2, <2>3 DEF Commit, Rollback, ExecuteDDL
<1>3. NamesFresh'
  BY <1>1 DEF IInv, NamesFresh, NamesGrow, StackGrows, Commit, Rollback, ExecuteDDL
<1>4. IdleIsEmpty' /\ SnapshotsKept'
  BY <1>1 DEF IdleIsEmpty, SnapshotsKept, Commit, Rollback, ExecuteDDL
<1>5. LevelsOnServer'
  BY <1>1 DEF LevelsOnServer, AllFound, Covered, Commit, Rollback, ExecuteDDL
<1>6. QED
  BY <1>2, <1>3, <1>4, <1>5 DEF IInv

LEMMA Inductive == IInv /\ [Next]_vars => IInv'
<1> SUFFICES ASSUME IInv, [Next]_vars PROVE IInv'
  OBVIOUS
<1>1. CASE UNCHANGED vars
  BY <1>1 DEF vars, IInv, TypeOK, NamesFresh, IdleIsEmpty, SnapshotsKept, LevelsOnServer
<1>2. QED
  BY <1>1, BeginInv, BeginNestedInv, WriteInv, ReleaseInv, RollbackNestedInv, EmptyLogInv DEF Next

LEMMA Invariance == Spec => []IInv
BY InitInv, Inductive, PTL DEF Spec

\* Every variable keeps its type.
THEOREM TypeCorrect == Spec => []TypeOK
BY Invariance, PTL DEF IInv

\* ROLLBACK TO undoes the innermost nested transaction or fails.
LEMMA RollbackNestedRestores ==
  ASSUME IInv, RollbackNested, ~broken'
  PROVE  Visible' = Last(snapshots)
<1> DEFINE p == Pos(log, Last(stack))
<1>1. /\ stack # <<>> /\ p \in 1..Len(log) /\ log[p] = Save(Last(stack))
      /\ log' = SubSeq(log, 1, p) /\ log \in Seq(Entries)
  BY RollbackNestedIs, Typed DEF IInv
<1>2. Len(stack) \in 1..Len(stack) /\ Last(stack) = stack[Len(stack)] /\ Last(snapshots) = snapshots[Len(stack)]
  BY <1>1, PopTyped
<1>3. Last(snapshots) = durable \cup RowsIn(log, 1, p)
  BY <1>1, <1>2 DEF IInv, SnapshotsKept
<1>4. RowsOf(log') = RowsIn(log, 1, p)
  BY <1>1, RowsOfPart, LenProperties
<1>5. QED
  BY <1>3, <1>4 DEF Visible, RollbackNested

\* do_rollback_to_savepoint: a rollback that does not raise leaves what was
\* visible when its level began, whatever unreleased savepoints or DDL came
\* between.
THEOREM NoPartialRollback == Spec => NoSilentPartialRollback
<1>1. IInv /\ [Next]_vars => [(RollbackNested /\ ~broken') => Visible' = Last(snapshots)]_vars
  BY RollbackNestedRestores
<1>2. QED
  BY <1>1, Invariance, PTL DEF Spec, NoSilentPartialRollback

-----------------------------------------------------------------------------
(* The refinement of NestedTransactions.                                     *)

Layers(l, st) == [i \in 1..Len(st) + 1 |-> LayerOf(l, st, i)]

LEMMA LayersAre ==
  ASSUME NEW l, NEW st, Nesting(l, st)
  PROVE  /\ Layers(l, st) \in Seq(SUBSET Rows)
         /\ Len(Layers(l, st)) = Len(st) + 1 /\ Len(st) \in Nat
         /\ DOMAIN Layers(l, st) = 1..Len(st) + 1
         /\ \A i \in 1..Len(st) + 1 : Layers(l, st)[i] = LayerOf(l, st, i)
<1>1. Len(st) \in Nat
  BY LenProperties DEF Nesting
<1>2. \A i \in 1..Len(st) + 1 : LayerOf(l, st, i) \in SUBSET Rows
  BY LayerRows DEF RowsIn
<1>3. Layers(l, st) \in [1..Len(st) + 1 -> SUBSET Rows]
  BY <1>2 DEF Layers
<1>4. QED
  BY <1>1, <1>3, FunIsSeq DEF Layers

\* The levels hold the rows of the log and no others.
LEMMA LayersHoldLog ==
  ASSUME NEW l, NEW st, Nesting(l, st), Covered(l, st)
  PROVE  UNION {Layers(l, st)[i] : i \in DOMAIN Layers(l, st)} = RowsOf(l)
<1>1. RowsOf(l) = RowsIn(l, 1, Len(l)) /\ Len(l) \in Nat
  BY RowsOfIs DEF Nesting
<1>2. ASSUME NEW i \in 1..Len(st) + 1, NEW r \in LayerOf(l, st, i) PROVE r \in RowsOf(l)
  <2>1. PICK k \in Low(l, st, i)..High(l, st, i) : l[k] = Row(r) /\ r \in Rows
    BY <1>2, LayerRows DEF RowsIn
  <2>2. k \in 1..Len(l)
    BY <1>1, LayerRows
  <2>3. QED
    BY <1>1, <2>1, <2>2 DEF RowsIn
<1>3. ASSUME NEW r \in RowsOf(l) PROVE \E i \in 1..Len(st) + 1 : r \in LayerOf(l, st, i)
  <2>1. PICK k \in 1..Len(l) : l[k] = Row(r) /\ r \in Rows
    BY <1>1, <1>3 DEF RowsIn
  <2>2. PICK i \in 1..Len(st) + 1 : k \in Low(l, st, i)..High(l, st, i)
    BY <2>1 DEF Covered
  <2>3. QED
    BY <2>1, <2>2, LayerRows DEF RowsIn
<1>4. QED
  BY <1>2, <1>3, LayersAre

LEMMA LayersOfWrite ==
  ASSUME NEW l, NEW st, Nesting(l, st), NEW r \in Rows
  PROVE  LET L == Layers(l, st)
         IN  Layers(Append(l, Row(r)), st) = Append(Front(L), Last(L) \cup {r})
<1> DEFINE L == Layers(l, st)
           M == Layers(Append(l, Row(r)), st)
           F == Front(L)
           top == Last(L) \cup {r}
           n == Len(st)
<1>1. Nesting(Append(l, Row(r)), st)
  BY WriteNesting
<1>2. /\ L \in Seq(SUBSET Rows) /\ Len(L) = n + 1 /\ n \in Nat
      /\ \A i \in 1..n + 1 : L[i] = LayerOf(l, st, i)
  BY LayersAre
<1>3. /\ M \in Seq(SUBSET Rows) /\ Len(M) = n + 1
      /\ \A i \in 1..n + 1 : M[i] = LayerOf(Append(l, Row(r)), st, i)
  BY <1>1, LayersAre
<1>4. /\ \A i \in 1..n : LayerOf(Append(l, Row(r)), st, i) = LayerOf(l, st, i)
      /\ LayerOf(Append(l, Row(r)), st, n + 1) = LayerOf(l, st, n + 1) \cup {r}
  BY WriteLayers
<1> HIDE DEF L, M, n
<1>5. L # <<>>
  BY <1>2, EmptySeq
<1>6. /\ F \in Seq(SUBSET Rows) /\ Len(F) = n /\ \A i \in 1..n : F[i] = L[i]
      /\ Last(L) = L[n + 1] /\ Last(L) \in SUBSET Rows
  BY <1>2, <1>5, FrontIs
<1> HIDE DEF F
<1>7. /\ Append(F, top) \in Seq(SUBSET Rows) /\ Len(Append(F, top)) = n + 1
      /\ \A i \in 1..n : Append(F, top)[i] = L[i]
      /\ Append(F, top)[n + 1] = top
  BY <1>6, AppendProperties
<1>8. \A i \in 1..Len(M) : M[i] = Append(F, top)[i]
  BY <1>2, <1>3, <1>4, <1>6, <1>7
<1>9. M = Append(F, top)
  BY <1>3, <1>7, <1>8, SeqEqual
<1>10. QED
  BY <1>9 DEF L, M, F

LEMMA LayersOfPush ==
  ASSUME NEW l, NEW st, Nesting(l, st), NEW n \in 1..MaxSavepoints,
         \A i \in 1..Len(l) : l[i].kind = "savepoint" => l[i].name < n,
         \A i \in 1..Len(st) : st[i] < n
  PROVE  Layers(Append(l, Save(n)), Append(st, n)) = Append(Layers(l, st), {})
<1> DEFINE ll == Append(l, Save(n))
           ss == Append(st, n)
           L == Layers(l, st)
           M == Layers(ll, ss)
<1>1. Nesting(ll, ss)
  BY PushNesting
<1>2. /\ L \in Seq(SUBSET Rows) /\ Len(L) = Len(st) + 1 /\ Len(st) \in Nat
      /\ \A i \in 1..Len(st) + 1 : L[i] = LayerOf(l, st, i)
  BY LayersAre
<1>3. Len(ss) = Len(st) + 1
  BY AppendProperties DEF Nesting
<1> DEFINE m == Len(st)
<1>4. /\ \A i \in 1..m + 1 : LayerOf(ll, ss, i) = LayerOf(l, st, i)
      /\ LayerOf(ll, ss, m + 2) = {}
  BY PushLayers
<1> HIDE DEF ll, ss
<1>5. /\ M \in Seq(SUBSET Rows) /\ Len(M) = m + 2
      /\ \A i \in 1..m + 2 : M[i] = LayerOf(ll, ss, i)
  BY <1>1, <1>2, <1>3, LayersAre
<1> HIDE DEF L, M
<1>6. /\ Append(L, {}) \in Seq(SUBSET Rows) /\ Len(Append(L, {})) = m + 2
      /\ \A i \in 1..m + 1 : Append(L, {})[i] = L[i]
      /\ Append(L, {})[m + 2] = {}
  BY <1>2, AppendProperties
<1>7. \A i \in 1..Len(M) : M[i] = Append(L, {})[i]
  BY <1>2, <1>4, <1>5, <1>6
<1>8. M = Append(L, {})
  BY <1>5, <1>6, <1>7, SeqEqual
<1>9. QED
  BY <1>8 DEF L, M, ll, ss

LEMMA LayersOfPop ==
  ASSUME NEW l, NEW st, Nesting(l, st), st # <<>>
  PROVE  LET L == Layers(l, st)
         IN  Layers(l, Front(st)) = Append(Front(Front(L)), Last(Front(L)) \cup Last(L))
<1> DEFINE L == Layers(l, st)
           M == Layers(l, Front(st))
           F == Front(L)
           G == Front(F)
           top == Last(F) \cup Last(L)
           n == Len(st)
<1>1. Nesting(l, Front(st)) /\ n \in Nat \ {0} /\ Len(Front(st)) = n - 1
  BY PopNesting, FrontIs DEF Nesting
<1>2. /\ L \in Seq(SUBSET Rows) /\ Len(L) = n + 1
      /\ \A i \in 1..n + 1 : L[i] = LayerOf(l, st, i)
  BY LayersAre
<1>3. /\ M \in Seq(SUBSET Rows) /\ Len(M) = n
      /\ \A i \in 1..n : M[i] = LayerOf(l, Front(st), i)
  BY <1>1, LayersAre
<1>4. /\ \A i \in 1..n - 1 : LayerOf(l, Front(st), i) = LayerOf(l, st, i)
      /\ LayerOf(l, Front(st), n) = LayerOf(l, st, n) \cup LayerOf(l, st, n + 1)
  BY PopLayers
<1> HIDE DEF L, M, n
<1>5. L # <<>>
  BY <1>1, <1>2, EmptySeq
<1>6. /\ F \in Seq(SUBSET Rows) /\ Len(F) = n /\ \A i \in 1..n : F[i] = L[i]
      /\ Last(L) = L[n + 1] /\ Last(L) \in SUBSET Rows
  BY <1>1, <1>2, <1>5, FrontIs
<1>7. F # <<>>
  BY <1>1, <1>6, EmptySeq
<1>8. /\ G \in Seq(SUBSET Rows) /\ Len(G) = n - 1 /\ \A i \in 1..n - 1 : G[i] = F[i]
      /\ Last(F) = F[n] /\ Last(F) \in SUBSET Rows
  BY <1>1, <1>6, <1>7, FrontIs
<1> HIDE DEF F, G
<1>9. /\ Append(G, top) \in Seq(SUBSET Rows) /\ Len(Append(G, top)) = n
      /\ \A i \in 1..n - 1 : Append(G, top)[i] = G[i]
      /\ Append(G, top)[n] = top
  BY <1>1, <1>6, <1>8, AppendProperties
<1>10. M[n] = top
  BY <1>1, <1>2, <1>3, <1>4, <1>6, <1>8
<1>11. \A i \in 1..n - 1 : M[i] = Append(G, top)[i]
  BY <1>1, <1>2, <1>3, <1>4, <1>6, <1>8, <1>9
<1>12. \A i \in 1..Len(M) : M[i] = Append(G, top)[i]
  BY <1>1, <1>3, <1>9, <1>10, <1>11
<1>13. M = Append(G, top)
  BY <1>3, <1>9, <1>12, SeqEqual
<1>14. QED
  BY <1>13 DEF L, M, F, G

LEMMA LayersOfCut ==
  ASSUME NEW l, NEW st, Nesting(l, st), st # <<>>
  PROVE  Layers(SubSeq(l, 1, Pos(l, Last(st))), Front(st)) = Front(Layers(l, st))
<1> DEFINE ll == SubSeq(l, 1, Pos(l, Last(st)))
           L == Layers(l, st)
           M == Layers(ll, Front(st))
           F == Front(L)
           n == Len(st)
<1>1. Nesting(ll, Front(st)) /\ n \in Nat \ {0} /\ Len(Front(st)) = n - 1
  BY CutNesting, FrontIs DEF Nesting
<1>2. /\ L \in Seq(SUBSET Rows) /\ Len(L) = n + 1
      /\ \A i \in 1..n + 1 : L[i] = LayerOf(l, st, i)
  BY LayersAre
<1>3. \A i \in 1..n : LayerOf(ll, Front(st), i) = LayerOf(l, st, i)
  BY CutLayers
<1> HIDE DEF ll
<1>4. /\ M \in Seq(SUBSET Rows) /\ Len(M) = n
      /\ \A i \in 1..n : M[i] = LayerOf(ll, Front(st), i)
  BY <1>1, LayersAre
<1> HIDE DEF L, M, n
<1>5. L # <<>>
  BY <1>1, <1>2, EmptySeq
<1>6. F \in Seq(SUBSET Rows) /\ Len(F) = n /\ \A i \in 1..n : F[i] = L[i]
  BY <1>1, <1>2, <1>5, FrontIs
<1>7. \A i \in 1..Len(M) : M[i] = F[i]
  BY <1>1, <1>2, <1>3, <1>4, <1>6
<1>8. M = F
  BY <1>4, <1>6, <1>7, SeqEqual
<1>9. QED
  BY <1>8 DEF L, M, ll

LEMMA MappedState ==
  ASSUME IInv, ~usesDDL
  PROVE  /\ Committed = durable /\ Asked = call
         /\ Levels = IF begun THEN Layers(log, stack) ELSE <<>>
         /\ Nesting(log, stack) /\ Covered(log, stack)
<1>1. Levels = IF begun THEN Layers(log, stack) ELSE <<>>
  BY LayerIsLayerOf DEF Levels, Layers
<1>2. Asked = call
  BY DEF Asked, IInv, LevelsOnServer
<1>3. Nesting(log, stack) /\ Covered(log, stack)
  BY Typed DEF IInv, NamesFresh, LevelsOnServer, Nesting
<1>4. QED
  BY <1>1, <1>2, <1>3 DEF Committed

LEMMA MappedStateNext ==
  ASSUME IInv', ~usesDDL'
  PROVE  /\ Committed' = durable' /\ Asked' = call'
         /\ Levels' = IF begun' THEN Layers(log', stack') ELSE <<>>
<1>1. Levels' = IF begun' THEN Layers(log', stack') ELSE <<>>
  BY LayerIsLayerOfNext DEF Levels, Layers
<1>2. Asked' = call'
  BY DEF Asked, IInv, LevelsOnServer
<1>3. QED
  BY <1>1, <1>2 DEF Committed

\* The levels of the client's view, and the rows it sees in them.
LEMMA MappedLevels ==
  ASSUME IInv, ~usesDDL, begun
  PROVE  /\ Levels = Layers(log, stack)
         /\ Levels \in Seq(SUBSET Rows)
         /\ Len(Levels) = Len(stack) + 1
         /\ Levels # <<>>
         /\ Len(Levels) > 1 <=> stack # <<>>
         /\ Nested!Visible = Visible
<1>1. Levels = Layers(log, stack) /\ Committed = durable /\ Nesting(log, stack) /\ Covered(log, stack)
  BY MappedState
<1>2. Levels \in Seq(SUBSET Rows) /\ Len(Levels) = Len(stack) + 1 /\ Len(stack) \in Nat
  BY <1>1, LayersAre
<1>3. stack = <<>> <=> Len(stack) = 0
  BY <1>1, EmptySeq DEF Nesting
<1>4. UNION {Levels[i] : i \in DOMAIN Levels} = RowsOf(log)
  BY <1>1, LayersHoldLog
<1>5. QED
  BY <1>1, <1>2, <1>3, <1>4, EmptySeq DEF Nested!Visible, Nested!Written, Visible

LEMMA BeginNests ==
  ASSUME IInv, IInv', ~usesDDL, Begin
  PROVE  Nested!Begin
<1>1. ~usesDDL' /\ log = <<>> /\ stack = <<>> /\ Levels = <<>>
  BY MappedState DEF Begin, IInv, IdleIsEmpty
<1>2. log' = <<>> /\ stack' = <<>> /\ begun' /\ call' = "begin" /\ durable' = durable
  BY <1>1 DEF Begin
<1>3. Levels' = Layers(log', stack') /\ Nesting(log', stack')
  BY <1>1, <1>2, MappedState, MappedStateNext
<1>4. Len(stack') = 0 /\ Len(log') = 0
  BY <1>2, EmptySeq
<1>5. LayerOf(log', stack', 1) = {}
  <2>1. LayerOf(log', stack', 1) = RowsIn(log', 1, 0)
    BY <1>3, <1>4, LayerRows DEF Low, High
  <2>2. QED
    BY <2>1 DEF RowsIn
<1>6. Levels' = <<{}>>
  <2>1. Levels' \in Seq(SUBSET Rows) /\ Len(Levels') = 1 /\ Levels'[1] = {}
    <3> DEFINE M == Layers(log', stack')
    <3>1. /\ M \in Seq(SUBSET Rows) /\ Len(M) = Len(stack') + 1
          /\ \A i \in 1..Len(stack') + 1 : M[i] = LayerOf(log', stack', i)
      BY <1>3, LayersAre
    <3> HIDE DEF M
    <3>2. 1 \in 1..Len(stack') + 1 /\ Len(stack') + 1 = 1
      BY <1>4
    <3>3. M \in Seq(SUBSET Rows) /\ Len(M) = 1 /\ M[1] = {}
      BY <1>5, <3>1, <3>2
    <3>4. QED
      BY <1>3, <3>3 DEF M
  <2>2. QED
    BY <2>1
<1>7. QED
  BY <1>1, <1>2, <1>6, MappedState, MappedStateNext DEF Nested!Begin

LEMMA BeginNestedNests ==
  ASSUME IInv, IInv', ~usesDDL, BeginNested
  PROVE  Nested!BeginNested
<1> DEFINE n == seq + 1
<1>1. /\ ~usesDDL' /\ begun /\ begun' /\ n \in 1..MaxSavepoints
      /\ log' = Append(log, Save(n)) /\ stack' = Append(stack, n)
      /\ durable' = durable /\ call' = "begin_nested"
  BY Typed DEF IInv, BeginNested, NextSavepointName
<1>2. \A i \in 1..Len(log) : log[i].kind = "savepoint" => log[i].name < n
  <2> TAKE i \in 1..Len(log)
  <2> HAVE log[i].kind = "savepoint"
  <2>1. PICK m \in 1..MaxSavepoints : log[i] = Save(m)
    BY Typed, EntryKinds DEF IInv, Entries
  <2>2. log[i].name = m /\ m <= seq /\ m \in Nat /\ seq \in Nat
    BY <2>1, Typed, SavepointAssumption, EntryKinds DEF IInv, NamesFresh
  <2>3. QED
    BY <2>2
<1>3. \A i \in 1..Len(stack) : stack[i] < n
  BY Typed DEF IInv, NamesFresh
<1> HIDE DEF n
<1>4. Levels' = Append(Levels, {})
  BY <1>1, <1>2, <1>3, MappedState, MappedStateNext, LayersOfPush
<1>5. QED
  BY <1>1, <1>4, MappedState, MappedStateNext, MappedLevels DEF Nested!BeginNested

LEMMA WriteNests ==
  ASSUME IInv, IInv', ~usesDDL, NEW row \in Rows, Write(row)
  PROVE  Nested!Write(row)
<1>1. /\ ~usesDDL' /\ begun /\ begun' /\ row \notin Visible
      /\ log' = Append(log, Row(row)) /\ stack' = stack
      /\ durable' = durable /\ call' = "write"
  BY DEF Write
<1>2. Levels' = Append(Front(Levels), Last(Levels) \cup {row})
  <2>1. Levels = Layers(log, stack) /\ Nesting(log, stack)
    BY <1>1, MappedState
  <2>2. Levels' = Layers(Append(log, Row(row)), stack)
    BY <1>1, MappedStateNext
  <2>3. QED
    BY <2>1, <2>2, LayersOfWrite
<1>3. QED
  BY <1>1, <1>2, MappedState, MappedStateNext, MappedLevels
  DEF Nested!Write, Nested!Below, Nested!Top, Front, Last

LEMMA ReleaseNests ==
  ASSUME IInv, IInv', ~usesDDL, Release
  PROVE  Nested!Release
<1>1. /\ ~usesDDL' /\ begun /\ begun' /\ stack # <<>>
      /\ log' = log /\ stack' = Front(stack)
      /\ durable' = durable /\ call' = "release"
  BY DEF Release, DoReleaseSavepoint, IInv, TypeOK, IdleIsEmpty
<1>2. Levels' = Append(Front(Front(Levels)), Last(Front(Levels)) \cup Last(Levels))
  BY <1>1, MappedState, MappedStateNext, LayersOfPop
<1>3. QED
  BY <1>1, <1>2, MappedState, MappedStateNext, MappedLevels
  DEF Nested!Release, Nested!Below, Nested!Top, Front, Last

LEMMA RollbackNestedNests ==
  ASSUME IInv, IInv', ~usesDDL, RollbackNested
  PROVE  Nested!RollbackNested
<1>1. /\ ~usesDDL' /\ begun /\ begun' /\ stack # <<>>
      /\ log' = SubSeq(log, 1, Pos(log, Last(stack))) /\ stack' = Front(stack)
      /\ durable' = durable /\ call' = "rollback_nested"
  BY RollbackNestedIs DEF RollbackNested, IInv, TypeOK, IdleIsEmpty
<1>2. Levels' = Front(Levels)
  BY <1>1, MappedState, MappedStateNext, LayersOfCut
<1>3. QED
  BY <1>1, <1>2, MappedState, MappedStateNext, MappedLevels
  DEF Nested!RollbackNested, Nested!Below, Front

LEMMA EndNests ==
  ASSUME IInv, IInv', ~usesDDL, Commit \/ Rollback
  PROVE  Nested!Commit \/ Nested!Rollback
<1>1. ~usesDDL' /\ begun /\ ~begun'
  BY DEF Commit, Rollback, IInv, TypeOK
<1>2. Levels # <<>> /\ Levels' = <<>>
  BY <1>1, MappedLevels, MappedStateNext
<1>3. CASE Commit
  BY <1>1, <1>2, <1>3, MappedState, MappedStateNext, MappedLevels DEF Commit, Nested!Commit
<1>4. CASE Rollback
  BY <1>1, <1>2, <1>4, MappedState, MappedStateNext DEF Rollback, Nested!Rollback
<1>5. QED
  BY <1>3, <1>4

LEMMA StepNests == IInv /\ IInv' /\ [Next]_vars => [Nested!Next]_(Nested!vars)
<1> SUFFICES ASSUME IInv, IInv', [Next]_vars PROVE [Nested!Next]_(Nested!vars)
  OBVIOUS
<1>1. usesDDL' = usesDDL /\ usesDDL \in BOOLEAN
  BY DEF Next, vars, Begin, BeginNested, Write, Release, RollbackNested,
         Commit, Rollback, ExecuteDDL, IInv, TypeOK
<1>2. CASE usesDDL
  BY <1>1, <1>2 DEF Nested!vars, Committed, Levels, Asked
<1>3. CASE ~usesDDL /\ Next
  <2>1. ~ExecuteDDL
    BY <1>3 DEF ExecuteDDL
  <2>2. QED
    BY <1>3, <2>1, BeginNests, BeginNestedNests, WriteNests, ReleaseNests,
       RollbackNestedNests, EndNests DEF Next, Nested!Next
<1>4. CASE ~usesDDL /\ UNCHANGED vars
  BY <1>1, <1>4, MappedState, MappedStateNext DEF vars, Nested!vars
<1>5. QED
  BY <1>1, <1>2, <1>3, <1>4

\* do_release_savepoint may send nothing: what the client of a connection
\* without RELEASE SAVEPOINT sees is what begin_nested() promises.
THEOREM NestingImplemented == Spec => ImplementsNesting
<1>1. Init => Nested!Init
  BY DEF Init, Nested!Init, Committed, Levels, Asked
<1>2. QED
  BY <1>1, StepNests, Invariance, PTL DEF Spec, Nested!Spec, ImplementsNesting
===============================================================================
