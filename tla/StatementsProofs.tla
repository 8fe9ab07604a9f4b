--------------------------- MODULE StatementsProofs ---------------------------
(****************************************************************************)
(* What the compiler makes of a statement is what its calls asked for, for   *)
(* any tables, dictionaries, handles and number of calls.                    *)
(****************************************************************************)
EXTENDS Statements, SequenceTheorems, WellFoundedInduction, TLAPS

(* Keeping: the elements of a sequence that belong to a set *)

\* A nonempty set of natural numbers has a least element.
LEMMA LeastNumber ==
  ASSUME NEW S \in SUBSET Nat, S # {}
  PROVE  \E n \in S : \A m \in S : n <= m
<1> DEFINE R == { pair \in Nat \X Nat : pair[1] < pair[2] }
<1>1. IsWellFoundedOn(R, Nat)
  BY NatLessThanWellFounded DEF OpToRel
<1>2. PICK n \in S : \A m \in S : ~ (<<m, n>> \in R)
  <2> HIDE DEF R
  <2> QED
    BY <1>1, WFMin
<1>3. ASSUME NEW m \in S PROVE n <= m
  <2>1. m \in Nat /\ n \in Nat
    OBVIOUS
  <2>2. ~ (m < n)
    BY <1>2, <2>1
  <2>3. QED
    BY <2>1, <2>2
<1>4. QED
  BY <1>3

\* kept is the function that the definition of Keeping defines by recursion.
KeepsFrom(seq, set, kept, n) ==
    kept[n] = IF n = 0 THEN <<>>
              ELSE IF seq[n] \in set THEN Append(kept[n - 1], seq[n]) ELSE kept[n - 1]

IsKept(seq, set, kept) ==
    /\ DOMAIN kept = 0..Len(seq)
    /\ \A n \in 0..Len(seq) : KeepsFrom(seq, set, kept, n)

\* There is such a function, for every sequence (a least counterexample would
\* extend the one of the prefix before it).
LEMMA KeptExists ==
  ASSUME NEW E, NEW seq \in Seq(E), NEW set
  PROVE  \E kept : IsKept(seq, set, kept)
<1> DEFINE Fits(f, n) == \A k \in 0..n : KeepsFrom(seq, set, f, k)
           Wrong == { n \in 0..Len(seq) : \A f : DOMAIN f = 0..n => ~Fits(f, n) }
<1>1. Len(seq) \in Nat
  OBVIOUS
<1>2. Wrong = {}
  <2>1. SUFFICES ASSUME Wrong # {} PROVE FALSE
    OBVIOUS
  <2>2. Wrong \in SUBSET Nat
    BY <1>1
  <2>3. PICK n \in Wrong : \A m \in Wrong : n <= m
    <3> HIDE DEF Wrong
    <3> QED
      BY <2>1, <2>2, LeastNumber
  <2>4. n \in 0..Len(seq) /\ \A f : DOMAIN f = 0..n => ~Fits(f, n)
    BY <2>3
  <2>5. n # 0
    <3> DEFINE z == [k \in 0..0 |-> <<>>]
    <3>1. DOMAIN z = 0..0 /\ \A k \in 0..0 : k = 0 /\ z[k] = <<>>
      OBVIOUS
    <3> HIDE DEF z
    <3>2. Fits(z, 0)
      BY <3>1 DEF KeepsFrom
    <3> HIDE DEF Fits
    <3>3. QED
      BY <2>4, <3>1, <3>2
  <2>6. n - 1 \in 0..Len(seq) /\ n - 1 \notin Wrong
    <3> HIDE DEF Wrong
    <3> QED
      BY <2>3, <2>4, <2>5, <1>1
  <2>7. PICK f : DOMAIN f = 0..(n - 1) /\ Fits(f, n - 1)
    <3> HIDE DEF Fits
    <3> QED
      BY <2>6
  <2> DEFINE last == IF seq[n] \in set THEN Append(f[n - 1], seq[n]) ELSE f[n - 1]
             g == [k \in 0..n |-> IF k = n THEN last ELSE f[k]]
  <2>8. n \in Nat \ {0}
    BY <2>4, <2>5, <1>1
  <2> HIDE DEF last
  <2>9. /\ DOMAIN g = 0..n /\ g[n] = last
        /\ \A k \in 0..n : k # n => g[k] = f[k] /\ (k # 0 => g[k - 1] = f[k - 1])
        /\ g[n - 1] = f[n - 1]
    BY <2>8
  <2> HIDE DEF g
  <2>10. ASSUME NEW k \in 0..n PROVE KeepsFrom(seq, set, g, k)
    <3>1. CASE k = n
      BY <3>1, <2>8, <2>9 DEF KeepsFrom, last
    <3>2. CASE k # n
      <4>1. k \in 0..(n - 1)
        BY <3>2, <2>8
      <4>2. KeepsFrom(seq, set, f, k)
        BY <4>1, <2>7
      <4>3. QED
        BY <3>2, <4>2, <2>9 DEF KeepsFrom
    <3>3. QED
      BY <3>1, <3>2
  <2>11. Fits(g, n)
    BY <2>10
  <2> HIDE DEF Fits
  <2>12. QED
    BY <2>4, <2>9, <2>11
<1>3. Len(seq) \notin Wrong /\ Len(seq) \in 0..Len(seq)
  <2> HIDE DEF Wrong
  <2> QED
    BY <1>1, <1>2
<1>4. PICK f : DOMAIN f = 0..Len(seq) /\ Fits(f, Len(seq))
  <2> HIDE DEF Fits
  <2> QED
    BY <1>3
<1>5. QED
  BY <1>4 DEF IsKept

\* Two such functions, of a sequence and of one it begins, agree.
LEMMA KeptAgree ==
  ASSUME NEW E, NEW short \in Seq(E), NEW long \in Seq(E), NEW set, NEW f, NEW g,
         Len(short) <= Len(long),
         \A k \in 1..Len(short) : short[k] = long[k],
         IsKept(short, set, f), IsKept(long, set, g)
  PROVE  \A k \in 0..Len(short) : f[k] = g[k]
<1> DEFINE Wrong == { k \in 0..Len(short) : f[k] # g[k] }
<1>1. Len(short) \in Nat /\ Len(long) \in Nat
  OBVIOUS
<1>2. SUFFICES ASSUME Wrong # {} PROVE FALSE
  OBVIOUS
<1>3. Wrong \in SUBSET Nat
  BY <1>1
<1>4. PICK n \in Wrong : \A m \in Wrong : n <= m
  <2> HIDE DEF Wrong
  <2> QED
    BY <1>2, <1>3, LeastNumber
<1>5. n \in 0..Len(short) /\ f[n] # g[n] /\ n \in 0..Len(long)
  BY <1>1, <1>4
<1>6. KeepsFrom(short, set, f, n) /\ KeepsFrom(long, set, g, n)
  BY <1>5 DEF IsKept
<1>7. n # 0
  BY <1>5, <1>6 DEF KeepsFrom
<1>8. n - 1 \in 0..Len(short) /\ n - 1 \notin Wrong
  <2> HIDE DEF Wrong
  <2> QED
    BY <1>4, <1>5, <1>7, <1>1
<1>9. f[n - 1] = g[n - 1]
  BY <1>8
<1>10. short[n] = long[n]
  BY <1>1, <1>5, <1>7
<1>11. QED
  BY <1>5, <1>6, <1>7, <1>9, <1>10 DEF KeepsFrom

\* Keeping is the last value of any such function.
LEMMA KeepingIs ==
  ASSUME NEW E, NEW seq \in Seq(E), NEW set, NEW f, IsKept(seq, set, f)
  PROVE  Keeping(seq, set) = f[Len(seq)]
<1> DEFINE Equation(h) ==
             h = [n \in 0..Len(seq) |->
                    IF n = 0 THEN <<>>
                    ELSE IF seq[n] \in set THEN Append(h[n - 1], seq[n]) ELSE h[n - 1]]
           kept == CHOOSE h : Equation(h)
<1>1. \A h : IsKept(seq, set, h) => \A n \in 0..Len(seq) :
               h[n] = IF n = 0 THEN <<>>
                      ELSE IF seq[n] \in set THEN Append(h[n - 1], seq[n]) ELSE h[n - 1]
  BY DEF IsKept, KeepsFrom
<1>2. f = [n \in 0..Len(seq) |-> f[n]]
  BY DEF IsKept
<1>3. Equation(f)
  BY <1>1, <1>2
<1>4. Keeping(seq, set) = kept[Len(seq)]
  BY DEF Keeping
<1>5. Equation(kept)
  <2> HIDE DEF Equation
  <2> QED
    BY <1>3
<1> HIDE DEF kept
<1>6. IsKept(seq, set, kept)
  BY <1>5 DEF IsKept, KeepsFrom
<1>7. f[Len(seq)] = kept[Len(seq)]
  <2>1. Len(seq) \in 0..Len(seq) /\ Len(seq) <= Len(seq)
    OBVIOUS
  <2>2. \A k \in 0..Len(seq) : f[k] = kept[k]
    BY <1>6, <2>1, KeptAgree
  <2>3. QED
    BY <2>1, <2>2
<1>8. QED
  BY <1>4, <1>7

LEMMA KeepingEmpty ==
  ASSUME NEW set
  PROVE  Keeping(<<>>, set) = <<>>
<1>1. <<>> \in Seq({}) /\ Len(<<>>) = 0
  OBVIOUS
<1>2. PICK f : IsKept(<<>>, set, f)
  BY <1>1, KeptExists
<1>3. KeepsFrom(<<>>, set, f, 0)
  BY <1>1, <1>2 DEF IsKept
<1>4. Keeping(<<>>, set) = f[0]
  BY <1>1, <1>2, KeepingIs
<1>5. QED
  BY <1>3, <1>4 DEF KeepsFrom

LEMMA KeepingAppend ==
  ASSUME NEW E, NEW seq \in Seq(E), NEW e \in E, NEW set
  PROVE  Keeping(Append(seq, e), set)
           = IF e \in set THEN Append(Keeping(seq, set), e) ELSE Keeping(seq, set)
<1> DEFINE long == Append(seq, e)
<1>1. /\ long \in Seq(E) /\ Len(long) = Len(seq) + 1 /\ Len(seq) \in Nat
      /\ \A k \in 1..Len(seq) : seq[k] = long[k]
      /\ long[Len(seq) + 1] = e
  BY AppendProperties
<1> HIDE DEF long
<1>2. PICK f : IsKept(seq, set, f)
  BY KeptExists
<1>3. PICK g : IsKept(long, set, g)
  BY <1>1, KeptExists
<1>4. f[Len(seq)] = g[Len(seq)]
  <2>1. Len(seq) <= Len(long) /\ Len(seq) \in 0..Len(seq)
    BY <1>1
  <2>2. \A k \in 0..Len(seq) : f[k] = g[k]
    BY <1>1, <1>2, <1>3, <2>1, KeptAgree
  <2>3. QED
    BY <2>1, <2>2
<1>5. KeepsFrom(long, set, g, Len(seq) + 1)
  BY <1>1, <1>3 DEF IsKept
<1>6. g[Len(seq) + 1] = IF e \in set THEN Append(g[Len(seq)], e) ELSE g[Len(seq)]
  <2>1. Len(seq) + 1 # 0 /\ (Len(seq) + 1) - 1 = Len(seq)
    BY <1>1
  <2>2. QED
    BY <1>1, <1>5, <2>1 DEF KeepsFrom
<1>7. Keeping(long, set) = g[Len(seq) + 1] /\ Keeping(seq, set) = f[Len(seq)]
  <2>1. Keeping(long, set) = g[Len(long)]
    BY <1>1, <1>3, KeepingIs
  <2>2. Keeping(seq, set) = f[Len(seq)]
    BY <1>2, KeepingIs
  <2>3. QED
    BY <1>1, <2>1, <2>2
<1>8. QED
  BY <1>4, <1>6, <1>7 DEF long

\* Induction over sequences: of the counterexamples one is empty, or it extends a
\* sequence that is none.
LEMMA Shortest ==
  ASSUME NEW E, NEW Wrong \in SUBSET Seq(E), Wrong # {}
  PROVE  \E seq \in Wrong :
           \/ seq = <<>>
           \/ \E front \in Seq(E), e \in E : seq = Append(front, e) /\ front \notin Wrong
<1> DEFINE Lengths == { Len(seq) : seq \in Wrong }
<1>1. Lengths \in SUBSET Nat /\ Lengths # {}
  <2>1. \A seq \in Wrong : Len(seq) \in Nat
    <3>1. TAKE seq \in Wrong
    <3>2. seq \in Seq(E)
      OBVIOUS
    <3>3. QED
      BY <3>2, LenProperties
  <2>2. QED
    BY <2>1
<1>2. PICK n \in Lengths : \A m \in Lengths : n <= m
  <2> HIDE DEF Lengths
  <2> QED
    BY <1>1, LeastNumber
<1>3. PICK seq \in Wrong : Len(seq) = n
  BY <1>2
<1>4. CASE seq = <<>>
  BY <1>4
<1>5. CASE seq # <<>>
  <2>1. PICK front \in Seq(E), e \in E : seq = Append(front, e)
    BY <1>5, SequenceEmptyOrAppend
  <2>2. Len(seq) = Len(front) + 1 /\ Len(front) \in Nat
    BY <2>1, AppendProperties
  <2>3. front \notin Wrong
    <3>1. SUFFICES ASSUME front \in Wrong PROVE FALSE
      OBVIOUS
    <3>2. Len(front) \in Lengths
      BY <3>1
    <3>3. n <= Len(front)
      <4> HIDE DEF Lengths
      <4> QED
        BY <1>2, <3>2
    <3>4. QED
      BY <3>3, <1>3, <2>2
  <2>4. QED
    BY <2>1, <2>3
<1>6. QED
  BY <1>4, <1>5

\* What is kept belongs to both.
LEMMA KeepingType ==
  ASSUME NEW E, NEW set, NEW s \in Seq(E)
  PROVE  Keeping(s, set) \in Seq(E \cap set)
<1> DEFINE Wrong == { seq \in Seq(E) : Keeping(seq, set) \notin Seq(E \cap set) }
<1>1. SUFFICES ASSUME Wrong # {} PROVE FALSE
  OBVIOUS
<1>2. PICK seq \in Wrong :
         \/ seq = <<>>
         \/ \E front \in Seq(E), e \in E : seq = Append(front, e) /\ front \notin Wrong
  <2>1. Wrong \in SUBSET Seq(E)
    OBVIOUS
  <2> HIDE DEF Wrong
  <2>2. QED
    BY <1>1, <2>1, Shortest
<1>3. CASE seq = <<>>
  <2>1. Keeping(seq, set) = <<>>
    BY <1>3, KeepingEmpty
  <2>2. <<>> \in Seq(E \cap set)
    OBVIOUS
  <2>3. QED
    BY <2>1, <2>2
<1>4. ASSUME NEW front \in Seq(E), NEW e \in E, seq = Append(front, e), front \notin Wrong
      PROVE  FALSE
  <2>1. Keeping(front, set) \in Seq(E \cap set)
    BY <1>4
  <2>2. Keeping(seq, set)
          = IF e \in set THEN Append(Keeping(front, set), e) ELSE Keeping(front, set)
    BY <1>4, KeepingAppend
  <2>3. Keeping(seq, set) \in Seq(E \cap set)
    BY <2>1, <2>2, AppendProperties
  <2>4. QED
    BY <2>3
<1>5. QED
  BY <1>2, <1>3, <1>4

LEMMA KeepingConcat ==
  ASSUME NEW E, NEW set, NEW s \in Seq(E), NEW t \in Seq(E)
  PROVE  Keeping(s \o t, set) = Keeping(s, set) \o Keeping(t, set)
<1> DEFINE Wrong == { seq \in Seq(E) :
                        Keeping(s \o seq, set) # Keeping(s, set) \o Keeping(seq, set) }
<1>1. SUFFICES ASSUME Wrong # {} PROVE FALSE
  OBVIOUS
<1>2. PICK seq \in Wrong :
         \/ seq = <<>>
         \/ \E front \in Seq(E), e \in E : seq = Append(front, e) /\ front \notin Wrong
  <2>1. Wrong \in SUBSET Seq(E)
    OBVIOUS
  <2> HIDE DEF Wrong
  <2>2. QED
    BY <1>1, <2>1, Shortest
<1>3. Keeping(s, set) \in Seq(E)
  <2>1. Keeping(s, set) \in Seq(E \cap set)
    BY KeepingType
  <2>2. QED
    BY <2>1, SeqMonotonic
<1>4. CASE seq = <<>>
  <2>1. s \o <<>> = s /\ Keeping(s, set) \o <<>> = Keeping(s, set)
    BY <1>3, ConcatEmptySeq
  <2>2. QED
    BY <1>4, <2>1, KeepingEmpty
<1>5. ASSUME NEW front \in Seq(E), NEW e \in E, seq = Append(front, e), front \notin Wrong
      PROVE  FALSE
  <2>1. Keeping(s \o front, set) = Keeping(s, set) \o Keeping(front, set)
    BY <1>5
  <2>2. Keeping(front, set) \in Seq(E)
    <3>1. Keeping(front, set) \in Seq(E \cap set)
      BY KeepingType
    <3>2. QED
      BY <3>1, SeqMonotonic
  <2>3. \A a, b \in Seq(E) : a \o b \in Seq(E) /\ a \o Append(b, e) = Append(a \o b, e)
    OBVIOUS
  <2>4. s \o seq = Append(s \o front, e) /\ s \o front \in Seq(E)
    BY <1>5, <2>3
  <2>5. Keeping(s \o seq, set)
          = IF e \in set THEN Append(Keeping(s \o front, set), e) ELSE Keeping(s \o front, set)
    <3> DEFINE both == s \o front
    <3>1. both \in Seq(E) /\ s \o seq = Append(both, e)
      BY <2>4
    <3> HIDE DEF both
    <3>2. Keeping(Append(both, e), set)
            = IF e \in set THEN Append(Keeping(both, set), e) ELSE Keeping(both, set)
      BY <3>1, KeepingAppend
    <3>3. QED
      BY <3>1, <3>2 DEF both
  <2>6. Keeping(seq, set)
          = IF e \in set THEN Append(Keeping(front, set), e) ELSE Keeping(front, set)
    BY <1>5, KeepingAppend
  <2>7. Keeping(s, set) \o Append(Keeping(front, set), e)
          = Append(Keeping(s, set) \o Keeping(front, set), e)
    BY <1>3, <2>2, <2>3
  <2>8. Keeping(s \o seq, set) = Keeping(s, set) \o Keeping(seq, set)
    BY <2>1, <2>5, <2>6, <2>7
  <2>9. QED
    BY <2>8
<1>6. QED
  BY <1>2, <1>4, <1>5

\* Keeping from what is kept.
LEMMA KeepingTwice ==
  ASSUME NEW E, NEW set, NEW other, NEW s \in Seq(E)
  PROVE  Keeping(Keeping(s, set), other) = Keeping(s, set \cap other)
<1> DEFINE Wrong == { seq \in Seq(E) :
                        Keeping(Keeping(seq, set), other) # Keeping(seq, set \cap other) }
<1>1. SUFFICES ASSUME Wrong # {} PROVE FALSE
  OBVIOUS
<1>2. PICK seq \in Wrong :
         \/ seq = <<>>
         \/ \E front \in Seq(E), e \in E : seq = Append(front, e) /\ front \notin Wrong
  <2>1. Wrong \in SUBSET Seq(E)
    OBVIOUS
  <2> HIDE DEF Wrong
  <2>2. QED
    BY <1>1, <2>1, Shortest
<1>3. CASE seq = <<>>
  BY <1>3, KeepingEmpty
<1>4. ASSUME NEW front \in Seq(E), NEW e \in E, seq = Append(front, e), front \notin Wrong
      PROVE  FALSE
  <2> DEFINE kept == Keeping(front, set)
  <2>1. Keeping(kept, other) = Keeping(front, set \cap other)
    BY <1>4
  <2>2. Keeping(seq, set) = IF e \in set THEN Append(kept, e) ELSE kept
    BY <1>4, KeepingAppend
  <2>3. Keeping(seq, set \cap other)
          = IF e \in set \cap other THEN Append(Keeping(front, set \cap other), e)
                                    ELSE Keeping(front, set \cap other)
    BY <1>4, KeepingAppend
  <2>4. kept \in Seq(E)
    <3>1. kept \in Seq(E \cap set)
      BY KeepingType
    <3>2. QED
      BY <3>1, SeqMonotonic
  <2> HIDE DEF kept
  <2>5. Keeping(Append(kept, e), other)
          = IF e \in other THEN Append(Keeping(kept, other), e) ELSE Keeping(kept, other)
    BY <2>4, KeepingAppend
  <2>6. Keeping(Keeping(seq, set), other) = Keeping(seq, set \cap other)
    <3>1. CASE e \in set /\ e \in other
      BY <3>1, <2>1, <2>2, <2>3, <2>5
    <3>2. CASE e \in set /\ e \notin other
      BY <3>2, <2>1, <2>2, <2>3, <2>5
    <3>3. CASE e \notin set
      BY <3>3, <2>1, <2>2, <2>3
    <3>4. QED
      BY <3>1, <3>2, <3>3
  <2>7. QED
    BY <2>6
<1>5. QED
  BY <1>2, <1>3, <1>4

\* Only the elements of the sequence matter.
LEMMA KeepingSame ==
  ASSUME NEW E, NEW set, NEW other, NEW s \in Seq(E),
         \A e \in E : e \in set <=> e \in other
  PROVE  Keeping(s, set) = Keeping(s, other)
<1> DEFINE Wrong == { seq \in Seq(E) : Keeping(seq, set) # Keeping(seq, other) }
<1>1. SUFFICES ASSUME Wrong # {} PROVE FALSE
  OBVIOUS
<1>2. PICK seq \in Wrong :
         \/ seq = <<>>
         \/ \E front \in Seq(E), e \in E : seq = Append(front, e) /\ front \notin Wrong
  <2>1. Wrong \in SUBSET Seq(E)
    OBVIOUS
  <2> HIDE DEF Wrong
  <2>2. QED
    BY <1>1, <2>1, Shortest
<1>3. CASE seq = <<>>
  BY <1>3, KeepingEmpty
<1>4. ASSUME NEW front \in Seq(E), NEW e \in E, seq = Append(front, e), front \notin Wrong
      PROVE  FALSE
  <2>1. Keeping(front, set) = Keeping(front, other)
    BY <1>4
  <2>2. Keeping(seq, set)
          = IF e \in set THEN Append(Keeping(front, set), e) ELSE Keeping(front, set)
    BY <1>4, KeepingAppend
  <2>3. Keeping(seq, other)
          = IF e \in other THEN Append(Keeping(front, other), e) ELSE Keeping(front, other)
    BY <1>4, KeepingAppend
  <2>4. Keeping(seq, set) = Keeping(seq, other)
    <3>1. CASE e \in set
      BY <3>1, <2>1, <2>2, <2>3
    <3>2. CASE e \notin set
      BY <3>2, <2>1, <2>2, <2>3
    <3>3. QED
      BY <3>1, <3>2
  <2>5. QED
    BY <2>4
<1>5. QED
  BY <1>2, <1>3, <1>4

\* Keeping all of a sequence, and nothing.
LEMMA KeepingAll ==
  ASSUME NEW E, NEW s \in Seq(E)
  PROVE  Keeping(s, E) = s
<1> DEFINE Wrong == { seq \in Seq(E) : Keeping(seq, E) # seq }
<1>1. SUFFICES ASSUME Wrong # {} PROVE FALSE
  OBVIOUS
<1>2. PICK seq \in Wrong :
         \/ seq = <<>>
         \/ \E front \in Seq(E), e \in E : seq = Append(front, e) /\ front \notin Wrong
  <2>1. Wrong \in SUBSET Seq(E)
    OBVIOUS
  <2> HIDE DEF Wrong
  <2>2. QED
    BY <1>1, <2>1, Shortest
<1>3. CASE seq = <<>>
  BY <1>3, KeepingEmpty
<1>4. ASSUME NEW front \in Seq(E), NEW e \in E, seq = Append(front, e), front \notin Wrong
      PROVE  FALSE
  BY <1>4, KeepingAppend
<1>5. QED
  BY <1>2, <1>3, <1>4

LEMMA KeepingNone ==
  ASSUME NEW E, NEW set, NEW s \in Seq(E), E \cap set = {}
  PROVE  Keeping(s, set) = <<>>
<1>1. Keeping(s, set) \in Seq(E \cap set)
  BY KeepingType
<1>2. Keeping(s, set) \in Seq({})
  BY <1>1
<1>3. \A t \in Seq({}) : t = <<>>
  OBVIOUS
<1>4. QED
  BY <1>2, <1>3

----------------------------------------------------------------------------
(* The inductive invariant *)

MergeStates ==
    [ source : Sources \cup {None}, on : Conditions \cup {None},
      update : [values : Dicts \cup {None}, condition : Conditions \cup {None}],
      delete : [asked : BOOLEAN, condition : Conditions \cup {None}],
      insert : [values : Dicts \cup {None}, condition : Conditions \cup {None}] ]

AskedCalls ==
    [ kind : {"using", "on", "update", "delete", "insert"}, dict : Dicts \cup {None},
      items : Items, argument : Sources \cup Conditions \cup {None} ]

Shapes ==
    /\ dict \in [Dicts -> Items]
    /\ DOMAIN insert = Inserts /\ DOMAIN askedUpsert = Inserts
    /\ object \in [Merges -> Merges]
    /\ merge \in [Merges -> MergeStates]
    /\ askedMerge \in [Merges -> Seq(AskedCalls)]
    /\ informed \in [Merges -> SUBSET Merges]
    /\ raised \in {"nothing", "ArgumentError", "InvalidRequestError", "ValueError"}
    /\ calls \in 0..MaxCalls

\* A clause is made of the update that was asked for, and of nothing else.
IsMadeOf(clause, asked) ==
    /\ asked # None /\ clause \in Clauses
    /\ IsUpdate(asked.update) /\ asked.update.kind # "other"
    /\ asked.dict \in [Dicts -> Items]
    /\ clause = OnDuplicateClause(asked.update)
    /\ asked.update.kind = "kw" => asked.update.items # Empty
    /\ asked.update.kind = "list" => asked.update.pairs # <<>>

ClausesAsAsked ==
    \A h \in Inserts :
      \/ insert[h] = None /\ askedUpsert[h] = None
      \/ IsMadeOf(insert[h], askedUpsert[h])

NoCall(kind, asked) == \A i \in DOMAIN asked : asked[i].kind # kind

\* The values and condition of a WHEN clause are those of the last call for it.
IsOfLastCall(kind, part, asked) ==
    \/ part.values = None /\ NoCall(kind, asked)
    \/ \E i \in DOMAIN asked :
         /\ IsLastCall(kind, asked, i)
         /\ part.values \in Dicts
         /\ asked[i].dict = part.values
         /\ asked[i].argument = part.condition

IsOfLastDelete(part, asked) ==
    \/ ~part.asked /\ NoCall("delete", asked)
    \/ /\ part.asked
       /\ \E i \in DOMAIN asked :
            IsLastCall("delete", asked, i) /\ asked[i].items = Empty /\ asked[i].argument = part.condition

IsLastArgument(kind, argument, asked) ==
    /\ argument # None
    /\ \E i \in DOMAIN asked : IsLastCall(kind, asked, i) /\ asked[i].argument = argument

Reflects(m, asked) ==
    /\ IsLastArgument("using", m.source, asked)
    /\ IsLastArgument("on", m.on, asked)
    /\ IsOfLastCall("update", m.update, asked)
    /\ IsOfLastDelete(m.delete, asked)
    /\ IsOfLastCall("insert", m.insert, asked)

\* A Merge is what the calls of each handle that made all its changes say.
MergesReflect ==
    \A h \in Merges :
      h \in informed[object[h]] => Reflects(merge[object[h]], askedMerge[h])

IInv == Shapes /\ ClausesAsAsked /\ MergesReflect

----------------------------------------------------------------------------
(* Dictionaries and clauses *)

LEMMA EmptyItems == Empty \in Items /\ DOMAIN Empty = {}
<1>1. Empty \in [{} -> Values]
  BY DEF Empty
<1>2. {} \in SUBSET Keys
  OBVIOUS
<1>3. QED
  BY <1>1, <1>2 DEF Items

LEMMA ItemsAre ==
  ASSUME NEW f
  PROVE  f \in Items <=> DOMAIN f \subseteq Keys /\ f \in [DOMAIN f -> Values]
BY DEF Items

\* An item is empty when it has no key.
LEMMA EmptyHasNoKey ==
  ASSUME NEW f \in Items, DOMAIN f = {}
  PROVE  f = Empty
<1>1. f \in [{} -> Values]
  BY ItemsAre
<1>2. QED
  BY <1>1 DEF Empty

LEMMA GreatestIndex ==
  ASSUME NEW n \in Nat, NEW S \in SUBSET (1..n), S # {}
  PROVE  \E k \in S : \A m \in S : m <= k
<1> DEFINE T == { n - k : k \in S }
<1>1. T \in SUBSET Nat /\ T # {}
  <2>1. \A k \in S : n - k \in Nat
    OBVIOUS
  <2>2. QED
    BY <2>1
<1>2. PICK t \in T : \A u \in T : t <= u
  <2> HIDE DEF T
  <2> QED
    BY <1>1, LeastNumber
<1>3. PICK k \in S : t = n - k
  BY <1>2
<1>4. ASSUME NEW m \in S PROVE m <= k
  <2>1. n - m \in T
    OBVIOUS
  <2>2. t <= n - m
    <3> HIDE DEF T
    <3> QED
      BY <1>2, <2>1
  <2>3. QED
    BY <1>3, <2>2
<1>5. QED
  BY <1>4

\* dict(list of pairs): its keys are those of the pairs.
LEMMA FromPairsItems ==
  ASSUME NEW pairs \in Seq(Keys \X Values)
  PROVE  /\ FromPairs(pairs) \in Items
         /\ DOMAIN FromPairs(pairs) = { pairs[i][1] : i \in DOMAIN pairs }
<1> DEFINE keys == { pairs[i][1] : i \in DOMAIN pairs }
           IsLast(key, i) == pairs[i][1] = key /\ \A j \in i + 1..Len(pairs) : pairs[j][1] # key
           last(key) == CHOOSE i \in DOMAIN pairs : IsLast(key, i)
<1>1. /\ DOMAIN pairs = 1..Len(pairs) /\ Len(pairs) \in Nat
      /\ \A i \in DOMAIN pairs : pairs[i] \in Keys \X Values
  BY ElementOfSeq
<1>2. \A i \in DOMAIN pairs : pairs[i][1] \in Keys /\ pairs[i][2] \in Values
  BY <1>1
<1>3. ASSUME NEW key \in keys PROVE last(key) \in DOMAIN pairs
  <2> DEFINE S == { i \in 1..Len(pairs) : pairs[i][1] = key }
  <2>1. S \in SUBSET (1..Len(pairs)) /\ S # {}
    BY <1>1
  <2>2. PICK k \in S : \A m \in S : m <= k
    <3> HIDE DEF S
    <3> QED
      BY <1>1, <2>1, GreatestIndex
  <2>3. k \in DOMAIN pairs /\ pairs[k][1] = key
    BY <1>1
  <2>4. \A j \in k + 1..Len(pairs) : pairs[j][1] # key
    <3>1. SUFFICES ASSUME NEW j \in k + 1..Len(pairs), pairs[j][1] = key PROVE FALSE
      OBVIOUS
    <3>2. k \in 1..Len(pairs) /\ j \in 1..Len(pairs)
      BY <1>1
    <3>3. j \in S
      BY <3>1, <3>2
    <3>4. j <= k
      <4> HIDE DEF S
      <4> QED
        BY <2>2, <3>3
    <3>5. QED
      BY <3>2, <3>4, <1>1
  <2>5. IsLast(key, k)
    BY <2>3, <2>4
  <2> HIDE DEF IsLast
  <2>6. QED
    BY <2>3, <2>5
<1> HIDE DEF last
<1>4. FromPairs(pairs) = [key \in keys |-> pairs[last(key)][2]]
  BY DEF FromPairs, last
<1>5. keys \subseteq Keys
  BY <1>2
<1> HIDE DEF keys
<1>6. FromPairs(pairs) \in [keys -> Values]
  BY <1>2, <1>3, <1>4
<1>7. DOMAIN FromPairs(pairs) = keys
  BY <1>4
<1>8. QED
  BY <1>5, <1>6, <1>7, ItemsAre DEF keys

\* The first elements of a list of pairs are a sequence of keys.
LEMMA PairKeys ==
  ASSUME NEW pairs \in Seq(Keys \X Values)
  PROVE  /\ [i \in DOMAIN pairs |-> pairs[i][1]] \in Seq(Keys)
         /\ Range([i \in DOMAIN pairs |-> pairs[i][1]]) = DOMAIN FromPairs(pairs)
<1> DEFINE order == [i \in DOMAIN pairs |-> pairs[i][1]]
<1>1. /\ DOMAIN pairs = 1..Len(pairs) /\ Len(pairs) \in Nat
      /\ \A i \in DOMAIN pairs : pairs[i] \in Keys \X Values
  BY ElementOfSeq
<1>2. \A i \in 1..Len(pairs) : pairs[i][1] \in Keys
  BY <1>1
<1>3. order \in Seq(Keys)
  BY <1>1, <1>2
<1>4. Range(order) = { pairs[i][1] : i \in DOMAIN pairs }
  BY DEF Range
<1>5. QED
  BY <1>3, <1>4, FromPairsItems

\* The clause made of an accepted update is one of the clauses.
LEMMA ClauseOfUpdate ==
  ASSUME NEW update, IsUpdate(update), update.kind # "other"
  PROVE  /\ OnDuplicateClause(update) \in Clauses
         /\ update.kind = "dict" =>
              OnDuplicateClause(update)
                = [ordering |-> <<>>, dict |-> update.dict, items |-> Empty]
         /\ update.kind \in {"kw", "columns"} =>
              OnDuplicateClause(update)
                = [ordering |-> <<>>, dict |-> None, items |-> update.items]
         /\ update.kind = "list" =>
              OnDuplicateClause(update)
                = [ ordering |-> [i \in DOMAIN update.pairs |-> update.pairs[i][1]],
                    dict     |-> None,
                    items    |-> FromPairs(update.pairs) ]
<1>1. <<>> \in Seq(Keys)
  OBVIOUS
<1>2. CASE update.kind = "dict"
  <2>1. OnDuplicateClause(update) = [ordering |-> <<>>, dict |-> update.dict, items |-> Empty]
    BY <1>2 DEF OnDuplicateClause
  <2>2. update.dict \in Dicts
    BY <1>2 DEF IsUpdate
  <2>3. QED
    BY <1>1, <1>2, <2>1, <2>2, EmptyItems DEF Clauses
<1>3. CASE update.kind = "kw"
  <2>1. OnDuplicateClause(update) = [ordering |-> <<>>, dict |-> None, items |-> update.items]
    BY <1>3 DEF OnDuplicateClause
  <2>2. update.items \in Items
    BY <1>3 DEF IsUpdate
  <2>3. QED
    BY <1>1, <1>3, <2>1, <2>2 DEF Clauses
<1>4. CASE update.kind = "columns"
  <2>1. OnDuplicateClause(update) = [ordering |-> <<>>, dict |-> None, items |-> update.items]
    BY <1>4 DEF OnDuplicateClause
  <2>2. update.items \in Items
    BY <1>4 DEF IsUpdate
  <2>3. QED
    BY <1>1, <1>4, <2>1, <2>2 DEF Clauses
<1>5. CASE update.kind = "list"
  <2>1. OnDuplicateClause(update)
          = [ ordering |-> [i \in DOMAIN update.pairs |-> update.pairs[i][1]],
              dict     |-> None,
              items    |-> FromPairs(update.pairs) ]
    BY <1>5 DEF OnDuplicateClause
  <2>2. update.pairs \in Seq(Keys \X Values)
    BY <1>5 DEF IsUpdate
  <2>3. /\ [i \in DOMAIN update.pairs |-> update.pairs[i][1]] \in Seq(Keys)
        /\ FromPairs(update.pairs) \in Items
    BY <2>2, PairKeys, FromPairsItems
  <2>4. QED
    BY <1>5, <2>1, <2>3 DEF Clauses
<1>6. QED
  BY <1>2, <1>3, <1>4, <1>5 DEF IsUpdate

----------------------------------------------------------------------------
(* What VisitOnDuplicateKeyUpdate makes of a clause *)

LEMMA TableKeys ==
  /\ TableColumns \in Seq(Keys)
  /\ TableColumns \in Seq(Range(TableColumns))
  /\ Range(TableColumns) \subseteq Keys
<1>1. TableColumns \in Seq(Keys)
  BY StatementsAssumption
<1>2. QED
  BY <1>1, SeqOfRange, RangeOfSeq

\* Without a list, the table's order.
LEMMA TableOrder ==
  ASSUME NEW keys
  PROVE  Keeping(Keeping(<<>>, Range(TableColumns)) \o OtherColumns(<<>>), keys)
           = Keeping(TableColumns, Range(TableColumns) \cap keys)
<1> DEFINE cols == Range(TableColumns)
<1>1. Range(<<>>) = {}
  BY DEF Range
<1>2. OtherColumns(<<>>) = Keeping(TableColumns, cols)
  <2>1. cols \ Range(<<>>) = cols
    BY <1>1
  <2>2. OtherColumns(<<>>) = Keeping(TableColumns, cols \ Range(<<>>))
    BY DEF OtherColumns
  <2> HIDE DEF cols
  <2>3. QED
    BY <2>1, <2>2
<1>3. Keeping(TableColumns, cols) = TableColumns
  BY TableKeys, KeepingAll
<1>4. Keeping(<<>>, cols) \o OtherColumns(<<>>) = TableColumns
  <2>1. Keeping(<<>>, cols) = <<>>
    BY KeepingEmpty
  <2>2. <<>> \o TableColumns = TableColumns
    BY TableKeys, ConcatEmptySeq
  <2>3. QED
    BY <1>2, <1>3, <2>1, <2>2
<1>5. Keeping(TableColumns, keys) = Keeping(TableColumns, cols \cap keys)
  <2>1. \A e \in cols : e \in keys <=> e \in cols \cap keys
    OBVIOUS
  <2>2. TableColumns \in Seq(cols)
    BY TableKeys
  <2> HIDE DEF cols
  <2>3. QED
    BY <2>1, <2>2, KeepingSame
<1>6. QED
  BY <1>4, <1>5

\* With a list, the list's: every column it names is there, and no other.
LEMMA ListOrder ==
  ASSUME NEW order \in Seq(Keys)
  PROVE  Keeping(Keeping(order, Range(TableColumns)) \o OtherColumns(order), Range(order))
           = Keeping(order, Range(TableColumns) \cap Range(order))
<1> DEFINE cols == Range(TableColumns)
           named == Range(order)
           first == Keeping(order, cols)
           others == Keeping(TableColumns, cols \ named)
<1>1. OtherColumns(order) = others
  BY DEF OtherColumns
<1>2. first \in Seq(Keys) /\ others \in Seq(Keys)
  <2>1. first \in Seq(Keys \cap cols) /\ others \in Seq(Keys \cap (cols \ named))
    BY TableKeys, KeepingType
  <2>2. QED
    BY <2>1, SeqMonotonic
<1>3. Keeping(first \o others, named) = Keeping(first, named) \o Keeping(others, named)
  <2> HIDE DEF first, others, named
  <2>1. QED
    BY <1>2, KeepingConcat
<1>4. Keeping(first, named) = Keeping(order, cols \cap named)
  BY KeepingTwice
<1>5. Keeping(others, named) = <<>>
  <2>1. Keeping(others, named) = Keeping(TableColumns, (cols \ named) \cap named)
    BY TableKeys, KeepingTwice
  <2>2. (cols \ named) \cap named = {}
    OBVIOUS
  <2>3. Keeping(TableColumns, {}) = <<>>
    BY TableKeys, KeepingNone
  <2>4. QED
    BY <2>1, <2>2, <2>3
<1>6. Keeping(order, cols \cap named) \in Seq(Keys \cap (cols \cap named))
  BY KeepingType
<1>7. Keeping(order, cols \cap named) \o <<>> = Keeping(order, cols \cap named)
  BY <1>6, ConcatEmptySeq
<1>8. QED
  BY <1>1, <1>3, <1>4, <1>5, <1>7

\* A clause whose dictionary is as it was updates what was asked, in that order.
LEMMA ClauseCompiles ==
  ASSUME NEW clause, NEW asked, IsMadeOf(clause, asked), Reliable(asked)
  PROVE  VisitOnDuplicateKeyUpdate(clause) =
           [i \in DOMAIN OrderGiven(asked) |->
              <<OrderGiven(asked)[i], Given(asked)[OrderGiven(asked)[i]]>>]
<1> DEFINE update == asked.update
           columns == Keeping(Keeping(clause.ordering, Range(TableColumns))
                                \o OtherColumns(clause.ordering),
                              DOMAIN ClauseItems(clause))
<1>1. IsUpdate(update) /\ update.kind # "other" /\ clause = OnDuplicateClause(update)
  BY DEF IsMadeOf
<1>2. None \notin Dicts
  BY StatementsAssumption
<1>3. ClauseItems(clause) = Given(asked) /\ columns = OrderGiven(asked)
  <2>1. CASE update.kind = "dict"
    <3>1. clause.ordering = <<>> /\ clause.dict = update.dict /\ update.dict \in Dicts
      BY <1>1, <2>1, ClauseOfUpdate DEF IsUpdate
    <3>2. Given(asked) = asked.dict[update.dict] /\ dict[update.dict] = Given(asked)
      BY <2>1 DEF Given, Reliable
    <3>3. ClauseItems(clause) = Given(asked)
      BY <1>2, <3>1, <3>2 DEF ClauseItems
    <3>4. OrderGiven(asked)
            = Keeping(TableColumns, Range(TableColumns) \cap DOMAIN Given(asked))
      BY <2>1 DEF OrderGiven
    <3>5. QED
      BY <3>1, <3>3, <3>4, TableOrder
  <2>2. CASE update.kind \in {"kw", "columns"}
    <3>1. clause.ordering = <<>> /\ clause.dict = None /\ clause.items = update.items
      BY <1>1, <2>2, ClauseOfUpdate
    <3>2. Given(asked) = update.items
      BY <2>2 DEF Given
    <3>3. ClauseItems(clause) = Given(asked)
      BY <3>1, <3>2 DEF ClauseItems
    <3>4. OrderGiven(asked)
            = Keeping(TableColumns, Range(TableColumns) \cap DOMAIN Given(asked))
      BY <2>2 DEF OrderGiven
    <3>5. QED
      BY <3>1, <3>3, <3>4, TableOrder
  <2>3. CASE update.kind = "list"
    <3> DEFINE order == [i \in DOMAIN update.pairs |-> update.pairs[i][1]]
    <3>1. /\ clause.ordering = order /\ clause.dict = None
          /\ clause.items = FromPairs(update.pairs)
      BY <1>1, <2>3, ClauseOfUpdate
    <3>2. update.pairs \in Seq(Keys \X Values)
      BY <1>1, <2>3 DEF IsUpdate
    <3>3. order \in Seq(Keys) /\ Range(order) = DOMAIN FromPairs(update.pairs)
      BY <3>2, PairKeys
    <3>4. Given(asked) = FromPairs(update.pairs)
      BY <2>3 DEF Given
    <3>5. ClauseItems(clause) = Given(asked)
      BY <3>1, <3>4 DEF ClauseItems
    <3>6. OrderGiven(asked) = Keeping(order, Range(TableColumns) \cap DOMAIN Given(asked))
      BY <2>3 DEF OrderGiven
    <3> HIDE DEF order
    <3>7. QED
      BY <3>1, <3>3, <3>4, <3>5, <3>6, ListOrder
  <2>4. QED
    BY <1>1, <2>1, <2>2, <2>3 DEF IsUpdate
<1>4. VisitOnDuplicateKeyUpdate(clause)
        = [i \in DOMAIN columns |-> <<columns[i], ClauseItems(clause)[columns[i]]>>]
  BY DEF VisitOnDuplicateKeyUpdate
<1> HIDE DEF columns
<1>5. QED
  BY <1>3, <1>4

----------------------------------------------------------------------------
(* Inserts *)

\* Of the calls that do not raise, the clause is made of their update.
LEMMA AcceptedCall ==
  ASSUME Shapes, NEW call \in UpsertCalls, NEW statement, Raises(statement, call) = "nothing"
  PROVE  /\ statement = None
         /\ IsMadeOf(OnDuplicateClause(UpdateOf(call)), [update |-> UpdateOf(call), dict |-> dict])
<1> DEFINE update == UpdateOf(call)
           asked == [update |-> update, dict |-> dict]
<1>1. statement = None /\ Accepted(update)
  BY DEF Raises
<1>2. IsUpdate(update) /\ dict \in [Dicts -> Items]
  BY StatementsAssumption DEF Shapes
<1>3. None # asked
  BY <1>2, StatementsAssumption
<1>4. update.kind # "other"
  BY <1>1 DEF Accepted
<1> HIDE DEF update
<1>5. OnDuplicateClause(update) \in Clauses
  BY <1>2, <1>4, ClauseOfUpdate
<1>6. /\ update.kind = "kw" => update.items # Empty
      /\ update.kind = "list" => update.pairs # <<>>
  BY <1>1 DEF Accepted
<1>7. asked.update = update /\ asked.dict = dict
  OBVIOUS
<1> HIDE DEF asked
<1>8. IsMadeOf(OnDuplicateClause(update), asked)
  BY <1>2, <1>3, <1>4, <1>5, <1>6, <1>7 DEF IsMadeOf
<1>9. QED
  BY <1>1, <1>8 DEF asked, update

LEMMA UpsertKeepsClauses ==
  ASSUME Shapes, ClausesAsAsked, OnDuplicateKeyUpdate
  PROVE  ClausesAsAsked' /\ DOMAIN insert' = Inserts /\ DOMAIN askedUpsert' = Inserts
<1>1. PICK h \in Inserts, g \in Inserts, call \in UpsertCalls :
        /\ raised' = Raises(insert[h], call)
        /\ IF raised' # "nothing"
             THEN UNCHANGED <<insert, askedUpsert>>
             ELSE LET clause == OnDuplicateClause(UpdateOf(call))
                  IN  /\ insert' = [s \in Inserts |->
                                      IF s \in Generated(h, g) THEN clause ELSE insert[s]]
                      /\ askedUpsert' = [askedUpsert EXCEPT ![g] =
                            [update |-> UpdateOf(call), dict |-> dict]]
  BY DEF OnDuplicateKeyUpdate
<1>2. CASE raised' # "nothing"
  BY <1>1, <1>2 DEF ClausesAsAsked, Shapes
<1>3. CASE raised' = "nothing"
  <2> DEFINE clause == OnDuplicateClause(UpdateOf(call))
             asked == [update |-> UpdateOf(call), dict |-> dict]
  <2>1. IsMadeOf(clause, asked)
    BY <1>1, <1>3, AcceptedCall
  <2>2. /\ insert' = [s \in Inserts |-> IF s = g THEN clause ELSE insert[s]]
        /\ askedUpsert' = [askedUpsert EXCEPT ![g] = asked]
    BY <1>1, <1>3 DEF Generated
  <2> HIDE DEF clause, asked
  <2>3. /\ insert'[g] = clause /\ askedUpsert'[g] = asked
        /\ \A s \in Inserts : s # g => insert'[s] = insert[s] /\ askedUpsert'[s] = askedUpsert[s]
        /\ DOMAIN insert' = Inserts /\ DOMAIN askedUpsert' = Inserts
    BY <2>2 DEF Shapes
  <2>4. ASSUME NEW s \in Inserts
        PROVE  \/ insert'[s] = None /\ askedUpsert'[s] = None
               \/ IsMadeOf(insert'[s], askedUpsert'[s])
    <3>1. CASE s = g
      BY <3>1, <2>1, <2>3
    <3>2. CASE s # g
      BY <3>2, <2>3 DEF ClausesAsAsked
    <3>3. QED
      BY <3>1, <3>2
  <2>5. QED
    BY <2>3, <2>4 DEF ClausesAsAsked
<1>4. QED
  BY <1>2, <1>3

----------------------------------------------------------------------------
(* Merges *)

\* A call becomes the last of its kind, and leaves the last of the others alone.
LEMMA OneMoreCall ==
  ASSUME NEW asked \in Seq(AskedCalls), NEW call \in AskedCalls, NEW kind
  PROVE  LET more == Append(asked, call)
         IN  /\ more \in Seq(AskedCalls)
             /\ \E i \in DOMAIN more : IsLastCall(call.kind, more, i) /\ more[i] = call
             /\ kind # call.kind =>
                  /\ \A i \in DOMAIN asked : IsLastCall(kind, asked, i) =>
                       i \in DOMAIN more /\ IsLastCall(kind, more, i) /\ more[i] = asked[i]
                  /\ NoCall(kind, asked) => NoCall(kind, more)
<1> DEFINE more == Append(asked, call)
           n == Len(asked)
<1>1. /\ more \in Seq(AskedCalls) /\ Len(more) = n + 1 /\ n \in Nat
      /\ \A i \in 1..n : more[i] = asked[i]
      /\ more[n + 1] = call
  BY AppendProperties
<1>2. DOMAIN more = 1..(n + 1) /\ DOMAIN asked = 1..n
  BY <1>1
<1> HIDE DEF more, n
<1>3. IsLastCall(call.kind, more, n + 1) /\ n + 1 \in DOMAIN more
  <2>1. \A j \in (n + 1) + 1..Len(more) : FALSE
    BY <1>1
  <2>2. n + 1 \in DOMAIN more
    BY <1>1, <1>2
  <2>3. QED
    BY <1>1, <2>1, <2>2 DEF IsLastCall
<1>4. ASSUME kind # call.kind, NEW i \in DOMAIN asked, IsLastCall(kind, asked, i)
      PROVE  i \in DOMAIN more /\ IsLastCall(kind, more, i) /\ more[i] = asked[i]
  <2>1. i \in 1..n /\ i \in DOMAIN more /\ more[i] = asked[i]
    BY <1>1, <1>2
  <2>2. ASSUME NEW j \in i + 1..Len(more) PROVE more[j].kind # kind
    <3>1. CASE j = n + 1
      BY <3>1, <1>1, <1>4
    <3>2. CASE j # n + 1
      <4>1. j \in i + 1..Len(asked) /\ j \in 1..n
        BY <3>2, <1>1, <2>1 DEF n
      <4>2. QED
        BY <4>1, <1>1, <1>4 DEF IsLastCall
    <3>3. QED
      BY <3>1, <3>2
  <2>3. more[i].kind = kind
    BY <2>1, <1>4 DEF IsLastCall
  <2>4. QED
    BY <2>1, <2>2, <2>3 DEF IsLastCall
<1>5. ASSUME kind # call.kind, NoCall(kind, asked)
      PROVE  NoCall(kind, more)
  <2>1. SUFFICES ASSUME NEW i \in DOMAIN more PROVE more[i].kind # kind
    BY DEF NoCall
  <2>2. CASE i = n + 1
    BY <2>2, <1>1, <1>5
  <2>3. CASE i # n + 1
    <3>1. i \in 1..n
      BY <2>3, <1>1, <1>2
    <3>2. QED
      BY <3>1, <1>1, <1>2, <1>5 DEF NoCall
  <2>4. QED
    BY <2>2, <2>3
<1>6. QED
  BY <1>1, <1>3, <1>4, <1>5 DEF more

\* The call that IsLastCall names is the one that LastCall takes.
LEMMA LastCallIs ==
  ASSUME NEW asked \in Seq(AskedCalls), NEW kind, NEW i \in DOMAIN asked,
         IsLastCall(kind, asked, i)
  PROVE  LastCall(kind, asked) = asked[i] /\ ~NoCall(kind, asked)
<1> DEFINE last == CHOOSE k \in DOMAIN asked : IsLastCall(kind, asked, k)
<1>1. DOMAIN asked = 1..Len(asked) /\ Len(asked) \in Nat
  OBVIOUS
<1>2. last \in DOMAIN asked /\ IsLastCall(kind, asked, last)
  OBVIOUS
<1>3. LastCall(kind, asked) = asked[last]
  BY DEF LastCall
<1> HIDE DEF last
<1>4. i = last
  <2>1. ~ (i < last)
    <3>1. SUFFICES ASSUME i < last PROVE FALSE
      OBVIOUS
    <3>2. last \in i + 1..Len(asked)
      BY <1>1, <1>2, <3>1
    <3>3. QED
      BY <3>2, <1>2 DEF IsLastCall
  <2>2. ~ (last < i)
    <3>1. SUFFICES ASSUME last < i PROVE FALSE
      OBVIOUS
    <3>2. i \in last + 1..Len(asked)
      BY <1>1, <1>2, <3>1
    <3>3. QED
      BY <3>2, <1>2 DEF IsLastCall
  <2>3. QED
    BY <1>1, <1>2, <2>1, <2>2
<1>5. QED
  BY <1>3, <1>4 DEF IsLastCall, NoCall

\* What one call leaves of the other parts of a MERGE.
LEMMA OtherPartsStay ==
  ASSUME NEW asked \in Seq(AskedCalls), NEW call \in AskedCalls
  PROVE  LET more == Append(asked, call)
         IN  /\ \A kind, argument : (kind # call.kind /\ IsLastArgument(kind, argument, asked))
                                       => IsLastArgument(kind, argument, more)
             /\ \A kind, part : (kind # call.kind /\ IsOfLastCall(kind, part, asked))
                                       => IsOfLastCall(kind, part, more)
             /\ \A part : (call.kind # "delete" /\ IsOfLastDelete(part, asked))
                                       => IsOfLastDelete(part, more)
<1> DEFINE more == Append(asked, call)
<1>1. \A kind : kind # call.kind =>
         /\ \A i \in DOMAIN asked : IsLastCall(kind, asked, i) =>
              i \in DOMAIN more /\ IsLastCall(kind, more, i) /\ more[i] = asked[i]
         /\ NoCall(kind, asked) => NoCall(kind, more)
  BY OneMoreCall
<1> HIDE DEF more
<1>2. \A kind, argument : (kind # call.kind /\ IsLastArgument(kind, argument, asked))
                             => IsLastArgument(kind, argument, more)
  BY <1>1 DEF IsLastArgument
<1>3. \A kind, part : (kind # call.kind /\ IsOfLastCall(kind, part, asked))
                             => IsOfLastCall(kind, part, more)
  BY <1>1 DEF IsOfLastCall
<1>4. \A part : (call.kind # "delete" /\ IsOfLastDelete(part, asked))
                             => IsOfLastDelete(part, more)
  BY <1>1 DEF IsOfLastDelete
<1>5. QED
  BY <1>2, <1>3, <1>4 DEF more

\* A method changes its part to what it is called with.
LEMMA UsingReflects ==
  ASSUME Shapes, NEW m \in MergeStates, NEW asked \in Seq(AskedCalls),
         NEW source \in Sources
  PROVE  /\ Using(m, source) \in MergeStates /\ Asked("using", None, source) \in AskedCalls
         /\ Reflects(m, asked) =>
              Reflects(Using(m, source), Append(asked, Asked("using", None, source)))
<1> DEFINE call == Asked("using", None, source)
           more == Append(asked, call)
           n == Using(m, source)
<1>1. call \in AskedCalls /\ call.kind = "using" /\ call.argument = source
  BY EmptyItems DEF Asked, AskedCalls
<1>2. /\ n \in MergeStates /\ n.source = source /\ n.on = m.on
      /\ n.update = m.update /\ n.delete = m.delete /\ n.insert = m.insert
  BY DEF Using, MergeStates
<1> HIDE DEF n, call
<1>3. IsLastArgument("using", source, more)
  <2>1. \E i \in DOMAIN more : IsLastCall(call.kind, more, i) /\ more[i] = call
    BY <1>1, OneMoreCall
  <2>2. source # None
    BY StatementsAssumption
  <2> HIDE DEF more
  <2>3. QED
    BY <1>1, <2>1, <2>2 DEF IsLastArgument
<1>4. Reflects(m, asked) =>
        /\ IsLastArgument("on", m.on, more)
        /\ IsOfLastCall("update", m.update, more)
        /\ IsOfLastDelete(m.delete, more)
        /\ IsOfLastCall("insert", m.insert, more)
  BY <1>1, OtherPartsStay DEF Reflects
<1>5. QED
  BY <1>1, <1>2, <1>3, <1>4 DEF Reflects, n, call

LEMMA OnReflects ==
  ASSUME Shapes, NEW m \in MergeStates, NEW asked \in Seq(AskedCalls),
         NEW condition \in Conditions
  PROVE  /\ On(m, condition) \in MergeStates /\ Asked("on", None, condition) \in AskedCalls
         /\ Reflects(m, asked) =>
              Reflects(On(m, condition), Append(asked, Asked("on", None, condition)))
<1> DEFINE call == Asked("on", None, condition)
           more == Append(asked, call)
           n == On(m, condition)
<1>1. call \in AskedCalls /\ call.kind = "on" /\ call.argument = condition
  BY EmptyItems DEF Asked, AskedCalls
<1>2. /\ n \in MergeStates /\ n.source = m.source /\ n.on = condition
      /\ n.update = m.update /\ n.delete = m.delete /\ n.insert = m.insert
  BY DEF On, MergeStates
<1> HIDE DEF n, call
<1>3. IsLastArgument("on", condition, more)
  <2>1. \E i \in DOMAIN more : IsLastCall(call.kind, more, i) /\ more[i] = call
    BY <1>1, OneMoreCall
  <2>2. condition # None
    BY StatementsAssumption
  <2> HIDE DEF more
  <2>3. QED
    BY <1>1, <2>1, <2>2 DEF IsLastArgument
<1>4. Reflects(m, asked) =>
        /\ IsLastArgument("using", m.source, more)
        /\ IsOfLastCall("update", m.update, more)
        /\ IsOfLastDelete(m.delete, more)
        /\ IsOfLastCall("insert", m.insert, more)
  BY <1>1, OtherPartsStay DEF Reflects
<1>5. QED
  BY <1>1, <1>2, <1>3, <1>4 DEF Reflects, n, call

LEMMA UpdateReflects ==
  ASSUME Shapes, NEW m \in MergeStates, NEW asked \in Seq(AskedCalls),
         NEW d \in Dicts, NEW condition \in Conditions \cup {None}
  PROVE  /\ WhenMatchedThenUpdate(m, d, condition) \in MergeStates
         /\ Asked("update", d, condition) \in AskedCalls
         /\ Reflects(m, asked) =>
              Reflects(WhenMatchedThenUpdate(m, d, condition),
                       Append(asked, Asked("update", d, condition)))
<1> DEFINE call == Asked("update", d, condition)
           more == Append(asked, call)
           n == WhenMatchedThenUpdate(m, d, condition)
           part == [values |-> d, condition |-> condition]
<1>1. call \in AskedCalls /\ call.kind = "update" /\ call.argument = condition /\ call.dict = d
  BY EmptyItems, StatementsAssumption DEF Asked, AskedCalls, Shapes
<1>2. /\ n \in MergeStates /\ n.source = m.source /\ n.on = m.on
      /\ n.update = part /\ n.delete = m.delete /\ n.insert = m.insert
  BY DEF WhenMatchedThenUpdate, MergeStates
<1>3. part.values = d /\ part.condition = condition
  OBVIOUS
<1> HIDE DEF n, call, part
<1>4. IsOfLastCall("update", part, more)
  <2>1. \E i \in DOMAIN more : IsLastCall(call.kind, more, i) /\ more[i] = call
    BY <1>1, OneMoreCall
  <2> HIDE DEF more
  <2>2. QED
    BY <1>1, <1>3, <2>1 DEF IsOfLastCall
<1>5. Reflects(m, asked) =>
        /\ IsLastArgument("using", m.source, more)
        /\ IsLastArgument("on", m.on, more)
        /\ IsOfLastDelete(m.delete, more)
        /\ IsOfLastCall("insert", m.insert, more)
  BY <1>1, OtherPartsStay DEF Reflects
<1>6. QED
  BY <1>1, <1>2, <1>4, <1>5 DEF Reflects, n, call

LEMMA InsertReflects ==
  ASSUME Shapes, NEW m \in MergeStates, NEW asked \in Seq(AskedCalls),
         NEW d \in Dicts, NEW condition \in Conditions \cup {None}
  PROVE  /\ WhenNotMatchedThenInsert(m, d, condition) \in MergeStates
         /\ Asked("insert", d, condition) \in AskedCalls
         /\ Reflects(m, asked) =>
              Reflects(WhenNotMatchedThenInsert(m, d, condition),
                       Append(asked, Asked("insert", d, condition)))
<1> DEFINE call == Asked("insert", d, condition)
           more == Append(asked, call)
           n == WhenNotMatchedThenInsert(m, d, condition)
           part == [values |-> d, condition |-> condition]
<1>1. call \in AskedCalls /\ call.kind = "insert" /\ call.argument = condition /\ call.dict = d
  BY EmptyItems, StatementsAssumption DEF Asked, AskedCalls, Shapes
<1>2. /\ n \in MergeStates /\ n.source = m.source /\ n.on = m.on
      /\ n.update = m.update /\ n.delete = m.delete /\ n.insert = part
  BY DEF WhenNotMatchedThenInsert, MergeStates
<1>3. part.values = d /\ part.condition = condition
  OBVIOUS
<1> HIDE DEF n, call, part
<1>4. IsOfLastCall("insert", part, more)
  <2>1. \E i \in DOMAIN more : IsLastCall(call.kind, more, i) /\ more[i] = call
    BY <1>1, OneMoreCall
  <2> HIDE DEF more
  <2>2. QED
    BY <1>1, <1>3, <2>1 DEF IsOfLastCall
<1>5. Reflects(m, asked) =>
        /\ IsLastArgument("using", m.source, more)
        /\ IsLastArgument("on", m.on, more)
        /\ IsOfLastCall("update", m.update, more)
        /\ IsOfLastDelete(m.delete, more)
  BY <1>1, OtherPartsStay DEF Reflects
<1>6. QED
  BY <1>1, <1>2, <1>4, <1>5 DEF Reflects, n, call

LEMMA DeleteReflects ==
  ASSUME Shapes, NEW m \in MergeStates, NEW asked \in Seq(AskedCalls),
         NEW condition \in Conditions \cup {None}
  PROVE  /\ WhenMatchedThenDelete(m, condition) \in MergeStates
         /\ Asked("delete", None, condition) \in AskedCalls
         /\ Reflects(m, asked) =>
              Reflects(WhenMatchedThenDelete(m, condition),
                       Append(asked, Asked("delete", None, condition)))
<1> DEFINE call == Asked("delete", None, condition)
           more == Append(asked, call)
           n == WhenMatchedThenDelete(m, condition)
           part == [asked |-> TRUE, condition |-> condition]
<1>1. /\ call \in AskedCalls /\ call.kind = "delete" /\ call.argument = condition
      /\ call.items = Empty
  BY EmptyItems DEF Asked, AskedCalls
<1>2. /\ n \in MergeStates /\ n.source = m.source /\ n.on = m.on
      /\ n.update = m.update /\ n.delete = part /\ n.insert = m.insert
  BY DEF WhenMatchedThenDelete, MergeStates
<1>3. part.asked /\ part.condition = condition
  OBVIOUS
<1> HIDE DEF n, call, part
<1>4. IsOfLastDelete(part, more)
  <2>1. \E i \in DOMAIN more : IsLastCall(call.kind, more, i) /\ more[i] = call
    BY <1>1, OneMoreCall
  <2> HIDE DEF more
  <2>2. QED
    BY <1>1, <1>3, <2>1 DEF IsOfLastDelete
<1>5. Reflects(m, asked) =>
        /\ IsLastArgument("using", m.source, more)
        /\ IsLastArgument("on", m.on, more)
        /\ IsOfLastCall("update", m.update, more)
        /\ IsOfLastCall("insert", m.insert, more)
  BY <1>1, OtherPartsStay DEF Reflects
<1>6. QED
  BY <1>1, <1>2, <1>4, <1>5 DEF Reflects, n, call

\* A call on handle h, assigned to g: the only handle that came to the object by all
\* its calls is now g, if h was one; the others of this object are none any more.
LEMMA MergeCallKeepsMerges ==
  ASSUME Shapes, MergesReflect, NEW h \in Merges, NEW g \in Merges,
         NEW m \in MergeStates, NEW call \in AskedCalls, MergeCall(h, g, m, call),
         Reflects(merge[object[h]], askedMerge[h]) => Reflects(m, Append(askedMerge[h], call))
  PROVE  Shapes' /\ MergesReflect'
<1> DEFINE o == object[h]
           more == Append(askedMerge[h], call)
<1>1. /\ o \in Merges /\ merge[o] \in MergeStates /\ askedMerge[h] \in Seq(AskedCalls)
      /\ more \in Seq(AskedCalls)
  BY AppendProperties DEF Shapes
<1> HIDE DEF more
<1>2. /\ merge' = [merge EXCEPT ![o] = m]
      /\ object' = [object EXCEPT ![g] = o]
      /\ askedMerge' = [askedMerge EXCEPT ![g] = more]
      /\ informed' = [p \in Merges |->
                         IF p # o THEN informed[p] \ {g}
                         ELSE IF h \in informed[p] THEN {g} ELSE {}]
      /\ raised' = "nothing"
      /\ UNCHANGED <<dict, insert, askedUpsert>>
      /\ calls < MaxCalls /\ calls' = calls + 1
  BY DEF MergeCall, Count, more
<1> HIDE DEF o
<1>3. Shapes'
  <2>1. merge' \in [Merges -> MergeStates] /\ object' \in [Merges -> Merges]
    BY <1>1, <1>2 DEF Shapes
  <2>2. askedMerge' \in [Merges -> Seq(AskedCalls)]
    BY <1>1, <1>2 DEF Shapes
  <2>3. informed' \in [Merges -> SUBSET Merges]
    BY <1>2 DEF Shapes
  <2>4. calls' \in 0..MaxCalls
    BY <1>2, StatementsAssumption DEF Shapes
  <2>5. dict' \in [Dicts -> Items] /\ DOMAIN insert' = Inserts /\ DOMAIN askedUpsert' = Inserts
    BY <1>2 DEF Shapes
  <2>6. QED
    BY <2>1, <2>2, <2>3, <2>4, <2>5, <1>2 DEF Shapes
<1>4. ASSUME NEW k \in Merges, k \in informed'[object'[k]]
      PROVE  Reflects(merge'[object'[k]], askedMerge'[k])
  <2>1. CASE k = g
    <3>1. object'[k] = o /\ merge'[o] = m /\ askedMerge'[k] = more
      BY <2>1, <1>1, <1>2 DEF Shapes
    <3>2. h \in informed[o]
      BY <3>1, <1>1, <1>2, <1>4
    <3>3. Reflects(merge[o], askedMerge[h])
      BY <3>2 DEF MergesReflect, o
    <3>4. Reflects(m, more)
      BY <3>3 DEF more, o
    <3>5. QED
      BY <3>1, <3>4
  <2>2. CASE k # g
    <3>1. object'[k] = object[k] /\ askedMerge'[k] = askedMerge[k] /\ object[k] \in Merges
      BY <2>2, <1>2 DEF Shapes
    <3>2. object[k] # o
      <4>1. SUFFICES ASSUME object[k] = o PROVE FALSE
        OBVIOUS
      <4>2. informed'[o] \subseteq {g}
        BY <1>1, <1>2
      <4>3. QED
        BY <1>4, <2>2, <3>1, <4>1, <4>2
    <3>3. k \in informed[object[k]] /\ merge'[object[k]] = merge[object[k]]
      BY <1>1, <1>2, <1>4, <3>1, <3>2 DEF Shapes
    <3>4. QED
      BY <3>1, <3>3 DEF MergesReflect
  <2>3. QED
    BY <2>1, <2>2
<1>5. QED
  BY <1>3, <1>4 DEF MergesReflect

----------------------------------------------------------------------------
(* Every step *)

LEMMA InitInv == Init => IInv
<1> SUFFICES ASSUME Init PROVE IInv
  OBVIOUS
<1>1. PICK source \in Sources, condition \in Conditions :
        /\ merge = [h \in Merges |-> On(Using(NewMerge, source), condition)]
        /\ askedMerge = [h \in Merges |->
                           << Asked("using", None, source), Asked("on", None, condition) >>]
  BY DEF Init
<1> DEFINE m == On(Using(NewMerge, source), condition)
           first == Asked("using", None, source)
           second == Asked("on", None, condition)
           asked == << first, second >>
<1>2. /\ first \in AskedCalls /\ first.kind = "using" /\ first.argument = source
      /\ second \in AskedCalls /\ second.kind = "on" /\ second.argument = condition
  BY EmptyItems DEF Asked, AskedCalls
<1>3. /\ m \in MergeStates /\ m.source = source /\ m.on = condition
      /\ m.update.values = None /\ m.delete.asked = FALSE /\ m.insert.values = None
  BY DEF On, Using, NewMerge, MergeStates
<1> HIDE DEF m, first, second
<1>4. /\ asked \in Seq(AskedCalls) /\ Len(asked) = 2 /\ DOMAIN asked = 1..2
      /\ asked[1] = first /\ asked[2] = second
  BY <1>2
<1> HIDE DEF asked
<1>5. source # None /\ condition # None
  BY StatementsAssumption
<1>6. Reflects(m, asked)
  <2>1. \A i \in DOMAIN asked : i = 1 \/ i = 2
    BY <1>4
  <2>2. /\ NoCall("update", asked) /\ NoCall("delete", asked) /\ NoCall("insert", asked)
    BY <1>2, <1>4, <2>1 DEF NoCall
  <2>3. IsLastCall("using", asked, 1)
    <3>1. \A j \in 1 + 1..Len(asked) : j = 2
      BY <1>4
    <3>2. QED
      BY <1>2, <1>4, <3>1 DEF IsLastCall
  <2>4. IsLastCall("on", asked, 2)
    <3>1. \A j \in 2 + 1..Len(asked) : FALSE
      BY <1>4
    <3>2. QED
      BY <1>2, <1>4, <3>1 DEF IsLastCall
  <2>5. IsLastArgument("using", m.source, asked)
    BY <1>2, <1>3, <1>4, <1>5, <2>3 DEF IsLastArgument
  <2>6. IsLastArgument("on", m.on, asked)
    BY <1>2, <1>3, <1>4, <1>5, <2>4 DEF IsLastArgument
  <2>7. /\ IsOfLastCall("update", m.update, asked) /\ IsOfLastCall("insert", m.insert, asked)
    BY <1>3, <2>2 DEF IsOfLastCall
  <2>8. IsOfLastDelete(m.delete, asked)
    BY <1>3, <2>2 DEF IsOfLastDelete
  <2>9. QED
    BY <2>5, <2>6, <2>7, <2>8 DEF Reflects
<1>7. merge = [h \in Merges |-> m] /\ askedMerge = [h \in Merges |-> asked]
  BY <1>1 DEF m, first, second, asked
<1>8. Shapes
  <2>1. dict \in [Dicts -> Items]
    BY StatementsAssumption DEF Init
  <2>2. merge \in [Merges -> MergeStates] /\ askedMerge \in [Merges -> Seq(AskedCalls)]
    BY <1>3, <1>4, <1>7
  <2>3. /\ object \in [Merges -> Merges] /\ informed \in [Merges -> SUBSET Merges]
        /\ DOMAIN insert = Inserts /\ DOMAIN askedUpsert = Inserts
        /\ raised = "nothing"
    BY DEF Init
  <2>4. calls \in 0..MaxCalls
    BY StatementsAssumption DEF Init
  <2>5. QED
    BY <2>1, <2>2, <2>3, <2>4 DEF Shapes
<1>9. ClausesAsAsked
  BY DEF Init, ClausesAsAsked
<1>10. MergesReflect
  <2>1. \A h \in Merges : object[h] = h
    BY DEF Init
  <2>2. QED
    BY <1>6, <1>7, <2>1 DEF MergesReflect
<1>11. QED
  BY <1>8, <1>9, <1>10 DEF IInv

LEMMA ChangeDictInv ==
  ASSUME IInv, ChangeDict
  PROVE  IInv'
<1>1. Shapes /\ ClausesAsAsked /\ MergesReflect
  BY DEF IInv
<1>2. PICK d \in Dicts, key \in Keys :
        dict' = [dict EXCEPT ![d] =
                   IF key \in DOMAIN @
                     THEN [k \in DOMAIN @ \ {key} |-> @[k]]
                     ELSE [k \in DOMAIN @ \cup {key} |->
                             IF k = key THEN CHOOSE v \in Values : TRUE ELSE @[k]]]
  BY DEF ChangeDict
<1> DEFINE old == dict[d]
           fewer == [k \in DOMAIN old \ {key} |-> old[k]]
           v == CHOOSE w \in Values : TRUE
           more == [k \in DOMAIN old \cup {key} |-> IF k = key THEN v ELSE old[k]]
<1>3. old \in Items
  BY <1>1 DEF Shapes
<1>4. v \in Values
  BY StatementsAssumption
<1> HIDE DEF old, v
<1>5. DOMAIN old \subseteq Keys /\ \A k \in DOMAIN old : old[k] \in Values
  BY <1>3, ItemsAre
<1>6. fewer \in Items
  <2>1. DOMAIN fewer \subseteq Keys /\ fewer \in [DOMAIN fewer -> Values]
    BY <1>5
  <2> HIDE DEF fewer
  <2>2. QED
    BY <2>1, ItemsAre
<1>7. more \in Items
  <2>1. DOMAIN more \subseteq Keys /\ more \in [DOMAIN more -> Values]
    BY <1>4, <1>5
  <2> HIDE DEF more
  <2>2. QED
    BY <2>1, ItemsAre
<1>8. dict' = [dict EXCEPT ![d] = IF key \in DOMAIN old THEN fewer ELSE more]
  BY <1>2 DEF old, v
<1> HIDE DEF fewer, more
<1>9. dict' \in [Dicts -> Items]
  BY <1>1, <1>6, <1>7, <1>8 DEF Shapes
<1>10. /\ UNCHANGED <<insert, askedUpsert, object, merge, askedMerge, informed>>
       /\ raised' = "nothing" /\ calls < MaxCalls /\ calls' = calls + 1
  BY DEF ChangeDict, Count
<1>11. calls' \in 0..MaxCalls
  BY <1>1, <1>10, StatementsAssumption DEF Shapes
<1>12. Shapes'
  BY <1>1, <1>9, <1>10, <1>11 DEF Shapes
<1>13. ClausesAsAsked' /\ MergesReflect'
  BY <1>1, <1>10 DEF ClausesAsAsked, MergesReflect
<1>14. QED
  BY <1>12, <1>13 DEF IInv

LEMMA UpsertInv ==
  ASSUME IInv, OnDuplicateKeyUpdate
  PROVE  IInv'
<1>1. Shapes /\ ClausesAsAsked /\ MergesReflect
  BY DEF IInv
<1>2. ClausesAsAsked' /\ DOMAIN insert' = Inserts /\ DOMAIN askedUpsert' = Inserts
  BY <1>1, UpsertKeepsClauses
<1>3. /\ UNCHANGED <<dict, object, merge, askedMerge, informed>>
      /\ calls < MaxCalls /\ calls' = calls + 1
  BY DEF OnDuplicateKeyUpdate, Count
<1>4. raised' \in {"nothing", "ArgumentError", "InvalidRequestError", "ValueError"}
  BY DEF OnDuplicateKeyUpdate, Raises
<1>5. calls' \in 0..MaxCalls
  BY <1>1, <1>3, StatementsAssumption DEF Shapes
<1>6. Shapes'
  BY <1>1, <1>2, <1>3, <1>4, <1>5 DEF Shapes
<1>7. MergesReflect'
  BY <1>1, <1>3 DEF MergesReflect
<1>8. QED
  BY <1>2, <1>6, <1>7 DEF IInv

LEMMA MergeCallsInv ==
  ASSUME IInv, CallUsing \/ CallOn \/ CallUpdate \/ CallDelete \/ CallInsert
  PROVE  IInv'
<1>1. Shapes /\ ClausesAsAsked /\ MergesReflect
  BY DEF IInv
<1>2. \A h \in Merges :
        object[h] \in Merges /\ merge[object[h]] \in MergeStates /\ askedMerge[h] \in Seq(AskedCalls)
  BY <1>1 DEF Shapes
<1>3. ASSUME NEW h \in Merges, NEW g \in Merges, NEW m, NEW call, MergeCall(h, g, m, call),
             m \in MergeStates, call \in AskedCalls,
             Reflects(merge[object[h]], askedMerge[h]) => Reflects(m, Append(askedMerge[h], call))
      PROVE  IInv'
  <2>1. Shapes' /\ MergesReflect'
    BY <1>1, <1>3, MergeCallKeepsMerges
  <2>2. UNCHANGED <<insert, askedUpsert>>
    BY <1>3 DEF MergeCall
  <2>3. ClausesAsAsked'
    BY <1>1, <2>2 DEF ClausesAsAsked
  <2>4. QED
    BY <2>1, <2>3 DEF IInv
<1>4. CASE CallUsing
  <2>1. PICK h \in Merges, g \in Merges, source \in Sources :
          MergeCall(h, g, Using(merge[object[h]], source), Asked("using", None, source))
    BY <1>4 DEF CallUsing
  <2>2. QED
    BY <1>1, <1>2, <1>3, <2>1, UsingReflects
<1>5. CASE CallOn
  <2>1. PICK h \in Merges, g \in Merges, c \in Conditions :
          MergeCall(h, g, On(merge[object[h]], c), Asked("on", None, c))
    BY <1>5 DEF CallOn
  <2>2. QED
    BY <1>1, <1>2, <1>3, <2>1, OnReflects
<1>6. CASE CallUpdate
  <2>1. PICK h \in Merges, g \in Merges, d \in Dicts, c \in Conditions \cup {None} :
          MergeCall(h, g, WhenMatchedThenUpdate(merge[object[h]], d, c), Asked("update", d, c))
    BY <1>6 DEF CallUpdate
  <2>2. QED
    BY <1>1, <1>2, <1>3, <2>1, UpdateReflects
<1>7. CASE CallDelete
  <2>1. PICK h \in Merges, g \in Merges, c \in Conditions \cup {None} :
          MergeCall(h, g, WhenMatchedThenDelete(merge[object[h]], c), Asked("delete", None, c))
    BY <1>7 DEF CallDelete
  <2>2. QED
    BY <1>1, <1>2, <1>3, <2>1, DeleteReflects
<1>8. CASE CallInsert
  <2>1. PICK h \in Merges, g \in Merges, d \in Dicts, c \in Conditions \cup {None} :
          MergeCall(h, g, WhenNotMatchedThenInsert(merge[object[h]], d, c), Asked("insert", d, c))
    BY <1>8 DEF CallInsert
  <2>2. QED
    BY <1>1, <1>2, <1>3, <2>1, InsertReflects
<1>9. QED
  BY <1>4, <1>5, <1>6, <1>7, <1>8

LEMMA NextInv ==
  ASSUME IInv, [Next]_vars
  PROVE  IInv'
<1>1. CASE ChangeDict
  BY <1>1, ChangeDictInv
<1>2. CASE OnDuplicateKeyUpdate
  BY <1>2, UpsertInv
<1>3. CASE CallUsing \/ CallOn \/ CallUpdate \/ CallDelete \/ CallInsert
  BY <1>3, MergeCallsInv
<1>4. CASE UNCHANGED vars
  <2>1. Shapes'
    BY <1>4 DEF IInv, Shapes, vars
  <2>2. ClausesAsAsked' /\ MergesReflect'
    BY <1>4 DEF IInv, ClausesAsAsked, MergesReflect, vars
  <2>3. QED
    BY <2>1, <2>2 DEF IInv
<1>5. QED
  BY <1>1, <1>2, <1>3, <1>4 DEF Next

LEMMA SpecInv == Spec => []IInv
BY InitInv, NextInv, PTL DEF Spec

----------------------------------------------------------------------------
(* The theorems *)

\* Type correctness, for any calls: and no clause that is kept was made of nothing,
\* but for one of a ColumnCollection.
THEOREM TypeCorrect == Spec => []TypeOK
<1>1. IInv => TypeOK
  <2> SUFFICES ASSUME IInv PROVE TypeOK
    OBVIOUS
  <2>1. Shapes /\ ClausesAsAsked
    BY DEF IInv
  <2>2. ASSUME NEW h \in Inserts, insert[h] # None
        PROVE  /\ insert[h].dict \in Dicts \cup {None}
               /\ IsItems(insert[h].items)
               /\ insert[h].dict = None /\ askedUpsert[h].update.kind # "columns" =>
                     insert[h].items # Empty
    <3> DEFINE clause == insert[h]
               update == askedUpsert[h].update
    <3>1. IsMadeOf(clause, askedUpsert[h])
      BY <2>1, <2>2 DEF ClausesAsAsked
    <3>2. /\ clause \in Clauses /\ IsUpdate(update) /\ update.kind # "other"
          /\ clause = OnDuplicateClause(update)
          /\ update.kind = "kw" => update.items # Empty
          /\ update.kind = "list" => update.pairs # <<>>
      BY <3>1 DEF IsMadeOf
    <3> HIDE DEF clause, update
    <3>3. clause.dict \in Dicts \cup {None} /\ clause.items \in Items
      BY <3>2 DEF Clauses
    <3>4. IsItems(clause.items)
      BY <3>3, ItemsAre DEF IsItems
    <3>5. ASSUME clause.dict = None, update.kind # "columns" PROVE clause.items # Empty
      <4>1. CASE update.kind = "dict"
        <5>1. clause.dict = update.dict /\ update.dict \in Dicts
          BY <3>2, <4>1, ClauseOfUpdate DEF IsUpdate
        <5>2. QED
          BY <3>5, <5>1, StatementsAssumption
      <4>2. CASE update.kind = "kw"
        <5>1. clause.items = update.items
          BY <3>2, <4>2, ClauseOfUpdate
        <5>2. QED
          BY <3>2, <4>2, <5>1
      <4>3. CASE update.kind = "list"
        <5>1. clause.items = FromPairs(update.pairs)
          BY <3>2, <4>3, ClauseOfUpdate
        <5>2. update.pairs \in Seq(Keys \X Values) /\ update.pairs # <<>>
          BY <3>2, <4>3 DEF IsUpdate
        <5>3. 1 \in DOMAIN update.pairs
          BY <5>2
        <5>4. DOMAIN FromPairs(update.pairs) # {}
          <6>1. DOMAIN FromPairs(update.pairs)
                  = { update.pairs[i][1] : i \in DOMAIN update.pairs }
            BY <5>2, FromPairsItems
          <6>2. update.pairs[1][1] \in { update.pairs[i][1] : i \in DOMAIN update.pairs }
            BY <5>3
          <6>3. QED
            BY <6>1, <6>2
        <5>5. QED
          BY <5>1, <5>4, EmptyItems
      <4>4. QED
        BY <3>2, <3>5, <4>1, <4>2, <4>3 DEF IsUpdate
    <3>6. QED
      BY <3>3, <3>4, <3>5 DEF clause, update
  <2>3. ASSUME NEW h \in Merges
        PROVE  /\ {merge[h].update.values, merge[h].insert.values} \subseteq Dicts \cup {None}
               /\ { merge[h].update.condition, merge[h].insert.condition,
                    merge[h].delete.condition } \subseteq Conditions \cup {None}
               /\ informed[h] \subseteq Merges
    <3>1. merge[h] \in MergeStates /\ informed[h] \in SUBSET Merges
      BY <2>1 DEF Shapes
    <3>2. QED
      BY <3>1 DEF MergeStates
  <2>4. QED
    BY <2>1, <2>2, <2>3 DEF TypeOK, Shapes
<1>2. QED
  BY <1>1, SpecInv, PTL

\* Whatever was called on other handles, in whatever order, and whatever calls were
\* refused: a handle's Insert compiles to the columns its own call named, in the order
\* of its list and with the values they were given.
THEOREM UpsertsAsAsked == Spec => []UpsertAsAsked
<1>1. IInv => UpsertAsAsked
  <2> SUFFICES ASSUME IInv, NEW h \in Inserts
               PROVE  /\ (insert[h] = None) = (askedUpsert[h] = None)
                      /\ insert[h] # None /\ Reliable(askedUpsert[h]) =>
                            LET order == OrderGiven(askedUpsert[h])
                            IN  VisitOnDuplicateKeyUpdate(insert[h]) =
                                   [i \in DOMAIN order |->
                                      <<order[i], Given(askedUpsert[h])[order[i]]>>]
    BY DEF UpsertAsAsked
  <2>1. \/ insert[h] = None /\ askedUpsert[h] = None
        \/ IsMadeOf(insert[h], askedUpsert[h])
    BY DEF IInv, ClausesAsAsked
  <2>2. IsMadeOf(insert[h], askedUpsert[h]) => insert[h] # None /\ askedUpsert[h] # None
    BY StatementsAssumption DEF IsMadeOf
  <2>3. QED
    BY <2>1, <2>2, ClauseCompiles
<1>2. QED
  BY <1>1, SpecInv, PTL

\* The WHEN clause of a part is the last call for it, with its own values.
LEMMA ValuesClauseIs ==
  ASSUME NEW asked \in Seq(AskedCalls), NEW part, NEW kind \in {"update", "insert"},
         IsOfLastCall(kind, part, asked),
         \A i \in DOMAIN asked : asked[i].dict # None => dict[asked[i].dict] = asked[i].items
  PROVE  ValuesClause(kind, part) = WhenAsked(kind, asked)
<1>0. None \notin Dicts /\ kind # "delete"
  BY StatementsAssumption
<1>1. CASE part.values = None /\ NoCall(kind, asked)
  <2>1. ValuesClause(kind, part) = <<>>
    BY <1>1 DEF ValuesClause
  <2>2. WhenAsked(kind, asked) = <<>>
    BY <1>1 DEF WhenAsked, NoCall
  <2>3. QED
    BY <2>1, <2>2
<1>2. ASSUME NEW i \in DOMAIN asked, IsLastCall(kind, asked, i), part.values \in Dicts,
             asked[i].dict = part.values, asked[i].argument = part.condition
      PROVE  ValuesClause(kind, part) = WhenAsked(kind, asked)
  <2>1. LastCall(kind, asked) = asked[i] /\ ~NoCall(kind, asked)
    BY <1>2, LastCallIs
  <2>2. dict[part.values] = asked[i].items /\ part.values # None
    BY <1>0, <1>2
  <2>3. WhenAsked(kind, asked)
          = IF asked[i].items = Empty THEN <<>>
            ELSE <<Clause(kind, asked[i].items, asked[i].argument)>>
    BY <1>0, <2>1 DEF WhenAsked, NoCall
  <2>4. QED
    BY <1>2, <2>2, <2>3 DEF ValuesClause
<1>3. QED
  BY <1>1, <1>2 DEF IsOfLastCall

LEMMA DeleteClauseIs ==
  ASSUME NEW asked \in Seq(AskedCalls), NEW part, IsOfLastDelete(part, asked)
  PROVE  (IF part.asked THEN <<Clause("delete", Empty, part.condition)>> ELSE <<>>)
           = WhenAsked("delete", asked)
<1>1. CASE ~part.asked /\ NoCall("delete", asked)
  BY <1>1 DEF WhenAsked, NoCall
<1>2. ASSUME part.asked, NEW i \in DOMAIN asked, IsLastCall("delete", asked, i),
             asked[i].items = Empty, asked[i].argument = part.condition
      PROVE  (IF part.asked THEN <<Clause("delete", Empty, part.condition)>> ELSE <<>>)
               = WhenAsked("delete", asked)
  <2>1. LastCall("delete", asked) = asked[i] /\ ~NoCall("delete", asked)
    BY <1>2, LastCallIs
  <2>2. WhenAsked("delete", asked) = <<Clause("delete", asked[i].items, asked[i].argument)>>
    BY <2>1 DEF WhenAsked, NoCall
  <2>3. QED
    BY <1>2, <2>2
<1>3. QED
  BY <1>1, <1>2 DEF IsOfLastDelete

\* A MERGE compiles to what the calls that led to its handle say, the last of each
\* kind, for any number of handles on any number of objects.
THEOREM MergesAsAsked == Spec => []MergeAsAsked
<1>1. IInv => MergeAsAsked
  <2> SUFFICES ASSUME IInv, NEW h \in Merges, h \in informed[object[h]],
                      \A i \in DOMAIN askedMerge[h] :
                         LET call == askedMerge[h][i]
                         IN  call.dict # None => dict[call.dict] = call.items
               PROVE  VisitMerge(merge[object[h]]) =
                        [ using |-> LastCall("using", askedMerge[h]).argument,
                          on    |-> LastCall("on", askedMerge[h]).argument,
                          whens |-> WhenAsked("update", askedMerge[h])
                                      \o WhenAsked("delete", askedMerge[h])
                                      \o WhenAsked("insert", askedMerge[h]) ]
    BY DEF MergeAsAsked
  <2> DEFINE m == merge[object[h]]
             asked == askedMerge[h]
  <2>1. asked \in Seq(AskedCalls) /\ Reflects(m, asked)
    BY DEF IInv, Shapes, MergesReflect
  <2>2. \A i \in DOMAIN asked : asked[i].dict # None => dict[asked[i].dict] = asked[i].items
    OBVIOUS
  <2> HIDE DEF m, asked
  <2>3. m.source # None /\ LastCall("using", asked).argument = m.source
    BY <2>1, LastCallIs DEF Reflects, IsLastArgument
  <2>4. m.on # None /\ LastCall("on", asked).argument = m.on
    BY <2>1, LastCallIs DEF Reflects, IsLastArgument
  <2>5. ValuesClause("update", m.update) = WhenAsked("update", asked)
    BY <2>1, <2>2, ValuesClauseIs DEF Reflects
  <2>6. ValuesClause("insert", m.insert) = WhenAsked("insert", asked)
    BY <2>1, <2>2, ValuesClauseIs DEF Reflects
  <2>7. (IF m.delete.asked THEN <<Clause("delete", Empty, m.delete.condition)>> ELSE <<>>)
          = WhenAsked("delete", asked)
    BY <2>1, DeleteClauseIs DEF Reflects
  <2>8. VisitMerge(m) =
          [ using |-> m.source, on |-> m.on,
            whens |-> ValuesClause("update", m.update)
                        \o (IF m.delete.asked
                              THEN <<Clause("delete", Empty, m.delete.condition)>>
                              ELSE <<>>)
                        \o ValuesClause("insert", m.insert) ]
    BY <2>3, <2>4 DEF VisitMerge
  <2>9. QED
    BY <2>3, <2>4, <2>5, <2>6, <2>7, <2>8 DEF m, asked
<1>2. QED
  BY <1>1, SpecInv, PTL
=============================================================================
