------------------------ MODULE CollectionCodecProofs ------------------------
(****************************************************************************)
(* The collection parser stays inside its data whatever the driver delivers: *)
(* any bytes, any length, any count in the header: TypeOK and InBounds are   *)
(* inductive together. Of an encoded collection it returns the items, and of *)
(* one cut short the first of them and what is left of one more: ReadInv     *)
(* adds to the two what the loop has read so far, and that it stands where   *)
(* the next element begins.                                                  *)
(*                                                                           *)
(* All of that rests on what three recursive functions compute (where the    *)
(* elements begin, the UTF-8 of a text, the decoder): that they are          *)
(* functions, and that the decoder undoes UTF-8 up to where it is cut.       *)
(****************************************************************************)
EXTENDS CollectionCodec, SequenceTheorems, WellFoundedInduction, TLAPS

-----------------------------------------------------------------------------
(* Recursion over the numbers up to N *)

\* A nonempty set of natural numbers has a least element.
LEMMA LeastNumber ==
  ASSUME NEW S \in SUBSET Nat, S # {}
  PROVE  \E n \in S : \A m \in S : n <= m
<1> DEFINE R == { pair \in Nat \X Nat : pair[1] < pair[2] }
<1>1. IsWellFoundedOn(R, Nat)
  BY NatLessThanWellFounded DEF OpToRel
<1>2. PICK n \in S : \A m \in S : ~ (<<m, n>> \in R)
  <2> HIDE DEF R
  <2> QED
    BY <1>1, WFMin
<1>3. ASSUME NEW m \in S PROVE n <= m
  <2>1. m \in Nat /\ n \in Nat
    OBVIOUS
  <2>2. ~ (m < n)
    BY <1>2, <2>1
  <2>3. QED
    BY <2>1, <2>2
<1>4. QED
  BY <1>3

\* So a set that holds 0, and with a number the next, holds all up to N.
LEMMA UpTo ==
  ASSUME NEW N \in Nat, NEW G, 0 \in G, \A n \in 1..N : n - 1 \in G => n \in G
  PROVE  \A n \in 0..N : n \in G
<1> DEFINE Missing == { n \in 0..N : n \notin G }
<1>1. SUFFICES ASSUME Missing # {} PROVE FALSE
  OBVIOUS
<1>2. Missing \in SUBSET Nat
  OBVIOUS
<1>3. PICK n \in Missing : \A m \in Missing : n <= m
  <2> HIDE DEF Missing
  <2> QED
    BY <1>1, <1>2, LeastNumber
<1>4. n \in 1..N /\ n - 1 \in 0..N
  BY <1>3
<1>5. n - 1 \notin Missing
  <2> HIDE DEF Missing
  <2> QED
    BY <1>3, <1>4
<1>6. QED
  BY <1>3, <1>4, <1>5

\* A function on 0..N can be given by its value at 0 and by a step.
Follows(f, N, base, step) ==
    f[0] = base /\ \A n \in 1..N : f[n] = step[n][f[n - 1]]

LEMMA RecursiveFunction ==
  ASSUME NEW N \in Nat, NEW S, NEW base \in S, NEW step \in [1..N -> [S -> S]]
  PROVE  \E f \in [0..N -> S] : Follows(f, N, base, step)
<1> DEFINE Fits(f, m) == f[0] = base /\ \A n \in 1..m : f[n] = step[n][f[n - 1]]
           G == { m \in 0..N : \E f \in [0..m -> S] : Fits(f, m) }
<1>1. 0 \in G
  <2>1. [n \in 0..0 |-> base] \in [0..0 -> S] /\ Fits([n \in 0..0 |-> base], 0)
    OBVIOUS
  <2> HIDE DEF Fits
  <2>2. QED
    BY <2>1
<1>2. ASSUME NEW m \in 1..N, m - 1 \in G PROVE m \in G
  <2>1. PICK f \in [0..(m - 1) -> S] : Fits(f, m - 1)
    BY <1>2
  <2> DEFINE g == [n \in 0..m |-> IF n = m THEN step[m][f[m - 1]] ELSE f[n]]
  <2>2. step[m][f[m - 1]] \in S
    <3>1. f[m - 1] \in S
      BY <2>1
    <3>2. QED
      BY <3>1
  <2>3. g \in [0..m -> S]
    <3>1. \A n \in 0..m : n # m => f[n] \in S
      BY <2>1
    <3>2. QED
      BY <2>2, <3>1
  <2>4. g[0] = base
    BY <2>1
  <2>5. ASSUME NEW n \in 1..m PROVE g[n] = step[n][g[n - 1]]
    <3>1. g[n - 1] = f[n - 1]
      OBVIOUS
    <3>2. CASE n = m
      <4>1. g[m] = step[m][f[m - 1]]
        OBVIOUS
      <4>2. QED
        BY <3>1, <3>2, <4>1
    <3>3. CASE n # m
      <4>1. n \in 1..(m - 1) /\ g[n] = f[n]
        BY <3>3
      <4>2. QED
        BY <2>1, <3>1, <4>1
    <3>4. QED
      BY <3>2, <3>3
  <2> HIDE DEF g
  <2>6. Fits(g, m)
    BY <2>4, <2>5
  <2>7. QED
    BY <2>3, <2>6
<1>3. N \in G
  <2> HIDE DEF G
  <2>1. N \in 0..N
    OBVIOUS
  <2>2. QED
    BY <1>1, <1>2, <2>1, UpTo
<1>4. QED
  BY <1>3 DEF Follows

-----------------------------------------------------------------------------
(* Characters and their bytes *)

LEMMA ReplacementIsCharacter == Replacement \in Character
<1>1. Replacement \in Seq(Byte) /\ Len(Replacement) = 3
  BY DEF Replacement, Byte
<1>2. Width(239) = 3
  BY DEF Width
<1>3. \A k \in 2..3 : Following(239, k) = 128..191
  BY DEF Following
<1>4. Replacement[1] = 239 /\ Replacement[2] = 191 /\ Replacement[3] = 189
  BY DEF Replacement
<1>5. \A k \in 2..3 : Replacement[k] \in 128..191
  <2>1. \A k \in 2..3 : k = 2 \/ k = 3
    OBVIOUS
  <2>2. QED
    BY <1>4, <2>1
<1>6. Replacement # <<>>
  BY DEF Replacement
<1>7. Starts(Replacement)
  BY <1>1, <1>2, <1>3, <1>4, <1>5, <1>6 DEF Starts
<1>8. QED
  BY <1>1, <1>2, <1>4, <1>7 DEF Character, IsCharacter

\* The texts of the items laid out one after the other in the data.
LEMMA BeginsIsAFunction ==
  ASSUME NEW stored \in Seq(Seq(Byte))
  PROVE  /\ Begins(stored) \in [0..Len(stored) -> Nat]
         /\ Begins(stored)[0] = 0
         /\ \A k \in 1..Len(stored) :
              Begins(stored)[k] = Begins(stored)[k - 1] + Len(stored[k]) + 5
<1> DEFINE N == Len(stored)
           Next1(k, from) == from + 1 + (Len(stored[k]) + 1) + 3
           step == [k \in 1..N |-> [from \in Nat |-> Next1(k, from)]]
           Equation(h) == h = [k \in 0..N |-> IF k = 0 THEN 0 ELSE Next1(k, h[k - 1])]
           b == Begins(stored)
<1>1. N \in Nat /\ \A k \in 1..N : Len(stored[k]) \in Nat
  BY ElementOfSeq
<1>2. step \in [1..N -> [Nat -> Nat]]
  <2>1. ASSUME NEW k \in 1..N, NEW from \in Nat PROVE Next1(k, from) \in Nat
    <3>1. \A p, q \in Nat : p + 1 + (q + 1) + 3 \in Nat
      OBVIOUS
    <3>2. QED
      BY <1>1, <3>1
  <2> HIDE DEF Next1
  <2>2. QED
    BY <2>1
<1>3. PICK f \in [0..N -> Nat] : Follows(f, N, 0, step)
  <2>1. 0 \in Nat /\ N \in Nat
    BY <1>1
  <2> HIDE DEF step, N
  <2>2. QED
    BY <1>2, <2>1, RecursiveFunction, Zenon
<1>4. Equation(f)
  <2>1. \A k \in 1..N : f[k] = Next1(k, f[k - 1])
    <3>1. TAKE k \in 1..N
    <3>2. k - 1 \in 0..N
      BY <1>1
    <3>3. f[k - 1] \in Nat
      BY <1>3, <3>2
    <3>4. QED
      BY <1>3, <3>3 DEF Follows
  <2>2. \A k \in 0..N : f[k] = IF k = 0 THEN 0 ELSE Next1(k, f[k - 1])
    <3> HIDE DEF Next1, N, step
    <3> QED
      BY <1>1, <1>3, <2>1 DEF Follows
  <2> HIDE DEF Next1
  <2>3. QED
    BY <2>2
<1>5. Equation(b)
  <2>1. b = CHOOSE h : Equation(h)
    BY DEF Begins
  <2> HIDE DEF Equation, b
  <2>2. QED
    BY <1>4, <2>1
<1> HIDE DEF b
<1>6. b[0] = 0 /\ \A k \in 1..N : b[k] = Next1(k, b[k - 1])
  <2>1. \A k \in 0..N : b[k] = IF k = 0 THEN 0 ELSE Next1(k, b[k - 1])
    <3> HIDE DEF Next1
    <3> QED
      BY <1>5
  <2>2. 0 \in 0..N /\ \A k \in 1..N : k \in 0..N /\ k # 0
    BY <1>1
  <2> HIDE DEF Next1
  <2>3. QED
    BY <2>1, <2>2
<1>7. \A k \in 0..N : b[k] \in Nat
  <2> DEFINE G == { k \in 0..N : b[k] \in Nat }
  <2>1. 0 \in G
    BY <1>1, <1>6
  <2>2. ASSUME NEW k \in 1..N, k - 1 \in G PROVE k \in G
    <3>1. b[k - 1] \in Nat /\ Len(stored[k]) \in Nat /\ k \in 0..N
      BY <1>1, <2>2
    <3>2. QED
      BY <1>6, <3>1
  <2>3. \A k \in 0..N : k \in G
    <3> HIDE DEF G, N
    <3> QED
      BY <1>1, <2>1, <2>2, UpTo
  <2>4. QED
    BY <2>3
<1>8. b \in [0..N -> Nat]
  <2>1. b = [k \in 0..N |-> b[k]]
    BY <1>5
  <2>2. QED
    BY <1>7, <2>1
<1>9. \A k \in 1..N : b[k] = b[k - 1] + Len(stored[k]) + 5
  <2>1. TAKE k \in 1..N
  <2>2. b[k - 1] \in Nat /\ Len(stored[k]) \in Nat
    BY <1>1, <1>7
  <2>3. \A p, q \in Nat : p + 1 + (q + 1) + 3 = p + q + 5
    OBVIOUS
  <2>4. QED
    BY <1>6, <2>2, <2>3
<1>10. QED
  BY <1>6, <1>8, <1>9 DEF b

\* Where the characters of a text begin in its UTF-8, and that they are there.
LEMMA Utf8Layout ==
  ASSUME NEW text \in Text
  PROVE  /\ Utf8(text) \in Seq(Byte)
         /\ \E at \in [0..Len(text) -> Nat] :
              /\ at[0] = 0
              /\ at[Len(text)] = Len(Utf8(text))
              /\ \A k \in 1..Len(text) :
                   /\ at[k] = at[k - 1] + Len(text[k])
                   /\ \A j \in 1..Len(text[k]) : Utf8(text)[at[k - 1] + j] = text[k][j]
<1> DEFINE N == Len(text)
<1>1. N \in Nat /\ \A k \in 1..N : text[k] \in Seq(Byte) /\ Len(text[k]) \in Nat
  <2>1. \A k \in 1..N : text[k] \in Character
    BY ElementOfSeq DEF Text
  <2>2. QED
    BY <2>1 DEF Text, Character
<1>2. CASE N = 0
  <2>1. Utf8(text) = <<>>
    BY <1>2 DEF Utf8, FlattenSeq, Text
  <2> DEFINE at == [k \in 0..0 |-> 0]
  <2>2. at \in [0..Len(text) -> Nat] /\ at[0] = 0 /\ Len(text) = 0
    BY <1>2
  <2>3. Len(Utf8(text)) = 0 /\ Utf8(text) \in Seq(Byte)
    BY <2>1
  <2> HIDE DEF at
  <2>4. QED
    BY <2>2, <2>3
<1>3. CASE N # 0
  <2> DEFINE step == [k \in 1..N |-> [bytes \in Seq(Byte) |-> bytes \o text[k]]]
             Sum(h, k) == IF k = 1 THEN text[k] ELSE h[k - 1] \o text[k]
             Equation(h) == h = [k \in 1..N |-> Sum(h, k)]
             flat == CHOOSE h : Equation(h)
  <2>1. N \in 1..N /\ 1 \in 1..N
    BY <1>1, <1>3
  <2>2. PICK f \in [0..N -> Seq(Byte)] : Follows(f, N, <<>>, step)
    <3>1. step \in [1..N -> [Seq(Byte) -> Seq(Byte)]]
      BY <1>1, ConcatProperties
    <3>2. <<>> \in Seq(Byte) /\ N \in Nat
      BY <1>1
    <3> HIDE DEF step, N
    <3>3. QED
      BY <3>1, <3>2, RecursiveFunction, Zenon
  <2>3. \A k \in 1..N : f[k] = f[k - 1] \o text[k]
    <3>1. TAKE k \in 1..N
    <3>2. k - 1 \in 0..N /\ f[k - 1] \in Seq(Byte)
      BY <1>1
    <3>3. QED
      BY <2>2, <3>2 DEF Follows
  <2> DEFINE g == [k \in 1..N |-> f[k]]
  <2>4. Equation(g)
    <3>1. ASSUME NEW k \in 1..N PROVE g[k] = Sum(g, k)
      <4>1. CASE k = 1
        <5>1. f[1] = f[0] \o text[1] /\ text[1] \in Seq(Byte)
          <6>1. 1 - 1 = 0
            OBVIOUS
          <6>2. QED
            BY <1>1, <2>1, <2>3, <6>1
        <5>2. f[1] = text[1]
          <6>1. f[0] = <<>>
            BY <2>2 DEF Follows
          <6>2. QED
            BY <5>1, <6>1, ConcatEmptySeq
        <5>3. QED
          BY <2>1, <4>1, <5>2
      <4>2. CASE k # 1
        <5>1. k - 1 \in 1..N
          BY <1>1, <4>2
        <5>2. QED
          BY <2>3, <4>2, <5>1
      <4>3. QED
        BY <4>1, <4>2
    <3> HIDE DEF Sum
    <3>2. QED
      BY <3>1
  <2>5. Utf8(text) = flat[N]
    BY <1>3 DEF Utf8, FlattenSeq
  <2>6. Equation(flat)
    <3> HIDE DEF Equation, g
    <3> QED
      BY <2>4
  <2> HIDE DEF flat
  <2>7. /\ flat[1] = text[1]
        /\ \A k \in 2..N : flat[k] = flat[k - 1] \o text[k]
    <3>1. \A k \in 1..N : flat[k] = Sum(flat, k)
      <4> HIDE DEF Sum
      <4> QED
        BY <2>6
    <3>2. flat[1] = text[1]
      BY <2>1, <3>1
    <3>3. ASSUME NEW k \in 2..N PROVE flat[k] = flat[k - 1] \o text[k]
      <4>1. k \in 1..N /\ k # 1
        BY <1>1
      <4>2. QED
        BY <3>1, <4>1
    <3>4. QED
      BY <3>2, <3>3
  <2> DEFINE part == [n \in 0..N |-> IF n = 0 THEN <<>> ELSE flat[n]]
  <2>8. part[0] = <<>> /\ part[N] = Utf8(text)
    BY <1>1, <1>3, <2>5
  <2>9. \A n \in 1..N : part[n] = IF n = 1 THEN text[1] ELSE part[n - 1] \o text[n]
    <3>1. TAKE n \in 1..N
    <3>2. CASE n = 1
      BY <2>1, <2>7, <3>2
    <3>3. CASE n # 1
      <4>1. n \in 2..N /\ n - 1 \in 1..N /\ part[n] = flat[n] /\ part[n - 1] = flat[n - 1]
        BY <1>1, <3>3
      <4>2. QED
        BY <2>7, <3>3, <4>1
    <3>4. QED
      BY <3>2, <3>3
  <2> DEFINE at == [n \in 0..N |-> Len(part[n])]
             Holds(n) == /\ \A m \in 0..n : part[m] \in Seq(Byte)
                         /\ \A k \in 1..n : \A j \in 1..Len(text[k]) :
                              /\ at[k - 1] + j <= Len(part[n])
                              /\ part[n][at[k - 1] + j] = text[k][j]
             G == { n \in 0..N : Holds(n) }
  <2> HIDE DEF part
  <2>10. \A n \in 0..N : at[n] = Len(part[n])
    OBVIOUS
  <2> HIDE DEF at
  <2>11. ASSUME NEW n \in 1..N, part[n - 1] \in Seq(Byte)
         PROVE  /\ part[n] = part[n - 1] \o text[n]
                /\ part[n] \in Seq(Byte)
                /\ Len(part[n]) = Len(part[n - 1]) + Len(text[n])
                /\ \A m \in 1..Len(part[n - 1]) : part[n][m] = part[n - 1][m]
                /\ \A j \in 1..Len(text[n]) : part[n][Len(part[n - 1]) + j] = text[n][j]
    <3>1. part[n] = part[n - 1] \o text[n]
      <4>1. CASE n = 1
        <5>1. <<>> \o text[1] = text[1]
          BY <1>1, <2>1, ConcatEmptySeq
        <5>2. part[1] = text[1] /\ part[1 - 1] = <<>>
          BY <2>1, <2>8, <2>9
        <5>3. QED
          BY <4>1, <5>1, <5>2
      <4>2. CASE n # 1
        BY <2>9, <4>2
      <4>3. QED
        BY <4>1, <4>2
    <3> DEFINE before == part[n - 1]
               last == text[n]
    <3>2. before \in Seq(Byte) /\ last \in Seq(Byte) /\ Len(before) \in Nat /\ Len(last) \in Nat
      BY <1>1, <2>11
    <3> HIDE DEF before, last
    <3>3. /\ before \o last \in Seq(Byte)
          /\ Len(before \o last) = Len(before) + Len(last)
          /\ \A m \in 1..Len(before) + Len(last) : (before \o last)[m] =
               IF m <= Len(before) THEN before[m] ELSE last[m - Len(before)]
      BY <3>2, ConcatProperties
    <3>4. \A m \in 1..Len(before) : (before \o last)[m] = before[m]
      BY <3>2, <3>3
    <3>5. ASSUME NEW j \in 1..Len(last) PROVE (before \o last)[Len(before) + j] = last[j]
      <4>1. /\ Len(before) + j \in 1..Len(before) + Len(last)
            /\ ~(Len(before) + j <= Len(before))
            /\ Len(before) + j - Len(before) = j
        BY <3>2
      <4>2. QED
        BY <3>3, <4>1
    <3>6. QED
      BY <3>1, <3>3, <3>4, <3>5 DEF before, last
  <2>12. 0 \in G
    <3>1. 0 \in 0..N
      BY <1>1
    <3>2. \A m \in 0..0 : part[m] \in Seq(Byte)
      <4>1. part[0] \in Seq(Byte) /\ \A m \in 0..0 : m = 0
        BY <2>8
      <4>2. QED
        BY <4>1
    <3>3. \A k \in 1..0 : FALSE
      OBVIOUS
    <3>4. QED
      BY <3>1, <3>2, <3>3
  <2>13. ASSUME NEW n \in 1..N, n - 1 \in G PROVE n \in G
    <3>1. /\ part[n - 1] \in Seq(Byte) /\ n - 1 \in 0..N /\ n \in 0..N
          /\ at[n - 1] = Len(part[n - 1])
          /\ \A m \in 0..(n - 1) : part[m] \in Seq(Byte)
      BY <1>1, <2>13, <2>10
    <3>2. ASSUME NEW k \in 1..n, NEW j \in 1..Len(text[k])
          PROVE  at[k - 1] + j <= Len(part[n]) /\ part[n][at[k - 1] + j] = text[k][j]
      <4>1. CASE k = n
        <5>1. Len(part[n - 1]) \in Nat /\ Len(text[n]) \in Nat
          BY <1>1, <3>1
        <5>2. j \in 1..Len(text[n]) /\ at[k - 1] = Len(part[n - 1])
          BY <3>1, <4>1
        <5>3. Len(part[n]) = Len(part[n - 1]) + Len(text[n])
          BY <2>11, <3>1
        <5>4. part[n][Len(part[n - 1]) + j] = text[n][j]
          BY <2>11, <3>1, <5>2
        <5>5. QED
          BY <4>1, <5>1, <5>2, <5>3, <5>4
      <4>2. CASE k # n
        <5>1. k \in 1..(n - 1)
          BY <1>1, <4>2
        <5>2. at[k - 1] + j <= Len(part[n - 1]) /\ part[n - 1][at[k - 1] + j] = text[k][j]
          BY <2>13, <5>1
        <5>3. k - 1 \in 0..N /\ k \in 1..N
          BY <1>1, <5>1
        <5>4. at[k - 1] \in Nat
          <6>1. at[k - 1] = Len(part[k - 1])
            BY <5>3, <2>10
          <6>2. part[k - 1] \in Seq(Byte)
            BY <2>13, <5>1
          <6>3. QED
            BY <6>1, <6>2
        <5>5. j \in Nat \ {0} /\ Len(part[n - 1]) \in Nat /\ Len(text[n]) \in Nat
          BY <1>1, <3>1, <5>3
        <5>6. at[k - 1] + j \in 1..Len(part[n - 1])
          BY <5>2, <5>4, <5>5
        <5>7. Len(part[n]) = Len(part[n - 1]) + Len(text[n])
          BY <2>11, <3>1
        <5>8. at[k - 1] + j <= Len(part[n])
          <6>1. \A x, y, q \in Nat : x <= y => x <= y + q
            OBVIOUS
          <6>2. at[k - 1] + j \in Nat
            BY <5>4, <5>5
          <6>3. QED
            BY <5>2, <5>5, <5>7, <6>1, <6>2
        <5>9. part[n][at[k - 1] + j] = part[n - 1][at[k - 1] + j]
          BY <2>11, <3>1, <5>6
        <5>10. QED
          BY <5>2, <5>8, <5>9
      <4>3. QED
        BY <4>1, <4>2
    <3>3. ASSUME NEW m \in 0..n PROVE part[m] \in Seq(Byte)
      <4>1. m = n \/ m \in 0..(n - 1)
        OBVIOUS
      <4>2. QED
        BY <2>11, <3>1, <4>1
    <3>4. QED
      BY <3>1, <3>2, <3>3
  <2>14. \A n \in 0..N : n \in G
    <3> HIDE DEF G, N
    <3> QED
      BY <1>1, <2>12, <2>13, UpTo
  <2>15. at \in [0..N -> Nat] /\ at[0] = 0 /\ at[N] = Len(Utf8(text))
    <3>1. \A n \in 0..N : Len(part[n]) \in Nat
      BY <2>14
    <3>2. QED
      BY <1>1, <2>1, <2>8, <2>10, <3>1 DEF at
  <2>16. \A k \in 1..N : at[k] = at[k - 1] + Len(text[k])
    <3>1. TAKE k \in 1..N
    <3>2. k - 1 \in 0..N /\ k \in 0..N
      BY <1>1
    <3>3. part[k - 1] \in Seq(Byte)
      BY <2>14, <3>2
    <3>4. QED
      BY <2>11, <2>10, <3>2, <3>3
  <2>17. \A k \in 1..N : \A j \in 1..Len(text[k]) : Utf8(text)[at[k - 1] + j] = text[k][j]
    <3>1. N \in 0..N
      BY <1>1
    <3>2. Holds(N)
      BY <2>14, <3>1
    <3>3. QED
      BY <2>8, <3>2
  <2>18. Utf8(text) \in Seq(Byte)
    BY <2>1, <2>8, <2>14
  <2>19. QED
    BY <2>15, <2>16, <2>17, <2>18
<1>4. QED
  BY <1>2, <1>3

-----------------------------------------------------------------------------
(* What the decoder makes of bytes *)

\* The bytes in hand become a character, a pending beginning, or U+FFFD.
LEMMA TakeType ==
  ASSUME NEW text \in Text, NEW s \in Seq(Byte)
  PROVE  Take(text, s) \in DecoderStates
<1>1. CASE IsCharacter(s)
  <2>1. s \in Character
    BY <1>1 DEF Character
  <2>2. Append(text, s) \in Text
    BY <2>1 DEF Text
  <2>3. Take(text, s) = [text |-> Append(text, s), pending |-> <<>>]
    BY <1>1 DEF Take
  <2>4. QED
    BY <2>2, <2>3 DEF DecoderStates
<1>2. CASE Starts(s) /\ ~IsCharacter(s)
  BY <1>2 DEF Take, DecoderStates
<1>3. CASE ~Starts(s)
  <2>1. ~IsCharacter(s)
    BY <1>3 DEF IsCharacter
  <2>2. Append(text, Replacement) \in Text
    BY ReplacementIsCharacter DEF Text
  <2>3. Take(text, s) = [text |-> Append(text, Replacement), pending |-> <<>>]
    BY <1>3, <2>1 DEF Take
  <2>4. QED
    BY <2>2, <2>3 DEF DecoderStates
<1>4. QED
  BY <1>1, <1>2, <1>3

LEMMA ClosedType ==
  ASSUME NEW state \in DecoderStates
  PROVE  Closed(state) \in Text
<1>1. state.text \in Text
  BY DEF DecoderStates
<1>2. Append(state.text, Replacement) \in Text
  BY <1>1, ReplacementIsCharacter DEF Text
<1>3. QED
  BY <1>1, <1>2 DEF Closed

LEMMA OneMoreIs ==
  ASSUME NEW state \in DecoderStates, NEW byte \in Byte
  PROVE  /\ OneMore(byte)[state] \in DecoderStates
         /\ Starts(Append(state.pending, byte)) =>
              OneMore(byte)[state] = Take(state.text, Append(state.pending, byte))
<1>1. OneMore(byte)[state] = IF Starts(Append(state.pending, byte))
                               THEN Take(state.text, Append(state.pending, byte))
                               ELSE Take(Closed(state), <<byte>>)
  BY DEF OneMore
<1>2. state.text \in Text /\ Append(state.pending, byte) \in Seq(Byte)
  BY DEF DecoderStates
<1>3. Closed(state) \in Text /\ <<byte>> \in Seq(Byte)
  BY ClosedType
<1>4. /\ Take(state.text, Append(state.pending, byte)) \in DecoderStates
      /\ Take(Closed(state), <<byte>>) \in DecoderStates
  BY <1>2, <1>3, TakeType
<1>5. QED
  BY <1>1, <1>4

LEMMA DecoderIsAFunction ==
  ASSUME NEW bytes \in Seq(Byte)
  PROVE  /\ Decoder(bytes) \in [0..Len(bytes) -> DecoderStates]
         /\ Decoder(bytes)[0] = [text |-> <<>>, pending |-> <<>>]
         /\ \A n \in 1..Len(bytes) :
              Decoder(bytes)[n] = OneMore(bytes[n])[Decoder(bytes)[n - 1]]
<1> DEFINE N == Len(bytes)
           none == [text |-> <<>>, pending |-> <<>>]
           step == [n \in 1..N |-> [state \in DecoderStates |-> OneMore(bytes[n])[state]]]
           Entry(h, n) == IF n = 0 THEN none ELSE OneMore(bytes[n])[h[n - 1]]
           Equation(h) == h = [n \in 0..N |-> Entry(h, n)]
           d == Decoder(bytes)
<1>1. N \in Nat /\ \A n \in 1..N : bytes[n] \in Byte
  BY ElementOfSeq
<1>2. none \in DecoderStates
  BY DEF DecoderStates, Text
<1>3. step \in [1..N -> [DecoderStates -> DecoderStates]]
  <2>1. \A n \in 1..N : \A state \in DecoderStates : OneMore(bytes[n])[state] \in DecoderStates
    BY <1>1, OneMoreIs
  <2>2. QED
    BY <2>1
<1>4. PICK f \in [0..N -> DecoderStates] : Follows(f, N, none, step)
  <2> HIDE DEF step, none
  <2>1. N \in Nat
    BY <1>1
  <2> HIDE DEF N
  <2>2. QED
    BY <1>2, <1>3, <2>1, RecursiveFunction, Zenon
<1> HIDE DEF none
<1>5. Equation(f)
  <2>1. ASSUME NEW n \in 1..N PROVE f[n] = OneMore(bytes[n])[f[n - 1]]
    <3>1. n - 1 \in 0..N
      BY <1>1
    <3>2. f[n - 1] \in DecoderStates
      BY <1>4, <3>1
    <3>3. f[n] = step[n][f[n - 1]]
      BY <1>4 DEF Follows
    <3>4. QED
      BY <3>2, <3>3
  <2>2. \A n \in 0..N : f[n] = Entry(f, n)
    <3>1. f[0] = none
      BY <1>4 DEF Follows
    <3>2. ASSUME NEW n \in 0..N PROVE f[n] = Entry(f, n)
      <4>1. n = 0 \/ n \in 1..N
        BY <1>1
      <4>2. QED
        BY <2>1, <3>1, <4>1
    <3>3. QED
      BY <3>2
  <2> HIDE DEF Entry
  <2>3. QED
    BY <2>2
<1>6. Equation(d)
  <2>1. d = CHOOSE h : Equation(h)
    BY DEF Decoder, none
  <2> HIDE DEF Equation, d
  <2>2. QED
    BY <1>5, <2>1
<1> HIDE DEF d
<1>7. d[0] = none /\ \A n \in 1..N : d[n] = OneMore(bytes[n])[d[n - 1]]
  <2>1. \A n \in 0..N : d[n] = Entry(d, n)
    <3> HIDE DEF Entry
    <3> QED
      BY <1>6
  <2>2. 0 \in 0..N /\ \A n \in 1..N : n \in 0..N /\ n # 0
    BY <1>1
  <2>3. QED
    BY <2>1, <2>2
<1>8. \A n \in 0..N : d[n] \in DecoderStates
  <2> DEFINE G == { n \in 0..N : d[n] \in DecoderStates }
  <2>1. 0 \in G
    <3>1. 0 \in 0..N
      BY <1>1
    <3>2. QED
      BY <1>2, <1>7, <3>1
  <2>2. ASSUME NEW n \in 1..N, n - 1 \in G PROVE n \in G
    <3>1. d[n - 1] \in DecoderStates /\ bytes[n] \in Byte /\ n \in 0..N
      BY <1>1, <2>2
    <3>2. OneMore(bytes[n])[d[n - 1]] \in DecoderStates
      BY <3>1, OneMoreIs
    <3>3. QED
      BY <1>7, <3>1, <3>2
  <2>3. \A n \in 0..N : n \in G
    <3> HIDE DEF G, N
    <3> QED
      BY <1>1, <2>1, <2>2, UpTo
  <2>4. QED
    BY <2>3
<1>9. d \in [0..N -> DecoderStates]
  <2>1. d = [n \in 0..N |-> d[n]]
    BY <1>6
  <2>2. QED
    BY <1>8, <2>1
<1>10. QED
  BY <1>7, <1>9 DEF d, none

\* Any bytes decode to a text.
LEMMA DecodeType ==
  ASSUME NEW bytes \in Seq(Byte)
  PROVE  Decode(bytes) \in Text
<1>1. Len(bytes) \in 0..Len(bytes)
  OBVIOUS
<1>2. Decoder(bytes)[Len(bytes)] \in DecoderStates
  BY <1>1, DecoderIsAFunction
<1>3. QED
  BY <1>2, ClosedType DEF Decode

\* The first bytes of a character begin it, and only all of them are one.
LEMMA Beginning ==
  ASSUME NEW char \in Character, NEW m \in 1..Len(char)
  PROVE  /\ SubSeq(char, 1, m) \in Seq(Byte)
         /\ Len(SubSeq(char, 1, m)) = m
         /\ Starts(SubSeq(char, 1, m))
         /\ IsCharacter(SubSeq(char, 1, m)) <=> m = Len(char)
<1> DEFINE s == SubSeq(char, 1, m)
<1>1. /\ char \in Seq(Byte) /\ Len(char) \in Nat /\ char # <<>>
      /\ Len(char) = Width(char[1])
      /\ \A k \in 2..Len(char) : char[k] \in Following(char[1], k)
  BY DEF Character, IsCharacter, Starts
<1>2. \A k \in 1..m : char[k] \in Byte
  <2>1. \A k \in 1..m : k \in 1..Len(char)
    BY <1>1
  <2>2. QED
    BY <1>1, <2>1, ElementOfSeq
<1>3. s \in Seq(Byte) /\ Len(s) = m /\ \A k \in 1..m : s[k] = char[k]
  <2>1. /\ s \in Seq(Byte)
        /\ Len(s) = IF 1 <= m THEN m - 1 + 1 ELSE 0
        /\ \A k \in 1..m - 1 + 1 : s[k] = char[1 + k - 1]
    BY <1>2, SubSeqProperties
  <2> HIDE DEF s
  <2>2. QED
    BY <2>1
<1> HIDE DEF s
<1>4. s # <<>> /\ s[1] = char[1] /\ Len(s) <= Width(s[1])
  <2>1. 1 \in 1..m /\ m <= Len(char)
    BY <1>1
  <2>2. QED
    BY <1>1, <1>3, <2>1
<1>5. \A k \in 2..Len(s) : s[k] \in Following(s[1], k)
  <2>1. \A k \in 2..m : k \in 1..m /\ k \in 2..Len(char)
    BY <1>1
  <2>2. QED
    BY <1>1, <1>3, <1>4, <2>1
<1>6. Starts(s)
  BY <1>4, <1>5 DEF Starts
<1>7. IsCharacter(s) <=> m = Len(char)
  BY <1>1, <1>3, <1>4, <1>6 DEF IsCharacter
<1>8. QED
  BY <1>3, <1>6, <1>7 DEF s

\* One byte more of the beginning of a sequence.
LEMMA OneLonger ==
  ASSUME NEW S, NEW s \in Seq(S), NEW k \in 0..Len(s) - 1
  PROVE  /\ SubSeq(s, 1, k) \in Seq(S)
         /\ Append(SubSeq(s, 1, k), s[k + 1]) = SubSeq(s, 1, k + 1)
<1>1. 1 \in 1..Len(s) /\ k + 1 \in 1..Len(s) /\ (k + 1) - 1 = k
  OBVIOUS
<1>2. SubSeq(s, 1, k + 1) = SubSeq(s, 1, k) \o <<s[k + 1]>>
  BY <1>1, SubSeqRecursiveSecond
<1>3. \A n \in 1..k : s[n] \in S
  BY ElementOfSeq
<1>4. SubSeq(s, 1, k) \in Seq(S) /\ s[k + 1] \in S
  BY <1>1, <1>3, SubSeqProperties, ElementOfSeq
<1>5. QED
  BY <1>2, <1>4, AppendIsConcat

\* Of the first bytes of a text the decoder makes its first characters, with
\* U+FFFD for the one that is not all there; of all of them it makes the text.
LEMMA DecodesRemnant ==
  ASSUME NEW text \in Text, NEW slice \in Seq(Byte),
         Len(slice) <= Len(Utf8(text)),
         \A n \in 1..Len(slice) : slice[n] = Utf8(text)[n]
  PROVE  /\ Decode(slice) \in Remnants(text)
         /\ Len(slice) = Len(Utf8(text)) => Decode(slice) = text
<1> DEFINE N == Len(text)
           L == Len(slice)
           d == Decoder(slice)
<1>1. /\ N \in Nat /\ L \in Nat /\ text \in Seq(Character)
      /\ \A k \in 1..N : text[k] \in Character /\ Len(text[k]) \in Nat \ {0}
  <2>1. \A k \in 1..N : text[k] \in Character
    BY ElementOfSeq DEF Text
  <2>2. \A char \in Character : Len(char) \in Nat \ {0}
    BY EmptySeq DEF Character, IsCharacter, Starts
  <2>3. QED
    BY <2>1, <2>2 DEF Text
<1>2. PICK at \in [0..N -> Nat] :
        /\ at[0] = 0
        /\ at[N] = Len(Utf8(text))
        /\ \A k \in 1..N :
             /\ at[k] = at[k - 1] + Len(text[k])
             /\ \A j \in 1..Len(text[k]) : Utf8(text)[at[k - 1] + j] = text[k][j]
  BY Utf8Layout
<1> DEFINE Seen(n, k, j) ==
             /\ n = at[k] + j
             /\ j # 0 => k < N /\ j < Len(text[k + 1])
             /\ d[n] = [text |-> SubSeq(text, 1, k),
                        pending |-> IF j = 0 THEN <<>> ELSE SubSeq(text[k + 1], 1, j)]
           G == { n \in 0..L : \E k \in 0..N : \E j \in Nat : Seen(n, k, j) }
<1>3. 0 \in G
  <2>1. d[0] = [text |-> <<>>, pending |-> <<>>]
    BY DecoderIsAFunction
  <2>2. SubSeq(text, 1, 0) = <<>>
    BY SubSeqEmpty
  <2>3. Seen(0, 0, 0)
    BY <1>2, <2>1, <2>2
  <2>4. 0 \in 0..L /\ 0 \in 0..N /\ 0 \in Nat
    BY <1>1
  <2> HIDE DEF Seen
  <2>5. QED
    BY <2>3, <2>4
<1>4. ASSUME NEW n \in 1..L, n - 1 \in G PROVE n \in G
  <2>1. PICK k \in 0..N, j \in Nat : Seen(n - 1, k, j)
    BY <1>4
  <2>2. k \in 0..N - 1
    <3>1. SUFFICES ASSUME k = N PROVE FALSE
      BY <1>1
    <3>2. j = 0
      BY <2>1, <3>1, <1>1
    <3>3. n - 1 = at[N]
      BY <2>1, <3>1, <3>2, <1>2
    <3>4. QED
      BY <3>3, <1>1, <1>2
  <2>3. at[k] \in Nat /\ n = at[k] + (j + 1)
    <3>1. at[k] \in Nat
      BY <1>2
    <3>2. n - 1 = at[k] + j
      BY <2>1
    <3>3. \A x, y \in Nat : n - 1 = x + y => n = x + (y + 1)
      BY <1>1
    <3>4. QED
      BY <3>1, <3>2, <3>3
  <2> DEFINE char == text[k + 1]
             taken == SubSeq(char, 1, j + 1)
  <2>4. /\ char \in Character /\ char \in Seq(Byte) /\ Len(char) \in Nat \ {0}
        /\ j \in 0..Len(char) - 1
    <3>1. k + 1 \in 1..N
      BY <1>1, <2>2
    <3>2. char \in Character /\ Len(char) \in Nat \ {0}
      BY <1>1, <3>1
    <3>3. QED
      BY <2>1, <3>2 DEF Character
  <2>5. slice[n] = char[j + 1]
    <3>1. k + 1 \in 1..N /\ (k + 1) - 1 = k /\ j + 1 \in 1..Len(char)
      BY <1>1, <2>2, <2>4
    <3>2. n = at[k] + (j + 1)
      BY <2>3
    <3>3. Utf8(text)[at[k] + (j + 1)] = char[j + 1]
      BY <1>2, <3>1
    <3>4. QED
      BY <3>2, <3>3
  <2>6. d[n - 1] \in DecoderStates /\ d[n] = OneMore(slice[n])[d[n - 1]] /\ slice[n] \in Byte
    <3>1. n - 1 \in 0..L
      BY <1>1
    <3>2. QED
      BY <3>1, DecoderIsAFunction, ElementOfSeq
  <2>7. Append(d[n - 1].pending, slice[n]) = taken
    <3>1. CASE j = 0
      <4>1. d[n - 1].pending = <<>>
        BY <2>1, <3>1
      <4>2. SubSeq(char, 1, 0) = <<>>
        BY SubSeqEmpty
      <4>3. Append(SubSeq(char, 1, 0), char[0 + 1]) = SubSeq(char, 1, 0 + 1)
        BY <2>4, <3>1, OneLonger
      <4>4. QED
        BY <2>5, <3>1, <4>1, <4>2, <4>3
    <3>2. CASE j # 0
      <4>1. d[n - 1].pending = SubSeq(char, 1, j)
        BY <2>1, <3>2
      <4>2. Append(SubSeq(char, 1, j), char[j + 1]) = SubSeq(char, 1, j + 1)
        BY <2>4, OneLonger
      <4>3. QED
        BY <2>5, <4>1, <4>2
    <3>3. QED
      BY <3>1, <3>2
  <2>8. Starts(taken) /\ (IsCharacter(taken) <=> j + 1 = Len(char))
    <3>1. j + 1 \in 1..Len(char)
      BY <2>4
    <3> HIDE DEF char
    <3>2. QED
      BY <2>4, <3>1, Beginning
  <2>9. d[n - 1].text = SubSeq(text, 1, k)
    BY <2>1
  <2>10. d[n] = Take(SubSeq(text, 1, k), taken)
    <3> HIDE DEF taken, d
    <3> QED
      BY <2>6, <2>7, <2>8, <2>9, OneMoreIs
  <2>11. CASE j + 1 = Len(char)
    <3>1. taken = char
      BY <2>4, <2>11, SubSeqFull
    <3>2. Append(SubSeq(text, 1, k), char) = SubSeq(text, 1, k + 1)
      BY <1>1, <2>2, OneLonger
    <3>3. d[n] = [text |-> SubSeq(text, 1, k + 1), pending |-> <<>>]
      BY <2>8, <2>10, <2>11, <3>1, <3>2 DEF Take
    <3>4. at[k + 1] = at[k] + Len(char) /\ k + 1 \in 0..N
      <4>1. k + 1 \in 1..N /\ (k + 1) - 1 = k
        BY <1>1, <2>2
      <4>2. QED
        BY <1>2, <4>1
    <3>5. Seen(n, k + 1, 0)
      BY <2>3, <2>11, <3>3, <3>4
    <3>6. n \in 0..L /\ 0 \in Nat
      BY <1>1
    <3> HIDE DEF Seen
    <3>7. QED
      BY <3>4, <3>5, <3>6
  <2>12. CASE j + 1 # Len(char)
    <3>1. d[n] = [text |-> SubSeq(text, 1, k), pending |-> taken]
      BY <2>8, <2>10, <2>12 DEF Take
    <3>2. j + 1 # 0 /\ k < N /\ j + 1 < Len(char)
      BY <1>1, <2>2, <2>4, <2>12
    <3>3. Seen(n, k, j + 1)
      BY <2>3, <3>1, <3>2
    <3>4. n \in 0..L /\ j + 1 \in Nat
      BY <1>1
    <3> HIDE DEF Seen
    <3>5. QED
      BY <3>3, <3>4
  <2>13. QED
    BY <2>11, <2>12
<1>5. PICK k \in 0..N, j \in Nat : Seen(L, k, j)
  <2>1. L \in G
    <3>1. \A n \in 0..L : n \in G
      <4> HIDE DEF G, L
      <4> QED
        BY <1>1, <1>3, <1>4, UpTo
    <3>2. L \in 0..L
      BY <1>1
    <3>3. QED
      BY <3>1, <3>2
  <2>2. QED
    BY <2>1
<1>6. Decode(slice) \in Remnants(text)
  <2>1. CASE j = 0
    <3>1. Decode(slice) = SubSeq(text, 1, k)
      BY <1>5, <2>1 DEF Decode, Closed
    <3>2. QED
      BY <3>1 DEF Remnants
  <2>2. CASE j # 0
    <3>1. k \in 0..N - 1 /\ k + 1 \in 1..N /\ j < Len(text[k + 1])
      BY <1>1, <1>5, <2>2
    <3>2. Len(text[k + 1]) > 1
      BY <1>1, <2>2, <3>1
    <3>3. SubSeq(text[k + 1], 1, j) # <<>>
      <4>1. text[k + 1] \in Character /\ j \in 1..Len(text[k + 1])
        BY <1>1, <2>2, <3>1
      <4>2. QED
        BY <4>1, Beginning DEF Starts
    <3>4. /\ d[L].pending = SubSeq(text[k + 1], 1, j)
          /\ d[L].text = SubSeq(text, 1, k)
      BY <1>5, <2>2
    <3>5. Decode(slice) = Append(SubSeq(text, 1, k), Replacement)
      BY <3>3, <3>4 DEF Decode, Closed
    <3>6. QED
      BY <3>1, <3>2, <3>5 DEF Remnants
  <2>3. QED
    BY <2>1, <2>2
<1>7. ASSUME L = Len(Utf8(text)) PROVE Decode(slice) = text
  <2>1. k = N
    <3>1. SUFFICES ASSUME k # N PROVE FALSE
      OBVIOUS
    <3>2. k + 1 \in 1..N /\ (k + 1) - 1 = k
      BY <1>1, <3>1
    <3>3. at[k + 1] = at[k] + Len(text[k + 1]) /\ Len(text[k + 1]) \in Nat \ {0}
      BY <1>1, <1>2, <3>2
    <3>4. j < Len(text[k + 1])
      BY <1>5, <3>3
    <3> DEFINE Above == { n \in 0..N : k + 1 <= n => at[k + 1] <= at[n] }
    <3>5. 0 \in Above
      BY <1>1, <3>2
    <3>6. ASSUME NEW n \in 1..N, n - 1 \in Above PROVE n \in Above
      <4>1. /\ at[n] = at[n - 1] + Len(text[n]) /\ Len(text[n]) \in Nat
            /\ at[n - 1] \in Nat /\ at[k + 1] \in Nat /\ n \in 0..N
        <5>1. n - 1 \in 0..N /\ k + 1 \in 0..N /\ n \in 0..N
          BY <1>1, <3>2
        <5>2. at[n - 1] \in Nat /\ at[k + 1] \in Nat
          BY <1>2, <5>1
        <5>3. QED
          BY <1>1, <1>2, <5>1, <5>2
      <4>2. CASE k + 1 = n
        BY <4>1, <4>2
      <4>3. CASE k + 1 # n
        <5>1. k + 1 <= n => k + 1 <= n - 1
          BY <3>2, <4>3
        <5>2. k + 1 <= n - 1 => at[k + 1] <= at[n - 1]
          BY <3>6
        <5>3. QED
          BY <4>1, <5>1, <5>2
      <4>4. QED
        BY <4>2, <4>3
    <3>7. \A n \in 0..N : n \in Above
      <4> HIDE DEF Above, N
      <4> QED
        BY <1>1, <3>5, <3>6, UpTo
    <3>8. at[k + 1] <= at[N]
      BY <1>1, <3>2, <3>7
    <3>9. L = at[k] + j
      BY <1>5
    <3>10. at[k] \in Nat
      BY <1>2
    <3>11. QED
      BY <1>2, <1>7, <3>3, <3>4, <3>8, <3>9, <3>10
  <2>2. j = 0
    BY <1>1, <1>5, <2>1
  <2>3. SubSeq(text, 1, N) = text
    BY <1>1, SubSeqFull
  <2>4. d[L] = [text |-> text, pending |-> <<>>]
    BY <1>5, <2>1, <2>2, <2>3
  <2>5. QED
    BY <2>4 DEF Decode, Closed
<1>8. QED
  BY <1>6, <1>7

-----------------------------------------------------------------------------
(* The parser stays in its data *)

IInv == TypeOK /\ InBounds

\* Decoding a slice of the data gives a text, for any slice.
LEMMA DecodedSlice ==
  ASSUME NEW body \in Seq(Byte), NEW from \in Nat \ {0}, NEW to \in Int,
         to <= Len(body)
  PROVE  Decode(SubSeq(body, from, to)) \in Text
<1> DEFINE slice == SubSeq(body, from, to)
<1>1. slice \in Seq(Byte)
  <2>1. \A k \in from..to : body[k] \in Byte
    BY ElementOfSeq
  <2>2. QED
    BY <2>1, SubSeqProperties
<1>2. QED
  BY <1>1, DecodeType

\* A sequence of texts gives what a column of the kind holds.
LEMMA AsColumnType ==
  ASSUME NEW texts \in Seq(Text)
  PROVE  AsColumn(texts) \in IF input.column = "SET" THEN SUBSET Text ELSE Seq(Text)
<1>1. Range(texts) \in SUBSET Text
  <2>1. \A k \in 1..Len(texts) : texts[k] \in Text
    BY ElementOfSeq
  <2>2. DOMAIN texts = 1..Len(texts)
    BY LenProperties
  <2>3. QED
    BY <2>1, <2>2 DEF Range
<1>2. QED
  BY <1>1 DEF AsColumn

LEMMA InitInv == Init => IInv
<1> SUFFICES ASSUME Init PROVE IInv
  OBVIOUS
<1>1. input \in Deliveries
  BY InputsAssumption DEF Init
<1>2. Len(value.body) \in Nat /\ value.count \in Nat
  BY <1>1 DEF Deliveries, Values, value
<1>3. TypeOK
  <2>1. <<>> \in Seq(Text)
    OBVIOUS
  <2>2. AsColumn(<<>>) \in IF input.column = "SET" THEN SUBSET Text ELSE Seq(Text)
    BY <2>1, AsColumnType
  <2>3. QED
    BY <1>1, <2>1, <2>2 DEF Init, TypeOK
<1>4. InBounds
  BY <1>2 DEF Init, InBounds
<1>5. QED
  BY <1>3, <1>4 DEF IInv

LEMMA ElementInv ==
  ASSUME IInv, Element
  PROVE  IInv'
<1> DEFINE size == value.body[offset + 1]
           available == Available - 1
           read_len == IF size > 1 THEN Least(size - 1, available) ELSE 0
           text == Decode(SubSeq(value.body, offset + 2, offset + 1 + read_len))
<1>1. /\ value.body \in Seq(Byte) /\ Len(value.body) \in Nat
      /\ value.count \in Nat
      /\ i \in Nat /\ offset \in Nat /\ results \in Seq(Text)
  BY DEF IInv, TypeOK, Deliveries, Values, value
<1>2. /\ offset < Len(value.body) /\ i < value.count
      /\ i' = i + 1
      /\ offset' = offset + 1 + Advance(size, available) + Padding
      /\ results' = Append(results, text)
      /\ UNCHANGED <<input, pc, result>>
  BY DEF Element
<1>3. size \in Byte
  BY <1>1, <1>2, ElementOfSeq
<1>4. available \in Nat /\ available = Len(value.body) - offset - 1
  BY <1>1, <1>2 DEF Available
<1> HIDE DEF size, available
<1>5. read_len \in 0..available
  BY <1>3, <1>4 DEF Least, Byte
<1>6. Advance(size, available) \in 0..available
  BY <1>3, <1>4 DEF Advance, Least, Byte
<1>7. Padding \in 0..3
  BY DEF Padding
<1>8. text \in Text
  BY <1>1, <1>2, <1>4, <1>5, DecodedSlice
<1> HIDE DEF read_len, text
<1>9. results' \in Seq(Text) /\ Len(results') = Len(results) + 1
  BY <1>1, <1>2, <1>8, AppendProperties
<1>10. offset' \in Nat /\ offset' <= Len(value.body) + 3 /\ offset + 1 <= offset'
  <2>1. \A o, n, a, p \in Nat :
          (o < n /\ a <= n - o - 1 /\ p <= 3) =>
            o + 1 + a + p \in Nat /\ o + 1 + a + p <= n + 3 /\ o + 1 <= o + 1 + a + p
    OBVIOUS
  <2>2. /\ Advance(size, available) \in Nat /\ Padding \in Nat /\ Padding <= 3
        /\ Advance(size, available) <= Len(value.body) - offset - 1
    BY <1>4, <1>6, <1>7
  <2>3. QED
    BY <1>1, <1>2, <2>1, <2>2
<1>11. TypeOK'
  <2>1. input' = input /\ pc' = pc /\ result' = result /\ i' \in Nat
    BY <1>1, <1>2
  <2>2. QED
    BY <2>1, <1>9, <1>10 DEF IInv, TypeOK
<1>12. value' = value
  BY <1>2 DEF value
<1>13. InBounds'
  <2>1. offset <= Len(value.body) + 3 /\ Len(results) = i /\ i <= offset
    BY DEF IInv, InBounds
  <2>2. offset' <= Len(value'.body) + 3
    BY <1>10, <1>12
  <2>3. Len(results') = i' /\ i' <= value'.count
    BY <2>1, <1>1, <1>2, <1>9, <1>12
  <2>4. i' <= offset'
    BY <2>1, <1>1, <1>2, <1>10
  <2>5. QED
    BY <2>2, <2>3, <2>4 DEF InBounds
<1>14. QED
  BY <1>11, <1>13 DEF IInv

LEMMA FallbackType ==
  ASSUME TypeOK
  PROVE  Fallback \in Seq(Text) /\ value.elements \in Seq(Text)
<1>1. value.elements \in Seq(Text)
  BY DEF TypeOK, Deliveries, Values, value
<1>2. QED
  BY <1>1 DEF Fallback

LEMMA NextInv ==
  ASSUME IInv, [Next]_vars
  PROVE  IInv'
<1>1. CASE Reject \/ PassNative
  <2>1. /\ AsColumn(Fallback) \in IF input.column = "SET" THEN SUBSET Text ELSE Seq(Text)
        /\ AsColumn(value.elements) \in IF input.column = "SET" THEN SUBSET Text ELSE Seq(Text)
    BY FallbackType, AsColumnType DEF IInv
  <2>2. UNCHANGED <<input, i, offset, results>> /\ pc' = "done"
    BY <1>1 DEF Reject, PassNative
  <2>3. result' \in IF input.column = "SET" THEN SUBSET Text ELSE Seq(Text)
    BY <1>1, <2>1 DEF Reject, PassNative
  <2>4. QED
    BY <2>2, <2>3 DEF IInv, TypeOK, InBounds, value
<1>2. CASE Enter \/ PassNone \/ EncodeRaises
  BY <1>2 DEF Enter, PassNone, EncodeRaises, IInv, TypeOK, InBounds, value
<1>3. CASE Element
  BY <1>3, ElementInv
<1>4. CASE Finish
  <2>1. AsColumn(results) \in IF input.column = "SET" THEN SUBSET Text ELSE Seq(Text)
    BY AsColumnType DEF IInv, TypeOK
  <2>2. QED
    BY <1>4, <2>1 DEF Finish, IInv, TypeOK, InBounds, value
<1>5. CASE UNCHANGED vars
  BY <1>5 DEF vars, IInv, TypeOK, InBounds, value
<1>6. QED
  BY <1>1, <1>2, <1>3, <1>4, <1>5 DEF Next

\* Type correctness of the parser, for every delivery.
THEOREM ParserTypeCorrect == Spec => []TypeOK
<1>1. IInv => TypeOK
  BY DEF IInv
<1>2. QED
  BY <1>1, InitInv, NextInv, PTL DEF Spec

\* For every delivery the parser reads no byte outside the data, reads each
\* size byte once, and returns no more elements than announced.
THEOREM ParserStaysInBounds == Spec => []InBounds
<1>1. IInv => InBounds
  BY DEF IInv
<1>2. QED
  BY <1>1, InitInv, NextInv, PTL DEF Spec
-----------------------------------------------------------------------------
(* What the parser reads of an encoded collection *)

items == input.items
stored == Stored(items)
body == value.body

\* Cut anywhere: all texts but the last are whole, the last is what is left of
\* its item, and while there is data the parser stands where the next begins.
BeginningsRead ==
    /\ \A k \in 1..i :
         /\ results[k] \in Remnants(items[k])
         /\ k < i => results[k] = items[k]
    /\ (i < value.count /\ offset < Len(body)) =>
         /\ offset = Begins(stored)[i]
         /\ i # 0 => results[i] = items[i]

\* Whole: every text is its item, and the next one is there.
ItemsRead ==
    /\ \A k \in 1..i : results[k] = items[k]
    /\ i < value.count => offset = Begins(stored)[i] /\ offset < Len(body)

\* The control around the loop.
LoopControl ==
    /\ input \in Inputs
    /\ pc = "start" => i = 0 /\ offset = 0 /\ results = <<>>
    /\ (pc = "done" /\ Parseable) => AtEnd /\ result = AsColumn(results)

ReadInv ==
    /\ IInv
    /\ LoopControl
    /\ input.form # "any" => BeginningsRead
    /\ input.form = "whole" => ItemsRead

\* The facts about an encoded delivery that every step needs.
LEMMA EncodedInput ==
  ASSUME TypeOK, input \in Inputs, input.form # "any"
  PROVE  /\ items \in Seq(Text) /\ stored \in Seq(Seq(Byte)) /\ body \in Seq(Byte)
         /\ Len(items) \in Nat /\ Len(body) \in Nat
         /\ Len(stored) = Len(items)
         /\ value.count = Len(items)
         /\ LaidOut(stored, body)
         /\ Begins(stored) \in [0..Len(items) -> Nat]
         /\ Begins(stored)[0] = 0
         /\ \A k \in 1..Len(items) :
              /\ items[k] \in Text
              /\ stored[k] = Utf8(items[k])
              /\ stored[k] \in Seq(Byte)
              /\ Len(stored[k]) \in Nat
              /\ Begins(stored)[k] = Begins(stored)[k - 1] + Len(stored[k]) + 5
<1>1. items \in Seq(Text) /\ body \in Seq(Byte)
  BY DEF TypeOK, Deliveries, Values, value, body, items
<1>2. value.count = Len(items) /\ LaidOut(stored, body)
  BY InputsAssumption DEF items, stored, body, value
<1>3. \A k \in 1..Len(items) : items[k] \in Text /\ Utf8(items[k]) \in Seq(Byte)
  BY <1>1, ElementOfSeq, Utf8Layout
<1>4. /\ stored \in Seq(Seq(Byte)) /\ Len(stored) = Len(items)
      /\ \A k \in 1..Len(items) : stored[k] = Utf8(items[k])
  <2>1. stored = [k \in 1..Len(items) |-> Utf8(items[k])] /\ Len(items) \in Nat
    BY <1>1 DEF stored, Stored
  <2>2. QED
    BY <1>3, <2>1
<1>5. \A k \in 1..Len(items) : stored[k] \in Seq(Byte) /\ Len(stored[k]) \in Nat
  BY <1>3, <1>4
<1>6. /\ Begins(stored) \in [0..Len(stored) -> Nat]
      /\ Begins(stored)[0] = 0
      /\ \A k \in 1..Len(stored) :
           Begins(stored)[k] = Begins(stored)[k - 1] + Len(stored[k]) + 5
  BY <1>4, BeginsIsAFunction
<1>7. QED
  BY <1>1, <1>2, <1>3, <1>4, <1>5, <1>6

\* A slice of the data that holds the beginning of a text, and nothing else,
\* decodes to what is left of it.
LEMMA DecodedText ==
  ASSUME NEW data \in Seq(Byte), NEW text \in Text,
         NEW from \in Nat, NEW len \in Nat,
         len <= Len(Utf8(text)), from + len <= Len(data),
         \A j \in 1..len : data[from + j] = Utf8(text)[j]
  PROVE  LET read == Decode(SubSeq(data, from + 1, from + len))
         IN  read \in Remnants(text) /\ (len = Len(Utf8(text)) => read = text)
<1> DEFINE slice == SubSeq(data, from + 1, from + len)
<1>1. \A j \in (from + 1)..(from + len) : data[j] \in Byte
  <2>1. TAKE j \in (from + 1)..(from + len)
  <2>2. j \in 1..Len(data)
    BY LenProperties
  <2>3. QED
    BY <2>2, ElementOfSeq
<1>2. /\ slice \in Seq(Byte) /\ Len(slice) = len
      /\ \A j \in 1..len : slice[j] = data[from + j]
  <2>1. /\ slice \in Seq(Byte)
        /\ Len(slice) = IF from + 1 <= from + len THEN from + len - (from + 1) + 1 ELSE 0
        /\ \A j \in 1..(from + len) - (from + 1) + 1 : slice[j] = data[from + 1 + j - 1]
    <3>1. from + 1 \in Int /\ from + len \in Int
      OBVIOUS
    <3>2. QED
      BY <1>1, <3>1, SubSeqProperties
  <2> HIDE DEF slice
  <2>2. Len(slice) = len /\ (from + len) - (from + 1) + 1 = len
    BY <2>1
  <2>3. \A j \in 1..len : from + 1 + j - 1 = from + j
    OBVIOUS
  <2>4. \A j \in 1..len : slice[j] = data[from + j]
    <3>1. TAKE j \in 1..len
    <3>2. slice[j] = data[from + 1 + j - 1]
      BY <2>1, <2>2
    <3>3. QED
      BY <3>2, <2>3
  <2>5. QED
    BY <2>1, <2>2, <2>4
<1> HIDE DEF slice
<1>3. Len(slice) <= Len(Utf8(text)) /\ \A j \in 1..Len(slice) : slice[j] = Utf8(text)[j]
  BY <1>2
<1>4. Decode(slice) \in Remnants(text) /\ (Len(slice) = Len(Utf8(text)) => Decode(slice) = text)
  BY <1>2, <1>3, DecodesRemnant
<1>5. QED
  BY <1>2, <1>4 DEF slice

\* One turn of the loop over an encoded collection: the text appended, and
\* where the offset comes to stand.
LEMMA ElementReads ==
  ASSUME IInv, LoopControl, Element, input.form # "any", BeginningsRead
  PROVE  \E len \in Nat, text \in Text :
           /\ i + 1 \in 1..Len(items)
           /\ len <= Len(stored[i + 1])
           /\ results' = Append(results, text)
           /\ text \in Remnants(items[i + 1])
           /\ len = Len(stored[i + 1]) => text = items[i + 1]
           /\ offset = Begins(stored)[i]
           /\ len < Len(stored[i + 1]) => len = Len(body) - offset - 1
           /\ (i + 1 < Len(items) /\ offset' < Len(body)) =>
                /\ offset' = Begins(stored)[i + 1]
                /\ len = Len(stored[i + 1])
           /\ (i + 1 < Len(items) /\ Begins(stored)[i + 1] < Len(body)) =>
                offset' = Begins(stored)[i + 1]
<1> DEFINE item == stored[i + 1]
           size == body[offset + 1]
           available == Available - 1
           len == Least(Len(item), available)
<1>1. TypeOK /\ InBounds /\ input \in Inputs
  BY DEF IInv, LoopControl
<1>2. /\ stored \in Seq(Seq(Byte)) /\ body \in Seq(Byte)
      /\ Len(items) \in Nat /\ Len(body) \in Nat
      /\ Len(stored) = Len(items)
      /\ value.count = Len(items)
      /\ LaidOut(stored, body)
      /\ Begins(stored) \in [0..Len(items) -> Nat]
      /\ \A k \in 1..Len(items) :
           /\ items[k] \in Text
           /\ stored[k] = Utf8(items[k])
           /\ stored[k] \in Seq(Byte)
           /\ Len(stored[k]) \in Nat
           /\ Begins(stored)[k] = Begins(stored)[k - 1] + Len(stored[k]) + 5
  BY <1>1, EncodedInput
<1>3. /\ i \in Nat /\ offset \in Nat
      /\ offset < Len(body) /\ i < Len(items)
  BY <1>1, <1>2 DEF Element, TypeOK, body
<1>4. i + 1 \in 1..Len(items) /\ i \in 0..Len(items) /\ (i + 1) - 1 = i
  BY <1>2, <1>3
<1>5. offset = Begins(stored)[i]
  BY <1>2, <1>3 DEF BeginningsRead
<1>6. /\ item \in Seq(Byte) /\ Len(item) \in Nat
      /\ items[i + 1] \in Text /\ item = Utf8(items[i + 1])
  BY <1>2, <1>4
<1>7. Begins(stored)[i + 1] = offset + Len(item) + 5
  BY <1>2, <1>4, <1>5
<1>8. size = Len(item) + 1
  <2>1. i + 1 \in DOMAIN stored
    BY <1>2, <1>4
  <2>2. QED
    BY <2>1, <1>2, <1>3, <1>4, <1>5 DEF LaidOut
<1>9. \A j \in 1..Len(item) :
        offset + 1 + j <= Len(body) => body[offset + 1 + j] = item[j]
  <2>1. i + 1 \in DOMAIN stored /\ DOMAIN item = 1..Len(item)
    BY <1>2, <1>4, <1>6
  <2>2. \A j \in DOMAIN item :
          Begins(stored)[(i + 1) - 1] + 1 + j <= Len(body)
            => body[Begins(stored)[(i + 1) - 1] + 1 + j] = item[j]
    BY <2>1, <1>2 DEF LaidOut
  <2>3. Begins(stored)[(i + 1) - 1] = offset
    BY <1>4, <1>5
  <2>4. QED
    BY <2>1, <2>2, <2>3
<1>10. available \in Nat /\ available = Len(body) - offset - 1
  BY <1>3, <1>2 DEF Available, body
<1> HIDE DEF item, size, available
<1>11. /\ len \in Nat /\ len <= Len(item) /\ len <= available
       /\ len < Len(item) => len = available
  BY <1>6, <1>10 DEF Least
<1>12. (IF size > 1 THEN Least(size - 1, available) ELSE 0) = len
  BY <1>6, <1>8, <1>10 DEF Least
<1> HIDE DEF len
<1> DEFINE text == Decode(SubSeq(body, offset + 2, offset + 1 + len))
<1>13. results' = Append(results, text)
  BY <1>12 DEF Element, size, available, body
<1>14. /\ text \in Text /\ text \in Remnants(items[i + 1])
       /\ len = Len(item) => text = items[i + 1]
  <2>1. \A j \in 1..len : body[(offset + 1) + j] = item[j]
    <3>1. TAKE j \in 1..len
    <3>2. Len(body) \in Nat
      BY <1>2
    <3>3. j \in 1..Len(item) /\ offset + 1 + j <= Len(body) /\ (offset + 1) + j = offset + 1 + j
      BY <3>2, <1>3, <1>6, <1>10, <1>11
    <3>4. QED
      BY <3>3, <1>9
  <2>2. /\ offset + 1 \in Nat /\ (offset + 1) + len <= Len(body)
        /\ (offset + 1) + 1 = offset + 2 /\ (offset + 1) + len = offset + 1 + len
        /\ offset + 2 \in Nat \ {0} /\ offset + 1 + len \in Int
    BY <1>2, <1>3, <1>10, <1>11
  <2>3. /\ text \in Remnants(items[i + 1])
        /\ len = Len(item) => text = items[i + 1]
    <3>1. body \in Seq(Byte) /\ items[i + 1] \in Text /\ len \in Nat
          /\ len <= Len(Utf8(items[i + 1]))
      BY <1>2, <1>6, <1>11
    <3> DEFINE from == offset + 1
    <3>2. from \in Nat /\ from + len <= Len(body)
      BY <2>2
    <3>3. \A j \in 1..len : body[from + j] = Utf8(items[i + 1])[j]
      BY <2>1, <1>6
    <3>4. SubSeq(body, from + 1, from + len) = SubSeq(body, offset + 2, offset + 1 + len)
      BY <2>2
    <3> HIDE DEF from, text
    <3>5. LET read == Decode(SubSeq(body, from + 1, from + len))
          IN  /\ read \in Remnants(items[i + 1])
              /\ len = Len(Utf8(items[i + 1])) => read = items[i + 1]
      BY <3>1, <3>2, <3>3, DecodedText
    <3>6. text = Decode(SubSeq(body, from + 1, from + len))
      BY <3>4 DEF text
    <3>7. QED
      BY <3>5, <3>6, <1>6
  <2>4. text \in Text
    BY <1>2, <2>2, DecodedSlice
  <2>5. QED
    BY <2>3, <2>4
<1> HIDE DEF text
<1>15. offset' = offset + 1 + Least(size, available) + Padding
  BY DEF Element, size, available, Advance, body
<1>16. i + 1 < Len(items) => Padding = 3
  BY <1>2, <1>3 DEF Padding
<1>17. Len(body) \in Nat /\ Len(items) \in Nat
  BY <1>2
<1>18. i + 1 < Len(items) =>
         offset' = IF Len(item) + 1 <= Len(body) - offset - 1
                     THEN Begins(stored)[i + 1] ELSE Len(body) + 3
  <2> SUFFICES ASSUME i + 1 < Len(items)
               PROVE  offset' = IF Len(item) + 1 <= Len(body) - offset - 1
                                  THEN Begins(stored)[i + 1] ELSE Len(body) + 3
    OBVIOUS
  <2>1. offset' = offset + 1 + Least(Len(item) + 1, Len(body) - offset - 1) + 3
    BY <1>8, <1>10, <1>15, <1>16
  <2>2. CASE Len(item) + 1 <= Len(body) - offset - 1
    <3>1. Least(Len(item) + 1, Len(body) - offset - 1) = Len(item) + 1
      <4>1. \A a, b \in Int : a <= b => Least(a, b) = a
        BY DEF Least
      <4>2. Len(item) + 1 \in Int /\ Len(body) - offset - 1 \in Int
        BY <1>3, <1>6, <1>17
      <4>3. QED
        BY <2>2, <4>1, <4>2
    <3>2. offset' = offset + 1 + (Len(item) + 1) + 3
      BY <2>1, <3>1
    <3>3. offset' = Begins(stored)[i + 1]
      BY <3>2, <1>3, <1>6, <1>7
    <3>4. QED
      BY <2>2, <3>3
  <2>3. CASE Len(item) + 1 > Len(body) - offset - 1
    <3>1. Least(Len(item) + 1, Len(body) - offset - 1) = Len(body) - offset - 1
      <4>1. \A a, b \in Int : a > b => Least(a, b) = b
        BY DEF Least
      <4>2. Len(item) + 1 \in Int /\ Len(body) - offset - 1 \in Int
        BY <1>3, <1>6, <1>17
      <4>3. QED
        BY <2>3, <4>1, <4>2
    <3>2. offset' = offset + 1 + (Len(body) - offset - 1) + 3
      BY <2>1, <3>1
    <3>3. offset' = Len(body) + 3
      BY <3>2, <1>3, <1>17
    <3>4. ~ (Len(item) + 1 <= Len(body) - offset - 1)
      BY <2>3, <1>3, <1>6, <1>17
    <3>5. QED
      BY <3>3, <3>4
  <2>4. QED
    BY <2>2, <2>3, <1>3, <1>6, <1>17
<1>19. (i + 1 < Len(items) /\ offset' < Len(body)) =>
         offset' = Begins(stored)[i + 1] /\ len = Len(item)
  BY <1>3, <1>6, <1>10, <1>11, <1>17, <1>18
<1>20. (i + 1 < Len(items) /\ Begins(stored)[i + 1] < Len(body)) =>
         offset' = Begins(stored)[i + 1]
  BY <1>3, <1>6, <1>7, <1>17, <1>18
<1>21. QED
  BY <1>4, <1>5, <1>10, <1>11, <1>13, <1>14, <1>19, <1>20 DEF item

-----------------------------------------------------------------------------
(* The reading is an invariant *)

LEMMA InitReads == Init => ReadInv
<1> SUFFICES ASSUME Init PROVE ReadInv
  OBVIOUS
<1>1. IInv
  BY InitInv
<1>2. /\ input \in Inputs /\ pc = "start" /\ i = 0 /\ offset = 0 /\ results = <<>>
  BY DEF Init
<1>3. LoopControl
  BY <1>2 DEF LoopControl
<1>4. ASSUME input.form # "any" PROVE BeginningsRead
  <2>1. Begins(stored)[0] = 0
    BY <1>1, <1>2, <1>4, EncodedInput DEF IInv
  <2>2. QED
    BY <1>2, <2>1 DEF BeginningsRead
<1>5. ASSUME input.form = "whole" PROVE ItemsRead
  <2>1. input.form # "any"
    BY <1>5
  <2>2. /\ stored \in Seq(Seq(Byte)) /\ Len(items) \in Nat /\ Len(body) \in Nat
        /\ Len(stored) = Len(items) /\ value.count = Len(items)
        /\ Begins(stored)[0] = 0
        /\ \A k \in 1..Len(items) : Len(stored[k]) \in Nat
    BY <1>1, <1>2, <2>1, EncodedInput DEF IInv
  <2>3. Complete(stored, body)
    BY <1>2, <1>5, InputsAssumption DEF items, stored, body, value
  <2>4. ASSUME 0 < value.count PROVE 0 < Len(body)
    <3>1. 1 \in DOMAIN stored /\ 1 \in 1..Len(items)
      BY <2>2, <2>4
    <3>2. Begins(stored)[1 - 1] + 1 + Len(stored[1]) <= Len(body)
      BY <3>1, <2>3 DEF Complete
    <3>3. QED
      BY <3>1, <3>2, <2>2
  <2>5. QED
    BY <1>2, <2>2, <2>4 DEF ItemsRead
<1>6. QED
  BY <1>1, <1>3, <1>4, <1>5 DEF ReadInv

\* The text of one more element: those before it stay.
LEMMA OneMoreText ==
  ASSUME NEW texts \in Seq(Text), NEW text \in Text, NEW k \in 1..Len(texts) + 1
  PROVE  Append(texts, text)[k] = IF k <= Len(texts) THEN texts[k] ELSE text
BY AppendProperties

LEMMA ElementKeepsReading ==
  ASSUME ReadInv, Element
  PROVE  ReadInv'
<1>1. IInv /\ LoopControl /\ TypeOK /\ InBounds
  BY DEF ReadInv, IInv
<1>2. IInv'
  BY <1>1, ElementInv
<1>3. pc = "loop" /\ UNCHANGED <<input, pc, result>> /\ i' = i + 1
  BY DEF Element
<1>4. /\ items' = items /\ stored' = stored /\ body' = body /\ value' = value
      /\ input'.form = input.form
  BY <1>3 DEF items, stored, body, value
<1>5. LoopControl'
  BY <1>1, <1>3 DEF LoopControl
<1>6. ASSUME input.form # "any"
      PROVE  BeginningsRead' /\ (input.form = "whole" => ItemsRead')
  <2>1. BeginningsRead
    BY <1>6 DEF ReadInv
  <2>2. PICK len \in Nat, text \in Text :
          /\ i + 1 \in 1..Len(items)
          /\ len <= Len(stored[i + 1])
          /\ results' = Append(results, text)
          /\ text \in Remnants(items[i + 1])
          /\ len = Len(stored[i + 1]) => text = items[i + 1]
          /\ offset = Begins(stored)[i]
          /\ len < Len(stored[i + 1]) => len = Len(body) - offset - 1
          /\ (i + 1 < Len(items) /\ offset' < Len(body)) =>
               /\ offset' = Begins(stored)[i + 1]
               /\ len = Len(stored[i + 1])
          /\ (i + 1 < Len(items) /\ Begins(stored)[i + 1] < Len(body)) =>
               offset' = Begins(stored)[i + 1]
    BY <1>1, <1>6, <2>1, ElementReads
  <2>3. /\ Len(items) \in Nat /\ Len(body) \in Nat
        /\ Len(stored) = Len(items) /\ value.count = Len(items)
        /\ stored \in Seq(Seq(Byte))
        /\ Begins(stored) \in [0..Len(items) -> Nat]
        /\ \A k \in 1..Len(items) : Len(stored[k]) \in Nat
    BY <1>1, <1>6, EncodedInput DEF LoopControl
  <2>4. Len(stored[i + 1]) \in Nat
    BY <2>2, <2>3
  <2>5. /\ i \in Nat /\ offset \in Nat /\ results \in Seq(Text) /\ Len(results) = i
        /\ offset < Len(body) /\ i < value.count
    BY <1>1 DEF TypeOK, InBounds, Element, body
  <2>8. \A k \in 1..i + 1 : results'[k] = IF k <= i THEN results[k] ELSE text
    BY <2>2, <2>5, OneMoreText
  <2>9. \A k \in 1..i : results[k] = items[k]
    <3>1. TAKE k \in 1..i
    <3>2. CASE k < i
      BY <3>2, <2>1 DEF BeginningsRead
    <3>3. CASE k = i
      BY <3>3, <2>1, <2>5 DEF BeginningsRead
    <3>4. QED
      BY <3>2, <3>3, <2>5
  <2>10. ASSUME NEW k \in 1..i + 1
         PROVE  /\ results'[k] \in Remnants(items[k])
                /\ k < i + 1 => results'[k] = items[k]
    <3>1. CASE k <= i
      <4>1. k \in 1..i /\ results'[k] = results[k] /\ results[k] = items[k]
        BY <3>1, <2>5, <2>8, <2>9
      <4>2. results[k] \in Remnants(items[k])
        BY <4>1, <2>1 DEF BeginningsRead
      <4>3. QED
        BY <4>1, <4>2
    <3>2. CASE k = i + 1
      <4>1. results'[k] = text
        BY <3>2, <2>5, <2>8
      <4>2. QED
        BY <3>2, <4>1, <2>2, <2>5
    <3>3. QED
      BY <3>1, <3>2, <2>5
  <2>11. ASSUME i + 1 < value.count, offset' < Len(body)
         PROVE  offset' = Begins(stored)[i + 1] /\ results'[i + 1] = items[i + 1]
    <3>1. offset' = Begins(stored)[i + 1] /\ text = items[i + 1]
      BY <2>11, <2>2, <2>3
    <3>2. results'[i + 1] = text
      BY <2>5, <2>8
    <3>3. QED
      BY <3>1, <3>2
  <2>12. BeginningsRead'
    BY <1>3, <1>4, <2>10, <2>11 DEF BeginningsRead
  <2>13. ASSUME input.form = "whole" PROVE ItemsRead'
    <3>1. Complete(stored, body)
      BY <1>1, <2>13, InputsAssumption DEF LoopControl, items, stored, body, value
    <3>2. offset + 1 + Len(stored[i + 1]) <= Len(body)
      <4>1. i + 1 \in DOMAIN stored /\ (i + 1) - 1 = i
        BY <2>2, <2>3, <2>5
      <4>2. Begins(stored)[(i + 1) - 1] + 1 + Len(stored[i + 1]) <= Len(body)
        BY <3>1, <4>1 DEF Complete
      <4>3. QED
        BY <4>1, <4>2, <2>2
    <3>3. len = Len(stored[i + 1])
      BY <2>2, <2>3, <2>4, <2>5, <3>2
    <3>4. text = items[i + 1]
      BY <3>3, <2>2
    <3>5. ASSUME NEW k \in 1..i + 1 PROVE results'[k] = items[k]
      <4>1. CASE k <= i
        <5>1. k \in 1..i
          BY <4>1, <2>5
        <5>2. QED
          BY <4>1, <5>1, <2>8, <2>9
      <4>2. CASE k = i + 1
        BY <4>2, <2>5, <2>8, <3>4
      <4>3. QED
        BY <4>1, <4>2, <2>5
    <3>6. ASSUME i + 1 < value.count
          PROVE  offset' = Begins(stored)[i + 1] /\ offset' < Len(body)
      <4>1. /\ i + 2 \in 1..Len(items) /\ i + 2 \in DOMAIN stored
            /\ (i + 2) - 1 = i + 1 /\ i + 1 \in 0..Len(items)
        BY <3>6, <2>3, <2>5
      <4>2. Begins(stored)[i + 1] + 1 + Len(stored[i + 2]) <= Len(body)
        <5>1. Begins(stored)[(i + 2) - 1] + 1 + Len(stored[i + 2]) <= Len(body)
          BY <4>1, <3>1 DEF Complete
        <5>2. QED
          BY <4>1, <5>1
      <4>3. Len(stored[i + 2]) \in Nat /\ Begins(stored)[i + 1] \in Nat
        BY <4>1, <2>3
      <4>4. Begins(stored)[i + 1] < Len(body)
        BY <4>2, <4>3, <2>3
      <4>5. i + 1 < Len(items)
        BY <3>6, <2>3
      <4>6. QED
        BY <4>4, <4>5, <2>2
    <3>7. QED
      BY <1>3, <1>4, <3>5, <3>6 DEF ItemsRead
  <2>14. QED
    BY <2>12, <2>13
<1>7. QED
  BY <1>2, <1>4, <1>5, <1>6 DEF ReadInv

\* Every other step leaves what was read alone.
LEMMA NextKeepsReading ==
  ASSUME ReadInv, [Next]_vars
  PROVE  ReadInv'
<1>1. IInv /\ IInv'
  BY NextInv DEF ReadInv
<1>2. CASE Element
  BY <1>2, ElementKeepsReading
<1>3. ASSUME UNCHANGED <<input, i, offset, results>>, LoopControl'
      PROVE  ReadInv'
  <2>1. /\ items' = items /\ stored' = stored /\ body' = body /\ value' = value
        /\ input' = input /\ i' = i /\ offset' = offset /\ results' = results
    BY <1>3 DEF items, stored, body, value
  <2>2. (BeginningsRead' <=> BeginningsRead) /\ (ItemsRead' <=> ItemsRead)
    BY <2>1 DEF BeginningsRead, ItemsRead
  <2>3. QED
    BY <1>1, <1>3, <2>1, <2>2 DEF ReadInv
<1>4. CASE Reject \/ PassNative
  <2>1. LoopControl'
    BY <1>4 DEF ReadInv, LoopControl, Reject, PassNative, Native, Parseable, value
  <2>2. QED
    BY <1>3, <1>4, <2>1 DEF Reject, PassNative
<1>5. CASE Enter \/ PassNone \/ EncodeRaises
  <2>1. LoopControl'
    BY <1>5 DEF ReadInv, LoopControl, Enter, PassNone, EncodeRaises
  <2>2. QED
    BY <1>3, <1>5, <2>1 DEF Enter, PassNone, EncodeRaises
<1>6. CASE Finish
  <2>1. LoopControl'
    BY <1>6 DEF ReadInv, LoopControl, Finish, Parseable, AtEnd, AsColumn, value
  <2>2. QED
    BY <1>3, <1>6, <2>1 DEF Finish
<1>7. CASE UNCHANGED vars
  <2>1. LoopControl'
    BY <1>7 DEF ReadInv, LoopControl, vars, Parseable, AtEnd, AsColumn, value
  <2>2. QED
    BY <1>3, <1>7, <2>1 DEF vars
<1>8. QED
  BY <1>2, <1>4, <1>5, <1>6, <1>7 DEF Next

LEMMA SpecReads == Spec => []ReadInv
BY InitReads, NextKeepsReading, PTL DEF Spec

\* A whole collection is read back: for any number of items, of any texts a
\* size byte can hold, with or without the null of the last one.
THEOREM CollectionsReadBack == Spec => []ReadsBack
<1>1. ReadInv => ReadsBack
  <2>1. SUFFICES ASSUME ReadInv, pc = "done", input.form = "whole", Parseable
                 PROVE  result = AsColumn(input.items)
    BY DEF ReadsBack
  <2>2. /\ TypeOK /\ InBounds /\ input \in Inputs /\ ItemsRead
        /\ AtEnd /\ result = AsColumn(results)
    BY <2>1 DEF ReadInv, IInv, LoopControl
  <2>3. items \in Seq(Text) /\ Len(items) \in Nat /\ value.count = Len(items)
    BY <2>1, <2>2, EncodedInput
  <2>4. /\ results \in Seq(Text) /\ Len(results) = i /\ i \in Nat /\ i <= value.count
        /\ offset \in Nat /\ Len(body) \in Nat
    BY <2>2 DEF TypeOK, InBounds, Deliveries, Values, value, body
  <2>5. i = Len(items)
    BY <2>2, <2>3, <2>4 DEF AtEnd, ItemsRead, body
  <2>6. \A k \in 1..Len(items) : results[k] = items[k]
    BY <2>2, <2>5 DEF ItemsRead
  <2>7. results = items
    <3>1. results \in Seq(Text) /\ items \in Seq(Text) /\ Len(results) = Len(items)
      BY <2>3, <2>4, <2>5
    <3>2. \A k \in 1..Len(results) : results[k] = items[k]
      BY <3>1, <2>6
    <3>3. QED
      BY <3>1, <3>2, SeqEqual
  <2>8. QED
    BY <2>2, <2>7 DEF items
<1>2. QED
  BY <1>1, SpecReads, PTL

\* Wherever a collection is cut, between characters or inside one, the first
\* items are read whole and after them at most one more text: the characters of
\* its item that arrived, and one U+FFFD for a character that did not all.
THEOREM CutYieldsPrefix == Spec => []CutIsPrefix
<1>1. ReadInv => CutIsPrefix
  <2>1. SUFFICES ASSUME ReadInv, pc = "done", input.form = "cut", Parseable
                 PROVE  \/ result = AsColumn(<<>>)
                        \/ \E n \in DOMAIN items : \E rest \in Remnants(items[n]) :
                             result = AsColumn(Append(SubSeq(items, 1, n - 1), rest))
    BY DEF CutIsPrefix, items
  <2>2. /\ TypeOK /\ InBounds /\ input \in Inputs /\ BeginningsRead
        /\ result = AsColumn(results)
    BY <2>1 DEF ReadInv, IInv, LoopControl
  <2>3. items \in Seq(Text) /\ Len(items) \in Nat /\ value.count = Len(items)
    BY <2>1, <2>2, EncodedInput
  <2>4. /\ results \in Seq(Text) /\ Len(results) = i /\ i \in Nat /\ i <= value.count
    BY <2>2 DEF TypeOK, InBounds
  <2>5. CASE i = 0
    <3>1. results = <<>>
      BY <2>4, <2>5, EmptySeq
    <3>2. QED
      BY <2>2, <3>1
  <2>6. CASE i # 0
    <3> DEFINE first == SubSeq(items, 1, i - 1)
               rest == results[i]
    <3>1. i \in 1..i /\ i \in 1..Len(items) /\ i \in DOMAIN items
      BY <2>3, <2>4, <2>6
    <3>2. rest \in Remnants(items[i]) /\ rest \in Text
      BY <2>2, <2>4, <3>1, ElementOfSeq DEF BeginningsRead
    <3>3. /\ first \in Seq(Text) /\ Len(first) = i - 1
          /\ \A k \in 1..i - 1 : first[k] = items[k]
      <4>1. \A k \in 1..i - 1 : items[k] \in Text
        BY <2>3, <2>4, ElementOfSeq
      <4>2. /\ first \in Seq(Text)
            /\ Len(first) = IF 1 <= i - 1 THEN i - 1 - 1 + 1 ELSE 0
            /\ \A k \in 1..(i - 1) - 1 + 1 : first[k] = items[1 + k - 1]
        <5>1. 1 \in Int /\ i - 1 \in Int
          BY <2>4
        <5>2. QED
          BY <4>1, <5>1, SubSeqProperties
      <4> HIDE DEF first
      <4>3. Len(first) = i - 1 /\ (i - 1) - 1 + 1 = i - 1
        BY <2>4, <2>6, <4>2
      <4>4. \A k \in 1..i - 1 : 1 + k - 1 = k
        BY <2>4
      <4>5. \A k \in 1..i - 1 : first[k] = items[k]
        BY <4>2, <4>3, <4>4
      <4>6. QED
        BY <4>2, <4>3, <4>5
    <3> HIDE DEF first, rest
    <3>4. results = Append(first, rest)
      <4>1. /\ Append(first, rest) \in Seq(Text) /\ Len(Append(first, rest)) = i
            /\ \A k \in 1..i : Append(first, rest)[k] = IF k <= i - 1 THEN first[k] ELSE rest
        <5>1. Append(first, rest) \in Seq(Text) /\ Len(Append(first, rest)) = (i - 1) + 1
          BY <3>2, <3>3, AppendProperties
        <5>2. (i - 1) + 1 = i
          BY <2>4
        <5>3. \A k \in 1..i :
                Append(first, rest)[k] = IF k <= i - 1 THEN first[k] ELSE rest
          BY <3>2, <3>3, <5>2, OneMoreText
        <5>4. QED
          BY <5>1, <5>2, <5>3
      <4>2. \A k \in 1..i : results[k] = Append(first, rest)[k]
        <5>1. TAKE k \in 1..i
        <5>2. CASE k <= i - 1
          <6>1. k \in 1..i - 1 /\ k < i
            BY <2>4, <5>2
          <6>2. results[k] = items[k]
            BY <2>2, <6>1 DEF BeginningsRead
          <6>3. QED
            BY <4>1, <5>2, <6>1, <6>2, <3>3
        <5>3. CASE k = i
          <6>1. ~ (k <= i - 1) /\ results[k] = rest
            BY <2>4, <5>3 DEF rest
          <6>2. QED
            BY <4>1, <6>1
        <5>4. k <= i - 1 \/ k = i
          BY <2>4
        <5>5. QED
          BY <5>2, <5>3, <5>4
      <4>3. QED
        BY <2>4, <4>1, <4>2, SeqEqual
    <3>5. result = AsColumn(Append(first, rest))
      BY <2>2, <3>4
    <3>6. QED
      BY <3>1, <3>2, <3>5 DEF first
  <2>7. QED
    BY <2>5, <2>6
<1>2. QED
  BY <1>1, SpecReads, PTL
=============================================================================
