----------------------------- MODULE SequenceLemmas -----------------------------
(***************************************************************************)
(* Facts about least elements and sequences that the proofs rest on.       *)
(***************************************************************************)
EXTENDS Integers, Sequences, FiniteSets, FiniteSetsExt, SequencesExt, TLAPS, FiniteSetTheorems,
        WellFoundedInduction

\* A non-empty set of naturals has a least element.
LEMMA HasMin ==
  ASSUME NEW T \in SUBSET Nat, T # {}
  PROVE  \E x \in T : \A y \in T : x <= y
<1> DEFINE R == {ss \in Nat \X Nat : ss[1] < ss[2]}
<1>1. IsWellFoundedOn(R, Nat)
  BY NatLessThanWellFounded DEF OpToRel
<1>2. \A x, y \in Nat : x < y => <<x, y>> \in R
  OBVIOUS
<1> HIDE DEF R
<1>3. PICK x \in T : \A y \in T : ~(<<y, x>> \in R)
  BY <1>1, WFMin
<1>4. \A y \in T : ~(y < x)
  BY <1>2, <1>3
<1> QED
  BY <1>4

\* Min returns it.
LEMMA MinIsLeast ==
  ASSUME NEW T \in SUBSET Nat, T # {}
  PROVE  Min(T) \in T /\ \A y \in T : Min(T) <= y
BY HasMin DEF Min

\* A function on 1 .. k is a sequence.
LEMMA FunctionIsSeq ==
  ASSUME NEW S, NEW k \in Nat, NEW f \in [1 .. k -> S]
  PROVE  f \in Seq(S) /\ Len(f) = k /\ DOMAIN f = 1 .. k
OBVIOUS

\* A concatenation: its type, length and elements.
LEMMA ConcatElements ==
  ASSUME NEW S, NEW s \in Seq(S), NEW t \in Seq(S)
  PROVE  /\ s \o t \in Seq(S)
         /\ Len(s \o t) = Len(s) + Len(t)
         /\ \A i \in 1 .. Len(s) : (s \o t)[i] = s[i]
         /\ \A i \in 1 .. Len(t) : (s \o t)[Len(s) + i] = t[i]
OBVIOUS

\* c is s and then t.
IsConcat(c, s, t) ==
  /\ Len(c) = Len(s) + Len(t)
  /\ \A i \in 1 .. Len(s) : c[i] = s[i]
  /\ \A i \in 1 .. Len(t) : c[Len(s) + i] = t[i]

LEMMA ConcatIs ==
  ASSUME NEW S, NEW s \in Seq(S), NEW t \in Seq(S)
  PROVE  s \o t \in Seq(S) /\ IsConcat(s \o t, s, t)
BY ConcatElements DEF IsConcat

\* A part of a sequence, possibly empty.
LEMMA PartElements ==
  ASSUME NEW S, NEW q \in Seq(S), NEW m \in 1 .. Len(q) + 1, NEW n \in 0 .. Len(q), m <= n + 1
  PROVE  /\ SubSeq(q, m, n) \in Seq(S)
         /\ Len(SubSeq(q, m, n)) = n - m + 1
         /\ \A i \in 1 .. n - m + 1 : SubSeq(q, m, n)[i] = q[m + i - 1]
OBVIOUS

\* Inserting or removing one element, or a block of them, gives a sequence over
\* the same set.
LEMMA InsertAtType ==
  ASSUME NEW S, NEW q \in Seq(S), NEW e \in S, NEW k \in 1 .. Len(q) + 1
  PROVE  InsertAt(q, k, e) \in Seq(S)
<1>1. SubSeq(q, 1, k - 1) \in Seq(S) /\ SubSeq(q, k, Len(q)) \in Seq(S)
  BY PartElements
<1>2. SubSeq(q, 1, k - 1) \o <<e>> \in Seq(S)
  BY <1>1
<1> QED
  BY <1>1, <1>2 DEF InsertAt

\* Leaving out a part of a sequence keeps its element set.
LEMMA CutType ==
  ASSUME NEW S, NEW q \in Seq(S), NEW k \in 1 .. Len(q) + 1, NEW m \in 1 .. Len(q) + 1
  PROVE  SubSeq(q, 1, k - 1) \o SubSeq(q, m, Len(q)) \in Seq(S)
<1>1. SubSeq(q, 1, k - 1) \in Seq(S) /\ SubSeq(q, m, Len(q)) \in Seq(S)
  BY PartElements
<1> QED
  BY <1>1

\* RemoveAt leaves out one element.
LEMMA RemoveAtType ==
  ASSUME NEW S, NEW q \in Seq(S), NEW k \in 1 .. Len(q)
  PROVE  RemoveAt(q, k) \in Seq(S)
BY CutType, k + 1 \in 1 .. Len(q) + 1 DEF RemoveAt

\* Two sequences of one length with the same elements are the same.
LEMMA SameSequence ==
  ASSUME NEW S, NEW s \in Seq(S), NEW t \in Seq(S), Len(s) = Len(t),
         \A i \in 1 .. Len(s) : s[i] = t[i]
  PROVE  s = t
<1>1. s = [i \in 1 .. Len(s) |-> s[i]] /\ t = [i \in 1 .. Len(t) |-> t[i]]
  OBVIOUS
<1> QED
  BY <1>1

\* Moving the head of one sequence to the end of another keeps their
\* concatenation.
LEMMA MoveHead ==
  ASSUME NEW S, NEW s \in Seq(S), NEW q \in Seq(S), q # <<>>
  PROVE  Append(s, Head(q)) \o Tail(q) = s \o q
<1> DEFINE l == Append(s, Head(q)) \o Tail(q)
           r == s \o q
<1>1. /\ Append(s, Head(q)) \in Seq(S) /\ Tail(q) \in Seq(S) /\ Len(q) > 0
      /\ Len(Append(s, Head(q))) = Len(s) + 1 /\ Len(Tail(q)) = Len(q) - 1
  OBVIOUS
<1>2. l \in Seq(S) /\ r \in Seq(S) /\ Len(l) = Len(s) + Len(q) /\ Len(r) = Len(s) + Len(q)
  BY <1>1
<1>3. \A i \in 1 .. Len(s) + Len(q) : l[i] = r[i]
  BY <1>1
<1> HIDE DEF l, r
<1>4. l = r
  BY <1>2, <1>3, SameSequence
<1> QED
  BY <1>4 DEF l, r

\* Appending to the second of two sequences appends to their concatenation.
LEMMA AppendConcat ==
  ASSUME NEW S, NEW s \in Seq(S), NEW q \in Seq(S), NEW e \in S
  PROVE  s \o Append(q, e) = Append(s \o q, e)
<1> DEFINE l == s \o Append(q, e)
           r == Append(s \o q, e)
<1>1. l \in Seq(S) /\ r \in Seq(S) /\ Len(l) = Len(s) + Len(q) + 1 /\ Len(r) = Len(l)
  OBVIOUS
<1>2. \A i \in 1 .. Len(l) : l[i] = r[i]
  OBVIOUS
<1> HIDE DEF l, r
<1>3. l = r
  BY <1>1, <1>2, SameSequence
<1> QED
  BY <1>3 DEF l, r

\* What InsertAt returns, element by element.
LEMMA InsertAtElements ==
  ASSUME NEW S, NEW q \in Seq(S), NEW e \in S, NEW k \in 1 .. Len(q) + 1
  PROVE  /\ InsertAt(q, k, e) \in Seq(S)
         /\ Len(InsertAt(q, k, e)) = Len(q) + 1
         /\ InsertAt(q, k, e)[k] = e
         /\ \A i \in 1 .. k - 1 : InsertAt(q, k, e)[i] = q[i]
         /\ \A i \in k .. Len(q) : InsertAt(q, k, e)[i + 1] = q[i]
<1> DEFINE l == SubSeq(q, 1, k - 1)
           r == SubSeq(q, k, Len(q))
           le == l \o <<e>>
<1>1. /\ l \in Seq(S) /\ Len(l) = k - 1 /\ \A i \in 1 .. k - 1 : l[i] = q[i]
      /\ r \in Seq(S) /\ Len(r) = Len(q) - k + 1 /\ \A i \in 1 .. Len(q) - k + 1 : r[i] = q[k + i - 1]
  BY PartElements
<1> HIDE DEF l, r
<1>2. /\ le \in Seq(S) /\ Len(le) = k /\ le[k] = e
      /\ \A i \in 1 .. k - 1 : le[i] = q[i]
  BY <1>1
<1> HIDE DEF le
<1>3. InsertAt(q, k, e) = le \o r
  BY DEF InsertAt, le, l, r
<1>4. /\ le \o r \in Seq(S) /\ Len(le \o r) = Len(q) + 1
      /\ \A i \in 1 .. k : (le \o r)[i] = le[i]
      /\ \A i \in 1 .. Len(q) - k + 1 : (le \o r)[k + i] = r[i]
  <2> DEFINE w == le \o r
  <2>1. /\ w \in Seq(S) /\ Len(w) = Len(le) + Len(r)
        /\ \A i \in 1 .. Len(le) : w[i] = le[i]
        /\ \A i \in 1 .. Len(r) : w[Len(le) + i] = r[i]
    <3>1. le \in Seq(S) /\ r \in Seq(S)
      BY <1>1, <1>2
    <3> QED
      BY ONLY <3>1, ConcatElements DEF w
  <2> HIDE DEF w
  <2>2. w \in Seq(S) /\ Len(w) = Len(q) + 1
    BY <1>1, <1>2, <2>1
  <2>3. \A i \in 1 .. k : w[i] = le[i]
    BY <1>2, <2>1
  <2>4. \A i \in 1 .. Len(q) - k + 1 : w[k + i] = r[i]
    BY <1>1, <1>2, <2>1
  <2> QED
    BY <2>2, <2>3, <2>4 DEF w
<1>5. ASSUME NEW i \in k .. Len(q) PROVE (le \o r)[i + 1] = q[i]
  <2>1. i - k + 1 \in 1 .. Len(q) - k + 1 /\ k + (i - k + 1) = i + 1 /\ k + (i - k + 1) - 1 = i
    OBVIOUS
  <2>2. (le \o r)[k + (i - k + 1)] = r[i - k + 1] /\ r[i - k + 1] = q[k + (i - k + 1) - 1]
    BY <1>1, <1>4, <2>1
  <2> QED
    BY <2>1, <2>2
<1> QED
  BY <1>2, <1>3, <1>4, <1>5

\* c is what is left of q without the elements from k on and before m.
IsCut(c, q, k, m) ==
  /\ k \in 1 .. Len(q) + 1 /\ m \in k .. Len(q) + 1
  /\ Len(c) = Len(q) - (m - k)
  /\ \A i \in 1 .. k - 1 : c[i] = q[i]
  /\ \A i \in m .. Len(q) : c[i - (m - k)] = q[i]

\* The two parts around a block, put together.
Cut(q, k, m) == SubSeq(q, 1, k - 1) \o SubSeq(q, m, Len(q))

LEMMA CutIsCut ==
  ASSUME NEW S, NEW q \in Seq(S), NEW k \in 1 .. Len(q) + 1, NEW m \in k .. Len(q) + 1
  PROVE  Cut(q, k, m) \in Seq(S) /\ IsCut(Cut(q, k, m), q, k, m)
<1> DEFINE c == Cut(q, k, m)
           l == SubSeq(q, 1, k - 1)
           r == SubSeq(q, m, Len(q))
<1>1. /\ l \in Seq(S) /\ Len(l) = k - 1 /\ \A i \in 1 .. k - 1 : l[i] = q[i]
      /\ r \in Seq(S) /\ Len(r) = Len(q) - m + 1 /\ \A i \in 1 .. Len(q) - m + 1 : r[i] = q[m + i - 1]
  BY PartElements
<1>2. c = l \o r
  BY DEF Cut
<1> HIDE DEF l, r, c
<1>3. /\ c \in Seq(S) /\ Len(c) = Len(q) - (m - k)
      /\ \A i \in 1 .. k - 1 : c[i] = l[i]
      /\ \A i \in 1 .. Len(q) - m + 1 : c[k - 1 + i] = r[i]
  <2>1. /\ c \in Seq(S) /\ Len(c) = Len(l) + Len(r)
        /\ \A i \in 1 .. Len(l) : c[i] = l[i]
        /\ \A i \in 1 .. Len(r) : c[Len(l) + i] = r[i]
    <3>1. l \in Seq(S) /\ r \in Seq(S)
      BY <1>1
    <3> QED
      BY ONLY <1>2, <3>1, ConcatElements
  <2>2. c \in Seq(S) /\ Len(c) = Len(q) - (m - k)
    <3>1. Len(c) = Len(l) + Len(r) /\ Len(l) = k - 1 /\ Len(r) = Len(q) - m + 1
      BY <1>1, <2>1
    <3>2. Len(q) \in Nat /\ k \in Nat /\ m \in Nat
      OBVIOUS
    <3> QED
      BY ONLY <2>1, <3>1, <3>2
  <2>3. \A i \in 1 .. k - 1 : c[i] = l[i]
    BY <1>1, <2>1
  <2>4. \A i \in 1 .. Len(q) - m + 1 : c[k - 1 + i] = r[i]
    BY <1>1, <2>1
  <2> QED
    BY <2>2, <2>3, <2>4
<1>4. ASSUME NEW i \in m .. Len(q) PROVE c[i - (m - k)] = q[i]
  <2>1. i - m + 1 \in 1 .. Len(q) - m + 1 /\ k - 1 + (i - m + 1) = i - (m - k) /\ m + (i - m + 1) - 1 = i
    OBVIOUS
  <2>2. c[k - 1 + (i - m + 1)] = r[i - m + 1] /\ r[i - m + 1] = q[m + (i - m + 1) - 1]
    BY <1>1, <1>3, <2>1
  <2> QED
    BY <2>1, <2>2
<1> QED
  BY <1>1, <1>3, <1>4 DEF IsCut, c

\* Inserting an element is the reverse of cutting it out.
LEMMA InsertIsCut ==
  ASSUME NEW S, NEW q \in Seq(S), NEW e \in S, NEW k \in 1 .. Len(q) + 1
  PROVE  /\ InsertAt(q, k, e) \in Seq(S) /\ InsertAt(q, k, e)[k] = e
         /\ IsCut(q, InsertAt(q, k, e), k, k + 1)
<1> DEFINE w == InsertAt(q, k, e)
<1>1. /\ w \in Seq(S) /\ Len(w) = Len(q) + 1 /\ w[k] = e
      /\ \A i \in 1 .. k - 1 : w[i] = q[i]
      /\ \A i \in k .. Len(q) : w[i + 1] = q[i]
  BY InsertAtElements
<1> HIDE DEF w
<1>2. ASSUME NEW i \in k + 1 .. Len(w) PROVE q[i - (k + 1 - k)] = w[i]
  <2>1. i - 1 \in k .. Len(q) /\ (i - 1) + 1 = i /\ i - (k + 1 - k) = i - 1
    BY <1>1
  <2>2. w[(i - 1) + 1] = q[i - 1]
    BY <1>1, <2>1
  <2> QED
    BY <2>1, <2>2
<1>3. IsCut(q, w, k, k + 1)
  BY <1>1, <1>2 DEF IsCut
<1> QED
  BY <1>1, <1>3 DEF w

\* The positions of q that a cut leaves, in order.
Left(q, k, m) == [i \in 1 .. Len(q) - (m - k) |-> IF i < k THEN i ELSE i + (m - k)]

\* pos takes the elements of c, in their order, to those of q outside of gap.
GapAt(pos, c, q, gap) ==
  /\ gap \subseteq DOMAIN q /\ DOMAIN q \subseteq Nat /\ DOMAIN c \subseteq Nat
  /\ pos \in [DOMAIN c -> DOMAIN q]
  /\ \A i \in DOMAIN c : c[i] = q[pos[i]] /\ pos[i] \notin gap
  /\ \A i, n \in DOMAIN c : i < n <=> pos[i] < pos[n]
  /\ \A i \in DOMAIN q : i \notin gap => \E n \in DOMAIN c : pos[n] = i

\* What is left keeps the order it had.
LEMMA LeftPlaces ==
  ASSUME NEW S, NEW q \in Seq(S), NEW c \in Seq(S), NEW k, NEW m, IsCut(c, q, k, m)
  PROVE  GapAt(Left(q, k, m), c, q, k .. m - 1)
<1> DEFINE pos == Left(q, k, m)
<1>0. /\ Len(q) \in Nat /\ k \in Nat /\ m \in Nat /\ 1 <= k /\ k <= m /\ m <= Len(q) + 1
      /\ Len(c) = Len(q) - (m - k) /\ DOMAIN c = 1 .. Len(c) /\ DOMAIN q = 1 .. Len(q)
  BY DEF IsCut
<1>1. /\ DOMAIN pos = 1 .. Len(c)
      /\ \A i \in 1 .. Len(c) : pos[i] = IF i < k THEN i ELSE i + (m - k)
      /\ pos = [i \in 1 .. Len(c) |-> pos[i]]
  BY <1>0 DEF Left
<1> HIDE DEF pos
<1>2. \A i \in 1 .. Len(c) : pos[i] \in 1 .. Len(q) /\ pos[i] \notin k .. m - 1
  BY ONLY <1>0, <1>1
<1>3. pos \in [1 .. Len(c) -> 1 .. Len(q)]
  BY ONLY <1>1, <1>2
<1>4. ASSUME NEW i \in 1 .. Len(c) PROVE c[i] = q[pos[i]]
  <2>1. CASE i < k
    BY <1>0, <1>1, <2>1 DEF IsCut
  <2>2. CASE ~(i < k)
    <3> DEFINE n == i + (m - k)
    <3>1. n \in m .. Len(q) /\ n - (m - k) = i /\ pos[i] = n
      BY <1>0, <1>1, <2>2
    <3> QED
      BY <3>1 DEF IsCut
  <2> QED
    BY <2>1, <2>2
<1>5. ASSUME NEW i \in 1 .. Len(c), NEW n \in 1 .. Len(c) PROVE i < n <=> pos[i] < pos[n]
  <2>1. /\ pos[i] = IF i < k THEN i ELSE i + (m - k)
        /\ pos[n] = IF n < k THEN n ELSE n + (m - k)
    BY <1>1
  <2> QED
    BY ONLY <1>0, <2>1, i \in Nat, n \in Nat
<1>6. ASSUME NEW i \in 1 .. Len(q), i \notin k .. m - 1 PROVE \E n \in 1 .. Len(c) : pos[n] = i
  <2>1. CASE i < k
    <3>1. i \in 1 .. Len(c)
      BY <1>0, <2>1
    <3>2. pos[i] = i
      BY <1>1, <2>1, <3>1
    <3> QED
      BY <3>1, <3>2
  <2>2. CASE ~(i < k)
    <3>1. i - (m - k) \in 1 .. Len(c) /\ ~(i - (m - k) < k)
      BY <1>0, <1>6, <2>2
    <3>2. pos[i - (m - k)] = i
      BY <1>0, <1>1, <3>1
    <3> QED
      BY <3>1, <3>2
  <2> QED
    BY <2>1, <2>2
<1>7. k .. m - 1 \subseteq 1 .. Len(q)
  BY ONLY <1>0
<1>8. DOMAIN q = 1 .. Len(q) /\ DOMAIN c = 1 .. Len(c) /\ 1 .. Len(q) \subseteq Nat /\ 1 .. Len(c) \subseteq Nat
  BY <1>0
<1> DEFINE dq == 1 .. Len(q)
           dc == 1 .. Len(c)
<1> HIDE DEF dq, dc
<1>9. /\ k .. m - 1 \subseteq dq
      /\ pos \in [dc -> dq]
      /\ \A i \in dc : c[i] = q[pos[i]] /\ pos[i] \notin k .. m - 1
      /\ \A i, n \in dc : i < n <=> pos[i] < pos[n]
      /\ \A i \in dq : i \notin k .. m - 1 => \E n \in dc : pos[n] = i
  BY Zenon, <1>2, <1>3, <1>4, <1>5, <1>6, <1>7 DEF dq, dc
<1>10. GapAt(pos, c, q, k .. m - 1)
  BY Zenon, <1>8, <1>9 DEF dq, dc, GapAt
<1> QED
  BY <1>10 DEF pos

\* An element is in a sequence at most once.
Once(q, x) == \A i, n \in DOMAIN q : q[i] = x /\ q[n] = x => i = n

\* A cut leaves the elements outside of the block, each as often as before.
LEMMA CutKeeps ==
  ASSUME NEW S, NEW q \in Seq(S), NEW c \in Seq(S), NEW k, NEW m, IsCut(c, q, k, m)
  PROVE  /\ ToSet(c) \subseteq ToSet(q)
         /\ \A x : Once(q, x) => Once(c, x)
         /\ \A x : Once(q, x) /\ (\E i \in k .. m - 1 : q[i] = x) => x \notin ToSet(c)
         /\ \A x \in ToSet(q) \ ToSet(c) : \E i \in k .. m - 1 : q[i] = x
         /\ \A x : (\A i \in k .. m - 1 : q[i] # x) /\ Once(c, x) => Once(q, x)
<1> DEFINE pos == Left(q, k, m)
           gap == k .. m - 1
<1>0. GapAt(pos, c, q, gap)
  BY LeftPlaces
<1> HIDE DEF pos, gap
<1>1. /\ gap \subseteq DOMAIN q /\ DOMAIN q \subseteq Nat /\ DOMAIN c \subseteq Nat
      /\ pos \in [DOMAIN c -> DOMAIN q]
      /\ \A i \in DOMAIN c : c[i] = q[pos[i]] /\ pos[i] \notin gap
      /\ \A i, n \in DOMAIN c : i < n <=> pos[i] < pos[n]
      /\ \A i \in DOMAIN q : i \notin gap => \E n \in DOMAIN c : pos[n] = i
  BY <1>0 DEF GapAt
<1>2. \A i, n \in DOMAIN c : pos[i] = pos[n] => i = n
  <2> SUFFICES ASSUME NEW i \in DOMAIN c, NEW n \in DOMAIN c, pos[i] = pos[n] PROVE i = n
    OBVIOUS
  <2>1. i \in Nat /\ n \in Nat /\ pos[i] \in Nat
    BY <1>1
  <2>2. ~(i < n) /\ ~(n < i)
    BY <1>1, <2>1
  <2> QED
    BY ONLY <2>1, <2>2
<1>3. ToSet(c) \subseteq ToSet(q)
  BY <1>1 DEF ToSet
<1>4. \A x : Once(q, x) => Once(c, x)
  BY <1>1, <1>2 DEF Once
<1>5. \A x : Once(q, x) /\ (\E i \in gap : q[i] = x) => x \notin ToSet(c)
  BY <1>1 DEF Once, ToSet
<1>6. \A x \in ToSet(q) \ ToSet(c) : \E i \in gap : q[i] = x
  BY <1>1 DEF ToSet
<1>7. ASSUME NEW x, \A i \in gap : q[i] # x, Once(c, x) PROVE Once(q, x)
  <2> SUFFICES ASSUME NEW i \in DOMAIN q, NEW n \in DOMAIN q, q[i] = x, q[n] = x PROVE i = n
    BY DEF Once
  <2>1. PICK a \in DOMAIN c, b \in DOMAIN c : pos[a] = i /\ pos[b] = n
    BY <1>1, <1>7
  <2> QED
    BY <1>1, <1>7, <2>1 DEF Once
<1> QED
  BY <1>3, <1>4, <1>5, <1>6, <1>7 DEF gap
=============================================================================
