---------------------------- MODULE SpeechPump_proofs ----------------------------
(***************************************************************************)
(* Proofs about SpeechPump.                                                *)
(***************************************************************************)
EXTENDS SpeechPump, SequenceLemmas, SequenceTheorems

-------------------------------------------------------------------------------
(* Recursive functions *)

\* Induction, for a set of naturals.
LEMMA Induction ==
  ASSUME NEW T, 0 \in T, \A n \in Nat : n \in T => n + 1 \in T
  PROVE  \A n \in Nat : n \in T
<1> SUFFICES ASSUME Nat \ T # {} PROVE FALSE
  OBVIOUS
<1>1. PICK n \in Nat \ T : \A k \in Nat \ T : n <= k
  BY HasMin
<1>2. n # 0 /\ n \in Nat
  BY <1>1
<1>3. n - 1 \in Nat /\ ~(n <= n - 1) /\ (n - 1) + 1 = n
  BY <1>2
<1>4. n - 1 \in T
  BY <1>1, <1>3
<1> QED
  BY <1>1, <1>3, <1>4

\* f is what G makes of it at every argument of a measure below n.
Follows(f, G, m, A, n) == \A x \in A : m[x] < n => f[x] = G[x][f]

\* G looks at its function at arguments of a smaller measure only.
LooksBelow(G, m, A, V) ==
  \A x \in A : \A f, g \in [A -> V] :
    (\A y \in A : m[y] < m[x] => f[y] = g[y]) => G[x][f] = G[x][g]

\* Two functions that follow G agree where they do.
LEMMA FollowersAgree ==
  ASSUME NEW A, NEW V, NEW m \in [A -> Nat], NEW G, LooksBelow(G, m, A, V),
         NEW f \in [A -> V], NEW g \in [A -> V], NEW n \in Nat,
         Follows(f, G, m, A, n), Follows(g, G, m, A, n)
  PROVE  \A x \in A : m[x] < n => f[x] = g[x]
<1> DEFINE T == {k \in Nat : k <= n => \A x \in A : m[x] < k => f[x] = g[x]}
<1>1. 0 \in T
  OBVIOUS
<1>2. ASSUME NEW k \in Nat, k \in T PROVE k + 1 \in T
  <2> SUFFICES ASSUME k + 1 <= n, NEW x \in A, m[x] < k + 1 PROVE f[x] = g[x]
    OBVIOUS
  <2>1. ASSUME NEW y \in A, m[y] < m[x] PROVE f[y] = g[y]
    <3>1. m[y] \in Nat /\ m[x] \in Nat
      OBVIOUS
    <3>2. m[y] < k
      BY <2>1, <3>1
    <3> QED
      BY <1>2, <3>2
  <2>2. G[x][f] = G[x][g]
    BY <2>1 DEF LooksBelow
  <2>3. m[x] < n
    OBVIOUS
  <2> QED
    BY <2>2, <2>3 DEF Follows
<1> HIDE DEF T
<1>3. n \in T
  BY <1>1, <1>2, Induction
<1> QED
  BY <1>3 DEF T

\* f is what G makes of it.
Solves(f, G, A, V) == f \in [A -> V] /\ \A x \in A : f[x] = G[x][f]

\* A recursive definition whose measure falls has a function.
LEMMA Recursion ==
  ASSUME NEW A, NEW V, NEW v, v \in V, NEW m, m \in [A -> Nat],
         NEW G, G \in [A -> [[A -> V] -> V]], LooksBelow(G, m, A, V)
  PROVE  \E f : Solves(f, G, A, V)
<1> DEFINE T == {n \in Nat : \E f \in [A -> V] : Follows(f, G, m, A, n)}
<1>1. 0 \in T
  <2>1. [x \in A |-> v] \in [A -> V] /\ Follows([x \in A |-> v], G, m, A, 0)
    BY DEF Follows
  <2> QED
    BY <2>1
<1>2. ASSUME NEW n \in Nat, n \in T PROVE n + 1 \in T
  <2>1. PICK f \in [A -> V] : Follows(f, G, m, A, n)
    BY <1>2
  <2> DEFINE g == [x \in A |-> IF m[x] < n THEN f[x] ELSE G[x][f]]
  <2>2. g \in [A -> V]
    OBVIOUS
  <2>3. ASSUME NEW x \in A, m[x] < n + 1 PROVE g[x] = G[x][g]
    <3>1. m[x] \in Nat /\ \A y \in A : m[y] \in Nat
      OBVIOUS
    <3>2. \A y \in A : m[y] < m[x] => m[y] < n
      BY <2>3, <3>1
    <3>3. G[x][f] = G[x][g]
      BY <2>2, <3>2 DEF LooksBelow
    <3>4. g[x] = G[x][f]
      BY <2>1 DEF Follows
    <3> QED
      BY <3>3, <3>4
  <2> HIDE DEF g
  <2>4. Follows(g, G, m, A, n + 1)
    BY <2>3 DEF Follows
  <2> QED
    BY <2>2, <2>4
<1> DEFINE F(n) == CHOOSE f \in [A -> V] : Follows(f, G, m, A, n)
<1>3. ASSUME NEW n \in Nat PROVE F(n) \in [A -> V] /\ Follows(F(n), G, m, A, n)
  <2> HIDE DEF T
  <2>1. n \in T
    BY <1>1, <1>2, Induction
  <2> QED
    BY <2>1 DEF T
<1> HIDE DEF F, T
<1> DEFINE f == [x \in A |-> F(m[x] + 1)[x]]
<1>4. f \in [A -> V]
  BY <1>3
<1>5. ASSUME NEW x \in A PROVE f[x] = G[x][f]
  <2> DEFINE n == m[x] + 1
  <2>1. n \in Nat /\ m[x] \in Nat /\ m[x] < n
    OBVIOUS
  <2>2. ASSUME NEW y \in A, m[y] < m[x] PROVE f[y] = F(n)[y]
    <3> DEFINE k == m[y] + 1
    <3>1. k \in Nat /\ m[y] \in Nat /\ m[y] < k /\ k <= n
      BY <2>1, <2>2
    <3>2. F(k) \in [A -> V] /\ F(n) \in [A -> V]
      BY <1>3, <2>1, <3>1
    <3> HIDE DEF k, n
    <3>3. Follows(F(k), G, m, A, k) /\ Follows(F(n), G, m, A, k)
      <4>1. Follows(F(k), G, m, A, k) /\ Follows(F(n), G, m, A, n)
        BY <1>3, <2>1, <3>1
      <4>2. \A z \in A : m[z] < k => m[z] < n
        BY <2>1, <3>1
      <4> QED
        BY <4>1, <4>2 DEF Follows
    <3>4. F(k)[y] = F(n)[y]
      BY <3>1, <3>2, <3>3, FollowersAgree
    <3> QED
      BY <3>4 DEF k
  <2>3. F(n) \in [A -> V] /\ F(n)[x] = G[x][F(n)]
    BY <1>3, <2>1 DEF Follows
  <2>4. G[x][f] = G[x][F(n)]
    BY <1>4, <2>2, <2>3 DEF LooksBelow
  <2> QED
    BY <2>3, <2>4
<1> HIDE DEF f
<1>6. Solves(f, G, A, V)
  BY <1>4, <1>5 DEF Solves
<1> QED
  BY <1>6

\* f starts with a and goes on by step.
Steps(f, k, V, a, step) ==
  f \in [0 .. k -> V] /\ f[0] = a /\ \A i \in 1 .. k : f[i] = step[i][f[i - 1]]

\* A recursion on 0 .. k has a function.
LEMMA CountedRecursion ==
  ASSUME NEW k, k \in Nat, NEW V, NEW a, a \in V, NEW step, step \in [1 .. k -> [V -> V]]
  PROVE  \E f : Steps(f, k, V, a, step)
<1> DEFINE Fits(n) == \E f \in [0 .. n -> V] :
                        f[0] = a /\ \A i \in 1 .. n : f[i] = step[i][f[i - 1]]
           T == {n \in Nat : n <= k => Fits(n)}
<1>1. 0 \in T
  <2>1. [i \in 0 .. 0 |-> a] \in [0 .. 0 -> V] /\ [i \in 0 .. 0 |-> a][0] = a
    OBVIOUS
  <2>2. \A i \in 1 .. 0 : FALSE
    OBVIOUS
  <2>3. Fits(0)
    BY <2>1, <2>2
  <2> QED
    BY <2>3
<1>2. ASSUME NEW n \in Nat, n \in T PROVE n + 1 \in T
  <2> SUFFICES ASSUME n + 1 <= k PROVE Fits(n + 1)
    OBVIOUS
  <2>1. PICK f \in [0 .. n -> V] : f[0] = a /\ \A i \in 1 .. n : f[i] = step[i][f[i - 1]]
    BY <1>2
  <2> DEFINE g == [i \in 0 .. n + 1 |-> IF i <= n THEN f[i] ELSE step[i][f[n]]]
  <2>2. step[n + 1][f[n]] \in V
    <3>1. n + 1 \in 1 .. k /\ f[n] \in V
      OBVIOUS
    <3> QED
      BY <3>1
  <2>3. ASSUME NEW i \in 0 .. n + 1
        PROVE  /\ i <= n => i \in 0 .. n /\ g[i] = f[i]
               /\ ~(i <= n) => i = n + 1 /\ g[i] = step[i][f[n]]
    BY <2>3
  <2> HIDE DEF g
  <2>4. g \in [0 .. n + 1 -> V]
    <3>1. \A i \in 0 .. n + 1 : g[i] \in V
      BY <2>2, <2>3
    <3>2. g = [i \in 0 .. n + 1 |-> g[i]]
      BY DEF g
    <3> QED
      BY <3>1, <3>2
  <2>5. g[0] = a
    BY <2>1, <2>3
  <2>6. ASSUME NEW i \in 1 .. n + 1 PROVE g[i] = step[i][g[i - 1]]
    <3>1. i \in 0 .. n + 1 /\ i - 1 \in 0 .. n + 1 /\ i - 1 <= n
      OBVIOUS
    <3>2. g[i - 1] = f[i - 1]
      BY <2>3, <3>1
    <3>3. CASE i <= n
      BY <2>1, <2>3, <3>1, <3>2, <3>3
    <3>4. CASE ~(i <= n)
      BY <2>3, <3>1, <3>2, <3>4
    <3> QED
      BY <3>3, <3>4
  <2> QED
    BY <2>4, <2>5, <2>6
<1> HIDE DEF T
<1>3. k \in T
  BY <1>1, <1>2, Induction
<1>4. Fits(k)
  BY <1>3 DEF T
<1> HIDE DEF Fits
<1> QED
  BY <1>4 DEF Steps, Fits

\* Any function with its equations has its values.
LEMMA CountedType ==
  ASSUME NEW k \in Nat, NEW V, NEW f, f[0] \in V,
         \A i \in 1 .. k : f[i - 1] \in V => f[i] \in V
  PROVE  \A i \in 0 .. k : f[i] \in V
<1> DEFINE T == {i \in Nat : i \in 0 .. k => f[i] \in V}
<1>1. 0 \in T
  OBVIOUS
<1>2. ASSUME NEW i \in Nat, i \in T PROVE i + 1 \in T
  <2> SUFFICES ASSUME i + 1 \in 0 .. k PROVE f[i + 1] \in V
    OBVIOUS
  <2>1. i + 1 \in 1 .. k /\ (i + 1) - 1 = i /\ i \in 0 .. k
    OBVIOUS
  <2> QED
    BY <1>2, <2>1
<1> HIDE DEF T
<1>3. \A i \in Nat : i \in T
  BY <1>1, <1>2, Induction
<1>4. \A i \in 0 .. k : i \in Nat
  OBVIOUS
<1> QED
  BY <1>3, <1>4 DEF T

-------------------------------------------------------------------------------
(* Length prefixes *)

\* The digits of a number fall off one by one.
LEMMA ShiftedIs ==
  ASSUME NEW n \in Nat
  PROVE  /\ Shifted(n) \in [0 .. LengthBytes -> Nat] /\ Shifted(n)[0] = n
         /\ \A i \in 1 .. LengthBytes : Shifted(n)[i] = Shifted(n)[i - 1] \div Base
<1> DEFINE step == [i \in 1 .. LengthBytes |-> [x \in Nat |-> x \div Base]]
           K == 0 .. LengthBytes
<1>1. LengthBytes \in Nat /\ Base \in Nat /\ Base > 0
  BY StreamAssumption
<1>2. \A x \in Nat : x \div Base \in Nat
  BY <1>1
<1>3. step \in [1 .. LengthBytes -> [Nat -> Nat]]
  BY <1>2
<1>4. \A i \in 1 .. LengthBytes, x \in Nat : step[i][x] = x \div Base
  OBVIOUS
<1>5. \A i \in K : i # 0 => i \in 1 .. LengthBytes /\ i - 1 \in K
  BY <1>1
<1>6. 0 \in K /\ \A i \in 1 .. LengthBytes : i \in K /\ i # 0
  BY <1>1
<1> DEFINE B(f) == [i \in K |-> IF i = 0 THEN n ELSE f[i - 1] \div Base]
<1> HIDE DEF step
<1>7. PICK f \in [K -> Nat] :
        f[0] = n /\ \A i \in 1 .. LengthBytes : f[i] = step[i][f[i - 1]]
  <2>1. n \in Nat
    OBVIOUS
  <2>2. \E f : Steps(f, LengthBytes, Nat, n, step)
    BY ONLY <1>1, <1>3, <2>1, CountedRecursion
  <2> QED
    BY <2>2 DEF Steps, K
<1> HIDE DEF K
<1>8. f = B(f)
  <2>1. ASSUME NEW i \in K, i # 0 PROVE f[i] = f[i - 1] \div Base
    BY <1>4, <1>5, <1>7, <2>1
  <2> QED
    BY <1>7, <2>1
<1>9. Shifted(n) = B(Shifted(n))
  BY <1>8 DEF Shifted, K
<1> DEFINE s == Shifted(n)
<1> HIDE DEF s
<1>10. s = [i \in K |-> IF i = 0 THEN n ELSE s[i - 1] \div Base]
  BY <1>9 DEF s
<1>11. s[0] = n /\ \A i \in 1 .. LengthBytes : s[i] = s[i - 1] \div Base
  BY <1>6, <1>10
<1>12. \A i \in K : s[i] \in Nat
  BY <1>1, <1>2, <1>11, CountedType DEF K
<1>13. s \in [K -> Nat]
  BY <1>10, <1>12
<1> QED
  BY <1>11, <1>13 DEF s, K

\* The value of the digits of a header, from the first on.
LEMMA FrameLengthIs ==
  ASSUME NEW b \in Seq(Byte), Len(b) >= HeaderBytes
  PROVE  \E value \in [0 .. LengthBytes -> Nat] :
           /\ value[0] = 0 /\ FrameLength(b) = value[LengthBytes]
           /\ \A i \in 1 .. LengthBytes : value[i] = value[i - 1] * Base + b[i + 1]
<1> DEFINE step == [i \in 1 .. LengthBytes |-> [x \in Nat |-> x * Base + b[i + 1]]]
           K == 0 .. LengthBytes
<1>1. LengthBytes \in Nat /\ Base \in Nat /\ Base > 0
  BY StreamAssumption
<1>2. \A i \in 1 .. LengthBytes : b[i + 1] \in Nat
  BY <1>1 DEF HeaderBytes, Byte
<1>3. \A i \in 1 .. LengthBytes, x \in Nat : x * Base + b[i + 1] \in Nat
  <2>1. \A x, y \in Nat : x * Base + y \in Nat
    BY <1>1
  <2> QED
    BY <1>2, <2>1
<1>4. step \in [1 .. LengthBytes -> [Nat -> Nat]]
  BY <1>3
<1>5. \A i \in 1 .. LengthBytes, x \in Nat : step[i][x] = x * Base + b[i + 1]
  OBVIOUS
<1>6. \A i \in K : i # 0 => i \in 1 .. LengthBytes /\ i - 1 \in K
  BY <1>1
<1>7. 0 \in K /\ LengthBytes \in K /\ \A i \in 1 .. LengthBytes : i \in K /\ i # 0
  BY <1>1
<1> DEFINE B(f) == [i \in K |-> IF i = 0 THEN 0 ELSE f[i - 1] * Base + b[i + 1]]
<1> HIDE DEF step
<1>8. PICK f : f \in [K -> Nat] /\ f[0] = 0 /\ \A i \in 1 .. LengthBytes : f[i] = step[i][f[i - 1]]
  <2>1. 0 \in Nat
    OBVIOUS
  <2>2. \E f : Steps(f, LengthBytes, Nat, 0, step)
    BY ONLY <1>1, <1>4, <2>1, CountedRecursion
  <2> QED
    BY <2>2 DEF Steps, K
<1> HIDE DEF K
<1>9. f = B(f)
  <2>1. ASSUME NEW i \in K, i # 0 PROVE f[i] = f[i - 1] * Base + b[i + 1]
    BY <1>5, <1>6, <1>8, <2>1
  <2> QED
    BY <1>8, <2>1
<1> DEFINE value == CHOOSE g : g = B(g)
<1>10. value = B(value)
  BY <1>9
<1>11. FrameLength(b) = value[LengthBytes]
  BY DEF FrameLength, K
<1> HIDE DEF value
<1>12. value = [i \in K |-> IF i = 0 THEN 0 ELSE value[i - 1] * Base + b[i + 1]]
  BY <1>10
<1>13. value[0] = 0 /\ \A i \in 1 .. LengthBytes : value[i] = value[i - 1] * Base + b[i + 1]
  BY <1>7, <1>12
<1>14. \A i \in K : value[i] \in Nat
  <2>1. \A i \in 1 .. LengthBytes : value[i - 1] \in Nat => value[i] \in Nat
    BY <1>3, <1>13
  <2>2. value[0] \in Nat
    BY <1>13
  <2> QED
    BY <1>1, <2>1, <2>2, CountedType DEF K
<1>15. value \in [K -> Nat]
  BY <1>12, <1>14
<1> QED
  BY <1>11, <1>13, <1>15 DEF K

\* A length that fits its prefix is read back from it.
LEMMA LengthIsReadBack ==
  ASSUME NEW b \in Seq(Byte), Len(b) >= HeaderBytes, NEW n \in Nat,
         Shifted(n)[LengthBytes] = 0,
         \A i \in 1 .. LengthBytes : b[i + 1] = LengthPrefix(n)[i]
  PROVE  FrameLength(b) = n
<1> DEFINE s == Shifted(n)
<1>1. LengthBytes \in Nat /\ Base \in Nat /\ Base > 0
  BY StreamAssumption
<1>2. /\ s \in [0 .. LengthBytes -> Nat] /\ s[0] = n /\ s[LengthBytes] = 0
      /\ \A i \in 1 .. LengthBytes : s[i] = s[i - 1] \div Base
  BY ShiftedIs
<1>3. PICK value \in [0 .. LengthBytes -> Nat] :
        /\ value[0] = 0 /\ FrameLength(b) = value[LengthBytes]
        /\ \A i \in 1 .. LengthBytes : value[i] = value[i - 1] * Base + b[i + 1]
  BY FrameLengthIs
<1>4. \A i \in 1 .. LengthBytes : b[i + 1] = s[LengthBytes - i] % Base
  BY DEF LengthPrefix
<1> HIDE DEF s
<1> DEFINE T == {i \in Nat : i \in 0 .. LengthBytes => value[i] = s[LengthBytes - i]}
<1>5. 0 \in T
  BY <1>1, <1>2, <1>3
<1>6. ASSUME NEW i \in Nat, i \in T PROVE i + 1 \in T
  <2> SUFFICES ASSUME i + 1 \in 0 .. LengthBytes
               PROVE  value[i + 1] = s[LengthBytes - (i + 1)]
    OBVIOUS
  <2> DEFINE k == LengthBytes - (i + 1)
  <2>1. /\ i + 1 \in 1 .. LengthBytes /\ (i + 1) - 1 = i /\ i \in 0 .. LengthBytes
        /\ k \in 0 .. LengthBytes /\ k + 1 \in 1 .. LengthBytes /\ (k + 1) - 1 = k
        /\ LengthBytes - i = k + 1
    BY <1>1
  <2> HIDE DEF k
  <2>2. value[i] = s[k + 1] /\ s[k + 1] = s[k] \div Base
    BY <1>2, <1>6, <2>1
  <2>3. value[i + 1] = (s[k] \div Base) * Base + (s[k] % Base)
    <3>1. value[i + 1] = value[i] * Base + b[(i + 1) + 1]
      BY <1>3, <2>1
    <3>2. b[(i + 1) + 1] = s[k] % Base
      BY <1>4, <2>1 DEF k
    <3> QED
      BY <2>2, <3>1, <3>2
  <2>4. \A x \in Nat : (x \div Base) * Base + (x % Base) = x
    BY <1>1
  <2>5. s[k] \in Nat
    BY <1>2, <2>1
  <2> QED
    BY <2>3, <2>4, <2>5 DEF k
<1> HIDE DEF T
<1>7. LengthBytes \in T
  BY <1>1, <1>5, <1>6, Induction
<1> QED
  BY <1>1, <1>2, <1>3, <1>7 DEF T

\* A length prefix is made of bytes.
LEMMA PrefixType ==
  ASSUME NEW n \in Nat PROVE LengthPrefix(n) \in Seq(Byte) /\ Len(LengthPrefix(n)) = LengthBytes
<1>1. LengthBytes \in Nat /\ Base \in Nat /\ Base > 0
  BY StreamAssumption
<1>2. \A i \in 1 .. LengthBytes : Shifted(n)[LengthBytes - i] \in Nat
  <2>1. \A i \in 1 .. LengthBytes : LengthBytes - i \in 0 .. LengthBytes
    BY <1>1
  <2> QED
    BY <2>1, ShiftedIs
<1>3. \A x \in Nat : x % Base \in Byte
  BY <1>1 DEF Byte
<1>4. LengthPrefix(n) \in [1 .. LengthBytes -> Byte]
  BY <1>2, <1>3 DEF LengthPrefix
<1> QED
  BY <1>1, <1>4, FunctionIsSeq

-------------------------------------------------------------------------------
(* The parser *)

Parsed == [chunks : Seq(Seq(Byte)), rest : Seq(Byte), verdict : {"none", "ok"} \cup Errors]

\* The frame at the head of the buffer is an audio frame and complete.
FrameEnd(b) == HeaderBytes + FrameLength(b)
HasFrame(b) ==
  /\ Coalesce(b, 1) /\ Head(b) = TagAudio /\ Coalesce(b, HeaderBytes)
  /\ ~(FrameLength(b) > MaxFrameBytes) /\ Coalesce(b, FrameEnd(b))

Payload(b) == SubSeq(b, HeaderBytes + 1, FrameEnd(b))
AfterFrame(b) == SubSeq(b, FrameEnd(b) + 1, Len(b))

\* What the loop does with a buffer that does not start with a complete frame.
NoFrame(b) ==
  LET more    == [chunks |-> <<>>, rest |-> b, verdict |-> "none"]
      stop(v) == [chunks |-> <<>>, rest |-> Tail(b), verdict |-> v]
  IN  IF ~Coalesce(b, 1) THEN more
      ELSE IF Head(b) # TagAudio THEN stop(TagVerdict(Head(b)))
      ELSE IF ~Coalesce(b, HeaderBytes) THEN more
      ELSE IF FrameLength(b) > MaxFrameBytes THEN stop("unavailable")
      ELSE more

Later(b, later) == [later EXCEPT !.chunks = <<Payload(b)>> \o @]

LEMMA HeaderType == HeaderBytes \in Nat /\ HeaderBytes > 0 /\ LengthBytes \in Nat
BY StreamAssumption DEF HeaderBytes

\* A complete frame is a proper part of the buffer.
LEMMA FrameIsPart ==
  ASSUME NEW b \in Seq(Byte), HasFrame(b)
  PROVE  /\ FrameLength(b) \in Nat /\ FrameEnd(b) \in Nat /\ FrameEnd(b) <= Len(b)
         /\ Payload(b) \in Seq(Byte)
         /\ AfterFrame(b) \in Seq(Byte) /\ Len(AfterFrame(b)) = Len(b) - FrameEnd(b)
         /\ Len(AfterFrame(b)) < Len(b)
<1>1. Len(b) >= HeaderBytes /\ Len(b) >= FrameEnd(b) /\ Len(b) \in Nat
  BY DEF HasFrame, Coalesce
<1>2. FrameLength(b) \in Nat
  <2>1. PICK value \in [0 .. LengthBytes -> Nat] : FrameLength(b) = value[LengthBytes]
    BY <1>1, FrameLengthIs
  <2> QED
    BY <2>1, HeaderType
<1>3. FrameEnd(b) \in Nat /\ FrameEnd(b) > 0
  BY <1>2, HeaderType DEF FrameEnd
<1>4. Payload(b) \in Seq(Byte)
  BY <1>1, <1>3, HeaderType, PartElements DEF Payload
<1>5. AfterFrame(b) \in Seq(Byte) /\ Len(AfterFrame(b)) = Len(b) - FrameEnd(b)
  BY <1>1, <1>3 DEF AfterFrame
<1> QED
  BY <1>1, <1>2, <1>3, <1>4, <1>5

LEMMA NoFrameType ==
  ASSUME NEW b \in Seq(Byte) PROVE NoFrame(b) \in Parsed
<1>1. [chunks |-> <<>>, rest |-> b, verdict |-> "none"] \in Parsed
  BY DEF Parsed
<1>2. ASSUME Coalesce(b, 1), NEW v \in {"ok", "busy", "unavailable"}
      PROVE  [chunks |-> <<>>, rest |-> Tail(b), verdict |-> v] \in Parsed
  <2>1. Tail(b) \in Seq(Byte)
    BY <1>2 DEF Coalesce
  <2> QED
    BY <2>1 DEF Parsed, Errors
<1>3. TagVerdict(Head(b)) \in {"ok", "busy", "unavailable"}
  BY DEF TagVerdict
<1> QED
  BY <1>1, <1>2, <1>3 DEF NoFrame

LEMMA LaterType ==
  ASSUME NEW b \in Seq(Byte), HasFrame(b), NEW later \in Parsed
  PROVE  /\ Later(b, later) \in Parsed
         /\ Later(b, later).chunks = <<Payload(b)>> \o later.chunks
         /\ Later(b, later).rest = later.rest /\ Later(b, later).verdict = later.verdict
<1>1. <<Payload(b)>> \o later.chunks \in Seq(Seq(Byte))
  BY FrameIsPart DEF Parsed
<1> QED
  BY <1>1 DEF Later, Parsed

\* The loop, one frame at a time.
LEMMA ParseIs ==
  \A b \in Seq(Byte) :
    /\ Parse[b] \in Parsed
    /\ Parse[b] = IF HasFrame(b) THEN Later(b, Parse[AfterFrame(b)]) ELSE NoFrame(b)
<1> DEFINE A == Seq(Byte)
           Body(b, f) == IF HasFrame(b) THEN Later(b, f[AfterFrame(b)]) ELSE NoFrame(b)
           m == [b \in A |-> Len(b)]
           G == [b \in A |-> [f \in [A -> Parsed] |-> Body(b, f)]]
<1>1. ASSUME NEW b \in A, NEW f \in [A -> Parsed] PROVE Body(b, f) \in Parsed
  <2>1. CASE HasFrame(b)
    <3>1. f[AfterFrame(b)] \in Parsed
      BY <2>1, FrameIsPart
    <3> QED
      BY <2>1, <3>1, LaterType
  <2>2. CASE ~HasFrame(b)
    BY <2>2, NoFrameType
  <2> QED
    BY <2>1, <2>2
<1>2. G \in [A -> [[A -> Parsed] -> Parsed]]
  <2> HIDE DEF A, Body
  <2> QED
    BY <1>1
<1>3. \A b \in A, f \in [A -> Parsed] : G[b][f] = Body(b, f)
  <2> HIDE DEF A, Body
  <2> QED
    OBVIOUS
<1>4. m \in [A -> Nat] /\ \A b \in A : m[b] = Len(b)
  OBVIOUS
<1>5. \A b \in A : HasFrame(b) => AfterFrame(b) \in A /\ m[AfterFrame(b)] < m[b]
  BY <1>4, FrameIsPart
<1> HIDE DEF m, G, A
<1>6. LooksBelow(G, m, A, Parsed)
  BY <1>3, <1>5 DEF LooksBelow
<1>7. PICK f \in [A -> Parsed] : \A b \in A : f[b] = Body(b, f)
  <2>1. NoFrame(<<>>) \in Parsed
    <3>1. <<>> \in Seq(Byte)
      OBVIOUS
    <3> QED
      BY <3>1, NoFrameType
  <2>2. PICK f : Solves(f, G, A, Parsed)
    BY ONLY <2>1, <1>2, <1>4, <1>6, Recursion
  <2> QED
    BY <1>3, <2>2 DEF Solves
<1>8. f = [b \in A |-> Body(b, f)]
  <2> HIDE DEF Body
  <2> QED
    BY <1>7
<1>9. Parse = [b \in A |-> Body(b, Parse)]
  <2> DEFINE Loop(g, b) ==
        LET more    == [chunks |-> <<>>, rest |-> b, verdict |-> "none"]
            stop(v) == [chunks |-> <<>>, rest |-> Tail(b), verdict |-> v]
            end     == HeaderBytes + FrameLength(b)
            rest    == g[SubSeq(b, end + 1, Len(b))]
        IN  IF ~Coalesce(b, 1) THEN more
            ELSE IF Head(b) # TagAudio THEN stop(TagVerdict(Head(b)))
            ELSE IF ~Coalesce(b, HeaderBytes) THEN more
            ELSE IF FrameLength(b) > MaxFrameBytes THEN stop("unavailable")
            ELSE IF ~Coalesce(b, end) THEN more
            ELSE [rest EXCEPT !.chunks = <<SubSeq(b, HeaderBytes + 1, end)>> \o @]
  <2>1. \A g, b : Loop(g, b) = Body(b, g)
    BY DEF HasFrame, NoFrame, Later, AfterFrame, Payload, FrameEnd
  <2>2. Parse = CHOOSE g : g = [b \in A |-> Loop(g, b)]
    BY DEF Parse, A
  <2> HIDE DEF Loop, Body
  <2>3. f = [b \in A |-> Loop(f, b)]
    BY <1>8, <2>1
  <2>4. Parse = [b \in A |-> Loop(Parse, b)]
    BY <2>2, <2>3
  <2> QED
    BY <2>1, <2>4
<1>10. \A b \in A : Parse[b] = Body(b, Parse)
  <2> HIDE DEF Body
  <2> QED
    BY <1>9
<1>11. \A b \in A : Parse[b] = f[b]
  <2> DEFINE U == {n \in Nat : \A b \in A : Len(b) < n => Parse[b] = f[b]}
  <2>1. 0 \in U
    BY DEF A
  <2>2. ASSUME NEW n \in Nat, n \in U PROVE n + 1 \in U
    <3> SUFFICES ASSUME NEW b \in A, Len(b) < n + 1 PROVE Parse[b] = f[b]
      OBVIOUS
    <3>1. ASSUME HasFrame(b) PROVE Parse[AfterFrame(b)] = f[AfterFrame(b)]
      <4>1. AfterFrame(b) \in A /\ Len(AfterFrame(b)) < Len(b)
        BY <1>4, <1>5, <3>1
      <4>2. Len(AfterFrame(b)) \in Nat /\ Len(b) \in Nat
        BY <4>1 DEF A
      <4>3. Len(AfterFrame(b)) < n
        BY <4>1, <4>2
      <4> QED
        BY <2>2, <4>1, <4>3
    <3>2. Body(b, Parse) = Body(b, f)
      BY <3>1
    <3> QED
      BY <1>7, <1>10, <3>2
  <2> HIDE DEF U
  <2>3. \A n \in Nat : n \in U
    BY <2>1, <2>2, Induction
  <2>4. \A b \in A : Len(b) \in Nat /\ Len(b) + 1 \in Nat /\ Len(b) < Len(b) + 1
    BY DEF A
  <2> QED
    BY <2>3, <2>4 DEF U
<1> QED
  BY <1>7, <1>10, <1>11 DEF A

-------------------------------------------------------------------------------
(* The types *)

LEMMA TagsAreBytes == TagAudio \in Byte /\ \A name \in DOMAIN Tags : Tags[name] \in Byte
BY StreamAssumption DEF TagAudio, Tags, Byte

LEMMA NothingIsTyped ==
  /\ <<>> \in Seq(Payloads) /\ <<>> \in Seq(Byte) /\ <<>> \in Seq(Seq(Byte))
OBVIOUS

\* The steps of a call, and of the sidecar that answers it, keep the types.
LEMMA CallTypes == ASSUME StreamTypeOK, CallStep PROVE StreamTypeOK'
<1> USE DEF StreamTypeOK, streamVars, callVars
<1>1. ASSUME NEW status \in {"ok", "busy", "booting", "bad_request"}, Response(status)
      PROVE  StreamTypeOK'
  BY <1>1 DEF Response, Errors
<1>2. CASE Unreachable \/ ReadDone \/ ReadAborted \/ Timeout
  BY <1>2 DEF Unreachable, ReadDone, ReadAborted, Timeout, Errors
<1>3. CASE ReaderCancelled
  BY <1>3 DEF ReaderCancelled
<1>4. ASSUME NEW p \in Payloads, SendFrame(p) PROVE StreamTypeOK'
  <2>1. Append(frames, p) \in Seq(Payloads)
    OBVIOUS
  <2>2. p \in Seq(Byte) /\ LengthPrefix(Len(p)) \in Seq(Byte) /\ <<TagAudio>> \in Seq(Byte)
    BY StreamAssumption, PrefixType, TagsAreBytes DEF Byte
  <2>3. wire \o <<TagAudio>> \o LengthPrefix(Len(p)) \o p \in Seq(Byte)
    <3> HIDE DEF StreamTypeOK
    <3>1. wire \in Seq(Byte)
      BY DEF StreamTypeOK
    <3>2. wire \o <<TagAudio>> \in Seq(Byte)
      BY <2>2, <3>1, ConcatElements
    <3>3. wire \o <<TagAudio>> \o LengthPrefix(Len(p)) \in Seq(Byte)
      BY <2>2, <3>2, ConcatElements
    <3> QED
      BY <2>2, <3>3, ConcatElements
  <2> QED
    BY <1>4, <2>1, <2>3 DEF SendFrame
<1>5. ASSUME NEW name \in DOMAIN Tags, SendLast(name) PROVE StreamTypeOK'
  <2>1. Append(wire, Tags[name]) \in Seq(Byte)
    BY TagsAreBytes
  <2> QED
    BY <1>5, <2>1 DEF SendLast
<1>6. ASSUME NEW n \in 0 .. Len(wire), CloseConnection(n) PROVE StreamTypeOK'
  <2>1. SubSeq(wire, 1, n) \in Seq(Byte)
    BY PartElements
  <2> QED
    BY <1>6, <2>1 DEF CloseConnection
<1> QED
  BY <1>1, <1>2, <1>3, <1>4, <1>5, <1>6 DEF CallStep

\* So does a read, whatever it parses; and it only adds to the chunks.
LEMMA ReadTypes ==
  ASSUME StreamTypeOK, NEW n \in 1 .. Len(wire), Read(n)
  PROVE  /\ StreamTypeOK'
         /\ \E more \in Seq(Seq(Byte)) : chunks' = chunks \o more
<1> DEFINE b == buffer \o SubSeq(wire, 1, n)
<1>1. wire \in Seq(Byte) /\ buffer \in Seq(Byte) /\ chunks \in Seq(Seq(Byte)) /\ n \in Nat
  BY DEF StreamTypeOK
<1>2. b \in Seq(Byte)
  BY <1>1
<1> HIDE DEF b
<1>3. Parse[b] \in Parsed
  BY <1>2, ParseIs
<1>4. /\ chunks' = chunks \o Parse[b].chunks /\ buffer' = Parse[b].rest
      /\ verdict' = Parse[b].verdict
      /\ call' = IF Parse[b].verdict = "none" THEN "streaming" ELSE "closing"
      /\ wire' = SubSeq(wire, n + 1, Len(wire))
      /\ UNCHANGED <<frames, ending, closed, aborted, signal>>
  BY DEF Read, b
<1>5. /\ Parse[b].chunks \in Seq(Seq(Byte)) /\ Parse[b].rest \in Seq(Byte)
      /\ Parse[b].verdict \in {"none", "ok"} \cup Errors
  BY <1>3 DEF Parsed
<1>6. chunks' \in Seq(Seq(Byte))
  BY <1>1, <1>4, <1>5, ConcatElements
<1>7. wire' \in Seq(Byte)
  BY <1>1, <1>4
<1>8. StreamTypeOK'
  BY <1>4, <1>5, <1>6, <1>7 DEF StreamTypeOK
<1> QED
  BY <1>4, <1>5, <1>8

\* The types of a job and of its pumps.
PumpTypes ==
  /\ state \in Live \cup Settled /\ attempts \in Nat
  /\ priority \in {"background", "foreground"} /\ entries \in Nat /\ timers \in Nat
  /\ promise \in {"pending"} \cup Settled
  /\ doubled \in BOOLEAN /\ earlier \in Seq(Seq(Byte))
  /\ loop \in [Listeners -> {"none", "writing", "ending", "waiting", "woken", "over"}]
  /\ cursor \in [Listeners -> Nat]
  /\ stopped \in [Listeners -> BOOLEAN] /\ subscribed \in [Listeners -> BOOLEAN]
  /\ socket \in [Listeners -> {"open", "full", "gone", "closed"}]
  /\ heard \in [Listeners -> Seq(Seq(Byte))]
  /\ told \in [Listeners -> {"nothing"} \cup Settled]

LEMMA ProceedTypes ==
  ASSUME StreamTypeOK, PumpTypes, NEW r \in Listeners, NEW c \in Nat, Proceed(r, c)
  PROVE  /\ loop' \in [Listeners -> {"none", "writing", "ending", "waiting", "woken", "over"}]
         /\ cursor' \in [Listeners -> Nat]
         /\ socket' \in [Listeners -> {"open", "full", "gone", "closed"}]
         /\ heard' \in [Listeners -> Seq(Seq(Byte))]
         /\ told' \in [Listeners -> {"nothing"} \cup Settled]
<1>1. cursor' \in [Listeners -> Nat]
  BY DEF Proceed, PumpTypes
<1>2. \/ \E s \in {"writing", "ending", "waiting", "over"} : loop' = [loop EXCEPT ![r] = s]
      \/ loop' = loop
  BY DEF Proceed
<1>3. socket' = socket \/ socket' = [socket EXCEPT ![r] = "full"]
  BY DEF Proceed, Write
<1>4. \/ heard' = heard
      \/ c < Len(chunks) /\ heard' = [heard EXCEPT ![r] = IF Writable(r) THEN Append(@, chunks[c + 1]) ELSE @]
  BY DEF Proceed
<1>5. \/ told' = told
      \/ state \in Settled /\ told' = [told EXCEPT ![r] = IF Writable(r) THEN state ELSE @]
  BY DEF Proceed
<1>6. heard' \in [Listeners -> Seq(Seq(Byte))]
  <2>1. CASE heard' = heard
    BY <2>1 DEF PumpTypes
  <2>2. CASE /\ c < Len(chunks)
             /\ heard' = [heard EXCEPT ![r] = IF Writable(r) THEN Append(@, chunks[c + 1]) ELSE @]
    <3>1. chunks[c + 1] \in Seq(Byte)
      BY <2>2 DEF StreamTypeOK
    <3>2. Append(heard[r], chunks[c + 1]) \in Seq(Seq(Byte))
      BY <3>1 DEF PumpTypes
    <3> QED
      BY <2>2, <3>2 DEF PumpTypes
  <2> QED
    BY <1>4, <2>1, <2>2
<1>7. told' \in [Listeners -> {"nothing"} \cup Settled]
  <2>1. told \in [Listeners -> {"nothing"} \cup Settled]
    BY DEF PumpTypes
  <2> QED
    BY <1>5, <2>1
<1>8. loop' \in [Listeners -> {"none", "writing", "ending", "waiting", "woken", "over"}]
  BY <1>2 DEF PumpTypes
<1>9. socket' \in [Listeners -> {"open", "full", "gone", "closed"}]
  BY <1>3 DEF PumpTypes
<1> QED
  BY <1>1, <1>6, <1>7, <1>8, <1>9

\* The steps of the pumps keep the types.
LEMMA ListenerTypes ==
  ASSUME TypeOK, NEW r \in Listeners,
         \/ Attach(r) \/ Written(r) \/ Resume(r) \/ Ended(r) \/ Throws(r)
         \/ Drain(r) \/ HangUp(r) \/ Closed(r)
  PROVE  TypeOK'
<1>1. StreamTypeOK /\ PumpTypes
  BY DEF TypeOK, PumpTypes
<1>2. ASSUME NEW c \in Nat, Proceed(r, c), UNCHANGED <<state, attempts, timers, promise, earlier>>,
             priority' \in {"background", "foreground"}, entries' \in Nat, doubled' \in BOOLEAN,
             stopped' = stopped,
             subscribed' \in [Listeners -> BOOLEAN],
             UNCHANGED <<callVars, signal, streamVars, chunks>>
      PROVE  TypeOK'
  <2>1. StreamTypeOK'
    BY <1>1, <1>2 DEF StreamTypeOK, callVars, streamVars
  <2>2. PumpTypes'
    BY <1>1, <1>2, ProceedTypes DEF PumpTypes
  <2> QED
    BY <2>1, <2>2 DEF TypeOK, PumpTypes
<1>3. CASE Attach(r)
  <2>1. /\ Proceed(r, 0) /\ 0 \in Nat
        /\ UNCHANGED <<state, attempts, timers, promise, earlier, stopped>>
        /\ UNCHANGED <<callVars, signal, streamVars, chunks>>
    BY <1>3 DEF Attach
  <2>2. /\ subscribed' \in [Listeners -> BOOLEAN]
        /\ priority' \in {"background", "foreground"} /\ entries' \in Nat /\ doubled' \in BOOLEAN
    BY <1>1, <1>3 DEF Attach, PumpTypes
  <2> QED
    BY <1>2, <2>1, <2>2
<1>4. CASE Written(r) \/ Resume(r)
  <2>1. cursor[r] \in Nat /\ cursor[r] + 1 \in Nat /\ subscribed \in [Listeners -> BOOLEAN]
    BY <1>1 DEF PumpTypes
  <2> QED
    BY <1>1, <1>2, <1>4, <2>1 DEF Written, Resume, jobVars, PumpTypes
<1>5. CASE Ended(r) \/ Throws(r) \/ Drain(r) \/ HangUp(r)
  <2>1. StreamTypeOK'
    BY <1>1, <1>5 DEF Ended, Throws, Drain, HangUp, StreamTypeOK, callVars, streamVars
  <2>2. PumpTypes'
    BY <1>1, <1>5 DEF Ended, Throws, Drain, HangUp, PumpTypes, jobVars
  <2> QED
    BY <2>1, <2>2 DEF TypeOK, PumpTypes
<1>6. CASE Closed(r)
  <2>1. signal' \in BOOLEAN /\ aborted' \in BOOLEAN
    BY <1>1, <1>6 DEF Closed, SetSignal, StreamTypeOK
  <2>2. StreamTypeOK'
    BY <1>1, <1>6, <2>1 DEF Closed, StreamTypeOK, streamVars
  <2>3. /\ loop' = loop \/ loop' = [loop EXCEPT ![r] = "woken"]
        /\ stopped' = stopped \/ stopped' = [stopped EXCEPT ![r] = TRUE]
        /\ subscribed' = subscribed \/ subscribed' = [subscribed EXCEPT ![r] = FALSE]
        /\ socket' = [socket EXCEPT ![r] = "closed"]
        /\ UNCHANGED <<jobVars, cursor, heard, told>>
    BY <1>6 DEF Closed, StopWakes
  <2>4. PumpTypes'
    BY <1>1, <2>3 DEF PumpTypes, jobVars
  <2> QED
    BY <2>2, <2>4 DEF TypeOK, PumpTypes
<1> QED
  BY <1>3, <1>4, <1>5, <1>6

\* The steps of the job keep the types.
LEMMA JobTypes ==
  ASSUME TypeOK, Attempt \/ CallRuns \/ Receive \/ AttemptReturns \/ BackoffFires
  PROVE  TypeOK'
<1>1. StreamTypeOK /\ PumpTypes
  BY DEF TypeOK, PumpTypes
<1>2. Wake \in [Listeners -> {"none", "writing", "ending", "waiting", "woken", "over"}]
  BY <1>1 DEF Wake, PumpTypes
<1>3. CASE Attempt
  <2>1. StreamTypeOK'
    <3>1. call' \in {"connecting", "returned"} /\ verdict' \in {"none", "unavailable"}
      BY <1>3 DEF Attempt, StartCall
    <3>2. /\ frames' = <<>> /\ ending' = "none" /\ closed' = FALSE /\ wire' = <<>> /\ buffer' = <<>>
          /\ aborted' = FALSE /\ UNCHANGED <<signal, chunks>>
      BY <1>3 DEF Attempt, StartCall
    <3> QED
      BY <1>1, <3>1, <3>2, NothingIsTyped DEF StreamTypeOK, Errors
  <2>2. entries' \in Nat /\ earlier' \in Seq(Seq(Byte))
    BY <1>1, <1>3 DEF Attempt, PumpTypes, StreamTypeOK
  <2>3. PumpTypes'
    BY <1>1, <1>3, <2>2 DEF Attempt, PumpTypes, pumpVars, Live
  <2> QED
    BY <2>1, <2>3 DEF TypeOK, PumpTypes
<1>4. CASE CallRuns
  <2>1. StreamTypeOK'
    BY <1>1, <1>4, CallTypes DEF CallRuns
  <2>2. PumpTypes'
    BY <1>1, <1>4 DEF CallRuns, PumpTypes, pumpVars, jobVars
  <2> QED
    BY <2>1, <2>2 DEF TypeOK, PumpTypes
<1>5. CASE Receive
  <2>1. StreamTypeOK'
    BY <1>1, <1>5, ReadTypes DEF Receive
  <2>2. PumpTypes'
    BY <1>1, <1>2, <1>5 DEF Receive, PumpTypes, jobVars
  <2> QED
    BY <2>1, <2>2 DEF TypeOK, PumpTypes
<1>6. ASSUME NEW outcome \in Settled, SettleAs(outcome), timers' \in Nat PROVE TypeOK'
  <2>1. StreamTypeOK'
    BY <1>1, <1>6 DEF SettleAs, StreamTypeOK, streamVars
  <2>2. PumpTypes'
    BY <1>1, <1>2, <1>6 DEF SettleAs, PumpTypes
  <2> QED
    BY <2>1, <2>2 DEF TypeOK, PumpTypes
<1>7. ASSUME timers' \in Nat, entries' \in Nat, state' \in {state, "queued"},
             call' \in {call, "none"},
             UNCHANGED <<verdict, aborted, signal, streamVars, chunks, attempts, priority, promise,
                         doubled, earlier, pumpVars>>
      PROVE  TypeOK'
  <2>1. StreamTypeOK'
    BY <1>1, <1>7 DEF StreamTypeOK, streamVars
  <2>2. PumpTypes'
    BY <1>1, <1>7 DEF PumpTypes, pumpVars, Live
  <2> QED
    BY <2>1, <2>2 DEF TypeOK, PumpTypes
<1>8. entries \in Nat /\ timers \in Nat /\ timers + 1 \in Nat /\ entries + 1 \in Nat
  BY <1>1 DEF PumpTypes
<1>9. CASE AttemptReturns
  BY <1>6, <1>7, <1>8, <1>9 DEF AttemptReturns, Settled
<1>10. CASE BackoffFires
  <2>1. timers' \in Nat
    BY <1>8, <1>10 DEF BackoffFires
  <2> QED
    BY <1>6, <1>7, <1>8, <1>10, <2>1 DEF BackoffFires, Settled, callVars
<1> QED
  BY <1>3, <1>4, <1>5, <1>9, <1>10

\* Every state has the types TypeOK gives it, for any base, prefix, audio and number of
\* listeners; the bytes that are left over and the chunks that are handed out are what
\* they should be, wherever the network has cut the response.
THEOREM Typing == Spec => []TypeOK
<1>1. Init => TypeOK
  <2> SUFFICES ASSUME Init PROVE TypeOK
    OBVIOUS
  <2>1. StreamTypeOK
    BY NothingIsTyped DEF Init, StreamInit, StreamTypeOK
  <2>2. PumpTypes
    BY NothingIsTyped DEF Init, PumpTypes, Live
  <2> QED
    BY <2>1, <2>2 DEF TypeOK, PumpTypes
<1>2. TypeOK /\ [Next]_vars => TypeOK'
  <2> SUFFICES ASSUME TypeOK, [Next]_vars PROVE TypeOK'
    OBVIOUS
  <2>1. CASE UNCHANGED vars
    BY <2>1 DEF vars, callVars, streamVars, jobVars, pumpVars, TypeOK, StreamTypeOK
  <2> QED
    BY <2>1, ListenerTypes, JobTypes DEF Next
<1> QED
  BY <1>1, <1>2, PTL DEF Spec

-------------------------------------------------------------------------------
(* The lives of a job *)

\* A call runs while the job does, and a job that waits has handed nothing out.  Unless it
\* was promoted out of its backoff, one thing is about to start it as long as it waits,
\* and nothing once it has run; so that only a job that was has a second life.
LivesInv ==
  /\ call # "none" <=> state = "running"
  /\ state = "queued" => chunks = <<>>
  /\ state \in Settled => promise # "pending"
  /\ ~doubled => entries + timers = IF state = "queued" THEN 1 ELSE 0
  /\ earlier # <<>> => doubled /\ promise # "pending"

LEMMA LivesStep == TypeOK /\ LivesInv /\ [Next]_vars => LivesInv'
<1> SUFFICES ASSUME TypeOK, LivesInv, [Next]_vars PROVE LivesInv'
  OBVIOUS
<1>1. entries \in Nat /\ timers \in Nat /\ state \in Live \cup Settled
  BY DEF TypeOK
<1>2. CASE UNCHANGED <<call, chunks, jobVars>>
  BY <1>2 DEF LivesInv, jobVars
<1>3. CASE UNCHANGED vars
  BY <1>2, <1>3 DEF vars, callVars
<1>4. ASSUME NEW r \in Listeners, Attach(r) PROVE LivesInv'
  BY <1>4 DEF Attach, LivesInv, callVars, Promotes
<1>5. ASSUME NEW r \in Listeners,
             Written(r) \/ Resume(r) \/ Ended(r) \/ Throws(r) \/ Drain(r) \/ HangUp(r) \/ Closed(r)
      PROVE  LivesInv'
  BY <1>2, <1>5 DEF Written, Resume, Ended, Throws, Drain, HangUp, Closed, callVars
<1>6. CASE Attempt
  <2>1. call' # "none" /\ state' = "running"
    BY <1>6 DEF Attempt, StartCall
  <2>2. /\ state # "running" /\ entries > 0 /\ entries' = entries - 1 /\ earlier' = chunks
        /\ UNCHANGED <<timers, promise, doubled>>
    BY <1>6 DEF Attempt, LivesInv
  <2>3. ~doubled => state = "queued" /\ entries' + timers' = 0
    BY <1>1, <2>2 DEF LivesInv
  <2>4. earlier' # <<>> => doubled /\ promise # "pending"
    BY <1>1, <2>2, <2>3 DEF LivesInv, Live
  <2> QED
    BY <2>1, <2>2, <2>3, <2>4 DEF LivesInv, Settled
<1>7. CASE CallRuns
  <2>1. UNCHANGED <<chunks, jobVars>> /\ (call' # "none" <=> call # "none")
    BY <1>7 DEF CallRuns, CallStep, Response, Unreachable, ReadDone, ReadAborted,
       ReaderCancelled, Timeout, SendFrame, SendLast, CloseConnection, callVars
  <2> QED
    BY <2>1 DEF LivesInv, jobVars
<1>8. CASE Receive
  <2>1. call # "none" /\ call' # "none" /\ UNCHANGED jobVars
    BY <1>8 DEF Receive, Read
  <2> QED
    BY <2>1 DEF LivesInv, jobVars
<1>9. ASSUME NEW outcome \in Settled, SettleAs(outcome), state \in Live,
             ~doubled => entries + timers' = 0
      PROVE  LivesInv'
  <2>1. /\ state' = outcome /\ call' = "none" /\ promise' = IF promise = "pending" THEN outcome ELSE promise
        /\ UNCHANGED <<chunks, entries, doubled, earlier>>
    BY <1>9 DEF SettleAs
  <2>2. outcome # "queued" /\ outcome # "running" /\ outcome # "pending"
    BY DEF Settled
  <2> QED
    BY <1>9, <2>1, <2>2 DEF LivesInv
<1>10. CASE AttemptReturns
  <2>1. state = "running" /\ (~doubled => entries + timers = 0)
    BY <1>10 DEF AttemptReturns, LivesInv
  <2>2. CASE /\ MayRetry /\ state' = "queued" /\ call' = "none" /\ timers' = timers + 1
             /\ UNCHANGED <<chunks, entries, promise, doubled, earlier>>
    BY <1>1, <2>1, <2>2 DEF LivesInv, MayRetry, Settled
  <2> QED
    BY <1>9, <1>10, <2>1, <2>2 DEF AttemptReturns, Settled, Live
<1>11. CASE BackoffFires
  <2>1. timers > 0 /\ timers' = timers - 1
    BY <1>11 DEF BackoffFires
  <2>2. CASE state # "queued" /\ UNCHANGED <<call, chunks, state, entries, promise, doubled, earlier>>
    BY <1>1, <2>1, <2>2 DEF LivesInv
  <2>3. CASE state = "queued" /\ SettleAs("cancelled")
    BY <1>1, <1>9, <2>1, <2>3 DEF LivesInv, Settled, Live
  <2>4. CASE /\ state = "queued" /\ entries' = entries + 1
             /\ UNCHANGED <<call, chunks, state, promise, doubled, earlier>>
    BY <1>1, <2>1, <2>4 DEF LivesInv
  <2> QED
    BY <1>11, <2>2, <2>3, <2>4 DEF BackoffFires, callVars
<1> QED
  BY <1>3, <1>4, <1>5, <1>6, <1>7, <1>8, <1>10, <1>11 DEF Next

LEMMA LivesInvariant == Spec => []LivesInv
<1>1. Init => LivesInv
  BY DEF Init, StreamInit, LivesInv, Settled
<1> QED
  BY <1>1, LivesStep, Typing, PTL DEF Spec

-------------------------------------------------------------------------------
(* A subscriber is sent the job's log *)

\* A pump whose response can be written to has written c chunks and no ending.
HasHeard(r, c) == Writable(r) => told[r] = "nothing" /\ Len(heard[r]) = c

\* The cursor of a pump that goes on says how much of the log it has written.
PumpInv(r) ==
  /\ loop[r] = "none" => HasHeard(r, 0)
  /\ loop[r] = "writing" => cursor[r] + 1 <= Len(chunks) /\ HasHeard(r, cursor[r] + 1)
  /\ loop[r] \in {"waiting", "woken"} => cursor[r] <= Len(chunks) /\ HasHeard(r, cursor[r])

ReaderInv == LivesInv /\ \A r \in Listeners : PumpInv(r)

\* Some step of LogReader, or none.
ReaderStep ==
  [Reader!Next]_<<chunks, IF state \in Live THEN "live" ELSE state, ~doubled, heard, told>>

\* A step that leaves alone what a reader sees is none of the reader's.
LEMMA NoReaderStep ==
  ASSUME (state' = state \/ (state \in Live /\ state' \in Live)),
         UNCHANGED <<chunks, doubled, heard, told>>
  PROVE  ReaderStep
<1>1. (IF state \in Live THEN "live" ELSE state)' = IF state \in Live THEN "live" ELSE state
  OBVIOUS
<1> QED
  BY <1>1 DEF ReaderStep

\* A job that is doubled is told so before its log begins.
LEMMA DoublingReads ==
  ASSUME state = "queued", chunks = <<>>, doubled', UNCHANGED <<state, chunks, heard, told>>
  PROVE  ReaderStep
<1>1. (~doubled)' = FALSE
  OBVIOUS
<1>2. (IF state \in Live THEN "live" ELSE state)' = "live" /\ (IF state \in Live THEN "live" ELSE state) = "live"
  BY DEF Live
<1>3. Reader!Double
  BY <1>1, <1>2 DEF Reader!Double
<1> QED
  BY <1>3 DEF ReaderStep, Reader!Next

\* The body of the loop is a step of the reader, and leaves its own pump in order.  A job
\* may be doubled in the same step, as long as there is nothing to read.
LEMMA ProceedReads ==
  ASSUME TypeOK, NEW r \in Listeners, NEW c \in Nat, c <= Len(chunks), HasHeard(r, c),
         Proceed(r, c), UNCHANGED <<state, chunks>>,
         doubled' = doubled \/ (state = "queued" /\ chunks = <<>> /\ doubled')
  PROVE  /\ ReaderStep /\ PumpInv(r)'
         /\ \A o \in Listeners \ {r} :
              /\ loop'[o] = loop[o] /\ cursor'[o] = cursor[o] /\ socket'[o] = socket[o]
              /\ heard'[o] = heard[o] /\ told'[o] = told[o]
<1>1. PumpTypes /\ chunks \in Seq(Seq(Byte)) /\ Len(chunks) \in Nat
  BY DEF TypeOK, PumpTypes, StreamTypeOK
<1>2. cursor' = [cursor EXCEPT ![r] = c] /\ cursor'[r] = c
  BY <1>1 DEF Proceed, PumpTypes
<1>3. socket' = socket \/ (socket[r] = "open" /\ socket' = [socket EXCEPT ![r] = "full"])
  BY DEF Proceed, Write
<1>4. Writable(r)' => Writable(r)
  BY <1>3 DEF Writable
<1>5. \A o \in Listeners \ {r} : cursor'[o] = cursor[o] /\ socket'[o] = socket[o]
  BY <1>1, <1>2, <1>3 DEF PumpTypes
<1>6. CASE /\ c < Len(chunks)
           /\ loop' = [loop EXCEPT ![r] = "writing"]
           /\ heard' = [heard EXCEPT ![r] = IF Writable(r) THEN Append(@, chunks[c + 1]) ELSE @]
           /\ UNCHANGED told
  <2>0. UNCHANGED doubled
    <3>1. chunks # <<>>
      BY <1>6
    <3> QED
      BY <3>1
  <2>1. loop'[r] = "writing" /\ \A o \in Listeners \ {r} : loop'[o] = loop[o] /\ heard'[o] = heard[o]
    BY <1>1, <1>6 DEF PumpTypes
  <2>2. CASE Writable(r)
    <3>1. told[r] = "nothing" /\ Len(heard[r]) = c /\ heard[r] \in Seq(Seq(Byte))
      BY <1>1, <2>2 DEF HasHeard, PumpTypes
    <3>2. heard' = [heard EXCEPT ![r] = Append(@, chunks[Len(@) + 1])]
      BY <1>6, <2>2, <3>1
    <3>3. Reader!Hear(r)
      BY <1>6, <2>0, <3>1, <3>2 DEF Reader!Hear
    <3>4. Len(heard'[r]) = c + 1
      <4>1. heard'[r] = Append(heard[r], chunks[c + 1])
        BY <1>1, <3>1, <3>2 DEF PumpTypes
      <4> QED
        BY <3>1, <4>1
    <3>5. c + 1 <= Len(chunks)
      BY <1>1, <1>6
    <3>6. PumpInv(r)'
      BY <1>2, <1>6, <2>1, <3>1, <3>4, <3>5 DEF PumpInv, HasHeard
    <3> QED
      BY <1>5, <1>6, <2>1, <3>3, <3>6 DEF ReaderStep, Reader!Next
  <2>3. CASE ~Writable(r)
    <3>1. heard' = heard
      BY <1>1, <1>6, <2>3 DEF PumpTypes
    <3>2. c + 1 <= Len(chunks)
      BY <1>1, <1>6
    <3>3. PumpInv(r)'
      BY <1>2, <1>4, <2>1, <2>3, <3>2 DEF PumpInv, HasHeard
    <3> QED
      BY <1>5, <1>6, <2>0, <2>1, <3>1, <3>3, NoReaderStep
  <2> QED
    BY <2>2, <2>3
<1>7. CASE /\ c >= Len(chunks) /\ state \in Settled
           /\ loop' = [loop EXCEPT ![r] = "ending"]
           /\ told' = [told EXCEPT ![r] = IF Writable(r) THEN state ELSE @]
           /\ UNCHANGED heard
  <2>0. UNCHANGED doubled
    BY <1>7 DEF Settled
  <2>1. loop'[r] = "ending" /\ \A o \in Listeners \ {r} : loop'[o] = loop[o] /\ told'[o] = told[o]
    BY <1>1, <1>7 DEF PumpTypes
  <2>2. PumpInv(r)'
    BY <2>1 DEF PumpInv
  <2>3. CASE Writable(r)
    <3>1. told[r] = "nothing" /\ Len(heard[r]) = Len(chunks)
      BY <1>1, <1>7, <2>3 DEF HasHeard
    <3>2. state \notin Live
      BY <1>7 DEF Live, Settled
    <3>3. Reader!BeTold(r)
      BY <1>7, <2>0, <2>3, <3>1, <3>2 DEF Reader!BeTold
    <3> QED
      BY <1>5, <1>7, <2>1, <2>2, <3>3 DEF ReaderStep, Reader!Next
  <2>4. CASE ~Writable(r)
    <3>1. told' = told
      BY <1>1, <1>7, <2>4 DEF PumpTypes
    <3> QED
      BY <1>5, <1>7, <2>0, <2>1, <2>2, <3>1, NoReaderStep
  <2> QED
    BY <2>3, <2>4
<1>8. CASE /\ loop' = [loop EXCEPT ![r] = "waiting"] \/ loop' = [loop EXCEPT ![r] = "over"]
           /\ UNCHANGED <<socket, heard, told>>
  <2>1. loop'[r] \in {"waiting", "over"} /\ \A o \in Listeners \ {r} : loop'[o] = loop[o]
    BY <1>1, <1>8 DEF PumpTypes
  <2>2. PumpInv(r)'
    BY <1>2, <1>4, <1>8, <2>1 DEF PumpInv, HasHeard
  <2> QED
    BY <1>5, <1>8, <2>1, <2>2, NoReaderStep, DoublingReads
<1> QED
  BY <1>6, <1>7, <1>8 DEF Proceed

\* A pump is in order after a step that writes nothing to its response, if the step is
\* no move of its loop but a wake-up or its end.
LEMMA PumpStays ==
  ASSUME TypeOK, NEW r \in Listeners, PumpInv(r),
         \/ loop'[r] = loop[r] \/ loop'[r] = "over" \/ (loop[r] = "waiting" /\ loop'[r] = "woken"),
         Writable(r)' => Writable(r),
         Len(chunks') >= Len(chunks), Len(chunks') \in Nat,
         cursor'[r] = cursor[r], heard'[r] = heard[r], told'[r] = told[r]
  PROVE  PumpInv(r)'
<1>1. cursor[r] \in Nat /\ Len(chunks) \in Nat
  BY DEF TypeOK, StreamTypeOK
<1>2. /\ cursor[r] <= Len(chunks) => cursor[r] <= Len(chunks')
      /\ cursor[r] + 1 <= Len(chunks) => cursor[r] + 1 <= Len(chunks')
  BY <1>1
<1> QED
  BY <1>2 DEF PumpInv, HasHeard

\* The steps of a pump.
LEMMA ListenerReads ==
  ASSUME TypeOK, ReaderInv, NEW r \in Listeners,
         \/ Attach(r) \/ Written(r) \/ Resume(r) \/ Ended(r) \/ Throws(r)
         \/ Drain(r) \/ HangUp(r) \/ Closed(r)
  PROVE  ReaderStep /\ ReaderInv'
<1>1. PumpTypes /\ chunks \in Seq(Seq(Byte)) /\ Len(chunks) \in Nat /\ PumpInv(r)
  BY DEF TypeOK, PumpTypes, StreamTypeOK, ReaderInv
<1>2. /\ UNCHANGED <<state, chunks>> /\ LivesInv'
      /\ doubled' = doubled \/ (Attach(r) /\ state = "queued" /\ chunks = <<>> /\ doubled')
  <2>1. LivesInv'
    BY LivesStep DEF ReaderInv, Next
  <2>2. UNCHANGED <<state, chunks>>
    BY DEF Attach, Written, Resume, Ended, Throws, Drain, HangUp, Closed, jobVars
  <2>3. doubled' = doubled \/ (Attach(r) /\ Promotes /\ doubled')
    BY DEF Attach, Written, Resume, Ended, Throws, Drain, HangUp, Closed, jobVars, TypeOK
  <2> QED
    BY <2>1, <2>2, <2>3 DEF ReaderInv, LivesInv, Promotes
<1>3. ASSUME PumpInv(r)',
             \A o \in Listeners \ {r} :
               /\ loop'[o] = loop[o] /\ cursor'[o] = cursor[o] /\ socket'[o] = socket[o]
               /\ heard'[o] = heard[o] /\ told'[o] = told[o]
      PROVE  ReaderInv'
  <2>1. ASSUME NEW o \in Listeners \ {r} PROVE PumpInv(o)'
    <3>1. PumpInv(o)
      BY DEF ReaderInv
    <3>2. Writable(o)' = Writable(o)
      BY <1>3 DEF Writable
    <3> QED
      BY <1>2, <1>3, <3>1, <3>2 DEF PumpInv, HasHeard
  <2> QED
    BY <1>2, <1>3, <2>1 DEF ReaderInv
<1>4. ASSUME NEW c \in Nat, c <= Len(chunks), HasHeard(r, c), Proceed(r, c)
      PROVE  ReaderStep /\ ReaderInv'
  BY <1>2, <1>3, <1>4, ProceedReads
<1>5. CASE Attach(r)
  BY <1>1, <1>4, <1>5 DEF Attach, PumpInv
<1>6. CASE Written(r)
  <2>1. cursor[r] + 1 \in Nat
    BY <1>1 DEF PumpTypes
  <2> QED
    BY <1>1, <1>4, <1>6, <2>1 DEF Written, PumpInv
<1>7. CASE Resume(r)
  <2>1. cursor[r] \in Nat
    BY <1>1 DEF PumpTypes
  <2> QED
    BY <1>1, <1>4, <1>7, <2>1 DEF Resume, PumpInv
<1>8. CASE Ended(r) \/ Throws(r) \/ Drain(r) \/ HangUp(r) \/ Closed(r)
  <2>1. UNCHANGED <<cursor, heard, told>>
    BY <1>8 DEF Ended, Throws, Drain, HangUp, Closed
  <2>2. ReaderStep
    <3>1. UNCHANGED doubled
      BY <1>8 DEF Ended, Throws, Drain, HangUp, Closed, jobVars
    <3> QED
      BY <1>2, <2>1, <3>1, NoReaderStep
  <2>3. /\ \A o \in Listeners \ {r} : loop'[o] = loop[o] /\ socket'[o] = socket[o]
        /\ \/ loop'[r] = loop[r] \/ loop'[r] = "over"
           \/ (loop[r] = "waiting" /\ loop'[r] = "woken")
    BY <1>1, <1>8 DEF Ended, Throws, Drain, HangUp, Closed, StopWakes, PumpTypes
  <2>4. Writable(r)' => Writable(r)
    BY <1>1, <1>8 DEF Ended, Throws, Drain, HangUp, Closed, Writable, PumpTypes
  <2>5. PumpInv(r)'
    BY <1>1, <1>2, <2>1, <2>3, <2>4, PumpStays
  <2> QED
    BY <1>3, <2>1, <2>2, <2>3, <2>5
<1> QED
  BY <1>5, <1>6, <1>7, <1>8

\* The steps of the job: the log grows, or the job settles, or neither.
LEMMA JobReads ==
  ASSUME TypeOK, ReaderInv, Attempt \/ CallRuns \/ Receive \/ AttemptReturns \/ BackoffFires
  PROVE  ReaderStep /\ ReaderInv'
<1>1. PumpTypes /\ chunks \in Seq(Seq(Byte)) /\ Len(chunks) \in Nat
  BY DEF TypeOK, PumpTypes, StreamTypeOK
<1>0. LivesInv /\ LivesInv'
  BY LivesStep DEF ReaderInv, Next
<1>2. ASSUME loop' = loop \/ loop' = Wake,
             UNCHANGED <<cursor, socket, heard, told>>,
             Len(chunks') >= Len(chunks), Len(chunks') \in Nat
      PROVE  ReaderInv'
  <2>1. ASSUME NEW r \in Listeners PROVE PumpInv(r)'
    <3>1. loop'[r] = loop[r] \/ (loop[r] = "waiting" /\ loop'[r] = "woken")
      BY <1>2 DEF Wake
    <3>2. Writable(r)' = Writable(r)
      BY <1>2 DEF Writable
    <3> QED
      BY <1>2, <3>1, <3>2, PumpStays DEF ReaderInv
  <2> QED
    BY <1>0, <2>1 DEF ReaderInv
<1>3. CASE Attempt
  <2>1. /\ UNCHANGED <<chunks, loop, cursor, socket, heard, told, doubled>>
        /\ state # "running" /\ state' = "running" /\ entries > 0
    BY <1>0, <1>3 DEF Attempt, pumpVars, LivesInv
  <2>2. CASE state = "queued"
    BY <1>1, <1>2, <2>1, <2>2, NoReaderStep DEF Live
  <2>3. CASE state \in Settled
    <3>1. doubled
      <4>1. entries \in Nat /\ timers \in Nat /\ state # "queued"
        BY <2>3 DEF TypeOK, Settled
      <4> QED
        BY <1>0, <2>1, <4>1 DEF LivesInv
    <3>2. ~(~doubled) /\ (~doubled)' = ~doubled
      BY <2>1, <3>1
    <3>3. /\ (IF state \in Live THEN "live" ELSE state) = state
          /\ (IF state \in Live THEN "live" ELSE state)' = "live"
      BY <2>1, <2>3 DEF Live, Settled
    <3>4. Reader!Reopen
      BY <2>1, <2>3, <3>2, <3>3 DEF Reader!Reopen
    <3> QED
      BY <1>1, <1>2, <2>1, <3>4 DEF ReaderStep, Reader!Next
  <2> QED
    BY <1>1, <2>1, <2>2, <2>3 DEF PumpTypes, Live
<1>4. CASE CallRuns
  <2>1. UNCHANGED <<state, chunks, doubled, loop, cursor, socket, heard, told>>
    BY <1>4 DEF CallRuns, jobVars, pumpVars, CallStep, Response, Unreachable, ReadDone,
       ReadAborted, ReaderCancelled, Timeout, SendFrame, SendLast, CloseConnection
  <2> QED
    BY <1>1, <1>2, <2>1, NoReaderStep
<1>5. CASE Receive
  <2>1. PICK n \in 1 .. Len(wire) : Read(n)
    BY <1>5 DEF Receive
  <2>2. PICK more \in Seq(Seq(Byte)) : chunks' = chunks \o more
    BY <2>1, ReadTypes DEF TypeOK
  <2>3. /\ Len(chunks') \in Nat /\ Len(chunks') >= Len(chunks)
        /\ \A i \in 1 .. Len(chunks) : chunks'[i] = chunks[i]
    BY <1>1, <2>2
  <2>4. state = "running" /\ UNCHANGED <<state, doubled, cursor, socket, heard, told>>
    BY <1>0, <1>5, <2>1 DEF Receive, Read, LivesInv, jobVars
  <2>5. Reader!Extend
    BY <2>3, <2>4 DEF Reader!Extend, Live
  <2>6. ReaderInv'
    BY <1>2, <1>5, <2>3, <2>4 DEF Receive
  <2> QED
    BY <2>5, <2>6 DEF ReaderStep, Reader!Next
<1>6. ASSUME NEW outcome \in Settled, SettleAs(outcome), state \in Live
      PROVE  ReaderStep /\ ReaderInv'
  <2>1. /\ state' = outcome /\ loop' = Wake /\ call' = "none"
        /\ UNCHANGED <<chunks, doubled, cursor, socket, heard, told>>
    BY <1>6 DEF SettleAs
  <2>2. outcome \notin Live
    BY DEF Settled, Live
  <2>3. Reader!Settle
    BY <1>6, <2>1, <2>2 DEF Reader!Settle
  <2>4. ReaderInv'
    BY <1>1, <1>2, <2>1
  <2> QED
    BY <2>3, <2>4 DEF ReaderStep, Reader!Next
<1>7. CASE AttemptReturns
  <2>1. state = "running"
    BY <1>0, <1>7 DEF AttemptReturns, LivesInv
  <2>2. CASE state' = "queued" /\ UNCHANGED <<chunks, doubled, pumpVars>>
    BY <1>1, <1>2, <2>1, <2>2, NoReaderStep DEF pumpVars, Live
  <2> QED
    BY <1>6, <1>7, <2>1, <2>2 DEF AttemptReturns, Settled, Live
<1>8. CASE BackoffFires
  <2>1. CASE UNCHANGED <<state, chunks, doubled, pumpVars>>
    BY <1>1, <1>2, <2>1, NoReaderStep DEF pumpVars
  <2> QED
    BY <1>6, <1>8, <2>1 DEF BackoffFires, Settled, Live
<1> QED
  BY <1>3, <1>4, <1>5, <1>7, <1>8

\* Inductive, and every step of it is a step of the reader.
LEMMA ReadingStep == TypeOK /\ ReaderInv /\ [Next]_vars => ReaderStep /\ ReaderInv'
<1> SUFFICES ASSUME TypeOK, ReaderInv, [Next]_vars PROVE ReaderStep /\ ReaderInv'
  OBVIOUS
<1>1. CASE UNCHANGED vars
  <2>1. UNCHANGED <<state, chunks, doubled, loop, cursor, socket, heard, told>> /\ LivesInv'
    BY <1>1, LivesStep DEF vars, callVars, jobVars, pumpVars, ReaderInv
  <2> QED
    BY <2>1, NoReaderStep DEF ReaderInv, PumpInv, HasHeard, Writable
<1> QED
  BY <1>1, ListenerReads, JobReads DEF Next

\* A subscriber is sent the chunks of the job in order, each once, and after the last
\* one how the job ended, however its pump, its socket and the frames interleave, for
\* any number of subscribers.  The end of the job is for good, except for a job that was
\* promoted out of its backoff before any audio: that one may run again and its log grow.
THEOREM SubscribersReadTheLog == Spec => ImplementsLogReader
<1>1. Init => ReaderInv /\ Reader!Init
  <2> SUFFICES ASSUME Init PROVE ReaderInv /\ Reader!Init
    OBVIOUS
  <2>1. Len(<<>>) = 0
    OBVIOUS
  <2>2. LivesInv
    BY DEF Init, StreamInit, LivesInv, Settled
  <2>3. (~doubled) = TRUE
    BY DEF Init
  <2> QED
    BY <2>1, <2>2, <2>3 DEF Init, StreamInit, ReaderInv, PumpInv, HasHeard, Reader!Init, Live
<1>2. ReaderInv /\ Spec => []ReaderInv
  BY ReadingStep, Typing, PTL DEF Spec
<1> QED
  BY <1>1, <1>2, ReadingStep, Typing, PTL DEF Spec, ImplementsLogReader, Reader!Spec, ReaderStep

-------------------------------------------------------------------------------
(* What is read is what was sent *)

\* One stream cut in two ways: the longer head starts with the shorter one.
LEMMA TwoCuts ==
  ASSUME NEW S, NEW b \in Seq(S), NEW w \in Seq(S), NEW f \in Seq(S), NEW t \in Seq(S),
         b \o w = f \o t
  PROVE  /\ Len(b) + Len(w) = Len(f) + Len(t)
         /\ \A i \in 1 .. Len(f) : i <= Len(b) => b[i] = f[i]
         /\ Len(f) <= Len(b) => SubSeq(b, Len(f) + 1, Len(b)) \o w = t
<1> DEFINE s == b \o w
           r == f \o t
<1>1. Len(b) \in Nat /\ Len(w) \in Nat /\ Len(f) \in Nat /\ Len(t) \in Nat
  OBVIOUS
<1>2. /\ Len(s) = Len(b) + Len(w) /\ \A i \in 1 .. Len(b) : s[i] = b[i]
      /\ \A i \in 1 .. Len(w) : s[Len(b) + i] = w[i]
  <2>1. IsConcat(s, b, w)
    BY ConcatIs
  <2> HIDE DEF s
  <2> QED
    BY <2>1 DEF IsConcat
<1>3. /\ Len(r) = Len(f) + Len(t) /\ \A i \in 1 .. Len(f) : r[i] = f[i]
      /\ \A i \in 1 .. Len(t) : r[Len(f) + i] = t[i]
  <2>1. IsConcat(r, f, t)
    BY ConcatIs
  <2> HIDE DEF r
  <2> QED
    BY <2>1 DEF IsConcat
<1>4. s = r
  OBVIOUS
<1> HIDE DEF s, r
<1>5. Len(b) + Len(w) = Len(f) + Len(t)
  BY <1>2, <1>3, <1>4
<1>6. \A i \in 1 .. Len(f) : i <= Len(b) => b[i] = f[i]
  BY <1>1, <1>2, <1>3, <1>4
<1>7. ASSUME Len(f) <= Len(b) PROVE SubSeq(b, Len(f) + 1, Len(b)) \o w = t
  <2> DEFINE rest == SubSeq(b, Len(f) + 1, Len(b))
  <2>1. /\ rest \in Seq(S) /\ Len(rest) = Len(b) - Len(f)
        /\ \A i \in 1 .. Len(rest) : rest[i] = b[Len(f) + i]
    BY <1>1, <1>7
  <2> HIDE DEF rest
  <2>2. /\ rest \o w \in Seq(S) /\ Len(rest \o w) = Len(rest) + Len(w)
        /\ \A i \in 1 .. Len(rest) : (rest \o w)[i] = rest[i]
        /\ \A i \in 1 .. Len(w) : (rest \o w)[Len(rest) + i] = w[i]
    BY <2>1, ConcatElements
  <2>3. ASSUME NEW i \in 1 .. Len(t) PROVE (rest \o w)[i] = t[i]
    <3>1. t[i] = s[Len(f) + i]
      BY <1>3, <1>4
    <3>2. CASE i <= Len(rest)
      <4>1. i \in 1 .. Len(rest) /\ Len(f) + i \in 1 .. Len(b)
        BY <1>1, <2>1, <3>2
      <4> QED
        BY <1>2, <2>1, <2>2, <3>1, <4>1
    <3>3. CASE ~(i <= Len(rest))
      <4> DEFINE j == i - Len(rest)
      <4>1. j \in 1 .. Len(w) /\ Len(rest) + j = i /\ Len(f) + i = Len(b) + j
        BY <1>1, <1>5, <2>1, <3>3
      <4> HIDE DEF j
      <4> QED
        BY <1>2, <2>2, <3>1, <4>1
    <3> QED
      BY <3>2, <3>3
  <2>4. Len(rest \o w) = Len(t)
    BY <1>1, <1>5, <2>1, <2>2
  <2>5. rest \o w = t
    BY <2>2, <2>3, <2>4, SameSequence
  <2> QED
    BY <2>5 DEF rest
<1> QED
  BY <1>5, <1>6, <1>7

\* The bytes of a frame, and of the frames of a response.
Frame(p) == <<TagAudio>> \o LengthPrefix(Len(p)) \o p
Sent[fs \in Seq(Payloads)] == IF fs = <<>> THEN <<>> ELSE Frame(Head(fs)) \o Sent[Tail(fs)]

\* A frame: its tag, its length, its payload.
LEMMA FrameIs ==
  ASSUME NEW p \in Payloads
  PROVE  /\ p \in Seq(Byte) /\ Frame(p) \in Seq(Byte) /\ Len(Frame(p)) = HeaderBytes + Len(p)
         /\ Frame(p)[1] = TagAudio
         /\ \A i \in 1 .. LengthBytes : Frame(p)[i + 1] = LengthPrefix(Len(p))[i]
         /\ \A i \in 1 .. Len(p) : Frame(p)[HeaderBytes + i] = p[i]
<1> DEFINE h == <<TagAudio>>
           l == LengthPrefix(Len(p))
<1>1. p \in Seq(Byte) /\ Len(p) \in Nat
  BY StreamAssumption DEF Byte
<1>2. l \in Seq(Byte) /\ Len(l) = LengthBytes
  BY <1>1, PrefixType
<1>3. h \in Seq(Byte) /\ Len(h) = 1 /\ h[1] = TagAudio
  BY TagsAreBytes
<1> HIDE DEF h, l
<1>4. /\ h \o l \in Seq(Byte) /\ Len(h \o l) = 1 + LengthBytes /\ (h \o l)[1] = TagAudio
      /\ \A i \in 1 .. LengthBytes : (h \o l)[1 + i] = l[i]
  <2>1. 1 \in 1 .. Len(h)
    BY <1>3
  <2> QED
    <3> DEFINE c == h \o l
    <3>1. c \in Seq(Byte) /\ IsConcat(c, h, l)
      BY <1>2, <1>3, ConcatIs
    <3> HIDE DEF c
    <3>2. c \in Seq(Byte) /\ Len(c) = 1 + LengthBytes /\ c[1] = TagAudio
      BY <1>2, <1>3, <2>1, <3>1 DEF IsConcat
    <3>3. \A i \in 1 .. LengthBytes : c[1 + i] = l[i]
      BY <1>2, <1>3, <3>1 DEF IsConcat
    <3> QED
      BY <3>2, <3>3 DEF c
<1>5. LengthBytes \in Nat /\ HeaderBytes = 1 + LengthBytes
  BY HeaderType DEF HeaderBytes
<1> DEFINE f == (h \o l) \o p
<1>6. /\ f \in Seq(Byte) /\ Len(f) = HeaderBytes + Len(p)
      /\ \A i \in 1 .. HeaderBytes : f[i] = (h \o l)[i]
      /\ \A i \in 1 .. Len(p) : f[HeaderBytes + i] = p[i]
  <2> DEFINE g == h \o l
  <2>1. g \in Seq(Byte) /\ Len(g) = HeaderBytes /\ f = g \o p
    BY <1>4, <1>5
  <2> HIDE DEF g, f
  <2>2. /\ f \in Seq(Byte) /\ Len(f) = HeaderBytes + Len(p)
        /\ \A i \in 1 .. HeaderBytes : f[i] = g[i]
        /\ \A i \in 1 .. Len(p) : f[HeaderBytes + i] = p[i]
    <3>1. f \in Seq(Byte) /\ IsConcat(f, g, p)
      BY <1>1, <2>1, ConcatIs
    <3> QED
      BY <2>1, <3>1 DEF IsConcat
  <2> QED
    BY <2>2 DEF g
<1>7. f = Frame(p)
  BY DEF Frame, h, l
<1> HIDE DEF f
<1>8. f[1] = TagAudio /\ \A i \in 1 .. LengthBytes : f[i + 1] = l[i]
  <2>1. 1 \in 1 .. HeaderBytes /\ \A i \in 1 .. LengthBytes : i + 1 \in 1 .. HeaderBytes /\ i + 1 = 1 + i
    BY <1>5
  <2> QED
    BY <1>4, <1>6, <2>1
<1> QED
  BY <1>1, <1>6, <1>7, <1>8 DEF l

\* The bytes of a response, frame by frame.
LEMMA SentIs ==
  \A fs \in Seq(Payloads) :
    /\ Sent[fs] \in Seq(Byte)
    /\ Sent[fs] = IF fs = <<>> THEN <<>> ELSE Frame(Head(fs)) \o Sent[Tail(fs)]
<1> DEFINE A == Seq(Payloads)
           V == Seq(Byte)
           Body(fs, g) == IF fs = <<>> THEN <<>> ELSE Frame(Head(fs)) \o g[Tail(fs)]
           m == [fs \in A |-> Len(fs)]
           G == [fs \in A |-> [g \in [A -> V] |-> Body(fs, g)]]
<1>1. ASSUME NEW fs \in A, fs # <<>>
      PROVE  Head(fs) \in Payloads /\ Tail(fs) \in A /\ Len(Tail(fs)) < Len(fs) /\ Len(fs) \in Nat
  BY <1>1
<1>2. ASSUME NEW fs \in A, NEW rest, fs # <<>> => rest \in V
      PROVE  (IF fs = <<>> THEN <<>> ELSE Frame(Head(fs)) \o rest) \in V
  <2>1. CASE fs = <<>>
    BY <2>1
  <2>2. CASE fs # <<>>
    <3>1. Frame(Head(fs)) \in V /\ rest \in V
      BY <1>1, <1>2, <2>2, FrameIs
    <3> QED
      BY <2>2, <3>1
  <2> QED
    BY <2>1, <2>2
<1>3. G \in [A -> [[A -> V] -> V]]
  <2>1. ASSUME NEW fs \in A, NEW g \in [A -> V] PROVE Body(fs, g) \in V
    <3>1. fs # <<>> => g[Tail(fs)] \in V
      BY <1>1
    <3> HIDE DEF V, A
    <3> QED
      BY <1>2, <3>1
  <2> HIDE DEF A, V, Body
  <2> QED
    BY <2>1
<1>4. \A fs \in A, g \in [A -> V] : G[fs][g] = Body(fs, g)
  <2> HIDE DEF A, V, Body
  <2> QED
    OBVIOUS
<1>5. m \in [A -> Nat] /\ \A fs \in A : m[fs] = Len(fs)
  OBVIOUS
<1>6. \A fs \in A : fs # <<>> => Tail(fs) \in A /\ m[Tail(fs)] < m[fs]
  BY <1>1, <1>5
<1>7. <<>> \in V
  OBVIOUS
<1> HIDE DEF m, G, A, V
<1>8. LooksBelow(G, m, A, V)
  BY <1>4, <1>6 DEF LooksBelow
<1>9. PICK g : g \in [A -> V] /\ \A fs \in A : g[fs] = Body(fs, g)
  <2>1. PICK g : Solves(g, G, A, V)
    BY ONLY <1>3, <1>5, <1>7, <1>8, Recursion
  <2> QED
    BY <1>4, <2>1 DEF Solves
<1>10. g = [fs \in A |-> Body(fs, g)]
  <2> HIDE DEF Body
  <2> QED
    BY <1>9
<1>11. Sent = [fs \in A |-> Body(fs, Sent)]
  <2>1. Sent = CHOOSE h : h = [fs \in A |-> Body(fs, h)]
    BY DEF Sent, A
  <2> HIDE DEF Body
  <2> QED
    BY <1>10, <2>1
<1>12. \A fs \in A : Sent[fs] = Body(fs, Sent)
  <2> HIDE DEF Body
  <2> QED
    BY <1>11
<1> DEFINE U == {n \in Nat : \A fs \in A : Len(fs) < n => Sent[fs] \in V}
<1>13. 0 \in U
  BY DEF A
<1>14. ASSUME NEW n \in Nat, n \in U PROVE n + 1 \in U
  <2> SUFFICES ASSUME NEW fs \in A, Len(fs) < n + 1 PROVE Sent[fs] \in V
    OBVIOUS
  <2>1. fs # <<>> => Sent[Tail(fs)] \in V
    <3> SUFFICES ASSUME fs # <<>> PROVE Sent[Tail(fs)] \in V
      OBVIOUS
    <3>1. Tail(fs) \in A /\ Len(Tail(fs)) \in Nat /\ Len(fs) \in Nat /\ Len(Tail(fs)) < Len(fs)
      BY <1>1 DEF A
    <3>2. Len(Tail(fs)) < n
      BY <3>1
    <3> QED
      BY <1>14, <3>1, <3>2
  <2> QED
    BY <1>2, <1>12, <2>1
<1> HIDE DEF U
<1>15. \A n \in Nat : n \in U
  BY <1>13, <1>14, Induction
<1>16. \A fs \in A : Len(fs) \in Nat /\ Len(fs) + 1 \in Nat /\ Len(fs) < Len(fs) + 1
  BY DEF A
<1>17. \A fs \in A : Sent[fs] \in V
  BY <1>15, <1>16 DEF U
<1> QED
  BY <1>12, <1>17 DEF A, V

\* A frame more, at the end.
LEMMA SentAppend ==
  \A fs \in Seq(Payloads), p \in Payloads : Sent[Append(fs, p)] = Sent[fs] \o Frame(p)
<1> DEFINE A == Seq(Payloads)
           U == {n \in Nat : \A fs \in A, p \in Payloads :
                               Len(fs) < n => Sent[Append(fs, p)] = Sent[fs] \o Frame(p)}
<1>1. 0 \in U
  OBVIOUS
<1>2. ASSUME NEW n \in Nat, n \in U PROVE n + 1 \in U
  <2> SUFFICES ASSUME NEW fs \in A, NEW p \in Payloads, Len(fs) < n + 1
               PROVE  Sent[Append(fs, p)] = Sent[fs] \o Frame(p)
    OBVIOUS
  <2>1. Append(fs, p) \in A /\ Append(fs, p) # <<>> /\ Frame(p) \in Seq(Byte)
    <3>1. Frame(p) \in Seq(Byte)
      BY FrameIs
    <3>2. Append(fs, p) \in A /\ Append(fs, p) # <<>>
      BY AppendProperties
    <3> QED
      BY <3>1, <3>2
  <2>2. Sent[Append(fs, p)] = Frame(Head(Append(fs, p))) \o Sent[Tail(Append(fs, p))]
    BY <2>1, SentIs
  <2>3. CASE fs = <<>>
    <3>1. Head(Append(fs, p)) = p /\ Tail(Append(fs, p)) = <<>>
      BY <2>3
    <3>2. Sent[<<>>] = <<>>
      <4>1. <<>> \in Seq(Payloads)
        OBVIOUS
      <4> QED
        BY <4>1, SentIs
    <3> QED
      BY <2>1, <2>2, <2>3, <3>1, <3>2, ConcatEmptySeq
  <2>4. CASE fs # <<>>
    <3>1. /\ Tail(fs) \in A /\ Head(fs) \in Payloads /\ Len(Tail(fs)) < n
          /\ Head(Append(fs, p)) = Head(fs)
      BY <2>4
    <3>2. Tail(Append(fs, p)) = Append(Tail(fs), p)
      BY <2>4, HeadTailAppend
    <3>3. Sent[Append(Tail(fs), p)] = Sent[Tail(fs)] \o Frame(p)
      BY <1>2, <3>1
    <3>4. Frame(Head(fs)) \in Seq(Byte) /\ Sent[Tail(fs)] \in Seq(Byte)
      BY <3>1, FrameIs, SentIs
    <3>5. (Frame(Head(fs)) \o Sent[Tail(fs)]) \o Frame(p) = Frame(Head(fs)) \o (Sent[Tail(fs)] \o Frame(p))
      <4> DEFINE x == Frame(Head(fs))
                 y == Sent[Tail(fs)]
                 z == Frame(p)
      <4>1. x \in Seq(Byte) /\ y \in Seq(Byte) /\ z \in Seq(Byte)
        BY <2>1, <3>4
      <4> HIDE DEF x, y, z
      <4>2. (x \o y) \o z = x \o (y \o z)
        BY ONLY <4>1, ConcatAssociative
      <4> QED
        BY <4>2 DEF x, y, z
    <3>6. Sent[fs] = Frame(Head(fs)) \o Sent[Tail(fs)]
      BY <2>4, SentIs
    <3> QED
      BY <2>2, <3>1, <3>2, <3>3, <3>5, <3>6
  <2> QED
    BY <2>3, <2>4
<1> HIDE DEF U
<1>3. \A n \in Nat : n \in U
  BY <1>1, <1>2, Induction
<1>4. \A fs \in A : Len(fs) \in Nat /\ Len(fs) + 1 \in Nat /\ Len(fs) < Len(fs) + 1
  OBVIOUS
<1> QED
  BY <1>3, <1>4 DEF U

\* The frame that ends a response, if there was one.
LastOf(name) == IF name = "none" THEN <<>> ELSE <<Tags[name]>>

LEMMA LastIs ==
  ASSUME NEW name \in {"none"} \cup DOMAIN Tags
  PROVE  /\ LastOf(name) \in Seq(Byte) /\ Len(LastOf(name)) <= 1
         /\ name # "none" => Len(LastOf(name)) = 1 /\ LastOf(name)[1] = Tags[name]
         /\ Len(LastOf(name)) > 0 => name # "none"
BY TagsAreBytes DEF LastOf, Tags

\* Some bytes have been read and the others are on their way or lost: together they are
\* these frames and this ending.
IsStream(b, w, fs, name) == b \o w = Sent[fs] \o LastOf(name)

\* As long as there are frames to come, the first byte is the tag of one.
LEMMA HeadOfStream ==
  ASSUME NEW b \in Seq(Byte), NEW w \in Seq(Byte), NEW fs \in Seq(Payloads),
         NEW name \in {"none"} \cup DOMAIN Tags, IsStream(b, w, fs, name), Len(b) >= 1
  PROVE  /\ fs # <<>> => Head(b) = TagAudio
         /\ fs = <<>> => name # "none" /\ Head(b) = Tags[name]
<1> DEFINE l == LastOf(name)
<1>1. Head(b) = b[1] /\ b # <<>>
  OBVIOUS
<1>2. l \in Seq(Byte) /\ Len(l) <= 1
  BY LastIs
<1> HIDE DEF l
<1>3. Len(l) \in Nat /\ Len(b) \in Nat /\ Len(w) \in Nat /\ b \in Seq(Byte) /\ w \in Seq(Byte)
  BY <1>2
<1>4. CASE fs # <<>>
  <2> DEFINE f == Frame(Head(fs))
             t == Sent[Tail(fs)] \o l
  <2>1. Head(fs) \in Payloads /\ Tail(fs) \in Seq(Payloads)
    BY <1>4
  <2>2. f \in Seq(Byte) /\ Len(f) >= 1 /\ f[1] = TagAudio
    BY <2>1, FrameIs, HeaderType
  <2> DEFINE s == Sent[Tail(fs)]
  <2>3. Sent[fs] = f \o s
    BY <1>4, SentIs
  <2>4. s \in Seq(Byte)
    BY <2>1, SentIs
  <2> HIDE DEF s, f
  <2>5. f \in Seq(Byte) /\ s \in Seq(Byte) /\ l \in Seq(Byte)
    BY <1>2, <2>2, <2>4
  <2>6. t \in Seq(Byte)
    <3>1. s \o l \in Seq(Byte)
      BY <2>5
    <3> QED
      BY <3>1 DEF s
  <2>7. b \o w = f \o t
    <3>1. (f \o s) \o l = f \o (s \o l)
      BY ONLY <2>5, ConcatAssociative
    <3> QED
      BY <2>3, <3>1 DEF IsStream, s, l
  <2> HIDE DEF t
  <2>8. b \in Seq(Byte) /\ w \in Seq(Byte) /\ f \in Seq(Byte) /\ t \in Seq(Byte)
    BY <1>3, <2>5, <2>6
  <2>9. \A i \in 1 .. Len(f) : i <= Len(b) => b[i] = f[i]
    BY ONLY <2>7, <2>8, TwoCuts
  <2>10. 1 \in 1 .. Len(f)
    BY <2>2
  <2> QED
    BY <1>1, <1>4, <2>2, <2>9, <2>10
<1>5. CASE fs = <<>>
  <2>1. Sent[fs] = <<>> /\ <<>> \in Seq(Byte)
    BY <1>5, SentIs
  <2>2. b \o w = l \o <<>>
    BY <1>2, <2>1, ConcatEmptySeq DEF IsStream, l
  <2>3. b \in Seq(Byte) /\ w \in Seq(Byte) /\ l \in Seq(Byte) /\ <<>> \in Seq(Byte)
    BY <1>2, <1>3, <2>1
  <2>4. /\ Len(b) + Len(w) = Len(l) + Len(<<>>)
        /\ \A i \in 1 .. Len(l) : i <= Len(b) => b[i] = l[i]
    BY ONLY <2>2, <2>3, TwoCuts
  <2>5. Len(<<>>) = 0
    OBVIOUS
  <2>6. Len(l) = 1 /\ 1 \in 1 .. Len(l)
    BY <1>2, <1>3, <2>4, <2>5
  <2> QED
    BY <1>1, <1>5, <2>4, <2>6, LastIs DEF l
<1> QED
  BY <1>4, <1>5

\* A complete frame at the head of the buffer is the first one that was sent.
LEMMA FirstFrame ==
  ASSUME NEW b \in Seq(Byte), NEW w \in Seq(Byte), NEW fs \in Seq(Payloads), fs # <<>>,
         NEW name \in {"none"} \cup DOMAIN Tags, IsStream(b, w, fs, name), HasFrame(b)
  PROVE  Payload(b) = Head(fs) /\ IsStream(AfterFrame(b), w, Tail(fs), name)
<1> DEFINE l == LastOf(name)
           p == Head(fs)
           f == Frame(p)
           s == Sent[Tail(fs)]
           t == s \o l
<1>1. p \in Payloads /\ Tail(fs) \in Seq(Payloads)
  OBVIOUS
<1>2. l \in Seq(Byte) /\ s \in Seq(Byte) /\ f \in Seq(Byte) /\ Sent[fs] = f \o s
  BY <1>1, LastIs, SentIs, FrameIs
<1>3. s \in Seq(Byte) /\ l \in Seq(Byte) /\ f \in Seq(Byte)
  BY <1>2
<1>4. t \in Seq(Byte) /\ b \o w = f \o t
  <2> HIDE DEF s, f, l
  <2>1. (f \o s) \o l = f \o (s \o l)
    BY ONLY <1>3, ConcatAssociative
  <2>2. b \o w = f \o t
    BY <1>2, <2>1 DEF IsStream, l
  <2>3. t \in Seq(Byte)
    BY <1>3
  <2> QED
    BY <2>2, <2>3
<1> HIDE DEF p
<1>5. /\ p \in Seq(Byte) /\ Len(f) = HeaderBytes + Len(p)
      /\ \A i \in 1 .. LengthBytes : f[i + 1] = LengthPrefix(Len(p))[i]
      /\ \A i \in 1 .. Len(p) : f[HeaderBytes + i] = p[i]
  BY <1>1, FrameIs
<1>6. Len(p) \in Nat
  BY <1>5
<1>7. /\ p \in Seq(Byte) /\ Len(f) = HeaderBytes + Len(p) /\ Len(p) \in Nat
      /\ \A i \in 1 .. LengthBytes : f[i + 1] = LengthPrefix(Len(p))[i]
      /\ \A i \in 1 .. Len(p) : f[HeaderBytes + i] = p[i]
  BY <1>5, <1>6
<1>8. Len(b) >= HeaderBytes /\ Len(b) >= FrameEnd(b) /\ Len(b) \in Nat
  BY DEF HasFrame, Coalesce
<1>9. Shifted(Len(p))[LengthBytes] = 0
  BY <1>1, PayloadsFit
<1> HIDE DEF f, t, s, l
<1>10. b \in Seq(Byte) /\ w \in Seq(Byte) /\ f \in Seq(Byte) /\ t \in Seq(Byte)
  BY <1>3, <1>4
<1>11. /\ \A i \in 1 .. Len(f) : i <= Len(b) => b[i] = f[i]
       /\ Len(f) <= Len(b) => SubSeq(b, Len(f) + 1, Len(b)) \o w = t
  BY ONLY <1>4, <1>10, TwoCuts
<1>12. FrameLength(b) = Len(p)
  <2>1. \A i \in 1 .. LengthBytes : b[i + 1] = LengthPrefix(Len(p))[i]
    <3>1. \A i \in 1 .. LengthBytes : i + 1 \in 1 .. Len(f) /\ i + 1 <= Len(b)
      BY <1>7, <1>8, HeaderType DEF HeaderBytes
    <3> QED
      BY <1>7, <1>11, <3>1
  <2> QED
    BY <1>7, <1>8, <1>9, <2>1, LengthIsReadBack
<1>13. FrameEnd(b) = Len(f) /\ Len(f) <= Len(b)
  BY <1>7, <1>8, <1>12 DEF FrameEnd
<1>14. Payload(b) = p
  <2>1. /\ Payload(b) \in Seq(Byte) /\ Len(Payload(b)) = Len(p)
        /\ \A i \in 1 .. Len(p) : Payload(b)[i] = b[HeaderBytes + i]
    BY <1>7, <1>8, <1>13, HeaderType DEF Payload
  <2>2. \A i \in 1 .. Len(p) : HeaderBytes + i \in 1 .. Len(f) /\ HeaderBytes + i <= Len(b)
    BY <1>7, <1>8, <1>13, HeaderType
  <2>3. \A i \in 1 .. Len(p) : Payload(b)[i] = p[i]
    BY <1>7, <1>11, <2>1, <2>2
  <2> QED
    BY <1>7, <2>1, <2>3, SameSequence
<1>15. AfterFrame(b) \o w = t
  BY <1>11, <1>13 DEF AfterFrame
<1> QED
  BY <1>14, <1>15 DEF IsStream, p, t, s, l

\* The parser hands out the first of the frames that were sent, leaves the bytes of the
\* others, and ends well only with all of them and the frame that says so.
Delivers(parsed, w, fs, name) ==
  \E got, rest \in Seq(Payloads) :
    /\ fs = got \o rest /\ parsed.chunks = got
    /\ parsed.verdict = "none" => IsStream(parsed.rest, w, rest, name)
    /\ parsed.verdict = "ok" => rest = <<>> /\ name = "ok"

\* So does a buffer without a complete frame.
LEMMA NoFrameDelivers ==
  ASSUME NEW b \in Seq(Byte), NEW w \in Seq(Byte), NEW fs \in Seq(Payloads),
         NEW name \in {"none"} \cup DOMAIN Tags, IsStream(b, w, fs, name)
  PROVE  Delivers(NoFrame(b), w, fs, name)
<1>1. <<>> \in Seq(Payloads) /\ fs = <<>> \o fs
  BY ConcatEmptySeq
<1>2. /\ NoFrame(b).chunks = <<>>
      /\ NoFrame(b).verdict = "none" => NoFrame(b).rest = b
      /\ NoFrame(b).verdict = "ok" => Len(b) >= 1 /\ Head(b) = 1
  <2>1. \A tag : TagVerdict(tag) # "none" /\ (TagVerdict(tag) = "ok" => tag = 1)
    BY DEF TagVerdict, Tags
  <2> QED
    BY <2>1 DEF NoFrame, Coalesce
<1>3. ASSUME NoFrame(b).verdict = "ok" PROVE fs = <<>> /\ name = "ok"
  <2>1. Len(b) >= 1 /\ Head(b) = 1
    BY <1>2, <1>3
  <2>2. /\ fs # <<>> => Head(b) = TagAudio
        /\ fs = <<>> => name # "none" /\ Head(b) = Tags[name]
    BY <2>1, HeadOfStream
  <2>3. fs = <<>>
    BY <2>1, <2>2 DEF TagAudio
  <2> QED
    BY <2>1, <2>2, <2>3 DEF Tags
<1> QED
  BY <1>1, <1>2, <1>3 DEF Delivers

LEMMA ParseDelivers ==
  \A b, w \in Seq(Byte), fs \in Seq(Payloads), name \in {"none"} \cup DOMAIN Tags :
    IsStream(b, w, fs, name) => Delivers(Parse[b], w, fs, name)
<1> DEFINE Right(b) ==
      \A w \in Seq(Byte), fs \in Seq(Payloads), name \in {"none"} \cup DOMAIN Tags :
        IsStream(b, w, fs, name) => Delivers(Parse[b], w, fs, name)
           U == {n \in Nat : \A b \in Seq(Byte) : Len(b) < n => Right(b)}
<1>1. 0 \in U
  <2>1. \A b \in Seq(Byte) : ~(Len(b) < 0)
    OBVIOUS
  <2> HIDE DEF Right
  <2> QED
    BY <2>1
<1>2. ASSUME NEW n \in Nat, n \in U PROVE n + 1 \in U
  <2> SUFFICES ASSUME NEW b \in Seq(Byte), Len(b) < n + 1 PROVE Right(b)
    OBVIOUS
  <2> SUFFICES ASSUME NEW w \in Seq(Byte), NEW fs \in Seq(Payloads),
                      NEW name \in {"none"} \cup DOMAIN Tags, IsStream(b, w, fs, name)
               PROVE  Delivers(Parse[b], w, fs, name)
    OBVIOUS
  <2>1. CASE ~HasFrame(b)
    BY <2>1, NoFrameDelivers, ParseIs
  <2>2. CASE HasFrame(b)
    <3>1. fs # <<>>
      <4>1. Len(b) >= 1 /\ Head(b) = 0
        BY <2>2 DEF HasFrame, Coalesce, TagAudio
      <4>2. fs = <<>> => name # "none" /\ Head(b) = Tags[name]
        BY <4>1, HeadOfStream
      <4>3. name # "none" => Tags[name] # 0
        BY DEF Tags
      <4> QED
        BY <4>1, <4>2, <4>3
    <3> DEFINE a == AfterFrame(b)
    <3>2. Payload(b) = Head(fs) /\ IsStream(a, w, Tail(fs), name)
      BY <2>2, <3>1, FirstFrame
    <3>3. a \in Seq(Byte) /\ Len(a) < n
      BY <2>2, FrameIsPart
    <3>4. Tail(fs) \in Seq(Payloads) /\ Head(fs) \in Payloads
      BY <3>1
    <3> HIDE DEF a, Right
    <3>5. Right(a)
      BY <1>2, <3>3
    <3>6. Delivers(Parse[a], w, Tail(fs), name)
      BY <3>2, <3>4, <3>5 DEF Right
    <3>7. PICK got \in Seq(Payloads), rest \in Seq(Payloads) :
            /\ Tail(fs) = got \o rest /\ Parse[a].chunks = got
            /\ Parse[a].verdict = "none" => IsStream(Parse[a].rest, w, rest, name)
            /\ Parse[a].verdict = "ok" => rest = <<>> /\ name = "ok"
      BY <3>6 DEF Delivers
    <3>8. /\ Parse[b].chunks = <<Head(fs)>> \o got
          /\ Parse[b].rest = Parse[a].rest /\ Parse[b].verdict = Parse[a].verdict
      <4>1. Parse[b] = Later(b, Parse[a])
        BY <2>2, ParseIs DEF a
      <4>2. Parse[a] \in Parsed
        BY <3>3, ParseIs
      <4> DEFINE later == Parse[a]
      <4> HIDE DEF later
      <4>3. later \in Parsed
        BY <4>2 DEF later
      <4>4. /\ Later(b, later).chunks = <<Payload(b)>> \o later.chunks
            /\ Later(b, later).rest = later.rest /\ Later(b, later).verdict = later.verdict
        BY <2>2, <4>3, LaterType
      <4> QED
        BY <3>2, <3>7, <4>1, <4>4 DEF later
    <3> DEFINE h == <<Head(fs)>>
    <3>9. h \in Seq(Payloads) /\ h \o got \in Seq(Payloads) /\ fs = h \o Tail(fs)
      <4>1. h \in Seq(Payloads)
        BY <3>4
      <4>2. fs = h \o Tail(fs)
        BY <3>1
      <4>3. h \o got \in Seq(Payloads)
        BY <4>1
      <4> QED
        BY <4>1, <4>2, <4>3
    <3> HIDE DEF h
    <3>10. (h \o got) \o rest = h \o (got \o rest)
      <4>1. h \in Seq(Payloads) /\ got \in Seq(Payloads) /\ rest \in Seq(Payloads)
        BY <3>9
      <4> QED
        BY ONLY <4>1, ConcatAssociative
    <3>11. fs = (h \o got) \o rest
      BY <3>7, <3>9, <3>10
    <3>12. Parse[b].chunks = h \o got
      BY <3>8 DEF h
    <3> QED
      BY <3>7, <3>8, <3>9, <3>11, <3>12 DEF Delivers
  <2> QED
    BY <2>1, <2>2
<1> HIDE DEF U, Right
<1>3. \A n \in Nat : n \in U
  BY <1>1, <1>2, Induction
<1>4. \A b \in Seq(Byte) : Len(b) + 1 \in Nat /\ Len(b) < Len(b) + 1
  OBVIOUS
<1>5. \A b \in Seq(Byte) : Right(b)
  BY <1>3, <1>4 DEF U
<1> QED
  BY <1>5 DEF Right

\* Three sequences, and two, put together: their types and both ways to do it.
LEMMA Together ==
  ASSUME NEW S, NEW x, x \in Seq(S), NEW y, y \in Seq(S), NEW z, z \in Seq(S)
  PROVE  /\ x \o y \in Seq(S) /\ y \o z \in Seq(S) /\ (x \o y) \o z \in Seq(S)
         /\ (x \o y) \o z = x \o (y \o z)
         /\ x \o <<>> = x /\ <<>> \o x = x
<1>1. x \o y \in Seq(S) /\ y \o z \in Seq(S)
  OBVIOUS
<1>2. (x \o y) \o z = x \o (y \o z)
  BY ConcatAssociative
<1>3. x \o <<>> = x /\ <<>> \o x = x
  BY ConcatEmptySeq
<1> QED
  BY <1>1, <1>2, <1>3

\* A sequence cut in two.
LEMMA TwoParts ==
  ASSUME NEW S, NEW q, q \in Seq(S), NEW n \in 0 .. Len(q)
  PROVE  /\ SubSeq(q, 1, n) \in Seq(S) /\ SubSeq(q, n + 1, Len(q)) \in Seq(S)
         /\ SubSeq(q, 1, n) \o SubSeq(q, n + 1, Len(q)) = q
<1> DEFINE x == SubSeq(q, 1, n)
           y == SubSeq(q, n + 1, Len(q))
           c == x \o y
<1>1. Len(q) \in Nat /\ n \in Nat /\ n <= Len(q)
  OBVIOUS
<1>2. /\ x \in Seq(S) /\ Len(x) = n /\ \A i \in 1 .. n : x[i] = q[i]
      /\ y \in Seq(S) /\ Len(y) = Len(q) - n /\ \A i \in 1 .. Len(q) - n : y[i] = q[n + i]
  <2>1. x \in Seq(S) /\ Len(x) = n /\ \A i \in 1 .. n : x[i] = q[i]
    BY <1>1
  <2>2. y \in Seq(S) /\ Len(y) = Len(q) - n
    BY <1>1
  <2>3. \A i \in 1 .. Len(q) - n : y[i] = q[n + i]
    BY <1>1
  <2> QED
    BY <2>1, <2>2, <2>3
<1> HIDE DEF x, y
<1>3. c \in Seq(S) /\ IsConcat(c, x, y)
  <2>1. x \in Seq(S) /\ y \in Seq(S)
    BY <1>2
  <2> QED
    BY <2>1, ConcatIs
<1> HIDE DEF c
<1>4. /\ Len(c) = Len(q)
      /\ \A i \in 1 .. n : c[i] = q[i]
      /\ \A i \in 1 .. Len(q) - n : c[n + i] = q[n + i]
  BY <1>1, <1>2, <1>3 DEF IsConcat
<1>5. ASSUME NEW i \in 1 .. Len(q) PROVE c[i] = q[i]
  <2>1. CASE i <= n
    BY <1>1, <1>4, <2>1
  <2>2. CASE ~(i <= n)
    <3>1. i - n \in 1 .. Len(q) - n /\ n + (i - n) = i
      BY <1>1, <2>2
    <3> QED
      BY <1>4, <3>1
  <2> QED
    BY <2>1, <2>2
<1>6. c = q
  BY <1>3, <1>4, <1>5, SameSequence
<1> QED
  BY <1>2, <1>6 DEF c, x, y

\* A frame is sent.
LEMMA FrameJoins ==
  ASSUME NEW b \in Seq(Byte), NEW w \in Seq(Byte), NEW fs \in Seq(Payloads), NEW p \in Payloads,
         IsStream(b, w, fs, "none")
  PROVE  IsStream(b, w \o <<TagAudio>> \o LengthPrefix(Len(p)) \o p, Append(fs, p), "none")
<1> DEFINE h == <<TagAudio>>
           l == LengthPrefix(Len(p))
           s == Sent[fs]
           f == Frame(p)
<1>1. b \in Seq(Byte) /\ w \in Seq(Byte) /\ p \in Seq(Byte) /\ h \in Seq(Byte) /\ l \in Seq(Byte)
  <2>1. p \in Seq(Byte)
    BY StreamAssumption DEF Byte
  <2>2. Len(p) \in Nat
    BY <2>1
  <2> QED
    BY <2>1, <2>2, PrefixType, TagsAreBytes
<1>2. s \in Seq(Byte) /\ f \in Seq(Byte) /\ Append(fs, p) \in Seq(Payloads)
  <2>1. Append(fs, p) \in Seq(Payloads)
    OBVIOUS
  <2> QED
    BY <2>1, SentIs, FrameIs
<1>3. Sent[Append(fs, p)] = s \o f
  BY SentAppend
<1>4. f = (h \o l) \o p
  BY DEF Frame
<1>5. b \o w = s \o <<>>
  BY DEF IsStream, LastOf
<1> HIDE DEF h, l, s, f
<1>6. ((w \o h) \o l) \o p = w \o f
  <2> DEFINE k == h \o l
  <2>1. w \in Seq(Byte) /\ h \in Seq(Byte) /\ l \in Seq(Byte)
    BY <1>1
  <2>2. (w \o h) \o l = w \o k /\ k \in Seq(Byte)
    BY ONLY <2>1, Together
  <2> HIDE DEF k
  <2>3. w \in Seq(Byte) /\ k \in Seq(Byte) /\ p \in Seq(Byte)
    BY <1>1, <2>2
  <2>4. (w \o k) \o p = w \o (k \o p)
    BY ONLY <2>3, Together
  <2> QED
    BY <1>4, <2>2, <2>4 DEF k
<1>7. b \o (w \o f) = s \o f
  <2>1. (b \o w) \o f = b \o (w \o f)
    <3>1. b \in Seq(Byte) /\ w \in Seq(Byte) /\ f \in Seq(Byte)
      BY <1>1, <1>2
    <3> QED
      BY ONLY <3>1, Together
  <2>2. s \o <<>> = s
    BY ONLY <1>2, Together
  <2> QED
    BY <1>5, <2>1, <2>2
<1>8. s \o f \in Seq(Byte)
  BY ONLY <1>2, Together
<1>9. (s \o f) \o <<>> = s \o f
  BY ONLY <1>8, Together
<1>10. b \o (((w \o h) \o l) \o p) = Sent[Append(fs, p)] \o LastOf("none")
  BY <1>3, <1>6, <1>7, <1>9 DEF LastOf
<1> QED
  BY <1>10 DEF IsStream, h, l

\* The last frame is sent.
LEMMA LastJoins ==
  ASSUME NEW b \in Seq(Byte), NEW w \in Seq(Byte), NEW fs \in Seq(Payloads),
         NEW name \in DOMAIN Tags, IsStream(b, w, fs, "none")
  PROVE  IsStream(b, Append(w, Tags[name]), fs, name)
<1> DEFINE e == <<Tags[name]>>
           s == Sent[fs]
<1>1. b \in Seq(Byte) /\ w \in Seq(Byte) /\ e \in Seq(Byte) /\ s \in Seq(Byte)
  BY TagsAreBytes, SentIs
<1>2. Append(w, Tags[name]) = w \o e
  BY TagsAreBytes, AppendIsConcat
<1>3. b \o w = s \o <<>>
  BY DEF IsStream, LastOf
<1>4. e = LastOf(name)
  BY DEF LastOf, Tags
<1> HIDE DEF e, s
<1>5. (b \o w) \o e = b \o (w \o e) /\ s \o <<>> = s
  BY ONLY <1>1, Together
<1>6. b \o Append(w, Tags[name]) = s \o e
  BY <1>2, <1>3, <1>5
<1> QED
  BY <1>4, <1>6 DEF IsStream, s

\* Bytes are read: they move from what is on its way to what has come.
LEMMA BytesMove ==
  ASSUME NEW b \in Seq(Byte), NEW w \in Seq(Byte), NEW lost \in Seq(Byte), NEW fs, NEW name,
         NEW n \in 0 .. Len(w), IsStream(b, w \o lost, fs, name)
  PROVE  IsStream(b \o SubSeq(w, 1, n), SubSeq(w, n + 1, Len(w)) \o lost, fs, name)
<1> DEFINE x == SubSeq(w, 1, n)
           y == SubSeq(w, n + 1, Len(w))
<1>1. x \in Seq(Byte) /\ y \in Seq(Byte) /\ x \o y = w /\ b \in Seq(Byte) /\ lost \in Seq(Byte)
  BY TwoParts
<1> HIDE DEF x, y
<1> DEFINE t == y \o lost
<1>2. (x \o y) \o lost = x \o t /\ t \in Seq(Byte)
  <2>1. x \in Seq(Byte) /\ y \in Seq(Byte) /\ lost \in Seq(Byte)
    BY <1>1
  <2>2. (x \o y) \o lost = x \o (y \o lost)
    BY ONLY <2>1, Together
  <2>3. y \o lost \in Seq(Byte)
    BY <2>1
  <2> QED
    BY <2>2, <2>3
<1>3. (b \o x) \o t = b \o (x \o t)
  <2> HIDE DEF t
  <2>1. b \in Seq(Byte) /\ x \in Seq(Byte) /\ t \in Seq(Byte)
    BY <1>1, <1>2
  <2> QED
    BY ONLY <2>1, Together
<1>4. (b \o x) \o (y \o lost) = b \o (w \o lost)
  BY <1>1, <1>2, <1>3
<1> QED
  BY <1>4 DEF IsStream, x, y

\* A sequence of payloads is one of byte sequences.
LEMMA PayloadsAreBytes == \A fs \in Seq(Payloads) : fs \in Seq(Seq(Byte))
BY StreamAssumption DEF Byte

\* The response, as far as the call has got with it: the chunks that were handed out, and
\* bytes that have come, are on their way, or were lost with the connection, which make up
\* the frames that are left.
OnItsWay(lost, rest) ==
  /\ earlier \o frames = chunks \o rest
  /\ IsStream(buffer, wire \o lost, rest, ending)
  /\ closed \/ lost = <<>>

\* Inductive: audio that was handed out is a whole number of frames and the next ones are
\* still to come; a verdict that is no error has seen the last of them.
DeliveryInv ==
  /\ state = "done" => verdict = "ok"
  /\ verdict = "ok" => ending = "ok" /\ chunks = earlier \o frames
  /\ call \in {"connecting", "streaming"} => verdict = "none"
  /\ call = "connecting" => chunks = earlier /\ frames = <<>> /\ ending = "none"
                            /\ wire = <<>> /\ buffer = <<>>
  /\ \E rest \in Seq(Payloads) : earlier \o frames = chunks \o rest
  /\ call = "streaming" => \E lost \in Seq(Byte), rest \in Seq(Payloads) : OnItsWay(lost, rest)

\* The sidecar sends while the call reads: none of it is lost, and a frame more is left.
LEMMA SendingDelivers ==
  ASSUME TypeOK, DeliveryInv, CallRuns,
         \/ \E p \in Payloads : SendFrame(p)
         \/ \E name \in DOMAIN Tags : SendLast(name)
         \/ \E n \in 0 .. Len(wire) : CloseConnection(n)
  PROVE  DeliveryInv'
<1>1. /\ call = "streaming" /\ ~closed /\ verdict = "none"
      /\ UNCHANGED <<call, verdict, chunks, buffer, state, earlier>>
  BY DEF SendFrame, SendLast, CloseConnection, Responding, callVars, DeliveryInv, CallRuns, jobVars
<1>2. PICK lost \in Seq(Byte), rest \in Seq(Payloads) : OnItsWay(lost, rest)
  BY <1>1 DEF DeliveryInv
<1>3. lost = <<>> /\ earlier \o frames = chunks \o rest /\ IsStream(buffer, wire \o lost, rest, ending)
  BY <1>1, <1>2 DEF OnItsWay
<1>4. /\ buffer \in Seq(Byte) /\ wire \in Seq(Byte) /\ frames \in Seq(Payloads)
      /\ chunks \in Seq(Seq(Byte)) /\ ending \in {"none"} \cup DOMAIN Tags
      /\ earlier \in Seq(Seq(Byte))
  BY DEF TypeOK, StreamTypeOK
<1>5. IsStream(buffer, wire, rest, ending)
  <2>1. wire \o <<>> = wire
    BY <1>4, ConcatEmptySeq
  <2> QED
    BY <1>3, <2>1
<1>6. <<>> \in Seq(Byte)
  OBVIOUS
<1>7. ASSUME NEW bytes \in Seq(Byte), NEW left \in Seq(Payloads), OnItsWay(bytes, left)'
      PROVE  DeliveryInv'
  BY <1>1, <1>4, <1>7 DEF DeliveryInv, OnItsWay
<1>8. ASSUME NEW p \in Payloads, SendFrame(p) PROVE DeliveryInv'
  <2>1. /\ ending = "none" /\ frames' = Append(frames, p)
        /\ wire' = wire \o <<TagAudio>> \o LengthPrefix(Len(p)) \o p
        /\ UNCHANGED <<ending, closed, buffer, chunks>>
    BY <1>8 DEF SendFrame
  <2>2. IsStream(buffer, wire \o <<TagAudio>> \o LengthPrefix(Len(p)) \o p, Append(rest, p), "none")
    BY <1>4, <1>5, <2>1, FrameJoins
  <2>3. wire' \in Seq(Byte)
    BY CallTypes DEF TypeOK, CallRuns, StreamTypeOK
  <2>4. wire' \o <<>> = wire'
    BY <2>3, ConcatEmptySeq
  <2>5. Append(rest, p) \in Seq(Payloads) /\ earlier' \o frames' = chunks \o Append(rest, p)
    <3>1. chunks \in Seq(Seq(Byte)) /\ rest \in Seq(Seq(Byte)) /\ p \in Seq(Byte)
      <4>1. p \in Seq(Byte)
        BY StreamAssumption DEF Byte
      <4>2. rest \in Seq(Seq(Byte))
        BY PayloadsAreBytes
      <4> QED
        BY <1>4, <4>1, <4>2
    <3>2. chunks \o Append(rest, p) = Append(chunks \o rest, p)
      BY ONLY <3>1, AppendConcat
    <3>3. earlier \in Seq(Seq(Byte)) /\ frames \in Seq(Seq(Byte)) /\ p \in Seq(Byte)
      BY <1>4, <3>1, PayloadsAreBytes
    <3>4. earlier \o Append(frames, p) = Append(earlier \o frames, p)
      BY ONLY <3>3, AppendConcat
    <3> QED
      BY <1>1, <1>3, <2>1, <3>2, <3>4
  <2>6. OnItsWay(<<>>, Append(rest, p))'
    BY <1>1, <2>1, <2>2, <2>4, <2>5 DEF OnItsWay, IsStream
  <2> QED
    BY <1>6, <1>7, <2>5, <2>6
<1>9. ASSUME NEW name \in DOMAIN Tags, SendLast(name) PROVE DeliveryInv'
  <2>1. /\ ending = "none" /\ ending' = name /\ wire' = Append(wire, Tags[name])
        /\ UNCHANGED <<frames, closed, buffer, chunks>>
    BY <1>9 DEF SendLast
  <2>2. IsStream(buffer, Append(wire, Tags[name]), rest, name)
    BY <1>4, <1>5, <2>1, LastJoins
  <2>3. wire' \in Seq(Byte)
    BY <1>4, <2>1, TagsAreBytes
  <2>4. wire' \o <<>> = wire'
    BY <2>3, ConcatEmptySeq
  <2>5. OnItsWay(<<>>, rest)'
    BY <1>1, <1>3, <2>1, <2>2, <2>4 DEF OnItsWay, IsStream
  <2> QED
    BY <1>6, <1>7, <2>5
<1>10. ASSUME NEW n \in 0 .. Len(wire), CloseConnection(n) PROVE DeliveryInv'
  <2>1. closed' /\ wire' = SubSeq(wire, 1, n) /\ UNCHANGED <<frames, ending, buffer, chunks>>
    BY <1>10 DEF CloseConnection
  <2>2. PICK gone \in Seq(Byte) : wire' \o gone = wire
    BY <1>4, <2>1, TwoParts
  <2>3. OnItsWay(gone, rest)'
    BY <1>1, <1>3, <1>5, <2>1, <2>2 DEF OnItsWay, IsStream
  <2> QED
    BY <1>7, <2>3
<1> QED
  BY <1>8, <1>9, <1>10

\* A read: the parser hands out the next of the frames.
LEMMA ReadDelivers ==
  ASSUME TypeOK, LivesInv, DeliveryInv, Receive PROVE DeliveryInv'
<1>1. PICK n \in 1 .. Len(wire) : Read(n)
  BY DEF Receive
<1> DEFINE b == buffer \o SubSeq(wire, 1, n)
           parsed == Parse[b]
<1>2. /\ call = "streaming" /\ verdict = "none" /\ state = "running" /\ state' = state
      /\ chunks' = chunks \o parsed.chunks /\ buffer' = parsed.rest /\ verdict' = parsed.verdict
      /\ call' = IF parsed.verdict = "none" THEN "streaming" ELSE "closing"
      /\ wire' = SubSeq(wire, n + 1, Len(wire))
      /\ UNCHANGED <<frames, ending, closed, earlier>>
  BY <1>1 DEF Read, LivesInv, DeliveryInv, Receive, jobVars
<1>3. PICK lost \in Seq(Byte), rest \in Seq(Payloads) : OnItsWay(lost, rest)
  BY <1>2 DEF DeliveryInv
<1>4. /\ buffer \in Seq(Byte) /\ wire \in Seq(Byte) /\ ending \in {"none"} \cup DOMAIN Tags
      /\ chunks \in Seq(Seq(Byte)) /\ n \in 0 .. Len(wire)
  BY DEF TypeOK, StreamTypeOK
<1>5. wire' \in Seq(Byte) /\ wire' \o lost \in Seq(Byte) /\ b \in Seq(Byte)
  <2>1. wire' \in Seq(Byte) /\ SubSeq(wire, 1, n) \in Seq(Byte)
    BY <1>2, <1>4, TwoParts
  <2> QED
    BY <1>4, <2>1
<1>6. IsStream(b, wire' \o lost, rest, ending)
  <2>1. IsStream(buffer, wire \o lost, rest, ending)
    BY <1>3 DEF OnItsWay
  <2> QED
    BY <1>2, <1>4, <2>1, BytesMove
<1> HIDE DEF b
<1>7. Delivers(parsed, wire' \o lost, rest, ending)
  BY <1>4, <1>5, <1>6, ParseDelivers
<1> HIDE DEF parsed
<1>8. PICK got \in Seq(Payloads), left \in Seq(Payloads) :
        /\ rest = got \o left /\ parsed.chunks = got
        /\ parsed.verdict = "none" => IsStream(parsed.rest, wire' \o lost, left, ending)
        /\ parsed.verdict = "ok" => left = <<>> /\ ending = "ok"
  BY <1>7 DEF Delivers
<1>9. earlier' \o frames' = chunks' \o left /\ chunks' \in Seq(Seq(Byte)) /\ chunks' \o <<>> = chunks'
  <2>1. chunks \in Seq(Seq(Byte)) /\ got \in Seq(Seq(Byte)) /\ left \in Seq(Seq(Byte))
    BY <1>4, PayloadsAreBytes
  <2>2. (chunks \o got) \o left = chunks \o (got \o left)
    <3> DEFINE C == Seq(Byte)
    <3>1. chunks \in Seq(C) /\ got \in Seq(C) /\ left \in Seq(C)
      BY <2>1
    <3> HIDE DEF C
    <3> QED
      BY ONLY <3>1, ConcatAssociative
  <2>3. earlier \o frames = chunks \o rest
    BY <1>3 DEF OnItsWay
  <2>4. chunks' \in Seq(Seq(Byte))
    BY <1>2, <1>8, <2>1
  <2>5. chunks' \o <<>> = chunks'
    BY <2>4, ConcatEmptySeq
  <2> QED
    BY <1>2, <1>8, <2>2, <2>3, <2>4, <2>5
<1>10. parsed.verdict = "ok" => ending' = "ok" /\ chunks' = earlier' \o frames'
  BY <1>2, <1>8, <1>9
<1>11. parsed.verdict = "none" => OnItsWay(lost, left)'
  BY <1>2, <1>3, <1>8, <1>9 DEF OnItsWay, IsStream
<1> QED
  BY <1>2, <1>8, <1>9, <1>10, <1>11 DEF DeliveryInv

\* The other steps: an attempt begins with nothing but what earlier ones have handed out.
LEMMA OtherStepsDeliver ==
  ASSUME TypeOK, LivesInv, DeliveryInv,
         \/ UNCHANGED vars
         \/ Attempt \/ AttemptReturns \/ BackoffFires
         \/ \E r \in Listeners : \/ Attach(r) \/ Written(r) \/ Resume(r) \/ Ended(r) \/ Throws(r)
                                 \/ Drain(r) \/ HangUp(r) \/ Closed(r)
         \/ CallRuns /\ \/ \E status \in {"ok", "busy", "booting", "bad_request"} : Response(status)
                        \/ Unreachable \/ ReadDone \/ ReadAborted \/ ReaderCancelled \/ Timeout
  PROVE  DeliveryInv'
<1>1. CASE Attempt
  <2>1. /\ earlier' = chunks /\ chunks' = chunks /\ frames' = <<>> /\ ending' = "none"
        /\ wire' = <<>> /\ buffer' = <<>> /\ state' = "running"
        /\ \/ call' = "connecting" /\ verdict' = "none"
           \/ call' = "returned" /\ verdict' = "unavailable"
    BY <1>1 DEF Attempt, StartCall
  <2>2. <<>> \in Seq(Payloads) /\ earlier' \o frames' = chunks' \o <<>>
    BY <2>1
  <2> QED
    BY <2>1, <2>2 DEF DeliveryInv
<1>2. CASE AttemptReturns
  <2>1. UNCHANGED <<verdict, chunks, frames, ending, earlier>> /\ call' = "none"
    BY <1>2 DEF AttemptReturns, SettleAs, streamVars
  <2>2. state' = "done" => verdict = "ok"
    BY <1>2 DEF AttemptReturns, SettleAs
  <2> QED
    BY <2>1, <2>2 DEF DeliveryInv
<1>3. CASE BackoffFires
  <2>1. CASE SettleAs("cancelled")
    BY <2>1 DEF SettleAs, DeliveryInv, streamVars
  <2>2. CASE UNCHANGED <<callVars, streamVars, chunks, state, earlier>>
    BY <2>2 DEF DeliveryInv, OnItsWay, callVars, streamVars
  <2> QED
    BY <1>3, <2>1, <2>2 DEF BackoffFires
<1>4. CASE \/ UNCHANGED vars
           \/ \E r \in Listeners : \/ Attach(r) \/ Written(r) \/ Resume(r) \/ Ended(r) \/ Throws(r)
                                   \/ Drain(r) \/ HangUp(r) \/ Closed(r)
  <2>1. UNCHANGED <<call, verdict, streamVars, chunks, state, earlier>>
    BY <1>4 DEF vars, Attach, Written, Resume, Ended, Throws, Drain, HangUp, Closed, callVars, jobVars
  <2> QED
    BY <2>1 DEF DeliveryInv, OnItsWay, streamVars
<1>5. ASSUME NEW status \in {"ok", "busy", "booting", "bad_request"}, Response(status), CallRuns
      PROVE  DeliveryInv'
  <2>1. /\ call = "connecting" /\ state = "running" /\ state' = "running" /\ earlier' = earlier
        /\ call' = IF status = "ok" THEN "streaming" ELSE "returned"
        /\ verdict' = IF status = "ok" THEN "none" ELSE status
        /\ UNCHANGED <<frames, ending, closed, wire, buffer, chunks>>
    BY <1>5 DEF Response, CallRuns, jobVars, LivesInv, streamVars
  <2>2. chunks = earlier /\ frames = <<>> /\ ending = "none" /\ wire = <<>> /\ buffer = <<>>
    BY <2>1 DEF DeliveryInv
  <2>3. <<>> \o <<>> = <<>> /\ <<>> \in Seq(Payloads) /\ <<>> \in Seq(Byte)
    OBVIOUS
  <2>4. Sent[<<>>] = <<>>
    BY <2>3, SentIs
  <2>5. OnItsWay(<<>>, <<>>)'
    BY <2>1, <2>2, <2>3, <2>4 DEF OnItsWay, IsStream, LastOf
  <2> QED
    BY <2>1, <2>2, <2>3, <2>5 DEF DeliveryInv
<1>6. CASE CallRuns /\ (Unreachable \/ ReadDone \/ ReadAborted \/ ReaderCancelled)
  <2>1. /\ UNCHANGED <<state, frames, ending, chunks, earlier>> /\ call # "none"
        /\ call' \in {"returned", "closing"} /\ verdict' \in {"unavailable", verdict}
    BY <1>6 DEF CallRuns, Unreachable, ReadDone, ReadAborted, ReaderCancelled, jobVars, streamVars
  <2>2. /\ state' = "done" => verdict' = "ok"
        /\ verdict' = "ok" => ending' = "ok" /\ chunks' = earlier' \o frames'
    <3>1. CASE verdict' = "unavailable"
      <4>1. state' # "done"
        BY <2>1 DEF LivesInv
      <4> QED
        BY <3>1, <4>1
    <3>2. CASE verdict' = verdict
      BY <2>1, <3>2 DEF DeliveryInv
    <3> QED
      BY <2>1, <3>1, <3>2
  <2>3. \E rest \in Seq(Payloads) : earlier' \o frames' = chunks' \o rest
    BY <2>1 DEF DeliveryInv
  <2>4. call' # "connecting" /\ call' # "streaming"
    BY <2>1
  <2> QED
    BY <2>2, <2>3, <2>4 DEF DeliveryInv
<1>7. CASE CallRuns /\ Timeout
  <2>1. UNCHANGED <<call, verdict, streamVars, chunks, state, earlier>>
    BY <1>7 DEF CallRuns, Timeout, jobVars
  <2> QED
    BY <2>1 DEF DeliveryInv, OnItsWay, streamVars
<1> QED
  BY <1>1, <1>2, <1>3, <1>4, <1>5, <1>6, <1>7

\* However the network cuts a response, whatever the timers, the clients and the end of
\* the connection do to it: what an attempt adds to the chunks of a job are the frames the
\* sidecar sent, in order and whole, and a job is done only with all of them and the frame
\* that says so.  The chunks are of one attempt, except for a job that was promoted out of
\* its backoff and had settled when it was started again.  This for any base and length
\* of the prefix that the payloads fit, and any numbers of frames, attempts and listeners.
THEOREM WhatIsSentIsHeard == Spec => []HeardAsSent
<1>1. Init => DeliveryInv
  <2> SUFFICES ASSUME Init PROVE DeliveryInv
    OBVIOUS
  <2>1. <<>> = <<>> \o <<>> /\ <<>> \in Seq(Payloads)
    OBVIOUS
  <2> QED
    BY <2>1 DEF Init, StreamInit, DeliveryInv
<1>2. TypeOK /\ LivesInv /\ DeliveryInv /\ [Next]_vars => DeliveryInv'
  <2> SUFFICES ASSUME TypeOK, LivesInv, DeliveryInv, [Next]_vars PROVE DeliveryInv'
    OBVIOUS
  <2>1. CASE CallRuns
    BY <2>1, SendingDelivers, OtherStepsDeliver DEF CallRuns, CallStep
  <2> QED
    BY <2>1, ReadDelivers, OtherStepsDeliver DEF Next
<1>3. TypeOK /\ LivesInv /\ DeliveryInv => HeardAsSent
  <2> SUFFICES ASSUME TypeOK, LivesInv, DeliveryInv PROVE HeardAsSent
    OBVIOUS
  <2>1. PICK rest \in Seq(Payloads) : earlier \o frames = chunks \o rest
    BY DEF DeliveryInv
  <2>2. chunks \in Seq(Seq(Byte)) /\ rest \in Seq(Seq(Byte))
    BY PayloadsAreBytes DEF TypeOK, StreamTypeOK
  <2>3. IsPrefix(chunks, earlier \o frames)
    <3> DEFINE c == chunks \o rest
    <3>1. IsConcat(c, chunks, rest) /\ c \in Seq(Seq(Byte))
      BY <2>2, ConcatIs
    <3> HIDE DEF c
    <3>2. Len(chunks) <= Len(c) /\ \A i \in 1 .. Len(chunks) : chunks[i] = c[i]
      BY <2>2, <3>1 DEF IsConcat
    <3>3. c = earlier \o frames
      BY <2>1 DEF c
    <3> QED
      BY <2>2, <3>1, <3>2, <3>3, SameSequence DEF IsPrefix
  <2> QED
    BY <2>3 DEF HeardAsSent, DeliveryInv, LivesInv
<1> QED
  BY <1>1, <1>2, <1>3, LivesInvariant, Typing, PTL DEF Spec
=============================================================================
