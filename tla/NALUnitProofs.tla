---------------------------- MODULE NALUnitProofs ----------------------------
(***************************************************************************)
(* Proofs about NALUnit: the units found in a stream are those written,    *)
(* for any slices and SEI messages, start codes or length fields, and      *)
(* however the bytes arrive.                                               *)
(***************************************************************************)
EXTENDS NALUnit, SequenceTheorems, FiniteSetTheorems, WellFoundedInduction, TLAPS

-----------------------------------------------------------------------------
(* Numbers.                                                                 *)

\* Some number in a set of naturals is the least.
LEMMA LeastNumber ==
  ASSUME NEW S \in SUBSET Nat, S # {}
  PROVE  \E m \in S : \A n \in S : m <= n
<1>1. PICK top \in S : TRUE
  OBVIOUS
<1> DEFINE I == 0 .. top
           up(m) == S \cap (0 .. m)
           F == {up(m) : m \in S \cap I}
           R == StrictSubsetOrdering(I)
<1>2. top \in Nat /\ IsFiniteSet(I)
  BY FS_Interval
<1>3. IsWellFoundedOn(R, SUBSET I)
  BY <1>2, FS_StrictSubsetOrderingWellFounded, FS_FiniteSubsetsOfFinite
<1>4. F \subseteq SUBSET I /\ F # {}
  <2>1. top \in S \cap I
    BY <1>2
  <2>2. \A m \in S \cap I : up(m) \subseteq I
    BY <1>2
  <2> QED BY <2>1, <2>2
<1>5. PICK x \in F : \A y \in F : <<y, x>> \notin R
  <2> HIDE DEF F, R
  <2> QED BY <1>3, <1>4, WFMin
<1>6. PICK m \in S \cap I : x = up(m)
  OBVIOUS
<1>7. ASSUME NEW n \in S, n < m PROVE FALSE
  <2>1. n \in S \cap I /\ m \in Nat /\ n \in Nat
    BY <1>2, <1>7
  <2>2. up(n) \subseteq up(m) /\ m \in up(m) /\ m \notin up(n)
    BY <1>7, <2>1
  <2>3. up(m) \subseteq I /\ up(n) \subseteq I
    BY <1>2, <2>1
  <2> HIDE DEF I, up
  <2>4. <<up(n), x>> \in R
    BY <1>6, <2>2, <2>3 DEF StrictSubsetOrdering
  <2>5. up(n) \in F
    BY <2>1
  <2> QED BY <1>5, <2>4, <2>5
<1>8. m \in Nat /\ \A n \in S : n \in Nat
  OBVIOUS
<1> QED BY <1>7, <1>8

\* What holds of the first number and is handed on by each holds of all.
LEMMA Reaches ==
  ASSUME NEW a \in Nat, NEW b \in Nat, NEW T, a \in T,
         \A n \in a..b : n # a /\ n - 1 \in T => n \in T
  PROVE  a..b \subseteq T
<1> DEFINE Left == (a..b) \ T
<1> SUFFICES ASSUME Left # {} PROVE FALSE
  OBVIOUS
<1>1. Left \subseteq Nat
  OBVIOUS
<1>2. PICK m \in Left : \A n \in Left : m <= n
  <2> HIDE DEF Left
  <2> QED BY <1>1, LeastNumber
<1>3. m \in a..b /\ m # a /\ m - 1 \in a..b /\ ~(m <= m - 1)
  BY <1>2
<1>4. m - 1 \in T
  BY <1>2, <1>3
<1> QED BY <1>2, <1>3, <1>4

\* Values from x on, each computed by F from its number and the one before.
Computed(g, x, l, F) == g = [n \in 0..l |-> IF n = 0 THEN x ELSE F[<<n, g[n - 1]>>]]

\* Such values exist and are of their type.
LEMMA Recursion ==
  ASSUME NEW S, NEW x \in S, NEW l \in Nat, NEW F \in [(1..l) \X S -> S]
  PROVE  \E g \in [0..l -> S] : Computed(g, x, l, F)
<1> DEFINE Next1(g, n) == IF n = 0 THEN x ELSE F[<<n, g[n - 1]>>]
           Upto(g, m) == \A n \in 0..m : g[n] = Next1(g, n)
           Can(m) == \E g \in [0..m -> S] : Upto(g, m)
           T == {m \in 0..l : Can(m)}
<1>1. 0 \in T
  <2> DEFINE g == [n \in 0..0 |-> x]
  <2>1. g \in [0..0 -> S] /\ Upto(g, 0)
    OBVIOUS
  <2>2. Can(0)
    BY <2>1
  <2> QED BY <2>2
<1>2. ASSUME NEW m \in 0..l, m # 0, m - 1 \in T PROVE m \in T
  <2>1. m - 1 \in 0..l /\ m \in 1..l /\ m - 1 # m /\ m - 1 \in 0..(m - 1)
    BY <1>2
  <2>2. PICK g \in [0..(m - 1) -> S] : Upto(g, m - 1)
    BY <1>2
  <2> DEFINE y == F[<<m, g[m - 1]>>]
             h == [n \in 0..m |-> IF n = m THEN y ELSE g[n]]
  <2>3. g[m - 1] \in S /\ y \in S
    BY <2>1, <2>2
  <2>4. \A n \in 0..m : n # m => n \in 0..(m - 1)
    BY <2>1
  <2>5. h \in [0..m -> S]
    <3> HIDE DEF y
    <3> QED BY <2>2, <2>3, <2>4
  <2>6. \A n \in 0..m : h[n] = IF n = m THEN y ELSE g[n]
    OBVIOUS
  <2> HIDE DEF h
  <2>7. ASSUME NEW n \in 0..m PROVE h[n] = Next1(h, n)
    <3>1. CASE n = m
      <4>1. m - 1 \in 0..m BY <2>1
      <4>2. h[m - 1] = g[m - 1] BY <2>1, <2>6, <4>1
      <4> QED BY <1>2, <2>6, <3>1, <4>2
    <3>2. CASE n # m
      <4>1. n \in 0..(m - 1) BY <2>4, <3>2
      <4>2. n # 0 => n - 1 \in 0..m /\ n - 1 # m BY <2>1, <4>1
      <4>3. g[n] = Next1(g, n) BY <2>2, <4>1
      <4>4. h[n] = g[n] /\ (n # 0 => h[n - 1] = g[n - 1]) BY <2>6, <3>2, <4>2
      <4> QED BY <4>3, <4>4
    <3> QED BY <3>1, <3>2
  <2>8. Can(m)
    BY <2>5, <2>7
  <2> QED BY <2>8
<1>3. l \in T
  <2>1. l \in 0..l /\ 0 \in Nat
    OBVIOUS
  <2>2. \A n \in 0..l : n # 0 /\ n - 1 \in T => n \in T
    BY <1>2
  <2> HIDE DEF T
  <2>3. 0..l \subseteq T
    BY <1>1, <2>1, <2>2, Reaches
  <2> QED BY <2>1, <2>3
<1>4. PICK g \in [0..l -> S] : Upto(g, l)
  BY <1>3
<1>5. g = [n \in 0..l |-> Next1(g, n)]
  BY <1>4
<1> QED BY <1>4, <1>5 DEF Computed

\* A sequence of some things is one of more things.
LEMMA SeqWithin ==
  ASSUME NEW S, NEW T, S \subseteq T, NEW s \in Seq(S)
  PROVE  s \in Seq(T)
<1>1. Len(s) \in Nat /\ s \in [1..Len(s) -> S]
  OBVIOUS
<1>2. s \in [1..Len(s) -> T]
  BY <1>1
<1> QED BY <1>1, <1>2, SeqDef

\* A sequence followed by another.
LEMMA Concat ==
  ASSUME NEW S, NEW a \in Seq(S), NEW b \in Seq(S)
  PROVE  /\ a \o b \in Seq(S) /\ Len(a \o b) = Len(a) + Len(b)
         /\ \A i \in 1..Len(a) : (a \o b)[i] = a[i]
         /\ \A j \in 1..Len(b) : (a \o b)[Len(a) + j] = b[j]
<1> DEFINE m == Len(a)
           n == Len(b)
           c == a \o b
<1>1. m \in Nat /\ n \in Nat
  OBVIOUS
<1>2. /\ c \in Seq(S) /\ Len(c) = m + n
      /\ \A i \in 1..(m + n) : c[i] = IF i <= m THEN a[i] ELSE b[i - m]
  BY ConcatProperties
<1> HIDE DEF m, n, c
<1>3. ASSUME NEW i \in 1..m PROVE c[i] = a[i]
  <2>1. i \in 1..(m + n) /\ i <= m
    BY <1>1
  <2> QED BY <1>2, <2>1
<1>4. ASSUME NEW j \in 1..n PROVE c[m + j] = b[j]
  <2>1. m + j \in 1..(m + n) /\ ~(m + j <= m) /\ (m + j) - m = j
    BY <1>1
  <2> QED BY <1>2, <2>1
<1> QED BY <1>2, <1>3, <1>4 DEF m, n, c

\* What is left of a sequence from one place to another.
LEMMA Part ==
  ASSUME NEW S, NEW s \in Seq(S), NEW a \in Nat, NEW z \in Nat, a <= z, z <= Len(s)
  PROVE  /\ SubSeq(s, a + 1, z) \in Seq(S) /\ Len(SubSeq(s, a + 1, z)) = z - a
         /\ \A j \in 1..(z - a) : SubSeq(s, a + 1, z)[j] = s[a + j]
<1> DEFINE l == Len(s)
           b == a + 1
           x == SubSeq(s, b, z)
<1>1. l \in Nat /\ \A i \in 1..l : s[i] \in S
  OBVIOUS
<1>2. b \in Int /\ z \in Int /\ (IF b <= z THEN z - b + 1 ELSE 0) = z - a
      /\ z - b + 1 = z - a /\ \A j \in 1..(z - a) : b + j - 1 = a + j
  OBVIOUS
<1>3. \A i \in b..z : i \in 1..l
  BY <1>1
<1> HIDE DEF l, b
<1>4. /\ x \in Seq(S) /\ Len(x) = IF b <= z THEN z - b + 1 ELSE 0
      /\ \A i \in 1..(z - b + 1) : x[i] = s[b + i - 1]
  BY <1>1, <1>2, <1>3, SubSeqProperties
<1> HIDE DEF x
<1>5. x \in Seq(S) /\ Len(x) = z - a /\ \A j \in 1..(z - a) : x[j] = s[a + j]
  BY <1>2, <1>4
<1> QED BY <1>5 DEF x, b

\* The first of a sequence.
LEMMA FrontPart ==
  ASSUME NEW S, NEW s \in Seq(S), NEW z \in Nat, z <= Len(s)
  PROVE  /\ SubSeq(s, 1, z) \in Seq(S) /\ Len(SubSeq(s, 1, z)) = z
         /\ \A j \in 1..z : SubSeq(s, 1, z)[j] = s[j]
<1>1. /\ 0 \in Nat /\ 0 <= z /\ 0 + 1 = 1 /\ z - 0 = z /\ \A j \in 1..z : 0 + j = j
  OBVIOUS
<1>2. /\ SubSeq(s, 0 + 1, z) \in Seq(S) /\ Len(SubSeq(s, 0 + 1, z)) = z - 0
      /\ \A j \in 1..(z - 0) : SubSeq(s, 0 + 1, z)[j] = s[0 + j]
  BY <1>1, Part
<1> QED BY <1>1, <1>2

\* Sequences of one length with the same elements are one.
LEMMA SameSeq ==
  ASSUME NEW S, NEW s \in Seq(S), NEW t \in Seq(S), Len(s) = Len(t),
         \A i \in 1..Len(s) : s[i] = t[i]
  PROVE  s = t
<1>1. s = [i \in 1..Len(s) |-> s[i]] /\ t = [i \in 1..Len(t) |-> t[i]]
  OBVIOUS
<1> QED BY <1>1

\* Powers of two are positive.
LEMMA PowersPositive == \A n \in Nat : 2^n \in Nat \ {0}
<1> TAKE n \in Nat
<1>1. IsFiniteSet(1..n) /\ Cardinality(1..n) = n
  BY FS_Interval
<1>2. IsFiniteSet(SUBSET (1..n)) /\ Cardinality(SUBSET (1..n)) = 2^n
  BY <1>1, FS_SUBSET
<1>3. Cardinality(SUBSET (1..n)) \in Nat
  BY <1>2, FS_CardinalityType
<1>4. Cardinality(SUBSET (1..n)) # 0
  BY <1>2, FS_EmptySet
<1> QED BY <1>2, <1>3, <1>4

\* The values of the first digits, whose last is Number.
Values(base, digits) ==
    CHOOSE v : v = [k \in 0..Len(digits) |-> IF k = 0 THEN 0 ELSE base * v[k - 1] + digits[k]]

\* Number is the last of the values.
LEMMA NumberIsLast == \A base, digits : Number(base, digits) = Values(base, digits)[Len(digits)]
BY DEF Number, Values

\* Each digit is added to base times the value of those before it.
LEMMA ValuesAre ==
  ASSUME NEW base \in Nat, NEW digits \in Seq(Nat)
  PROVE  /\ Values(base, digits) \in [0..Len(digits) -> Nat]
         /\ Values(base, digits)[0] = 0
         /\ \A k \in 1..Len(digits) :
               Values(base, digits)[k] = base * Values(base, digits)[k - 1] + digits[k]
<1> DEFINE l == Len(digits)
           F == [p \in (1..l) \X Nat |-> base * p[2] + digits[p[1]]]
           v == Values(base, digits)
<1>1. l \in Nat /\ \A k \in 1..l : digits[k] \in Nat
  OBVIOUS
<1>2. \A x \in Nat : base * x \in Nat
  OBVIOUS
<1>3. \A k \in 1..l, x \in Nat : F[<<k, x>>] = base * x + digits[k]
  OBVIOUS
<1>4. F \in [(1..l) \X Nat -> Nat]
  <2>1. \A p \in (1..l) \X Nat : base * p[2] + digits[p[1]] \in Nat
    BY <1>1, <1>2
  <2> QED BY <2>1
<1> HIDE DEF F, l
<1>5. PICK g \in [0..l -> Nat] : g = [n \in 0..l |-> IF n = 0 THEN 0 ELSE F[<<n, g[n - 1]>>]]
  <2>1. 0 \in Nat OBVIOUS
  <2>2. \E g \in [0..l -> Nat] : Computed(g, 0, l, F)
    BY <1>1, <1>4, <2>1, Recursion
  <2> QED BY <2>2 DEF Computed
<1>6. g = [n \in 0..l |-> IF n = 0 THEN 0 ELSE base * g[n - 1] + digits[n]]
  <2>1. ASSUME NEW n \in 0..l, n # 0 PROVE F[<<n, g[n - 1]>>] = base * g[n - 1] + digits[n]
    <3>1. n \in 1..l /\ n - 1 \in 0..l BY <1>1, <2>1
    <3>2. g[n - 1] \in Nat BY <3>1
    <3> QED BY <1>3, <3>1, <3>2
  <2> QED BY <1>5, <2>1
<1>7. v = [k \in 0..l |-> IF k = 0 THEN 0 ELSE base * v[k - 1] + digits[k]]
  BY <1>6, Zenon DEF Values, l
<1> HIDE DEF v
<1>8. 0 \in 0..l /\ v[0] = 0
  BY <1>1, <1>7
<1>9. ASSUME NEW k \in 1..l PROVE v[k] = base * v[k - 1] + digits[k]
  <2>1. k \in 0..l /\ k # 0 BY <1>1
  <2> QED BY <1>7, <2>1
<1>10. 0..l \subseteq {k \in 0..l : v[k] \in Nat}
  <2> DEFINE T == {k \in 0..l : v[k] \in Nat}
  <2>1. 0 \in T BY <1>8
  <2>2. ASSUME NEW k \in 0..l, k # 0, k - 1 \in T PROVE k \in T
    <3>1. k \in 1..l BY <1>1, <2>2
    <3>2. v[k] = base * v[k - 1] + digits[k] BY <1>9, <3>1
    <3>3. digits[k] \in Nat /\ base * v[k - 1] \in Nat BY <1>1, <1>2, <2>2, <3>1
    <3> QED BY <3>2, <3>3
  <2> HIDE DEF T
  <2>3. 0..l \subseteq T BY <1>1, <2>1, <2>2, Reaches
  <2> QED BY <2>3 DEF T
<1>11. v \in [0..l -> Nat]
  BY <1>7, <1>10
<1> QED BY <1>8, <1>9, <1>11 DEF v, l

\* Dividing twice is dividing by the product.
LEMMA DivideTwice ==
  ASSUME NEW n \in Nat, NEW d \in Nat \ {0}, NEW e \in Nat \ {0}
  PROVE  (n \div d) \div e = n \div (e * d)
<1> DEFINE q == n \div d
           r == n % d
           q2 == q \div e
           r2 == q % e
<1>1. q \in Nat /\ r \in 0..(d - 1) /\ n = d * q + r
  OBVIOUS
<1>2. q2 \in Nat /\ r2 \in 0..(e - 1) /\ q = e * q2 + r2
  BY <1>1
<1> HIDE DEF q, r, q2, r2
<1>3. n = (e * d) * q2 + (d * r2 + r)
  BY <1>1, <1>2
<1>4. d * r2 + r \in 0..(e * d - 1)
  <2>1. d * r2 <= d * (e - 1)
    BY <1>1, <1>2
  <2>2. d * (e - 1) = e * d - d /\ d * r2 \in Nat
    BY <1>1, <1>2
  <2> QED BY <1>1, <2>1, <2>2
<1>5. e * d \in Nat \ {0}
  OBVIOUS
<1>6. n \div (e * d) = q2
  <2> DEFINE m == e * d
             s == d * r2 + r
  <2>1. n = m * q2 + s /\ s \in 0..(m - 1) /\ m \in Nat \ {0} /\ q2 \in Nat
    BY <1>2, <1>3, <1>4, <1>5
  <2> HIDE DEF m, s
  <2>2. n \div m = q2
    BY <2>1
  <2> QED BY <2>2 DEF m
<1> QED BY <1>6 DEF q, q2

\* Digits are w numbers below the base.
LEMMA DigitsType ==
  ASSUME NEW base \in Nat \ {0}, NEW w \in Nat, NEW n \in Nat,
         \A j \in 0..w : base^j \in Nat \ {0}
  PROVE  Digits(base, n, w) \in Seq(0..(base - 1)) /\ Len(Digits(base, n, w)) = w
<1>1. ASSUME NEW i \in 1..w PROVE (n \div base^(w - i)) % base \in 0..(base - 1)
  <2>1. w - i \in 0..w
    OBVIOUS
  <2>2. base^(w - i) \in Nat \ {0}
    BY <2>1
  <2> DEFINE p == base^(w - i)
  <2>3. p \in Nat \ {0}
    BY <2>2
  <2> HIDE DEF p
  <2>4. n \div p \in Nat
    BY <2>3
  <2>5. (n \div p) % base \in 0..(base - 1)
    BY <2>4
  <2> QED BY <2>5 DEF p
<1> QED BY <1>1 DEF Digits

\* Number reads what Digits writes.
LEMMA DigitsRead ==
  ASSUME NEW base \in Nat \ {0}, NEW w \in Nat, NEW n \in Nat,
         \A j \in 0..w : base^j \in Nat \ {0},
         base^0 = 1, \A j \in 0..(w - 1) : base^(j + 1) = base * base^j,
         n \div base^w = 0
  PROVE  Number(base, Digits(base, n, w)) = n
<1> DEFINE d == Digits(base, n, w)
           v == Values(base, d)
<1>1. d \in Seq(Nat) /\ Len(d) = w /\ \A i \in 1..w : d[i] = (n \div base^(w - i)) % base
  <2>1. d \in Seq(0..(base - 1)) /\ Len(d) = w
    BY DigitsType
  <2>2. 0..(base - 1) \subseteq Nat
    OBVIOUS
  <2>3. \A i \in 1..w : d[i] = (n \div base^(w - i)) % base
    BY DEF Digits
  <2> HIDE DEF d
  <2> QED BY <2>1, <2>2, <2>3
<1> HIDE DEF d
<1>2. v[0] = 0 /\ \A k \in 1..w : v[k] = base * v[k - 1] + d[k]
  BY <1>1, ValuesAre
<1> HIDE DEF v
<1> DEFINE T == {k \in 0..w : v[k] = n \div base^(w - k)}
<1>3. 0 \in T
  BY <1>2
<1>4. ASSUME NEW k \in 0..w, k # 0, k - 1 \in T PROVE k \in T
  <2>1. w - k \in 0..(w - 1) /\ w - (k - 1) = (w - k) + 1 /\ w - k \in 0..w /\ k \in 1..w
    BY <1>4
  <2> DEFINE p == base^(w - k)
             q == n \div p
  <2>2. p \in Nat \ {0} /\ base^(w - (k - 1)) = base * p
    BY <2>1
  <2>3. v[k - 1] = n \div (base * p)
    BY <1>4, <2>2
  <2>4. v[k] = base * v[k - 1] + (q % base)
    BY <1>1, <1>2, <2>1
  <2> HIDE DEF p
  <2>5. q \div base = n \div (base * p) /\ q \in Nat
    <3>1. (n \div p) \div base = n \div (base * p)
      BY <2>2, DivideTwice, Zenon
    <3> QED BY <2>2, <3>1
  <2> HIDE DEF q
  <2>6. base * (q \div base) + (q % base) = q
    BY <2>5
  <2>7. v[k] = q
    BY <2>3, <2>4, <2>5, <2>6, Zenon
  <2> QED BY <2>7 DEF q, p
<1>5. w \in T
  <2> HIDE DEF T
  <2>1. 0..w \subseteq T
    BY <1>3, <1>4, Reaches
  <2> QED BY <2>1
<1>6. w - w = 0 /\ n \div 1 = n
  OBVIOUS
<1>7. v[w] = n
  BY <1>5, <1>6
<1> QED BY <1>1, <1>7, NumberIsLast DEF v, d

\* n can be written in size bytes; how it is, and what they are read as.
FitsField(n, size) == n \div 256^(size - 1) < 256
LengthField(n, size) == Digits(256, n, size)
FieldValue(field) == Number(256, field)

\* A length field of up to four bytes is read as it was written.
LEMMA LengthRead ==
  ASSUME NEW size \in 1..4, NEW n \in Nat, FitsField(n, size)
  PROVE  /\ FieldValue(LengthField(n, size)) = n
         /\ LengthField(n, size) \in Seq(Nat) /\ Len(LengthField(n, size)) = size
<1>1. \A j \in 0..4 : 256^j \in Nat \ {0}
  <2>1. /\ 256^0 = 1 /\ 256^1 = 256 /\ 256^2 = 65536 /\ 256^3 = 16777216
        /\ 256^4 = 4294967296
    OBVIOUS
  <2>2. \A j \in 0..4 : j = 0 \/ j = 1 \/ j = 2 \/ j = 3 \/ j = 4
    OBVIOUS
  <2>3. 256^0 \in Nat \ {0} /\ 256^1 \in Nat \ {0} /\ 256^2 \in Nat \ {0} /\ 256^3 \in Nat \ {0}
        /\ 256^4 \in Nat \ {0}
    BY <2>1
  <2> QED BY <2>2, <2>3, ZenonT(30)
<1>2. \A j \in 0..3 : 256^(j + 1) = 256 * 256^j
  <2>1. \A j \in 0..3 : j = 0 \/ j = 1 \/ j = 2 \/ j = 3
    OBVIOUS
  <2>2. 256^(0 + 1) = 256 * 256^0
    OBVIOUS
  <2>3. 256^(1 + 1) = 256 * 256^1
    OBVIOUS
  <2>4. 256^(2 + 1) = 256 * 256^2
    OBVIOUS
  <2>5. 256^(3 + 1) = 256 * 256^3
    OBVIOUS
  <2> SUFFICES ASSUME NEW j \in 0..3 PROVE 256^(j + 1) = 256 * 256^j
    OBVIOUS
  <2>6. CASE j = 0 BY <2>2, <2>6, Zenon
  <2>7. CASE j = 1 BY <2>3, <2>7, Zenon
  <2>8. CASE j = 2 BY <2>4, <2>8, Zenon
  <2>9. CASE j = 3 BY <2>5, <2>9, Zenon
  <2> QED BY <2>1, <2>6, <2>7, <2>8, <2>9
<1>3. n \div 256^size = 0
  <2>1. size - 1 \in 0..3 /\ (size - 1) + 1 = size
    OBVIOUS
  <2> DEFINE p == 256^(size - 1)
  <2>2. p \in Nat \ {0} /\ 256^size = 256 * p
    <3>1. 256^((size - 1) + 1) = 256 * p
      BY <1>2, <2>1, Zenon
    <3>2. size - 1 \in 0..4
      OBVIOUS
    <3>3. p \in Nat \ {0}
      BY <1>1, <3>2, Zenon
    <3> QED BY <2>1, <3>1, <3>3, Zenon
  <2>3. n \div p \in Nat /\ (n \div p) \div 256 = n \div (256 * p) /\ n \div p < 256
    <3> HIDE DEF p
    <3>1. n \div p \in Nat BY <2>2
    <3>2. (n \div p) \div 256 = n \div (256 * p)
      <4> DEFINE base == 256
      <4>1. base \in Nat \ {0} OBVIOUS
      <4> HIDE DEF base
      <4>2. (n \div p) \div base = n \div (base * p) BY <2>2, <4>1, DivideTwice
      <4> QED BY <4>2 DEF base
    <3>3. n \div p < 256 BY DEF p, FitsField
    <3> QED BY <3>1, <3>2, <3>3
  <2> HIDE DEF p
  <2>4. \A x \in Nat : x < 256 => x \div 256 = 0
    OBVIOUS
  <2> QED BY <2>2, <2>3, <2>4
<1>4. /\ size \in Nat /\ \A j \in 0..size : 256^j \in Nat \ {0}
      /\ \A j \in 0..(size - 1) : 256^(j + 1) = 256 * 256^j
  <2>1. size \in Nat /\ (\A j \in 0..size : j \in 0..4) /\ \A j \in 0..(size - 1) : j \in 0..3
    OBVIOUS
  <2> QED BY <1>1, <1>2, <2>1, ZenonT(30)
<1>5. 256^0 = 1 /\ 256 \in Nat \ {0} /\ 256 - 1 = 255
  OBVIOUS
<1> DEFINE base == 256
<1>b. /\ base \in Nat \ {0} /\ base^0 = 1 /\ n \div base^size = 0
      /\ \A j \in 0..size : base^j \in Nat \ {0}
      /\ \A j \in 0..(size - 1) : base^(j + 1) = base * base^j
  BY <1>3, <1>4, <1>5, Zenon
<1>6. Number(256, Digits(256, n, size)) = n
  <2> HIDE DEF base
  <2>1. Number(base, Digits(base, n, size)) = n
    BY <1>4, <1>b, DigitsRead
  <2> QED BY <2>1 DEF base
<1>7. Digits(256, n, size) \in Seq(0..(256 - 1)) /\ Len(Digits(256, n, size)) = size
  <2> HIDE DEF base
  <2>1. Digits(base, n, size) \in Seq(0..(base - 1)) /\ Len(Digits(base, n, size)) = size
    <3>1. /\ base \in Nat \ {0} /\ size \in Nat
          /\ \A j \in 0..size : base^j \in Nat \ {0}
      BY <1>4, <1>b
    <3> QED BY <3>1, DigitsType
  <2> QED BY <2>1 DEF base
<1>8. Digits(256, n, size) \in Seq(Nat)
  <2> DEFINE D == 0..(256 - 1)
             d == Digits(256, n, size)
  <2>1. D \subseteq Nat
    OBVIOUS
  <2>2. d \in Seq(D)
    BY <1>7
  <2> HIDE DEF D, d
  <2>3. d \in Seq(Nat)
    BY <2>1, <2>2, SeqWithin
  <2> QED BY <2>3 DEF d
<1> QED BY <1>6, <1>7, <1>8 DEF FieldValue, LengthField

\* A number with a digit other than 0 is not 0.
LEMMA NumberPositive ==
  ASSUME NEW base \in Nat \ {0}, NEW digits \in Seq(Nat), NEW i \in 1..Len(digits), digits[i] # 0
  PROVE  Number(base, digits) \in Nat \ {0}
<1> DEFINE l == Len(digits)
           v == Values(base, digits)
           T == {k \in i..l : v[k] # 0}
<1>1. l \in Nat /\ i \in Nat /\ i <= l /\ \A k \in 1..l : digits[k] \in Nat
  OBVIOUS
<1>2. v \in [0..l -> Nat] /\ \A k \in 1..l : v[k] = base * v[k - 1] + digits[k]
  BY ValuesAre
<1> HIDE DEF v, l
<1>3. \A k \in 1..l : v[k] \in Nat /\ v[k - 1] \in Nat
  <2>1. \A k \in 1..l : k \in 0..l /\ k - 1 \in 0..l
    BY <1>1
  <2> QED BY <1>2, <2>1
<1>4. i \in T
  <2>1. i \in 1..l /\ digits[i] \in Nat \ {0} /\ v[i - 1] \in Nat
    BY <1>1, <1>3 DEF l
  <2>2. base * v[i - 1] \in Nat
    BY <2>1
  <2>3. v[i] # 0
    BY <1>2, <2>1, <2>2
  <2> QED BY <1>1, <2>3
<1>5. ASSUME NEW k \in i..l, k # i, k - 1 \in T PROVE k \in T
  <2>1. k \in 1..l
    BY <1>1, <1>5 DEF l
  <2>2. v[k - 1] \in Nat \ {0} /\ digits[k] \in Nat
    BY <1>1, <1>3, <1>5, <2>1
  <2>3. base * v[k - 1] \in Nat \ {0}
    BY <2>2
  <2> QED BY <1>2, <2>1, <2>2, <2>3, SMTT(30)
<1>6. l \in T
  <2> HIDE DEF T
  <2>1. i..l \subseteq T
    BY <1>1, <1>4, <1>5, Reaches
  <2> QED BY <1>1, <2>1
<1>7. l \in 0..l
  BY <1>1
<1> QED BY <1>2, <1>6, <1>7, NumberIsLast DEF v, l

-----------------------------------------------------------------------------
(* The reference: units as they are written.                                *)

\* No two zeros are followed by a byte below 3.
Plain(s) == \A j \in 1..(Len(s) - 2) : ~(s[j] = 0 /\ s[j + 1] = 0 /\ s[j + 2] < 3)

\* A unit that a start code can delimit.
Sound(u) ==
    /\ u \in Seq(Nat) /\ u # <<>> /\ Plain(u)
    /\ u[1] # 0 /\ u[Len(u)] # 0

\* An emulation prevention byte keeps the bytes plain.
LEMMA EscapeKeeps ==
  ASSUME NEW s \in Seq(Nat), NEW b \in Nat, Plain(s)
  PROVE  /\ Escape(s, b) \in Seq(Nat) /\ Plain(Escape(s, b))
         /\ Len(Escape(s, b)) > 0 /\ Escape(s, b)[Len(Escape(s, b))] = b
<1> DEFINE l == Len(s)
           zeros == l >= 2 /\ s[l] = 0 /\ s[l - 1] = 0 /\ b <= 3
<1>1. l \in Nat
  OBVIOUS
<1>2. CASE zeros
  <2> DEFINE e == s \o <<3, b>>
  <2>1. /\ e \in Seq(Nat) /\ Len(e) = l + 2 /\ e[l + 1] = 3 /\ e[l + 2] = b
        /\ \A j \in 1..l : e[j] = s[j]
    OBVIOUS
  <2>2. Escape(s, b) = e
    BY <1>2 DEF Escape
  <2> HIDE DEF e, l
  <2>3. ASSUME NEW j \in 1..(Len(e) - 2), e[j] = 0, e[j + 1] = 0, e[j + 2] < 3 PROVE FALSE
    <3>1. j \in 1..l
      BY <1>1, <2>1
    <3>2. CASE j + 2 <= l
      <4>1. j \in 1..l /\ j + 1 \in 1..l /\ j + 2 \in 1..l /\ j \in 1..(l - 2)
        BY <1>1, <3>1, <3>2
      <4> QED BY <2>1, <2>3, <4>1 DEF Plain, l
    <3>3. CASE j + 2 = l + 1
      BY <2>1, <2>3, <3>3
    <3>4. CASE j + 2 = l + 2
      <4>1. j + 1 = l + 1 BY <1>1, <3>1, <3>4
      <4> QED BY <2>1, <2>3, <4>1, SMTT(30)
    <3> QED BY <1>1, <3>1, <3>2, <3>3, <3>4
  <2>4. Plain(e)
    BY <2>3 DEF Plain
  <2>5. Len(e) > 0
    BY <1>1, <2>1
  <2> QED BY <2>1, <2>2, <2>4, <2>5
<1>3. CASE ~zeros
  <2> DEFINE e == Append(s, b)
  <2>1. /\ e \in Seq(Nat) /\ Len(e) = l + 1 /\ e[l + 1] = b
        /\ \A j \in 1..l : e[j] = s[j]
    OBVIOUS
  <2>2. Escape(s, b) = e
    BY <1>3 DEF Escape
  <2>z. l >= 2 /\ s[l] = 0 /\ s[l - 1] = 0 => ~(b <= 3)
    BY <1>3
  <2> HIDE DEF e, l
  <2>3. ASSUME NEW j \in 1..(Len(e) - 2), e[j] = 0, e[j + 1] = 0, e[j + 2] < 3 PROVE FALSE
    <3>1. j \in 1..(l - 1)
      BY <1>1, <2>1
    <3>2. CASE j + 2 <= l
      <4>1. j \in 1..l /\ j + 1 \in 1..l /\ j + 2 \in 1..l /\ j \in 1..(l - 2)
        BY <1>1, <3>1, <3>2
      <4> QED BY <2>1, <2>3, <4>1 DEF Plain, l
    <3>3. CASE j + 2 = l + 1
      <4>1. j = l - 1 /\ j + 1 = l /\ l >= 2 /\ l - 1 \in 1..l /\ l \in 1..l
        BY <1>1, <3>1, <3>3
      <4>2. s[l] = 0 /\ s[l - 1] = 0 /\ b < 3
        BY <2>1, <2>3, <3>3, <4>1
      <4> QED BY <2>z, <4>1, <4>2
    <3> QED BY <1>1, <3>1, <3>2, <3>3
  <2>4. Plain(e)
    BY <2>3 DEF Plain
  <2>5. Len(e) > 0
    BY <1>1, <2>1
  <2> QED BY <2>1, <2>2, <2>4, <2>5
<1> QED BY <1>2, <1>3

\* The first bytes with their emulation prevention bytes, whose last is Escaped.
Prefixed(bytes) ==
    CHOOSE f : f = [k \in 0..Len(bytes) |-> IF k = 0 THEN <<>> ELSE Escape(f[k - 1], bytes[k])]

\* Escaped is the last of them.
LEMMA EscapedIsLast == \A bytes : Escaped(bytes) = Prefixed(bytes)[Len(bytes)]
BY DEF Escaped, Prefixed

\* Escaped bytes are plain and end with the last byte.
LEMMA EscapedPlain ==
  ASSUME NEW bytes \in Seq(Nat) \ {<<>>}
  PROVE  /\ Escaped(bytes) \in Seq(Nat) /\ Plain(Escaped(bytes))
         /\ Len(Escaped(bytes)) > 0
         /\ Escaped(bytes)[Len(Escaped(bytes))] = bytes[Len(bytes)]
<1> DEFINE l == Len(bytes)
           S == {s \in Seq(Nat) : Plain(s)}
           F == [p \in (1..l) \X S |-> Escape(p[2], bytes[p[1]])]
           f == Prefixed(bytes)
<1>1. l \in Nat \ {0} /\ \A k \in 1..l : bytes[k] \in Nat
  OBVIOUS
<1>2. ASSUME NEW s \in S, NEW b \in Nat
      PROVE  Escape(s, b) \in S /\ Len(Escape(s, b)) > 0 /\ Escape(s, b)[Len(Escape(s, b))] = b
  BY EscapeKeeps
<1>3. \A k \in 1..l, s \in S : F[<<k, s>>] = Escape(s, bytes[k])
  OBVIOUS
<1>4. F \in [(1..l) \X S -> S]
  <2>1. \A p \in (1..l) \X S : Escape(p[2], bytes[p[1]]) \in S
    <3> HIDE DEF S, l
    <3> QED BY <1>1, <1>2
  <2> HIDE DEF S
  <2> QED BY <2>1
<1>5. <<>> \in S
  BY DEF Plain
<1> HIDE DEF F, S, l
<1>6. PICK g \in [0..l -> S] : g = [n \in 0..l |-> IF n = 0 THEN <<>> ELSE F[<<n, g[n - 1]>>]]
  <2>1. \E g \in [0..l -> S] : Computed(g, <<>>, l, F)
    BY <1>1, <1>4, <1>5, Recursion
  <2> QED BY <2>1 DEF Computed
<1>7. g = [n \in 0..l |-> IF n = 0 THEN <<>> ELSE Escape(g[n - 1], bytes[n])]
  <2>1. ASSUME NEW n \in 0..l, n # 0 PROVE F[<<n, g[n - 1]>>] = Escape(g[n - 1], bytes[n])
    <3>1. n \in 1..l /\ n - 1 \in 0..l BY <1>1, <2>1
    <3>2. g[n - 1] \in S BY <3>1
    <3> QED BY <1>3, <3>1, <3>2
  <2> QED BY <1>6, <2>1
<1>8. f = [k \in 0..l |-> IF k = 0 THEN <<>> ELSE Escape(f[k - 1], bytes[k])]
  BY <1>7, Zenon DEF Prefixed, l
<1> HIDE DEF f
<1>9. f[0] = <<>>
  <2>1. 0 \in 0..l BY <1>1
  <2> QED BY <1>8, <2>1
<1>10. ASSUME NEW k \in 1..l PROVE f[k] = Escape(f[k - 1], bytes[k])
  <2>1. k \in 0..l /\ k # 0 BY <1>1
  <2> QED BY <1>8, <2>1
<1>11. \A k \in 0..l : f[k] \in S
  <2> DEFINE T == {k \in 0..l : f[k] \in S}
  <2>1. 0 \in T BY <1>1, <1>5, <1>9
  <2>2. ASSUME NEW k \in 0..l, k # 0, k - 1 \in T PROVE k \in T
    <3>1. k \in 1..l BY <1>1, <2>2
    <3>2. f[k] = Escape(f[k - 1], bytes[k]) BY <1>10, <3>1
    <3>3. f[k - 1] \in S /\ bytes[k] \in Nat BY <1>1, <2>2, <3>1
    <3> QED BY <1>2, <3>2, <3>3
  <2> HIDE DEF T
  <2>3. 0..l \subseteq T BY <1>1, <2>1, <2>2, Reaches
  <2> QED BY <2>3 DEF T
<1>12. f[l] = Escape(f[l - 1], bytes[l]) /\ f[l - 1] \in S /\ bytes[l] \in Nat
  <2>1. l \in 1..l /\ l - 1 \in 0..l BY <1>1
  <2> QED BY <1>1, <1>10, <1>11, <2>1
<1>13. f[l] \in S /\ Len(f[l]) > 0 /\ f[l][Len(f[l])] = bytes[l]
  BY <1>2, <1>12
<1> QED BY <1>13, EscapedIsLast DEF f, S, l

Bits == {0, 1}

\* A number written in bits.
LEMMA BitsOfNumber ==
  ASSUME NEW n \in Nat, NEW w \in Nat
  PROVE  U(n, w) \in Seq(Bits) /\ Len(U(n, w)) = w
<1>1. \A j \in 0..w : 2^j \in Nat \ {0}
  BY PowersPositive
<1> DEFINE base == 2
<1>b. base \in Nat \ {0} /\ \A j \in 0..w : base^j \in Nat \ {0}
  BY <1>1
<1>2. Digits(2, n, w) \in Seq(0..(2 - 1)) /\ Len(Digits(2, n, w)) = w
  <2> HIDE DEF base
  <2>1. Digits(base, n, w) \in Seq(0..(base - 1)) /\ Len(Digits(base, n, w)) = w
    BY <1>b, DigitsType
  <2> QED BY <2>1 DEF base
<1>3. 0..(2 - 1) = Bits
  BY DEF Bits
<1> QED BY <1>2, <1>3 DEF U

\* The length of the prefix of an Exp-Golomb code.
LEMMA PrefixLength ==
  ASSUME NEW v \in 0..(2^30 - 2)
  PROVE  \E k \in 0..29 : 2^k <= v + 1 /\ v + 1 < 2^(k + 1)
<1> DEFINE S == {k \in 0..29 : v + 1 < 2^(k + 1)}
<1>1. 29 \in S
  <2>1. 2^(29 + 1) = 1073741824 /\ 2^30 = 1073741824
    OBVIOUS
  <2>2. v + 1 < 1073741824
    BY <2>1
  <2> QED BY <2>1, <2>2
<1>2. S \subseteq Nat
  OBVIOUS
<1>3. PICK k \in S : \A j \in S : k <= j
  <2> HIDE DEF S
  <2> QED BY <1>1, <1>2, LeastNumber
<1>4. CASE k = 0
  <2>1. 2^0 = 1
    OBVIOUS
  <2>2. v \in Nat
    <3>1. 2^30 - 2 = 1073741822 OBVIOUS
    <3> QED BY <3>1
  <2> QED BY <1>3, <1>4, <2>1, <2>2
<1>5. CASE k # 0
  <2>1. k - 1 \in 0..29 /\ ~(k <= k - 1) /\ (k - 1) + 1 = k /\ k \in Nat
    BY <1>3, <1>5
  <2>2. ~(v + 1 < 2^k)
    <3>1. k - 1 \notin S BY <1>3, <2>1
    <3> QED BY <2>1, <3>1
  <2>3. 2^k \in Nat
    BY <2>1, PowersPositive
  <2>4. v \in Nat
    <3>1. 2^30 - 2 = 1073741822 OBVIOUS
    <3> QED BY <3>1
  <2>5. 2^k <= v + 1
    <3> DEFINE p == 2^k
    <3>1. p \in Nat /\ ~(v + 1 < p) BY <2>2, <2>3
    <3> HIDE DEF p
    <3>2. p <= v + 1 BY <2>4, <3>1
    <3> QED BY <3>2 DEF p
  <2> QED BY <1>3, <2>5
<1> QED BY <1>4, <1>5

\* An Exp-Golomb code is a sequence of bits.
LEMMA BitsOfCode ==
  ASSUME NEW v \in 0..(2^30 - 2)
  PROVE  UE(v) \in Seq(Bits)
<1> DEFINE k == CHOOSE k \in 0..29 : 2^k <= v + 1 /\ v + 1 < 2^(k + 1)
<1>1. k \in 0..29
  BY PrefixLength
<1>2. UE(v) = U(0, k) \o U(v + 1, k + 1)
  BY DEF UE
<1> HIDE DEF k
<1>3. v + 1 \in Nat /\ k \in Nat /\ k + 1 \in Nat /\ 0 \in Nat
  <2>1. 2^30 - 2 = 1073741822 OBVIOUS
  <2> QED BY <1>1, <2>1
<1>4. U(0, k) \in Seq(Bits) /\ U(v + 1, k + 1) \in Seq(Bits)
  BY <1>3, BitsOfNumber
<1> QED BY <1>2, <1>4

\* The stop bit is in the last byte, which is therefore not 0.
LEMMA RbspEnds ==
  ASSUME NEW bits \in Seq(Bits)
  PROVE  Rbsp(bits) \in Seq(Nat) \ {<<>>} /\ Rbsp(bits)[Len(Rbsp(bits))] # 0
<1> DEFINE stopped == Append(bits, 1)
           l == Len(stopped)
           n == (l + 7) \div 8
           padded == stopped \o U(0, 8 * n - l)
           Bytes(i) == SubSeq(padded, 8 * i - 7, 8 * i)
<1>1. /\ l \in Nat \ {0} /\ stopped \in Seq(Bits) /\ stopped[l] = 1
  <2>1. 1 \in Bits
    BY DEF Bits
  <2> QED BY <2>1
<1>2. n \in Nat \ {0} /\ 8 * n - l \in 0..7
  <2> HIDE DEF l
  <2> QED BY <1>1
<1> HIDE DEF n
<1>3. padded \in Seq(Bits) /\ Len(padded) = 8 * n /\ padded[l] = 1
  <2> DEFINE z == U(0, 8 * n - l)
  <2>1. 8 * n - l \in Nat /\ 0 \in Nat
    BY <1>2
  <2>2. z \in Seq(Bits) /\ Len(z) = 8 * n - l
    BY <2>1, BitsOfNumber
  <2> HIDE DEF z, stopped
  <2>3. /\ stopped \o z \in Seq(Bits) /\ Len(stopped \o z) = l + Len(z)
        /\ \A j \in 1..l : (stopped \o z)[j] = stopped[j]
    BY <1>1, <2>2
  <2>4. l \in 1..l /\ l + (8 * n - l) = 8 * n
    BY <1>1, <1>2
  <2> QED BY <1>1, <2>2, <2>3, <2>4 DEF z
<1> HIDE DEF padded, stopped, l
<1>4. ASSUME NEW i \in 1..n
      PROVE  /\ Bytes(i) \in Seq(Bits) /\ Len(Bytes(i)) = 8
             /\ \A j \in 1..8 : Bytes(i)[j] = padded[8 * i - 8 + j]
  <2>1. 8 * i - 7 \in 1..Len(padded) /\ 8 * i \in 1..Len(padded)
    BY <1>2, <1>3
  <2> DEFINE a == 8 * i - 7
             b == 8 * i
  <2>2. a \in 1..Len(padded) /\ b \in 1..Len(padded) /\ b = a + 7 /\ a \in Nat
    BY <2>1
  <2>3. \A j \in 1..8 : a + j - 1 = 8 * i - 8 + j
    OBVIOUS
  <2> HIDE DEF a, b
  <2>4. /\ SubSeq(padded, a, b) \in Seq(Bits) /\ Len(SubSeq(padded, a, b)) = 8
        /\ \A j \in 1..8 : SubSeq(padded, a, b)[j] = padded[a + j - 1]
    BY <1>3, <2>2
  <2> QED BY <2>3, <2>4 DEF a, b
<1>5. ASSUME NEW i \in 1..n PROVE Number(2, Bytes(i)) \in Nat
  <2> DEFINE d == Bytes(i)
  <2>1. d \in Seq(Nat)
    <3>1. d \in Seq(Bits) BY <1>4
    <3> HIDE DEF d
    <3> QED BY <3>1 DEF Bits
  <2> HIDE DEF d
  <2>2. Values(2, d) \in [0..Len(d) -> Nat]
    BY <2>1, ValuesAre
  <2>3. Len(d) \in 0..Len(d)
    BY <2>1
  <2> QED BY <2>2, <2>3, NumberIsLast DEF d
<1>6. Number(2, Bytes(n)) # 0
  <2> DEFINE d == Bytes(n)
             j == l - (8 * n - 8)
  <2>1. d \in Seq(Bits) /\ Len(d) = 8 /\ \A x \in 1..8 : d[x] = padded[8 * n - 8 + x]
    <3>1. n \in 1..n BY <1>2
    <3> HIDE DEF Bytes
    <3> QED BY <1>4, <3>1
  <2>2. j \in 1..8 /\ 8 * n - 8 + j = l
    BY <1>1, <1>2
  <2> HIDE DEF d, j
  <2>3. d \in Seq(Nat) /\ j \in 1..Len(d) /\ d[j] # 0
    BY <1>3, <2>1, <2>2 DEF Bits
  <2>4. Number(2, d) # 0
    BY <2>3, NumberPositive
  <2> QED BY <2>4 DEF d
<1>7. Rbsp(bits) = [i \in 1..n |-> Number(2, Bytes(i))]
  BY DEF Rbsp, n, padded, l, stopped
<1> DEFINE r == [i \in 1..n |-> Number(2, Bytes(i))]
<1>8. r \in Seq(Nat) /\ Len(r) = n /\ r[n] = Number(2, Bytes(n)) /\ n \in 1..n
  <2> HIDE DEF Bytes
  <2> QED BY <1>2, <1>5
<1> HIDE DEF r, Bytes
<1>9. r # <<>>
  BY <1>2, <1>8
<1> QED BY <1>6, <1>7, <1>8, <1>9 DEF r

\* A header and escaped bytes make a sound unit.
LEMMA SoundUnit ==
  ASSUME NEW h \in Nat \ {0}, NEW bytes \in Seq(Nat) \ {<<>>}, bytes[Len(bytes)] # 0
  PROVE  Sound(<<h>> \o Escaped(bytes))
<1> DEFINE e == Escaped(bytes)
           u == <<h>> \o e
           l == Len(e)
<1>1. e \in Seq(Nat) /\ Plain(e) /\ l > 0 /\ e[l] # 0
  BY EscapedPlain
<1> HIDE DEF e
<1>2. /\ u \in Seq(Nat) /\ Len(u) = l + 1 /\ u[1] = h /\ l \in Nat
      /\ \A j \in 1..l : u[j + 1] = e[j]
  <2>1. <<h>> \in Seq(Nat) /\ Len(<<h>>) = 1 /\ <<h>>[1] = h
    OBVIOUS
  <2>2. l \in Nat
    BY <1>1
  <2> DEFINE g == <<h>>
  <2>3. g \in Seq(Nat) /\ Len(g) = 1 /\ g[1] = h
    BY <2>1
  <2> HIDE DEF g
  <2>4. /\ g \o e \in Seq(Nat) /\ Len(g \o e) = l + 1 /\ (g \o e)[1] = h
        /\ \A j \in 1..l : (g \o e)[1 + j] = e[j]
    <3>1. 1 \in 1..Len(g) /\ Len(g) + l = l + 1
      BY <2>2, <2>3
    <3>2. /\ g \o e \in Seq(Nat) /\ Len(g \o e) = Len(g) + Len(e)
          /\ \A i \in 1..Len(g) : (g \o e)[i] = g[i]
          /\ \A j \in 1..Len(e) : (g \o e)[Len(g) + j] = e[j]
      <4>1. g \in Seq(Nat) /\ e \in Seq(Nat)
        BY <1>1, <2>3
      <4> QED BY <4>1, Concat
    <3> QED BY <2>2, <2>3, <3>1, <3>2
  <2>5. \A j \in 1..l : 1 + j = j + 1
    OBVIOUS
  <2> QED BY <2>2, <2>4, <2>5 DEF g
<1> HIDE DEF u, l
<1>3. u[Len(u)] # 0 /\ u # <<>>
  <2>1. l \in 1..l BY <1>1, <1>2
  <2> QED BY <1>1, <1>2, <2>1
<1>4. ASSUME NEW j \in 1..(Len(u) - 2), u[j] = 0, u[j + 1] = 0, u[j + 2] < 3 PROVE FALSE
  <2>1. j # 1
    BY <1>2, <1>4
  <2>2. j - 1 \in 1..(l - 2) /\ j - 1 \in 1..l /\ j \in 1..l /\ j + 1 \in 1..l
        /\ (j - 1) + 1 = j /\ (j + 1) + 1 = j + 2 /\ (j - 1) + 2 = j + 1
    BY <1>2, <2>1
  <2>3. u[j] = e[j - 1] /\ u[j + 1] = e[j] /\ u[j + 2] = e[j + 1]
    BY <1>2, <2>2
  <2> QED BY <1>1, <1>4, <2>2, <2>3 DEF Plain, l
<1>5. Plain(u)
  BY <1>4 DEF Plain
<1> QED BY <1>2, <1>3, <1>5 DEF Sound, u, e

\* So is every unit that an encoder may write.
LEMMA UnitsSound ==
  ASSUME NEW s \in Slices \cup Messages, NEW frameBits \in Nat
  PROVE  Sound(UnitOf(s, frameBits))
<1>1. CASE s \in Messages
  <2> DEFINE Many(n) == [i \in 1..(n \div 255) |-> 255]
             bytes == FF(s.payload) \o FF(s.length) \o <<s.data, 128>>
  <2>1. s.payload \in Nat /\ s.length \in Nat /\ s.data \in Nat /\ s.type = NAL_SEI
    BY <1>1 DEF Messages
  <2>2. ASSUME NEW n \in Nat PROVE FF(n) \in Seq(Nat)
    <3>1. n \div 255 \in Nat /\ n % 255 \in Nat OBVIOUS
    <3>2. Many(n) \in Seq(Nat) BY <3>1
    <3>3. <<n % 255>> \in Seq(Nat) BY <3>1
    <3> HIDE DEF Many
    <3>4. Many(n) \o <<n % 255>> \in Seq(Nat) BY <3>2, <3>3
    <3> QED BY <3>4 DEF FF, Many
  <2>3. FF(s.payload) \in Seq(Nat) /\ FF(s.length) \in Seq(Nat)
    BY <2>1, <2>2
  <2>4. bytes \in Seq(Nat) /\ bytes # <<>> /\ bytes[Len(bytes)] = 128
    <3> DEFINE a == FF(s.payload) \o FF(s.length)
               z == <<s.data, 128>>
    <3>1. a \in Seq(Nat) /\ Len(a) \in Nat BY <2>3
    <3>2. z \in Seq(Nat) /\ Len(z) = 2 /\ z[2] = 128 BY <2>1
    <3> HIDE DEF a, z
    <3>3. a \o z \in Seq(Nat) /\ Len(a \o z) = Len(a) + 2 /\ (a \o z)[Len(a) + 2] = 128
      <4>1. 2 \in 1..Len(z) BY <3>2
      <4>2. /\ a \o z \in Seq(Nat) /\ Len(a \o z) = Len(a) + Len(z)
            /\ \A j \in 1..Len(z) : (a \o z)[Len(a) + j] = z[j]
        <5>1. a \in Seq(Nat) /\ z \in Seq(Nat)
          BY <3>1, <3>2
        <5> QED BY <5>1, Concat
      <4> QED BY <3>2, <4>1, <4>2
    <3>4. a \o z # <<>> BY <3>1, <3>3
    <3> QED BY <3>3, <3>4 DEF a, z
  <2> HIDE DEF bytes
  <2>5. Sound(<<NAL_SEI>> \o Escaped(bytes))
    <3>1. NAL_SEI \in Nat \ {0} BY DEF NAL_SEI
    <3>2. bytes[Len(bytes)] # 0 BY <2>4
    <3> QED BY <2>4, <3>1, <3>2, SoundUnit
  <2> QED BY <2>1, <2>5 DEF UnitOf, SeiUnit, bytes
<1>2. CASE s \in Slices
  <2> DEFINE bits == UE(s.first) \o UE(7) \o UE(s.pps) \o U(s.frame, frameBits) \o s.data
  <2>1. /\ s.type \in {NAL_Slice, NAL_PartitionA, NAL_IDR_Slice} /\ s.frame \in Nat
        /\ s.first \in 0..(2^30 - 2) /\ s.pps \in 0..(2^30 - 2) /\ s.data \in Seq(Bits)
    BY <1>2 DEF Slices, Bits
  <2>2. UE(s.first) \in Seq(Bits) /\ UE(s.pps) \in Seq(Bits) /\ UE(7) \in Seq(Bits)
    <3>1. 7 \in 0..(2^30 - 2)
      <4>1. 2^30 - 2 = 1073741822 OBVIOUS
      <4> QED BY <4>1
    <3> QED BY <2>1, <3>1, BitsOfCode
  <2>3. U(s.frame, frameBits) \in Seq(Bits)
    BY <2>1, BitsOfNumber
  <2>4. bits \in Seq(Bits)
    BY <2>1, <2>2, <2>3
  <2> HIDE DEF bits
  <2>5. s.type \in Nat \ {0} /\ s.type # NAL_SEI
    BY <2>1 DEF NAL_Slice, NAL_PartitionA, NAL_IDR_Slice, NAL_SEI
  <2>6. 32 * 2 + s.type \in Nat \ {0}
    BY <2>5
  <2>7. Sound(<<32 * 2 + s.type>> \o Escaped(Rbsp(bits)))
    BY <2>4, <2>6, RbspEnds, SoundUnit
  <2> QED BY <2>5, <2>7 DEF UnitOf, SliceUnit, Unit, bits
<1> QED BY <1>1, <1>2

-----------------------------------------------------------------------------
(* The stream: the delimited units, one behind the other.                   *)

\* The first sequences of q joined together, by their number.
Joined(q) == CHOOSE g : g = [i \in 1..Len(q) |-> IF i = 1 THEN q[i] ELSE g[i - 1] \o q[i]]

\* Sequence n of q is in r behind place c[n - 1] and ends at place c[n].
Placed(c, q, r) ==
    /\ c \in [0..Len(q) -> Nat] /\ c[0] = 0 /\ c[Len(q)] = Len(r)
    /\ \A n \in 1..Len(q) :
          /\ c[n] = c[n - 1] + Len(q[n]) /\ c[n] <= Len(r)
          /\ \A i \in 1..Len(q[n]) : r[c[n - 1] + i] = q[n][i]

\* They can be joined.
LEMMA JoinedExists ==
  ASSUME NEW q \in Seq(Seq(Nat)), Len(q) # 0
  PROVE  /\ Joined(q) \in [1..Len(q) -> Seq(Nat)] /\ Joined(q)[1] = q[1]
         /\ \A i \in 2..Len(q) : Joined(q)[i] = Joined(q)[i - 1] \o q[i]
<1> DEFINE l == Len(q)
           S == Seq(Nat)
           F == [p \in (1..l) \X S |-> p[2] \o q[p[1]]]
           J == Joined(q)
<1>1. l \in Nat \ {0} /\ \A i \in 1..l : q[i] \in S
  OBVIOUS
<1>2. \A s \in S, t \in S : s \o t \in S
  OBVIOUS
<1>3. \A i \in 1..l, s \in S : F[<<i, s>>] = s \o q[i]
  OBVIOUS
<1>4. F \in [(1..l) \X S -> S]
  <2> HIDE DEF S, l
  <2>1. \A p \in (1..l) \X S : p[2] \o q[p[1]] \in S
    BY <1>1, <1>2
  <2> QED BY <2>1
<1>5. <<>> \in S /\ \A s \in S : <<>> \o s = s
  OBVIOUS
<1> HIDE DEF F, S, l
<1>6. PICK h \in [0..l -> S] : h = [n \in 0..l |-> IF n = 0 THEN <<>> ELSE F[<<n, h[n - 1]>>]]
  <2>1. \E h \in [0..l -> S] : Computed(h, <<>>, l, F)
    BY <1>1, <1>4, <1>5, Recursion
  <2> QED BY <2>1 DEF Computed
<1> DEFINE g == [i \in 1..l |-> h[i]]
<1>7. ASSUME NEW i \in 1..l PROVE h[i] = IF i = 1 THEN q[i] ELSE h[i - 1] \o q[i]
  <2>1. i \in 0..l /\ i # 0 /\ i - 1 \in 0..l BY <1>1
  <2>2. h[i] = F[<<i, h[i - 1]>>] BY <1>6, <2>1
  <2>3. h[i] = h[i - 1] \o q[i] BY <1>3, <2>1, <2>2
  <2>4. 0 \in 0..l BY <1>1
  <2>5. h[0] = <<>> BY <1>6, <2>4
  <2>6. CASE i = 1
    <3>1. h[1] = <<>> \o q[1]
      <4>1. 1 - 1 = 0 OBVIOUS
      <4>2. h[1] = h[1 - 1] \o q[1] BY <2>3, <2>6
      <4> QED BY <2>5, <4>1, <4>2
    <3>2. q[1] \in S BY <1>1, <2>6
    <3>3. h[1] = q[1] BY <1>5, <3>1, <3>2
    <3> QED BY <2>6, <3>3
  <2> QED BY <2>3, <2>6
<1>8. g = [i \in 1..l |-> IF i = 1 THEN q[i] ELSE g[i - 1] \o q[i]]
  <2>1. ASSUME NEW i \in 1..l PROVE g[i] = IF i = 1 THEN q[i] ELSE g[i - 1] \o q[i]
    <3>1. i # 1 => i - 1 \in 1..l BY <1>1
    <3> QED BY <1>7, <3>1
  <2> QED BY <2>1
<1> HIDE DEF g
<1>9. J = [i \in 1..l |-> IF i = 1 THEN q[i] ELSE J[i - 1] \o q[i]]
  BY <1>8, Zenon DEF Joined, l
<1> HIDE DEF J
<1>10. 1 \in 1..l /\ J[1] = q[1]
  <2>1. 1 \in 1..l BY <1>1
  <2> QED BY <1>9, <2>1
<1>11. ASSUME NEW i \in 2..l PROVE J[i] = J[i - 1] \o q[i]
  <2>1. i \in 1..l /\ i # 1 BY <1>1
  <2> QED BY <1>9, <2>1
<1>12. \A i \in 1..l : J[i] \in S
  <2> DEFINE T == {i \in 1..l : J[i] \in S}
  <2>1. 1 \in T BY <1>1, <1>10
  <2>2. ASSUME NEW i \in 1..l, i # 1, i - 1 \in T PROVE i \in T
    <3>1. i \in 2..l BY <1>1, <2>2
    <3>2. J[i] = J[i - 1] \o q[i] BY <1>11, <3>1
    <3>3. J[i - 1] \in S /\ q[i] \in S BY <1>1, <2>2
    <3> QED BY <1>2, <3>2, <3>3
  <2> HIDE DEF T
  <2>3. 1 \in Nat OBVIOUS
  <2>4. 1..l \subseteq T BY <1>1, <2>1, <2>2, <2>3, Reaches
  <2> QED BY <2>4 DEF T
<1>13. J \in [1..l -> S]
  BY <1>9, <1>12
<1> QED BY <1>10, <1>11, <1>13 DEF J, l, S

\* FlattenSeq puts the sequences one behind the other.
LEMMA Flattened ==
  ASSUME NEW q \in Seq(Seq(Nat))
  PROVE  FlattenSeq(q) \in Seq(Nat) /\ \E c : Placed(c, q, FlattenSeq(q))
<1>1. CASE Len(q) = 0
  <2>1. FlattenSeq(q) = q /\ q = <<>>
    BY <1>1 DEF FlattenSeq
  <2> DEFINE c == [n \in 0..0 |-> 0]
  <2>2. Placed(c, q, q)
    BY <1>1, <2>1 DEF Placed
  <2> QED BY <2>1, <2>2
<1>2. CASE Len(q) # 0
  <2> DEFINE l == Len(q)
             J == Joined(q)
             r == J[l]
             c == [n \in 0..l |-> IF n = 0 THEN 0 ELSE Len(J[n])]
  <2>1. /\ J \in [1..l -> Seq(Nat)] /\ J[1] = q[1]
        /\ \A i \in 2..l : J[i] = J[i - 1] \o q[i]
    BY <1>2, JoinedExists
  <2>2. l \in Nat \ {0} /\ \A i \in 1..l : q[i] \in Seq(Nat)
    BY <1>2
  <2>3. FlattenSeq(q) = r
    BY <1>2 DEF FlattenSeq, Joined
  <2> HIDE DEF J, l
  <2>4. \A n \in 1..l : J[n] \in Seq(Nat) /\ Len(J[n]) \in Nat
    <3>1. \A n \in 1..l : J[n] \in Seq(Nat) BY <2>1
    <3> QED BY <3>1
  <2>5. /\ c \in [0..l -> Nat] /\ c[0] = 0
        /\ \A n \in 1..l : c[n] = Len(J[n])
    <3>1. \A n \in 1..l : n \in 0..l /\ n # 0 BY <2>2
    <3>2. 0 \in 0..l BY <2>2
    <3>3. \A n \in 0..l : n # 0 => n \in 1..l BY <2>2
    <3> QED BY <2>4, <3>1, <3>2, <3>3
  <2> HIDE DEF c
  <2>6. ASSUME NEW m \in 2..l
        PROVE  /\ m - 1 \in 1..l /\ m \in 1..l
               /\ Len(J[m]) = Len(J[m - 1]) + Len(q[m])
               /\ \A x \in 1..Len(J[m - 1]) : J[m][x] = J[m - 1][x]
               /\ \A x \in 1..Len(q[m]) : J[m][Len(J[m - 1]) + x] = q[m][x]
    <3>1. m - 1 \in 1..l /\ m \in 1..l BY <2>2
    <3> DEFINE s == J[m - 1]
               t == q[m]
    <3>2. s \in Seq(Nat) /\ t \in Seq(Nat) /\ J[m] = s \o t BY <2>1, <2>2, <2>4, <3>1
    <3> HIDE DEF s, t
    <3>3. /\ Len(s \o t) = Len(s) + Len(t)
          /\ \A x \in 1..Len(s) : (s \o t)[x] = s[x]
          /\ \A x \in 1..Len(t) : (s \o t)[Len(s) + x] = t[x]
      BY <3>2
    <3> QED BY <3>1, <3>2, <3>3 DEF s, t
  <2>7. ASSUME NEW n \in 1..l
        PROVE  /\ c[n] = c[n - 1] + Len(q[n])
               /\ \A i \in 1..Len(q[n]) : J[n][c[n - 1] + i] = q[n][i]
    <3>1. CASE n = 1
      <4>1. c[1] = Len(q[1]) /\ c[1 - 1] = 0 BY <2>1, <2>5, <3>1
      <4>2. Len(q[1]) \in Nat /\ \A i \in 1..Len(q[1]) : 0 + i = i BY <2>2, <3>1
      <4> QED BY <2>1, <3>1, <4>1, <4>2
    <3>2. CASE n # 1
      <4>1. n \in 2..l BY <2>2, <3>2
      <4>2. c[n] = Len(J[n]) /\ c[n - 1] = Len(J[n - 1]) BY <2>5, <2>6, <4>1
      <4> QED BY <2>6, <4>1, <4>2
    <3> QED BY <3>1, <3>2
  <2>8. ASSUME NEW n \in 1..l
        PROVE  Len(J[n]) <= Len(r) /\ \A x \in 1..Len(J[n]) : r[x] = J[n][x]
    <3> DEFINE T == {m \in n..l : /\ Len(J[n]) <= Len(J[m])
                                  /\ \A x \in 1..Len(J[n]) : J[m][x] = J[n][x]}
    <3>1. n \in T
      <4>1. n \in n..l /\ Len(J[n]) <= Len(J[n]) BY <2>2, <2>4
      <4> QED BY <4>1
    <3>2. ASSUME NEW m \in n..l, m # n, m - 1 \in T PROVE m \in T
      <4>1. m \in 2..l BY <2>2, <3>2
      <4>2. /\ Len(J[m]) = Len(J[m - 1]) + Len(q[m])
            /\ \A x \in 1..Len(J[m - 1]) : J[m][x] = J[m - 1][x]
        BY <2>6, <4>1
      <4>3. Len(J[n]) \in Nat /\ Len(J[m]) \in Nat /\ Len(J[m - 1]) \in Nat /\ Len(q[m]) \in Nat
        <5>1. q[m] \in Seq(Nat) BY <2>2, <2>6, <4>1
        <5> QED BY <2>4, <2>6, <4>1, <5>1
      <4>4. Len(J[n]) <= Len(J[m - 1]) /\ \A x \in 1..Len(J[n]) : J[m - 1][x] = J[n][x]
        BY <3>2
      <4>5. Len(J[n]) <= Len(J[m]) /\ \A x \in 1..Len(J[n]) : x \in 1..Len(J[m - 1])
        <5> DEFINE a == Len(J[n])
                   b == Len(J[m - 1])
                   d == Len(q[m])
                   e == Len(J[m])
        <5>1. a \in Nat /\ b \in Nat /\ d \in Nat /\ e = b + d /\ a <= b BY <4>2, <4>3, <4>4
        <5>2. a <= e /\ \A x \in 1..a : x \in 1..b
          <6> HIDE DEF a, b, d, e
          <6> QED BY <5>1
        <5> QED BY <5>2
      <4>6. \A x \in 1..Len(J[n]) : J[m][x] = J[n][x] BY <4>2, <4>4, <4>5
      <4> QED BY <4>5, <4>6
    <3>3. l \in T
      <4> HIDE DEF T
      <4>1. n \in Nat /\ l \in Nat /\ l \in n..l BY <2>2
      <4>2. n..l \subseteq T BY <3>1, <3>2, <4>1, Reaches
      <4> QED BY <4>1, <4>2
    <3> QED BY <3>3
  <2>9. ASSUME NEW n \in 1..l
        PROVE  c[n] <= Len(r) /\ \A i \in 1..Len(q[n]) : r[c[n - 1] + i] = q[n][i]
    <3>1. n - 1 \in 0..l /\ n \in 0..l BY <2>2
    <3>2. c[n - 1] \in Nat /\ c[n] = Len(J[n]) /\ c[n] = c[n - 1] + Len(q[n]) BY <2>5, <2>7, <3>1
    <3>3. Len(q[n]) \in Nat BY <2>2
    <3>4. \A i \in 1..Len(q[n]) : c[n - 1] + i \in 1..Len(J[n]) BY <3>2, <3>3
    <3>5. Len(J[n]) <= Len(r) /\ \A x \in 1..Len(J[n]) : r[x] = J[n][x] BY <2>8
    <3> QED BY <2>7, <3>2, <3>4, <3>5
  <2>10. l \in 1..l /\ r \in Seq(Nat) /\ c[l] = Len(r)
    <3>1. l \in 1..l BY <2>2
    <3> QED BY <2>4, <2>5, <3>1
  <2>11. Placed(c, q, r)
    <3> HIDE DEF r
    <3> QED BY <2>5, <2>7, <2>9, <2>10 DEF Placed, l
  <2> QED BY <2>3, <2>10, <2>11
<1> QED BY <1>1, <1>2

\* Places do not go back.
LEMMA PlacesGrow ==
  ASSUME NEW q \in Seq(Seq(Nat)), NEW r, NEW c, Placed(c, q, r),
         NEW a \in 0..Len(q), NEW b \in a..Len(q)
  PROVE  c[a] <= c[b]
<1> DEFINE l == Len(q)
           T == {n \in a..b : c[a] <= c[n]}
<1>1. /\ l \in Nat /\ a \in Nat /\ b \in Nat /\ a <= b /\ b <= l
      /\ \A n \in 1..l : Len(q[n]) \in Nat
  <2>1. \A n \in 1..l : q[n] \in Seq(Nat)
    OBVIOUS
  <2> QED BY <2>1
<1>2. c \in [0..l -> Nat] /\ \A n \in 1..l : c[n] = c[n - 1] + Len(q[n])
  BY DEF Placed
<1> HIDE DEF l
<1>3. a \in T
  <2>1. a \in 0..l /\ a \in a..b BY <1>1
  <2> QED BY <1>2, <2>1
<1>4. ASSUME NEW n \in a..b, n # a, n - 1 \in T PROVE n \in T
  <2>1. n \in 1..l /\ n - 1 \in 0..l /\ a \in 0..l BY <1>1, <1>4
  <2>2. c[n] = c[n - 1] + Len(q[n]) /\ c[a] \in Nat /\ c[n - 1] \in Nat /\ Len(q[n]) \in Nat
    BY <1>1, <1>2, <2>1
  <2>3. c[a] <= c[n - 1] BY <1>4
  <2> QED BY <2>2, <2>3
<1>5. b \in T
  <2> HIDE DEF T
  <2>1. a..b \subseteq T BY <1>1, <1>3, <1>4, Reaches
  <2> QED BY <1>1, <2>1
<1> QED BY <1>5

\* Every place belongs to one of the sequences.
LEMMA PlaceOwned ==
  ASSUME NEW q \in Seq(Seq(Nat)), NEW r \in Seq(Nat), NEW c, Placed(c, q, r), NEW x \in 1..Len(r)
  PROVE  \E n \in 1..Len(q) : c[n - 1] < x /\ x <= c[n]
<1> DEFINE l == Len(q)
           S == {n \in 0..l : x <= c[n]}
<1>1. l \in Nat /\ x \in Nat \ {0} /\ x <= Len(r)
  OBVIOUS
<1>2. c \in [0..l -> Nat] /\ c[0] = 0 /\ c[l] = Len(r)
  BY DEF Placed
<1> HIDE DEF l
<1>3. l \in S /\ S \subseteq Nat
  BY <1>1, <1>2
<1>4. PICK n \in S : \A m \in S : n <= m
  <2> HIDE DEF S
  <2> QED BY <1>3, LeastNumber
<1>5. n \in 1..l
  <2>1. n # 0 BY <1>1, <1>2, <1>4
  <2> QED BY <1>1, <1>4, <2>1
<1>6. n - 1 \in 0..l /\ ~(n <= n - 1)
  BY <1>1, <1>5
<1>7. ~(x <= c[n - 1])
  BY <1>4, <1>6
<1>8. c[n - 1] \in Nat
  BY <1>2, <1>6
<1>9. c[n - 1] < x
  BY <1>1, <1>7, <1>8
<1> QED BY <1>4, <1>5, <1>9 DEF l

\* The delimited units, and the zeros of the i-th start code.
Blocks(us, size) == [i \in DOMAIN us |-> Delimited(us[i], size, i)]
Gap(i) == 2 + (i % 2)

AllSound(us) == us \in Seq(Seq(Nat)) /\ \A i \in 1..Len(us) : Sound(us[i])

\* A unit behind its start code.
LEMMA BlockOfCode ==
  ASSUME NEW u \in Seq(Nat), NEW i \in Nat
  PROVE  /\ Delimited(u, 0, i) \in Seq(Nat) /\ Len(Delimited(u, 0, i)) = Gap(i) + 1 + Len(u)
         /\ \A j \in 1..Gap(i) : Delimited(u, 0, i)[j] = 0
         /\ Delimited(u, 0, i)[Gap(i) + 1] = 1
         /\ \A j \in 1..Len(u) : Delimited(u, 0, i)[Gap(i) + 1 + j] = u[j]
<1> DEFINE g == Gap(i)
           z == U(0, g)
           d == (z \o <<1>>) \o u
<1>1. g \in Nat /\ Delimited(u, 0, i) = d
  BY DEF Delimited, Gap
<1>2. z \in Seq(Nat) /\ Len(z) = g
  <2>1. z \in Seq(Bits) /\ Len(z) = g
    BY <1>1, BitsOfNumber
  <2> HIDE DEF z
  <2> QED BY <2>1 DEF Bits
<1>3. \A j \in 1..g : z[j] = 0
  <2> SUFFICES ASSUME NEW j \in 1..g PROVE z[j] = 0
    OBVIOUS
  <2>1. z[j] = (0 \div 2^(g - j)) % 2
    BY <1>1 DEF U, Digits
  <2>2. g - j \in Nat
    BY <1>1
  <2>3. \A p \in Nat \ {0} : (0 \div p) % 2 = 0
    OBVIOUS
  <2> QED BY <2>1, <2>2, <2>3, PowersPositive
<1> HIDE DEF g, z
<1>4. /\ z \o <<1>> \in Seq(Nat) /\ Len(z \o <<1>>) = g + 1 /\ (z \o <<1>>)[g + 1] = 1
      /\ \A j \in 1..g : (z \o <<1>>)[j] = z[j]
  BY <1>1, <1>2, SMTT(30)
<1> DEFINE s == z \o <<1>>
<1>5. s \in Seq(Nat) /\ Len(s) = g + 1 /\ s[g + 1] = 1 /\ \A j \in 1..g : s[j] = 0
  BY <1>3, <1>4
<1> HIDE DEF s
<1>6. /\ s \o u \in Seq(Nat) /\ Len(s \o u) = g + 1 + Len(u)
      /\ \A j \in 1..(g + 1) : (s \o u)[j] = s[j]
      /\ \A j \in 1..Len(u) : (s \o u)[g + 1 + j] = u[j]
  <2>1. /\ s \o u \in Seq(Nat) /\ Len(s \o u) = Len(s) + Len(u)
        /\ \A j \in 1..Len(s) : (s \o u)[j] = s[j]
        /\ \A j \in 1..Len(u) : (s \o u)[Len(s) + j] = u[j]
    BY <1>5, Concat
  <2> QED BY <1>5, <2>1
<1>7. d = s \o u
  BY DEF s
<1>8. g + 1 \in 1..(g + 1) /\ \A j \in 1..g : j \in 1..(g + 1)
  BY <1>1
<1> QED BY <1>1, <1>5, <1>6, <1>7, <1>8 DEF g

\* A unit behind its length.
LEMMA BlockOfLength ==
  ASSUME NEW u \in Seq(Nat), NEW size \in 1..4, NEW i \in Nat, FitsField(Len(u), size)
  PROVE  /\ Delimited(u, size, i) \in Seq(Nat) /\ Len(Delimited(u, size, i)) = size + Len(u)
         /\ FieldValue(SubSeq(Delimited(u, size, i), 1, size)) = Len(u)
         /\ \A j \in 1..Len(u) : Delimited(u, size, i)[size + j] = u[j]
<1> DEFINE d == LengthField(Len(u), size)
<1>1. Delimited(u, size, i) = d \o u
  <2>1. size # 0
    OBVIOUS
  <2> QED BY <2>1, Zenon DEF Delimited, LengthField
<1>2. d \in Seq(Nat) /\ Len(d) = size /\ FieldValue(d) = Len(u)
  <2>1. Len(u) \in Nat
    OBVIOUS
  <2> QED BY <2>1, LengthRead
<1> HIDE DEF d
<1>3. d \in Seq(Nat)
  BY <1>2
<1>4. /\ d \o u \in Seq(Nat) /\ Len(d \o u) = size + Len(u)
      /\ \A j \in 1..size : (d \o u)[j] = d[j]
      /\ \A j \in 1..Len(u) : (d \o u)[size + j] = u[j]
  <2>1. /\ d \o u \in Seq(Nat) /\ Len(d \o u) = Len(d) + Len(u)
        /\ \A j \in 1..Len(d) : (d \o u)[j] = d[j]
        /\ \A j \in 1..Len(u) : (d \o u)[Len(d) + j] = u[j]
    BY <1>3, Concat
  <2> QED BY <1>2, <2>1
<1>5. SubSeq(d \o u, 1, size) = d
  <2> DEFINE s == d \o u
  <2>1. s \in Seq(Nat) /\ size \in 1..Len(s) /\ 1 \in 1..Len(s)
    BY <1>4
  <2>2. \A j \in 1..size : s[j] = d[j]
    BY <1>4
  <2> HIDE DEF s
  <2>3. /\ SubSeq(s, 1, size) \in Seq(Nat) /\ Len(SubSeq(s, 1, size)) = size
        /\ \A j \in 1..size : SubSeq(s, 1, size)[j] = s[j]
    BY <2>1
  <2>4. SubSeq(s, 1, size) = d
    BY <1>2, <1>3, <2>2, <2>3
  <2> QED BY <2>4 DEF s
<1> QED BY <1>1, <1>2, <1>4, <1>5

\* The delimited units are sequences of bytes.
LEMMA BlocksType ==
  ASSUME NEW us, AllSound(us), NEW size \in 0..4,
         \A i \in 1..Len(us) : size # 0 => FitsField(Len(us[i]), size)
  PROVE  /\ Blocks(us, size) \in Seq(Seq(Nat)) /\ Len(Blocks(us, size)) = Len(us)
         /\ \A i \in 1..Len(us) : Blocks(us, size)[i] = Delimited(us[i], size, i)
<1>1. us \in Seq(Seq(Nat)) /\ DOMAIN us = 1..Len(us) /\ Len(us) \in Nat
  BY DEF AllSound
<1>2. ASSUME NEW i \in 1..Len(us) PROVE Delimited(us[i], size, i) \in Seq(Nat)
  <2>1. us[i] \in Seq(Nat) /\ i \in Nat
    BY <1>1
  <2>2. CASE size = 0
    BY <2>1, <2>2, BlockOfCode
  <2>3. CASE size # 0
    <3>1. size \in 1..4
      BY <2>3
    <3>2. FitsField(Len(us[i]), size)
      BY <2>3, Zenon
    <3> QED BY <2>1, <3>1, <3>2, BlockOfLength, Zenon
  <2> QED BY <2>2, <2>3
<1> DEFINE D(i) == Delimited(us[i], size, i)
           l == Len(us)
<1>3. l \in Nat /\ \A i \in 1..l : D(i) \in Seq(Nat)
  BY <1>1, <1>2
<1>4. Blocks(us, size) = [i \in 1..l |-> D(i)]
  BY <1>1 DEF Blocks
<1> HIDE DEF D, l
<1>5. [i \in 1..l |-> D(i)] \in Seq(Seq(Nat)) /\ Len([i \in 1..l |-> D(i)]) = l
      /\ \A i \in 1..l : [j \in 1..l |-> D(j)][i] = D(i)
  BY <1>3
<1> QED BY <1>4, <1>5 DEF D, l

-----------------------------------------------------------------------------
(* Start codes.                                                             *)

\* Where unit n of a stream with start codes is: c[n - 1] zeros, 1, unit c[n].
CodesAt(c, us, r) ==
    /\ r \in Seq(Nat) /\ c \in [0..Len(us) -> Nat] /\ c[0] = 0 /\ c[Len(us)] = Len(r)
    /\ \A n \in 1..Len(us) :
          /\ c[n] = c[n - 1] + Gap(n) + 1 + Len(us[n]) /\ c[n] <= Len(r)
          /\ \A j \in 1..Gap(n) : r[c[n - 1] + j] = 0
          /\ r[c[n - 1] + Gap(n) + 1] = 1
          /\ \A j \in 1..Len(us[n]) : r[c[n - 1] + Gap(n) + 1 + j] = us[n][j]

\* That is where FlattenSeq puts them.
LEMMA CodesPlaced ==
  ASSUME NEW us, AllSound(us), NEW r \in Seq(Nat), NEW c, Placed(c, Blocks(us, 0), r)
  PROVE  CodesAt(c, us, r)
<1> DEFINE q == Blocks(us, 0)
<1>1. q \in Seq(Seq(Nat)) /\ Len(q) = Len(us) /\ \A i \in 1..Len(us) : q[i] = Delimited(us[i], 0, i)
  <2>1. 0 \in 0..4
    OBVIOUS
  <2> QED BY <2>1, BlocksType
<1> HIDE DEF q
<1>2. /\ c \in [0..Len(us) -> Nat] /\ c[0] = 0 /\ c[Len(us)] = Len(r)
      /\ \A n \in 1..Len(us) :
          /\ c[n] = c[n - 1] + Len(q[n]) /\ c[n] <= Len(r)
          /\ \A i \in 1..Len(q[n]) : r[c[n - 1] + i] = q[n][i]
  BY <1>1 DEF Placed, q
<1>3. ASSUME NEW n \in 1..Len(us)
      PROVE  /\ c[n] = c[n - 1] + Gap(n) + 1 + Len(us[n]) /\ c[n] <= Len(r)
             /\ \A j \in 1..Gap(n) : r[c[n - 1] + j] = 0
             /\ r[c[n - 1] + Gap(n) + 1] = 1
             /\ \A j \in 1..Len(us[n]) : r[c[n - 1] + Gap(n) + 1 + j] = us[n][j]
  <2>1. us[n] \in Seq(Nat) /\ n \in Nat /\ Len(us) \in Nat
    BY DEF AllSound
  <2> DEFINE u == us[n]
             d == q[n]
             g == Gap(n)
             p == c[n - 1]
  <2>2. /\ d \in Seq(Nat) /\ Len(d) = g + 1 + Len(u)
        /\ \A j \in 1..g : d[j] = 0
        /\ d[g + 1] = 1
        /\ \A j \in 1..Len(u) : d[g + 1 + j] = u[j]
    <3>1. d = Delimited(u, 0, n)
      BY <1>1
    <3> HIDE DEF d, u
    <3>2. u \in Seq(Nat) /\ n \in Nat
      BY <2>1 DEF u
    <3> QED BY <3>1, <3>2, BlockOfCode, Zenon DEF g
  <2>3. n - 1 \in 0..Len(us)
    BY <2>1
  <2>4. p \in Nat /\ g \in Nat /\ u \in Seq(Nat) /\ Len(u) \in Nat
    <3>1. p \in Nat
      BY <1>2, <2>3
    <3>2. g \in Nat
      BY <2>1 DEF Gap
    <3> QED BY <2>1, <3>1, <3>2
  <2>5. c[n] = p + Len(d) /\ c[n] <= Len(r) /\ \A i \in 1..Len(d) : r[p + i] = d[i]
    BY <1>2
  <2> DEFINE m == Len(d)
             v == Len(u)
  <2> HIDE DEF u, d, g, p
  <2>6. /\ c[n] = p + g + 1 + Len(u)
        /\ \A j \in 1..g : j \in 1..Len(d)
        /\ g + 1 \in 1..Len(d) /\ p + (g + 1) = p + g + 1
        /\ \A j \in 1..Len(u) : g + 1 + j \in 1..Len(d) /\ p + (g + 1 + j) = p + g + 1 + j
    <3>1. m = g + 1 + v /\ v \in Nat /\ c[n] = p + m
      BY <2>2, <2>4, <2>5
    <3> HIDE DEF m, v
    <3>2. /\ c[n] = p + g + 1 + v
          /\ \A j \in 1..g : j \in 1..m
          /\ g + 1 \in 1..m /\ p + (g + 1) = p + g + 1
          /\ \A j \in 1..v : g + 1 + j \in 1..m /\ p + (g + 1 + j) = p + g + 1 + j
      BY <2>4, <3>1
    <3> QED BY <3>2 DEF m, v
  <2>7. /\ \A j \in 1..g : r[p + j] = 0
        /\ r[p + g + 1] = 1
        /\ \A j \in 1..Len(u) : r[p + g + 1 + j] = u[j]
    <3>1. \A j \in 1..g : r[p + j] = 0 BY <2>2, <2>5, <2>6
    <3>2. r[p + (g + 1)] = 1 BY <2>2, <2>5, <2>6
    <3>3. ASSUME NEW j \in 1..Len(u) PROVE r[p + g + 1 + j] = u[j]
      <4>1. r[p + (g + 1 + j)] = d[g + 1 + j] BY <2>5, <2>6
      <4> QED BY <2>2, <2>6, <4>1
    <3> QED BY <2>6, <3>1, <3>2, <3>3
  <2> QED BY <2>5, <2>6, <2>7 DEF u, d, g, p
<1> QED BY <1>2, <1>3 DEF CodesAt

\* What the places say of one unit, in numbers.
LEMMA CodePlace ==
  ASSUME NEW us, AllSound(us), NEW c, NEW r, CodesAt(c, us, r), NEW n \in 1..Len(us)
  PROVE  /\ c[n - 1] \in Nat /\ c[n] \in Nat /\ Gap(n) \in {2, 3} /\ Len(us[n]) \in Nat \ {0}
         /\ c[n] = c[n - 1] + Gap(n) + 1 + Len(us[n]) /\ c[n] <= Len(r) /\ Len(r) \in Nat
<1>1. n - 1 \in 0..Len(us) /\ n \in 0..Len(us) /\ n \in Nat /\ Len(us) \in Nat
  BY DEF AllSound
<1>2. Sound(us[n])
  BY DEF AllSound
<1>3. Len(us[n]) \in Nat \ {0}
  BY <1>2 DEF Sound
<1>4. Gap(n) \in {2, 3}
  BY <1>1 DEF Gap
<1>5. /\ r \in Seq(Nat) /\ c \in [0..Len(us) -> Nat]
      /\ c[n] = c[n - 1] + Gap(n) + 1 + Len(us[n]) /\ c[n] <= Len(r)
  BY Zenon DEF CodesAt
<1>6. c[n - 1] \in Nat /\ c[n] \in Nat
  BY <1>1, <1>5
<1>7. Len(r) \in Nat
  BY <1>5
<1> QED BY <1>3, <1>4, <1>5, <1>6, <1>7, Zenon

\* What the places are.
LEMMA CodesType ==
  ASSUME NEW us, AllSound(us), NEW c, NEW r, CodesAt(c, us, r)
  PROVE  Len(us) \in Nat /\ Len(r) \in Nat /\ c \in [0..Len(us) -> Nat]
<1>1. Len(us) \in Nat
  BY DEF AllSound
<1>2. r \in Seq(Nat) /\ c \in [0..Len(us) -> Nat]
  BY Zenon DEF CodesAt
<1> QED BY <1>1, <1>2

\* The places of later units are behind those of earlier ones.
LEMMA CodesGrow ==
  ASSUME NEW us, AllSound(us), NEW c, NEW r, CodesAt(c, us, r),
         NEW a \in 0..Len(us), NEW b \in a..Len(us)
  PROVE  c[a] <= c[b]
<1> DEFINE l == Len(us)
           T == {n \in a..b : c[a] <= c[n]}
<1>1. l \in Nat /\ a \in Nat /\ b \in Nat /\ a <= b /\ b <= l /\ a \in 0..l /\ a \in a..b
  BY DEF AllSound
<1>2. c \in [0..l -> Nat]
  BY DEF CodesAt
<1>3. a \in T
  BY <1>1, <1>2
<1>4. ASSUME NEW n \in a..b, n # a, n - 1 \in T PROVE n \in T
  <2>1. n \in 1..l BY <1>1, <1>4
  <2>2. c[a] \in Nat /\ c[a] <= c[n - 1] BY <1>1, <1>2, <1>4
  <2>3. /\ c[n - 1] \in Nat /\ c[n] \in Nat /\ Gap(n) \in {2, 3} /\ Len(us[n]) \in Nat \ {0}
        /\ c[n] = c[n - 1] + Gap(n) + 1 + Len(us[n])
    <3>1. n \in 1..Len(us) BY <2>1
    <3> QED BY <3>1, CodePlace
  <2>4. c[a] <= c[n]
    <3> DEFINE x == c[n - 1]
               y == c[n]
               z == c[a]
               g == Gap(n)
               v == Len(us[n])
    <3>1. /\ x \in Nat /\ y \in Nat /\ z \in Nat /\ g \in Nat /\ v \in Nat
          /\ y = x + g + 1 + v /\ z <= x
      BY <2>2, <2>3
    <3> HIDE DEF x, y, z, g, v
    <3>2. z <= y BY <3>1
    <3> QED BY <3>2 DEF y, z
  <2> QED BY <2>4
<1>5. b \in T
  <2> HIDE DEF T
  <2>1. a..b \subseteq T BY <1>1, <1>3, <1>4, Reaches
  <2> QED BY <1>1, <2>1
<1> QED BY <1>5

\* There are no other start codes in the stream than those in front of the units.
LEMMA OnlyCodes ==
  ASSUME NEW us, AllSound(us), NEW c, NEW r, CodesAt(c, us, r),
         NEW x \in 1..(Len(r) - 2), r[x] = 0, r[x + 1] = 0, r[x + 2] = 1
  PROVE  \E n \in 1..Len(us) : x + 2 = c[n - 1] + Gap(n) + 1
<1> DEFINE l == Len(us)
           S == {n \in 0..l : x <= c[n]}
<1>1. l \in Nat /\ Len(r) \in Nat /\ x \in Nat \ {0} /\ x + 2 <= Len(r)
  BY DEF AllSound, CodesAt
<1>2. c \in [0..l -> Nat] /\ c[0] = 0 /\ c[l] = Len(r)
  BY DEF CodesAt
<1>3. l \in S /\ S \subseteq Nat
  BY <1>1, <1>2
<1>4. PICK n \in S : \A m \in S : n <= m
  <2> HIDE DEF S
  <2> QED BY <1>3, LeastNumber
<1>5. n \in 1..l
  <2>1. n # 0 BY <1>1, <1>2, <1>4
  <2> QED BY <1>1, <1>4, <2>1
<1>6. n - 1 \in 0..l /\ ~(n <= n - 1)
  BY <1>1, <1>5
<1>7. ~(x <= c[n - 1]) /\ x <= c[n]
  BY <1>4, <1>6
<1> DEFINE p == c[n - 1]
           g == Gap(n)
           u == us[n]
           j == x - p
<1>8. p \in Nat /\ g \in {2, 3} /\ Len(u) \in Nat \ {0} /\ c[n] = p + g + 1 + Len(u)
  BY <1>5, CodePlace
<1>9. /\ \A i \in 1..g : r[p + i] = 0
      /\ r[p + g + 1] = 1
      /\ \A i \in 1..Len(u) : r[p + g + 1 + i] = u[i]
  BY <1>5 DEF CodesAt
<1>10. Sound(u)
  BY <1>5 DEF AllSound
<1>c. x \in Nat /\ ~(x <= p) /\ x <= p + g + 1 + Len(u)
  BY <1>1, <1>7, <1>8
<1> HIDE DEF p, g, u
<1>11. j \in 1..(g + 1 + Len(u)) /\ x = p + j
  BY <1>8, <1>c
<1> HIDE DEF j
<1>12. CASE j <= g
  <2>1. CASE j = g
    <3>1. x + 1 = p + g + 1 BY <1>8, <1>11, <2>1
    <3> QED BY <1>9, <3>1
  <2>2. CASE j = g - 1
    <3>1. x + 2 = p + g + 1 BY <1>8, <1>11, <2>2
    <3> QED BY <1>5, <3>1 DEF p, g
  <2>3. CASE j < g - 1
    <3>1. j + 2 \in 1..g /\ x + 2 = p + (j + 2) BY <1>8, <1>11, <2>3
    <3> QED BY <1>9, <3>1
  <2> QED BY <1>8, <1>11, <1>12, <2>1, <2>2, <2>3
<1>13. CASE j = g + 1
  <2>1. x = p + g + 1 BY <1>8, <1>11, <1>13
  <2> QED BY <1>9, <2>1
<1>14. CASE j > g + 1
  <2> DEFINE y == j - g - 1
             v == Len(u)
  <2>1. y \in 1..v /\ x = p + g + 1 + y /\ v \in Nat
    BY <1>8, <1>11, <1>14
  <2> HIDE DEF y
  <2>2. u[y] = 0 /\ u[v] # 0
    BY <1>9, <1>10, <2>1 DEF Sound
  <2>3. y + 1 \in 1..v /\ x + 1 = p + g + 1 + (y + 1)
    <3>1. y # v BY <2>2
    <3> QED BY <1>8, <2>1, <3>1
  <2>4. u[y + 1] = 0
    BY <1>9, <2>3
  <2>5. y + 2 \in 1..v /\ x + 2 = p + g + 1 + (y + 2) /\ y \in 1..(v - 2)
    <3>1. y + 1 # v BY <2>2, <2>4
    <3> QED BY <1>8, <2>1, <2>3, <3>1
  <2>6. u[y + 2] = 1
    BY <1>9, <2>5
  <2> QED BY <1>10, <2>2, <2>4, <2>5, <2>6, SMTT(30) DEF Sound, Plain
<1> QED BY <1>8, <1>11, <1>12, <1>13, <1>14

\* The least number of a set.
LEMMA MinIs ==
  ASSUME NEW S \in SUBSET Int, NEW m \in S, \A x \in S : m <= x
  PROVE  Min(S) = m
<1>1. Min(S) \in S /\ \A x \in S : Min(S) <= x
  BY DEF Min
<1>2. Min(S) <= m /\ m <= Min(S) /\ Min(S) \in Int /\ m \in Int
  BY <1>1
<1> QED BY <1>2

\* Where a buffer finds start codes from position p on.
Hits(b, p) == {i \in p..(Len(b) - 4) : b[i + 1] = 0 /\ b[i + 2] = 0 /\ b[i + 3] = 1}

\* A buffer holds what has arrived of the stream behind place o.
Holds(b, r, o) ==
    /\ b \in Seq(Nat) /\ o \in Nat /\ o + Len(b) <= Len(r)
    /\ \A j \in 1..Len(b) : b[j] = r[o + j]

\* Where the start code of unit k + 1 stands in what has arrived behind place o.
NextCode(c, us, o, k) == c[k] + Gap(k + 1) - 2 - o

\* From position p on the only start codes are those behind the first k units, and that
\* of unit k + 1 is found once it and a byte behind it have arrived.
LEMMA HitsAre ==
  ASSUME NEW us, AllSound(us), NEW c, NEW r, CodesAt(c, us, r),
         NEW o \in Nat, NEW b, Holds(b, r, o), NEW k \in 0..Len(us), NEW p \in Nat,
         o + p <= c[k], k # 0 => c[k - 1] + Gap(k) + 1 <= o + p
  PROVE  /\ Hits(b, p) \in SUBSET Int
         /\ \A i \in Hits(b, p) : k < Len(us) /\ NextCode(c, us, o, k) <= i
         /\ k < Len(us) /\ NextCode(c, us, o, k) <= Len(b) - 4
               => NextCode(c, us, o, k) \in Hits(b, p)
<1> DEFINE l == Len(us)
           N == NextCode(c, us, o, k)
           m == Len(b)
<1>1. /\ l \in Nat /\ k \in Nat /\ k <= l /\ m \in Nat /\ c[k] \in Nat
      /\ o + m <= Len(r) /\ Len(r) \in Nat /\ \A j \in 1..m : b[j] = r[o + j]
  <2>1. l \in Nat /\ Len(r) \in Nat /\ c \in [0..l -> Nat]
    BY CodesType, Zenon
  <2>2. m \in Nat /\ o + m <= Len(r) /\ \A j \in 1..m : b[j] = r[o + j]
    BY DEF Holds
  <2> HIDE DEF m
  <2>3. k \in Nat /\ k <= l /\ c[k] \in Nat
    BY <2>1
  <2> QED BY <2>1, <2>2, <2>3
<1>2. Hits(b, p) \in SUBSET Int
  BY <1>1 DEF Hits
<1>3. ASSUME NEW i \in Hits(b, p) PROVE k < l /\ N <= i
  <2>1. i \in Int /\ p <= i /\ i <= m - 4 /\ b[i + 1] = 0 /\ b[i + 2] = 0 /\ b[i + 3] = 1
    BY <1>1 DEF Hits
  <2> DEFINE x == o + i + 1
  <2>2. /\ i + 1 \in 1..m /\ i + 2 \in 1..m /\ i + 3 \in 1..m
        /\ o + (i + 1) = x /\ o + (i + 2) = x + 1 /\ o + (i + 3) = x + 2
        /\ x \in 1..(Len(r) - 2)
    BY <1>1, <2>1, SMTT(30)
  <2>3. r[x] = 0 /\ r[x + 1] = 0 /\ r[x + 2] = 1
    BY <1>1, <2>1, <2>2
  <2>4. PICK n \in 1..l : x + 2 = c[n - 1] + Gap(n) + 1
    <3> HIDE DEF x
    <3>1. x \in 1..(Len(r) - 2)
      BY <2>2
    <3>2. \E n \in 1..Len(us) : x + 2 = c[n - 1] + Gap(n) + 1
      BY <2>3, <3>1, OnlyCodes
    <3> QED BY <3>2
  <2>5. /\ c[n - 1] \in Nat /\ c[n] \in Nat /\ Gap(n) \in {2, 3} /\ Len(us[n]) \in Nat \ {0}
        /\ c[n] = c[n - 1] + Gap(n) + 1 + Len(us[n])
    BY CodePlace
  <2>6. n > k
    <3> SUFFICES ASSUME n <= k PROVE FALSE
      BY <1>1
    <3>1. k \in 1..l /\ k # 0
      BY <1>1
    <3>2. c[k - 1] \in Nat /\ Gap(k) \in {2, 3}
      BY <3>1, CodePlace
    <3>3. CASE n = k
      BY <2>1, <2>2, <2>4, <3>1, <3>3
    <3>4. CASE n # k
      <4>1. n \in 0..l /\ k - 1 \in n..l BY <1>1, <3>1, <3>4
      <4>2. c[n] <= c[k - 1] BY <4>1, CodesGrow
      <4> DEFINE A == c[n - 1]
                 B == c[n]
                 g == Gap(n)
                 v == Len(us[n])
                 D == c[k - 1]
                 h == Gap(k)
      <4>3. /\ A \in Nat /\ B \in Nat /\ g \in Nat /\ v \in Nat /\ D \in Nat /\ h \in Nat
            /\ B = A + g + 1 + v /\ B <= D
        <5>1. A \in Nat /\ B \in Nat /\ B = A + g + 1 + v /\ g \in {2, 3} /\ v \in Nat \ {0}
          BY <2>5
        <5>2. D \in Nat /\ h \in {2, 3} /\ B <= D
          BY <3>2, <4>2
        <5> HIDE DEF A, B, g, v, D, h
        <5> QED BY <5>1, <5>2
      <4>4. D + h + 1 <= o + p
        BY <3>1
      <4>5. o + i + 3 = A + g + 1
        BY <2>1, <2>4, <2>5
      <4> HIDE DEF A, B, g, v, D, h
      <4> QED BY <2>1, <4>3, <4>4, <4>5
    <3> QED BY <3>3, <3>4
  <2>7. k < l /\ k + 1 \in 1..l
    BY <1>1, <2>6
  <2>8. CASE n = k + 1
    <3> DEFINE A == c[k]
               g == Gap(k + 1)
    <3>1. (k + 1) - 1 = k
      BY <1>1
    <3>2. A \in Nat /\ g \in Nat
      BY <1>1, <2>5, <2>8, SMTT(30)
    <3>3. o + i + 3 = A + g + 1
      BY <2>1, <2>4, <2>8, <3>1, <3>2
    <3> HIDE DEF A, g
    <3>4. A + g - 2 - o <= i
      BY <2>1, <3>2, <3>3
    <3> QED BY <2>7, <3>4 DEF NextCode, A, g
  <2>9. CASE n # k + 1
    <3>1. k + 1 \in 0..l /\ n - 1 \in (k + 1)..l BY <1>1, <2>6, <2>7, <2>9
    <3>2. c[k + 1] <= c[n - 1] BY <3>1, CodesGrow
    <3>3. /\ c[k + 1] \in Nat /\ Gap(k + 1) \in {2, 3} /\ Len(us[k + 1]) \in Nat \ {0}
          /\ c[k + 1] = c[k] + Gap(k + 1) + 1 + Len(us[k + 1])
      <4>1. (k + 1) - 1 = k BY <1>1
      <4> QED BY <2>7, <4>1, CodePlace
    <3> DEFINE A == c[k]
               B == c[k + 1]
               g == Gap(k + 1)
               v == Len(us[k + 1])
               D == c[n - 1]
               h == Gap(n)
    <3>4. /\ A \in Nat /\ B \in Nat /\ g \in Nat /\ v \in Nat /\ D \in Nat /\ h \in Nat
          /\ B = A + g + 1 + v /\ B <= D
      <4>1. D \in Nat /\ h \in {2, 3} /\ B <= D
        BY <2>5, <3>2
      <4>2. A \in Nat
        BY <1>1
      <4>3. B \in Nat /\ B = A + g + 1 + v /\ g \in {2, 3} /\ v \in Nat \ {0}
        BY <3>3
      <4> HIDE DEF A, B, g, v, D, h
      <4> QED BY <4>1, <4>2, <4>3
    <3>5. o + i + 3 = D + h + 1
      BY <2>1, <2>4, <2>5
    <3> HIDE DEF A, B, g, v, D, h
    <3>6. A + g - 2 - o <= i
      BY <2>1, <3>4, <3>5
    <3> QED BY <2>7, <3>6 DEF NextCode, A, g
  <2> QED BY <2>7, <2>8, <2>9
<1>4. ASSUME k < l, N <= m - 4 PROVE N \in Hits(b, p)
  <2>1. k + 1 \in 1..l /\ (k + 1) - 1 = k
    BY <1>1, <1>4, SMTT(30)
  <2> DEFINE g == Gap(k + 1)
  <2>2. g \in {2, 3} /\ N = c[k] + g - 2 - o
    BY <2>1, CodePlace DEF NextCode
  <2>3. /\ \A j \in 1..g : r[c[k] + j] = 0
        /\ r[c[k] + g + 1] = 1
    BY <2>1 DEF CodesAt
  <2> HIDE DEF g, N
  <2>4. N \in p..(m - 4)
    BY <1>1, <1>4, <2>2
  <2>5. /\ N + 1 \in 1..m /\ o + (N + 1) = c[k] + (g - 1) /\ g - 1 \in 1..g
        /\ N + 2 \in 1..m /\ o + (N + 2) = c[k] + g /\ g \in 1..g
        /\ N + 3 \in 1..m /\ o + (N + 3) = c[k] + g + 1
    <3> DEFINE A == c[k]
    <3>1. A \in Nat /\ m \in Nat /\ N = A + g - 2 - o /\ g \in {2, 3} /\ N \in p..(m - 4)
      BY <1>1, <2>2, <2>4
    <3> HIDE DEF A, m
    <3>2. /\ N + 1 \in 1..m /\ o + (N + 1) = A + (g - 1) /\ g - 1 \in 1..g
          /\ N + 2 \in 1..m /\ o + (N + 2) = A + g /\ g \in 1..g
          /\ N + 3 \in 1..m /\ o + (N + 3) = A + g + 1
      BY <3>1
    <3> QED BY <3>2 DEF A, m
  <2>6. b[N + 1] = 0 /\ b[N + 2] = 0 /\ b[N + 3] = 1
    BY <1>1, <2>3, <2>5, ZenonT(30)
  <2> QED BY <2>4, <2>6 DEF Hits
<1> QED BY <1>2, <1>3, <1>4

\* The start code in front of the next unit.
LEMMA FirstCode ==
  ASSUME NEW us, AllSound(us), NEW c, NEW r, CodesAt(c, us, r),
         NEW k \in 0..Len(us), NEW b, Holds(b, r, c[k]), GetStartCode(b, 0).ok
  PROVE  k < Len(us) /\ GetStartCode(b, 0).start = Gap(k + 1) + 1
<1> DEFINE H == Hits(b, 0)
           N == NextCode(c, us, c[k], k)
<1>1. c[k] \in Nat /\ 0 \in Nat /\ c[k] + 0 <= c[k]
  BY DEF Holds
<1>2. k # 0 => c[k - 1] + Gap(k) + 1 <= c[k] + 0
  <2> SUFFICES ASSUME k # 0 PROVE c[k - 1] + Gap(k) + 1 <= c[k] + 0
    OBVIOUS
  <2>1. Len(us) \in Nat BY DEF AllSound
  <2>2. k \in 1..Len(us) BY <2>1
  <2>3. c[k - 1] \in Nat /\ Gap(k) \in {2, 3} /\ Len(us[k]) \in Nat \ {0}
        /\ c[k] = c[k - 1] + Gap(k) + 1 + Len(us[k])
    BY <2>2, CodePlace
  <2> QED BY <1>1, <2>3
<1>3. /\ H \in SUBSET Int /\ \A i \in H : k < Len(us) /\ N <= i
      /\ k < Len(us) /\ N <= Len(b) - 4 => N \in H
  BY <1>1, <1>2, HitsAre
<1>4. H # {}
  <2> SUFFICES ASSUME H = {} PROVE FALSE
    OBVIOUS
  <2>1. GetStartCode(b, 0) = None
    BY DEF GetStartCode, Hits
  <2> QED BY <2>1 DEF None
<1>5. k < Len(us) /\ N \in H
  <2>1. PICK i \in H : TRUE
    BY <1>4
  <2>2. i \in Int /\ i <= Len(b) - 4 /\ N <= i /\ k < Len(us)
    <3>1. Len(b) \in Nat BY DEF Holds
    <3>2. i \in 0..(Len(b) - 4) BY <2>1 DEF Hits
    <3>3. N <= i /\ k < Len(us) BY <1>3, <2>1, Zenon
    <3> HIDE DEF N
    <3> QED BY <3>1, <3>2, <3>3
  <2>3. N \in Int /\ Len(b) \in Nat
    <3>1. k + 1 \in 1..Len(us) /\ (k + 1) - 1 = k
      <4>1. Len(us) \in Nat BY DEF AllSound
      <4> QED BY <2>2, <4>1
    <3>2. Gap(k + 1) \in {2, 3} BY <3>1, CodePlace
    <3> QED BY <1>1, <3>2 DEF NextCode, Holds
  <2> HIDE DEF N
  <2>4. N <= Len(b) - 4
    BY <2>2, <2>3
  <2> QED BY <1>3, <2>2, <2>4
<1>6. Min(H) = N
  <2> HIDE DEF H, N
  <2> QED BY <1>3, <1>5, MinIs
<1>7. GetStartCode(b, 0).start = Min(H) + 3
  BY <1>4 DEF GetStartCode, Hits
<1>8. N + 3 = Gap(k + 1) + 1
  <2>1. Len(us) \in Nat BY DEF AllSound
  <2>2. k + 1 \in 1..Len(us) /\ (k + 1) - 1 = k
    BY <1>5, <2>1
  <2>3. Gap(k + 1) \in {2, 3} BY <2>2, CodePlace
  <2> QED BY <1>1, <2>3 DEF NextCode
<1> QED BY <1>5, <1>6, <1>7, <1>8

\* The start code behind the next unit: its zeros begin where the unit ends.
LEMMA SecondCode ==
  ASSUME NEW us, AllSound(us), NEW c, NEW r, CodesAt(c, us, r),
         NEW k \in 0..(Len(us) - 1), NEW b, Holds(b, r, c[k]), NEW p, p = Gap(k + 1) + 1
  PROVE  /\ GetStartCode(b, p).ok =>
               /\ GetStartCode(b, p).begin = p + Len(us[k + 1])
               /\ p + Len(us[k + 1]) <= Len(b)
         /\ ~GetStartCode(b, p).ok /\ c[k] + Len(b) = Len(r) => k + 1 = Len(us)
<1> DEFINE l == Len(us)
           n == k + 1
           e == p + Len(us[n])
           H == Hits(b, p)
           N == NextCode(c, us, c[k], n)
           m == Len(b)
<1>1. /\ l \in Nat /\ k \in Nat /\ n \in 1..l /\ n \in 0..l /\ n - 1 = k /\ n # 0
  BY DEF AllSound
<1>2. /\ c[k] \in Nat /\ c[n] \in Nat /\ Gap(n) \in {2, 3} /\ Len(us[n]) \in Nat \ {0}
      /\ c[n] = c[k] + Gap(n) + 1 + Len(us[n])
  BY <1>1, CodePlace
<1>3. p \in Nat /\ c[k] + p <= c[n] /\ c[n - 1] + Gap(n) + 1 <= c[k] + p /\ c[n] = c[k] + e
      /\ e \in Nat /\ p < e
  <2> DEFINE A == c[k]
             B == c[n]
             g == Gap(n)
             v == Len(us[n])
  <2>1. /\ A \in Nat /\ B \in Nat /\ g \in Nat /\ v \in Nat \ {0} /\ B = A + g + 1 + v
        /\ p = g + 1 /\ c[n - 1] = A
    BY <1>1, <1>2
  <2> HIDE DEF A, B, g, v
  <2>2. p \in Nat /\ A + p <= B /\ A + g + 1 <= A + p /\ B = A + (p + v) /\ p + v \in Nat /\ p < p + v
    BY <2>1
  <2> QED BY <2>1, <2>2 DEF A, B, g, v
<1>4. m \in Nat /\ c[k] + m <= Len(r) /\ \A j \in 1..m : b[j] = r[c[k] + j]
  BY DEF Holds
<1> HIDE DEF n, e, N, H, l, m
<1>5. /\ H \in SUBSET Int /\ \A i \in H : n < l /\ N <= i
      /\ n < l /\ N <= m - 4 => N \in H
  <2>1. Holds(b, r, c[k])
    OBVIOUS
  <2> QED BY <1>1, <1>2, <1>3, <2>1, HitsAre DEF N, H, l, m
<1>6. ASSUME n < l
      PROVE  /\ Gap(n + 1) \in {2, 3} /\ N = e + Gap(n + 1) - 2
             /\ c[n + 1] = c[n] + Gap(n + 1) + 1 + Len(us[n + 1])
             /\ Len(us[n + 1]) \in Nat \ {0} /\ c[n + 1] <= Len(r)
             /\ \A j \in 1..Gap(n + 1) : r[c[n] + j] = 0
  <2>1. n + 1 \in 1..l /\ (n + 1) - 1 = n
    BY <1>1, <1>6
  <2>2. /\ Gap(n + 1) \in {2, 3} /\ Len(us[n + 1]) \in Nat \ {0} /\ c[n + 1] <= Len(r)
        /\ c[n + 1] = c[n] + Gap(n + 1) + 1 + Len(us[n + 1])
    BY <2>1, CodePlace DEF l
  <2>3. \A j \in 1..Gap(n + 1) : r[c[n] + j] = 0
    BY <2>1 DEF CodesAt, l
  <2>4. N = e + Gap(n + 1) - 2
    BY <1>2, <1>3, <2>2, SMTT(30) DEF N, NextCode
  <2> QED BY <2>2, <2>3, <2>4
<1>7. CASE H = {}
  <2>1. GetStartCode(b, p) = None
    BY <1>7 DEF GetStartCode, Hits, H
  <2>2. ~GetStartCode(b, p).ok
    BY <2>1 DEF None
  <2>3. ASSUME c[k] + m = Len(r), n < l PROVE FALSE
    <3>1. /\ Gap(n + 1) \in {2, 3} /\ N = e + Gap(n + 1) - 2
          /\ c[n + 1] = c[n] + Gap(n + 1) + 1 + Len(us[n + 1])
          /\ Len(us[n + 1]) \in Nat \ {0} /\ c[n + 1] <= Len(r)
      BY <1>6, <2>3
    <3> DEFINE A == c[k]
               B == c[n]
               D == c[n + 1]
               g == Gap(n + 1)
               v == Len(us[n + 1])
               z == Len(r)
    <3>a. /\ A \in Nat /\ B = A + e /\ e \in Nat /\ m \in Nat /\ A + m = z
      BY <1>2, <1>3, <1>4, <2>3
    <3>b. g \in {2, 3} /\ N = e + g - 2 /\ D = B + g + 1 + v /\ v \in Nat \ {0} /\ D <= z
      BY <3>1
    <3>2. N <= m - 4
      <4> HIDE DEF A, B, D, g, v, z
      <4> QED BY <3>a, <3>b
    <3> QED BY <1>5, <1>7, <2>3, <3>2
  <2>4. c[k] + m = Len(r) => n = l
    BY <1>1, <2>3
  <2> QED BY <2>2, <2>4 DEF n, l, m
<1>8. CASE H # {}
  <2>1. PICK i \in H : TRUE
    BY <1>8
  <2>2. n < l /\ N <= i /\ i \in Int /\ i <= m - 4
    BY <1>4, <1>5, <2>1, SMTT(30) DEF Hits, H, m
  <2>3. /\ Gap(n + 1) \in {2, 3} /\ N = e + Gap(n + 1) - 2
        /\ \A j \in 1..Gap(n + 1) : r[c[n] + j] = 0
    BY <1>6, <2>2
  <2>4. N \in Int /\ N <= m - 4 /\ N \in Nat /\ e <= N /\ e < m
    BY <1>3, <1>4, <2>2, <2>3
  <2>5. N \in H
    BY <1>5, <2>2, <2>4
  <2>6. Min(H) = N
    BY <1>5, <2>5, MinIs
  <2> DEFINE B == {x \in p..N : \A y \in x..N : b[y + 1] = 0}
  <2>7. e \in B
    <3>1. ASSUME NEW y \in e..N PROVE b[y + 1] = 0
      <4>1. y + 1 \in 1..m /\ c[k] + (y + 1) = c[n] + (y + 1 - e)
            /\ y + 1 - e \in 1..Gap(n + 1)
        <5> DEFINE ck == c[k]
                  cn == c[n]
                   g == Gap(n + 1)
        <5>1. ck \in Nat /\ cn = ck + e /\ e \in Nat /\ m \in Nat
          BY <1>2, <1>3, <1>4
        <5>2. g \in {2, 3} /\ N = e + g - 2 /\ N \in Nat /\ N <= m - 4
          BY <2>3, <2>4
        <5> HIDE DEF ck, cn, g
        <5>3. y + 1 \in 1..m /\ ck + (y + 1) = cn + (y + 1 - e) /\ y + 1 - e \in 1..g
          BY <5>1, <5>2
        <5> QED BY <5>3 DEF ck, cn, g
      <4> QED BY <1>4, <2>3, <4>1
    <3>2. e \in p..N
      BY <1>3, <2>4
    <3> QED BY <3>1, <3>2
  <2>8. ASSUME NEW x \in B PROVE e <= x
    <3>1. x \in Int /\ p <= x /\ x <= N /\ \A y \in x..N : b[y + 1] = 0
      BY <1>3, <2>4
    <3>2. CASE x <= e - 1
      <4>1. e - 1 \in x..N /\ (e - 1) + 1 = e /\ e \in 1..m
        <5>1. x \in Int /\ p <= x /\ p \in Nat /\ e \in Nat /\ N \in Nat /\ e <= N /\ e < m /\ m \in Nat
          BY <1>3, <1>4, <2>4, <3>1
        <5> QED BY <3>2, <5>1
      <4>2. r[c[k] + e] = 0
        BY <1>4, <3>1, <4>1
      <4>3. r[c[k] + e] = us[n][Len(us[n])]
        <5>1. Len(us[n]) \in 1..Len(us[n]) /\ c[n - 1] + Gap(n) + 1 + Len(us[n]) = c[k] + e
          BY <1>1, <1>2, <1>3
        <5>2. \A j \in 1..Len(us[n]) : r[c[n - 1] + Gap(n) + 1 + j] = us[n][j]
          BY <1>1 DEF CodesAt, l
        <5> QED BY <5>1, <5>2
      <4>4. Sound(us[n])
        BY <1>1 DEF AllSound, l
      <4> QED BY <4>2, <4>3, <4>4 DEF Sound
    <3> QED BY <1>3, <3>1, <3>2
  <2>9. B \in SUBSET Int
    BY <1>3, <2>4
  <2>10. Min(B) = e
    <3> HIDE DEF B
    <3> QED BY <2>7, <2>8, <2>9, MinIs
  <2>11. GetStartCode(b, p) = [ok |-> TRUE, start |-> N + 3, begin |-> Min(B)]
    BY <1>8, <2>6 DEF GetStartCode, Hits, H
  <2>12. GetStartCode(b, p).ok /\ GetStartCode(b, p).begin = Min(B)
    <3> HIDE DEF B
    <3> QED BY <2>11
  <2>13. GetStartCode(b, p).begin = e /\ e <= m
    BY <1>4, <2>4, <2>10, <2>12, <1>3
  <2> QED BY <2>12, <2>13 DEF n, e, m
<1> QED BY <1>7, <1>8

\* Parse finds the next unit of the stream, whole, or nothing.
Delimits(b, size, bEnd, u, end) ==
    LET p == Parse(b, size, bEnd)
    IN  p.ok => /\ p.start \in Nat /\ p.cBytes = Len(u) /\ p.start + p.cBytes = end /\ end <= Len(b)
                /\ \A j \in 1..Len(u) : b[p.start + j] = u[j]

\* With start codes.
LEMMA ParseCodes ==
  ASSUME NEW us, AllSound(us), NEW c, NEW r, CodesAt(c, us, r),
         NEW k \in 0..Len(us), NEW b, Holds(b, r, c[k]),
         NEW bEnd \in BOOLEAN, bEnd => c[k] + Len(b) = Len(r)
  PROVE  /\ Parse(b, 0, bEnd).ok => k < Len(us)
         /\ k < Len(us) => Delimits(b, 0, bEnd, us[k + 1], c[k + 1] - c[k])
<1> DEFINE this == GetStartCode(b, 0)
           next == GetStartCode(b, this.start)
           P == Parse(b, 0, bEnd)
<1>1. P = IF ~this.ok THEN None
          ELSE IF next.ok THEN [ok |-> TRUE, start |-> this.start, cBytes |-> next.begin - this.start]
          ELSE IF bEnd THEN [ok |-> TRUE, start |-> this.start, cBytes |-> Len(b) - this.start]
          ELSE None
  BY DEF Parse
<1> HIDE DEF P, this, next
<1>2. CASE ~this.ok
  BY <1>1, <1>2 DEF None, Delimits, P
<1>3. CASE this.ok
  <2> DEFINE n == k + 1
             p == Gap(n) + 1
             u == us[n]
  <2>1. k < Len(us) /\ this.start = p
    BY <1>3, FirstCode DEF this
  <2>2. Len(us) \in Nat /\ k \in 0..(Len(us) - 1) /\ n \in 1..Len(us) /\ n - 1 = k
    <3>1. Len(us) \in Nat BY DEF AllSound
    <3> QED BY <2>1, <3>1
  <2>3. /\ c[k] \in Nat /\ c[n] \in Nat /\ Gap(n) \in {2, 3} /\ Len(u) \in Nat \ {0}
        /\ c[n] = c[k] + Gap(n) + 1 + Len(u) /\ c[n] <= Len(r) /\ Len(r) \in Nat
    BY <2>2, CodePlace
  <2>4. /\ next.ok => next.begin = p + Len(u) /\ p + Len(u) <= Len(b)
        /\ ~next.ok /\ c[k] + Len(b) = Len(r) => n = Len(us)
    BY <2>1, <2>2, SecondCode DEF next
  <2>5. Len(b) \in Nat /\ c[k] + Len(b) <= Len(r) /\ \A j \in 1..Len(b) : b[j] = r[c[k] + j]
    BY DEF Holds
  <2>6. \A j \in 1..Len(u) : r[c[k] + Gap(n) + 1 + j] = u[j]
    BY <2>2 DEF CodesAt
  <2>7. ASSUME P.ok
        PROVE  P.start = p /\ P.cBytes = Len(u) /\ p + Len(u) <= Len(b)
    <3>1. CASE next.ok
      <4>1. P.start = p /\ P.cBytes = next.begin - p
        BY <1>1, <1>3, <2>1, <3>1
      <4> QED BY <2>3, <2>4, <3>1, <4>1
    <3>2. CASE ~next.ok
      <4>1. bEnd
        BY <1>1, <1>3, <2>7, <3>2 DEF None
      <4>2. P.start = p /\ P.cBytes = Len(b) - p
        BY <1>1, <1>3, <2>1, <3>2, <4>1
      <4>3. n = Len(us) /\ c[Len(us)] = Len(r)
        BY <2>4, <3>2, <4>1 DEF CodesAt
      <4>4. Len(b) = p + Len(u)
        <5> DEFINE A == c[k]
                   B == c[n]
                   g == Gap(n)
                   v == Len(u)
                   m == Len(b)
        <5>1. A \in Nat /\ B = A + g + 1 + v /\ g \in {2, 3} /\ v \in Nat
          BY <2>3
        <5>2. m \in Nat /\ A + m = B
          BY <2>5, <4>1, <4>3
        <5> HIDE DEF A, B, g, v, m
        <5>3. m = (g + 1) + v
          BY <5>1, <5>2
        <5> QED BY <5>3 DEF g, v, m
      <4> QED BY <2>3, <2>5, <4>2, <4>4
    <3> QED BY <3>1, <3>2
  <2>8. ASSUME P.ok, NEW j \in 1..Len(u) PROVE b[p + j] = u[j]
    <3>1. p + j \in 1..Len(b) /\ c[k] + (p + j) = c[k] + Gap(n) + 1 + j
      <4> DEFINE A == c[k]
                 g == Gap(n)
                 v == Len(u)
                 m == Len(b)
      <4>1. A \in Nat /\ g \in {2, 3} /\ v \in Nat
        BY <2>3
      <4>2. m \in Nat /\ (g + 1) + v <= m
        BY <2>5, <2>7, <2>8
      <4>3. j \in 1..v
        OBVIOUS
      <4> HIDE DEF A, g, v, m
      <4>4. (g + 1) + j \in 1..m /\ A + ((g + 1) + j) = A + g + 1 + j
        BY <4>1, <4>2, <4>3
      <4> QED BY <4>4 DEF A, g, m
    <3> QED BY <2>5, <2>6, <3>1
  <2>9. p \in Nat /\ p + Len(u) = c[n] - c[k]
    <3> DEFINE A == c[k]
               B == c[n]
               g == Gap(n)
               v == Len(u)
    <3>1. A \in Nat /\ B = A + g + 1 + v /\ g \in {2, 3} /\ v \in Nat
      BY <2>3
    <3> HIDE DEF A, B, g, v
    <3>2. g + 1 \in Nat /\ (g + 1) + v = B - A
      BY <3>1
    <3> QED BY <3>2 DEF A, B, g, v
  <2> HIDE DEF p, u, n
  <2>10. Delimits(b, 0, bEnd, u, c[n] - c[k])
    BY <2>7, <2>8, <2>9 DEF Delimits, P
  <2> QED BY <2>1, <2>10 DEF n, u
<1> QED BY <1>2, <1>3

\* With length fields.
LEMMA ParseLengths ==
  ASSUME NEW us, AllSound(us), NEW size \in 1..4,
         \A i \in 1..Len(us) : FitsField(Len(us[i]), size),
         NEW r \in Seq(Nat), NEW c, Placed(c, Blocks(us, size), r),
         NEW k \in 0..Len(us), NEW b, Holds(b, r, c[k]), NEW bEnd
  PROVE  /\ Parse(b, size, bEnd).ok => k < Len(us)
         /\ k < Len(us) => Delimits(b, size, bEnd, us[k + 1], c[k + 1] - c[k])
<1> DEFINE q == Blocks(us, size)
           P == Parse(b, size, bEnd)
           cBytes == FieldValue(SubSeq(b, 1, size))
<1>1. /\ q \in Seq(Seq(Nat)) /\ Len(q) = Len(us) /\ Len(us) \in Nat
      /\ \A i \in 1..Len(us) : q[i] = Delimited(us[i], size, i)
  <2>1. size \in 0..4 /\ \A i \in 1..Len(us) : size # 0 => FitsField(Len(us[i]), size)
    OBVIOUS
  <2>2. Len(us) \in Nat
    BY DEF AllSound
  <2>3. /\ Blocks(us, size) \in Seq(Seq(Nat)) /\ Len(Blocks(us, size)) = Len(us)
        /\ \A i \in 1..Len(us) : Blocks(us, size)[i] = Delimited(us[i], size, i)
    BY <2>1, BlocksType
  <2> QED BY <2>2, <2>3
<1>2. /\ c \in [0..Len(us) -> Nat] /\ c[Len(us)] = Len(r)
      /\ \A n \in 1..Len(us) :
          /\ c[n] = c[n - 1] + Len(q[n]) /\ c[n] <= Len(r)
          /\ \A i \in 1..Len(q[n]) : r[c[n - 1] + i] = q[n][i]
  BY <1>1 DEF Placed
<1>3. P = IF size > Len(b) \/ cBytes + size > Len(b) THEN None
          ELSE [ok |-> TRUE, start |-> size, cBytes |-> cBytes]
  BY DEF Parse, FieldValue
<1>4. /\ b \in Seq(Nat) /\ Len(b) \in Nat /\ c[k] \in Nat /\ c[k] + Len(b) <= Len(r)
      /\ \A j \in 1..Len(b) : b[j] = r[c[k] + j]
  BY DEF Holds
<1> HIDE DEF P, cBytes, q
<1>5. ASSUME P.ok
      PROVE  P.start = size /\ P.cBytes = cBytes /\ ~(size > Len(b)) /\ ~(cBytes + size > Len(b))
  BY <1>3, <1>5 DEF None
<1>6. P.ok => k < Len(us)
  <2> SUFFICES ASSUME P.ok, k = Len(us) PROVE FALSE
    BY <1>1
  <2> QED BY <1>2, <1>4, <1>5
<1>7. ASSUME k < Len(us), P.ok
      PROVE  /\ P.start \in Nat /\ P.cBytes = Len(us[k + 1]) /\ P.start + P.cBytes = c[k + 1] - c[k]
             /\ c[k + 1] - c[k] <= Len(b)
             /\ \A j \in 1..Len(us[k + 1]) : b[P.start + j] = us[k + 1][j]
  <2> DEFINE n == k + 1
             u == us[n]
             d == Delimited(u, size, n)
  <2>1. n \in 1..Len(us) /\ n - 1 = k /\ n \in Nat
    BY <1>1, <1>7
  <2>2. u \in Seq(Nat) /\ Len(u) \in Nat
    <3>1. u \in Seq(Nat) BY <2>1 DEF AllSound
    <3> HIDE DEF u
    <3> QED BY <3>1
  <2>3. q[n] = d
    BY <1>1, <2>1
  <2>4. FitsField(Len(u), size)
    BY <2>1
  <2> HIDE DEF u
  <2>5. /\ d \in Seq(Nat) /\ Len(d) = size + Len(u)
        /\ FieldValue(SubSeq(d, 1, size)) = Len(u)
        /\ \A j \in 1..Len(u) : d[size + j] = u[j]
    BY <2>1, <2>2, <2>4, BlockOfLength
  <2> HIDE DEF d
  <2>6. c[n] = c[k] + Len(d) /\ \A i \in 1..Len(d) : r[c[k] + i] = d[i]
    BY <1>2, <2>1, <2>3
  <2>s. size \in Nat /\ Len(d) \in Nat /\ size <= Len(d)
    BY <2>2, <2>5
  <2>7. size <= Len(b) /\ \A j \in 1..size : b[j] = d[j]
    <3>1. ~(size > Len(b)) BY <1>5, <1>7
    <3>2. size <= Len(b) BY <1>4, <2>s, <3>1
    <3>3. \A j \in 1..size : j \in 1..Len(b) /\ j \in 1..Len(d) BY <1>4, <2>s, <3>2, SMTT(30)
    <3> QED BY <1>4, <2>6, <3>2, <3>3
  <2>8. SubSeq(b, 1, size) = SubSeq(d, 1, size)
    <3> DEFINE x == SubSeq(b, 1, size)
               y == SubSeq(d, 1, size)
    <3>1. b \in Seq(Nat) /\ size \in Nat /\ size <= Len(b)
      BY <1>4, <2>s, <2>7
    <3>2. x \in Seq(Nat) /\ Len(x) = size /\ \A j \in 1..size : x[j] = b[j]
      BY <3>1, FrontPart
    <3>3. d \in Seq(Nat) /\ size \in Nat /\ size <= Len(d)
      BY <2>5, <2>s
    <3>4. y \in Seq(Nat) /\ Len(y) = size /\ \A j \in 1..size : y[j] = d[j]
      BY <3>3, FrontPart
    <3> HIDE DEF x, y
    <3>5. Len(x) = Len(y) /\ \A j \in 1..Len(x) : x[j] = y[j]
      BY <2>7, <3>2, <3>4
    <3>6. x = y
      BY <3>2, <3>4, <3>5, SameSeq
    <3> QED BY <3>6 DEF x, y
  <2>9. cBytes = Len(u)
    BY <2>5, <2>8 DEF cBytes
  <2>10. P.start = size /\ P.cBytes = Len(u) /\ Len(u) + size <= Len(b)
    <3>1. P.start = size /\ P.cBytes = Len(u) /\ ~(Len(u) + size > Len(b)) BY <1>5, <1>7, <2>9
    <3> QED BY <1>4, <2>2, <3>1
  <2>11. size + Len(u) = c[n] - c[k]
    BY <1>4, <2>2, <2>5, <2>6
  <2>12. ASSUME NEW j \in 1..Len(u) PROVE b[size + j] = u[j]
    <3>1. size + j \in 1..Len(b) /\ size + j \in 1..Len(d)
      <4> DEFINE v == Len(u)
      <4>1. v \in Nat /\ v + size <= Len(b) /\ Len(d) = size + v /\ j \in 1..v
        BY <2>2, <2>5, <2>10
      <4>2. Len(b) \in Nat /\ Len(d) \in Nat /\ size \in Nat
        BY <1>4, <2>s
      <4> HIDE DEF v
      <4> QED BY <4>1, <4>2
    <3> QED BY <1>4, <2>5, <2>6, <3>1
  <2>13. size \in Nat /\ Len(u) + size = size + Len(u)
    BY <2>2
  <2> QED BY <2>10, <2>11, <2>12, <2>13 DEF u
<1>8. k < Len(us) => Delimits(b, size, bEnd, us[k + 1], c[k + 1] - c[k])
  <2> SUFFICES ASSUME k < Len(us) PROVE Delimits(b, size, bEnd, us[k + 1], c[k + 1] - c[k])
    OBVIOUS
  <2> QED BY <1>7 DEF Delimits, P
<1> QED BY <1>6, <1>8 DEF P

\* Either way.
LEMMA ParseUnits ==
  ASSUME NEW us, AllSound(us), NEW size \in 0..4,
         \A i \in 1..Len(us) : size # 0 => FitsField(Len(us[i]), size),
         NEW r \in Seq(Nat), NEW c, Placed(c, Blocks(us, size), r),
         NEW k \in 0..Len(us), NEW b, Holds(b, r, c[k]),
         NEW bEnd \in BOOLEAN, bEnd => c[k] + Len(b) = Len(r)
  PROVE  /\ Parse(b, size, bEnd).ok => k < Len(us)
         /\ k < Len(us) => Delimits(b, size, bEnd, us[k + 1], c[k + 1] - c[k])
<1>1. CASE size = 0
  <2>1. CodesAt(c, us, r)
    BY <1>1, CodesPlaced
  <2> QED BY <1>1, <2>1, ParseCodes
<1>2. CASE size # 0
  <2>1. size \in 1..4 /\ \A i \in 1..Len(us) : FitsField(Len(us[i]), size)
    BY <1>2
  <2> QED BY <2>1, ParseLengths
<1> QED BY <1>1, <1>2

-----------------------------------------------------------------------------
(* The parser at work.                                                      *)

\* The units are sound and fit the length field.
Fit(us, size) ==
    /\ AllSound(us) /\ size \in 0..4
    /\ \A i \in 1..Len(us) : size # 0 => FitsField(Len(us[i]), size)

\* r is the stream of us; what is in the buffer and still to come is what follows the
\* first k units in it.
Left(us, size, c, r, k, b, rest) ==
    /\ Fit(us, size) /\ r \in Seq(Nat) /\ Placed(c, Blocks(us, size), r)
    /\ k \in 0..Len(us)
    /\ Holds(b, r, c[k])
    /\ rest \in Seq(Nat) /\ c[k] + Len(b) + Len(rest) = Len(r)
    /\ \A j \in 1..Len(rest) : rest[j] = r[c[k] + Len(b) + j]

\* The units found are those written, and the bytes behind them follow them.
FoundInv ==
    /\ \E S : units \in Seq(S)
    /\ Len(units) <= Len(WrittenUnits)
    /\ \A i \in 1..Len(units) : units[i].unit = WrittenUnits[i]
    /\ \E c, r : Left(WrittenUnits, LengthSize, c, r, Len(units), buffer, coming)

\* More bytes of the stream arrive.
LEMMA LeftArrive ==
  ASSUME NEW us, NEW size, NEW c, NEW r, NEW k, NEW b, NEW rest, Left(us, size, c, r, k, b, rest),
         NEW n \in 1..Len(rest)
  PROVE  Left(us, size, c, r, k, b \o SubSeq(rest, 1, n), SubSeq(rest, n + 1, Len(rest)))
<1> DEFINE m == Len(b)
           l == Len(rest)
           o == c[k]
           x == SubSeq(rest, 1, n)
           y == SubSeq(rest, n + 1, l)
           b2 == b \o x
<1>1. /\ b \in Seq(Nat) /\ m \in Nat /\ o \in Nat /\ rest \in Seq(Nat) /\ l \in Nat
      /\ o + m + l = Len(r) /\ n \in Nat /\ 1 <= n /\ n <= l
      /\ \A j \in 1..m : b[j] = r[o + j]
      /\ \A j \in 1..l : rest[j] = r[o + m + j]
  <2>1. /\ Holds(b, r, o) /\ rest \in Seq(Nat) /\ o + m + l = Len(r)
        /\ \A j \in 1..l : rest[j] = r[o + m + j]
    BY DEF Left
  <2>2. b \in Seq(Nat) /\ o \in Nat /\ \A j \in 1..m : b[j] = r[o + j]
    BY <2>1 DEF Holds
  <2>3. m \in Nat /\ l \in Nat
    BY <2>1, <2>2
  <2> HIDE DEF l
  <2>4. n \in Nat /\ 1 <= n /\ n <= l
    BY <2>3 DEF l
  <2> QED BY <2>1, <2>2, <2>3, <2>4
<1> HIDE DEF m, l, o
<1>2. x \in Seq(Nat) /\ Len(x) = n /\ \A j \in 1..n : x[j] = rest[j]
  <2>1. n <= Len(rest)
    BY <1>1 DEF l
  <2> QED BY <1>1, <2>1, FrontPart
<1>3. y \in Seq(Nat) /\ Len(y) = l - n /\ \A j \in 1..(l - n) : y[j] = rest[n + j]
  <2>1. l <= Len(rest)
    BY <1>1 DEF l
  <2> QED BY <1>1, <2>1, Part
<1> HIDE DEF x, y
<1>4. /\ b2 \in Seq(Nat) /\ Len(b2) = m + n
      /\ \A j \in 1..m : b2[j] = b[j]
      /\ \A j \in 1..n : b2[m + j] = x[j]
  <2>1. m = Len(b)
    BY DEF m
  <2>2. /\ b2 \in Seq(Nat) /\ Len(b2) = Len(b) + Len(x)
        /\ \A j \in 1..Len(b) : b2[j] = b[j]
        /\ \A j \in 1..Len(x) : b2[Len(b) + j] = x[j]
    <3>1. b \in Seq(Nat) /\ x \in Seq(Nat)
      BY <1>1, <1>2
    <3> QED BY <3>1, Concat
  <2> HIDE DEF b2
  <2> QED BY <1>2, <2>1, <2>2
<1> HIDE DEF b2
<1>5. ASSUME NEW j \in 1..(m + n) PROVE b2[j] = r[o + j]
  <2>1. CASE j <= m
    <3>1. j \in 1..m BY <1>1, <2>1
    <3> QED BY <1>1, <1>4, <3>1
  <2>2. CASE j > m
    <3> DEFINE i == j - m
    <3>1. i \in 1..n /\ i \in 1..l /\ j = m + i /\ o + m + i = o + j BY <1>1, <2>2
    <3> HIDE DEF i
    <3>2. b2[j] = x[i] /\ x[i] = rest[i] /\ rest[i] = r[o + m + i] BY <1>1, <1>2, <1>4, <3>1
    <3> QED BY <3>1, <3>2
  <2> QED BY <1>1, <2>1, <2>2
<1>6. ASSUME NEW j \in 1..(l - n) PROVE y[j] = r[o + (m + n) + j]
  <2>1. n + j \in 1..l /\ o + m + (n + j) = o + (m + n) + j BY <1>1
  <2> QED BY <1>1, <1>3, <2>1
<1>7. Holds(b2, r, o)
  <2>1. o + (m + n) <= Len(r) BY <1>1
  <2> QED BY <1>1, <1>4, <1>5, <2>1 DEF Holds
<1>8. o + Len(b2) + Len(y) = Len(r)
  <2>1. Len(b2) = m + n /\ Len(y) = l - n
    BY <1>3, <1>4
  <2>2. o + (m + n) + (l - n) = Len(r)
    <3>1. o \in Nat /\ m \in Nat /\ n \in Nat /\ l \in Nat /\ o + m + l = Len(r)
      BY <1>1
    <3>2. o + (m + n) + (l - n) = o + m + l
      BY <3>1
    <3> QED BY <3>1, <3>2
  <2> QED BY <2>1, <2>2
<1>9. Left(us, size, c, r, k, b2, y)
  BY <1>3, <1>4, <1>6, <1>7, <1>8 DEF Left, o
<1> QED BY <1>9 DEF b2, x, y, l

\* The next unit is taken from the buffer.
LEMMA LeftNext ==
  ASSUME NEW us, NEW size, NEW c, NEW r, NEW k, NEW b, NEW rest, Left(us, size, c, r, k, b, rest),
         NEW P, P = Parse(b, size, rest = <<>>), P.ok
  PROVE  /\ k < Len(us)
         /\ SubSeq(b, P.start + 1, P.start + P.cBytes) = us[k + 1]
         /\ Left(us, size, c, r, k + 1, SubSeq(b, P.start + P.cBytes + 1, Len(b)), rest)
<1> DEFINE m == Len(b)
           n == k + 1
           u == us[n]
           s == P.start
           end == c[n] - c[k]
           y == SubSeq(b, end + 1, m)
<1>1. /\ Fit(us, size) /\ r \in Seq(Nat) /\ Placed(c, Blocks(us, size), r)
      /\ k \in 0..Len(us) /\ Holds(b, r, c[k])
      /\ rest \in Seq(Nat) /\ c[k] + m + Len(rest) = Len(r)
      /\ \A j \in 1..Len(rest) : rest[j] = r[c[k] + m + j]
  BY DEF Left
<1>2. /\ AllSound(us) /\ size \in 0..4 /\ us \in Seq(Seq(Nat)) /\ Len(us) \in Nat
      /\ \A i \in 1..Len(us) : size # 0 => FitsField(Len(us[i]), size)
  BY <1>1 DEF Fit, AllSound
<1>3. /\ b \in Seq(Nat) /\ m \in Nat /\ c[k] \in Nat /\ c[k] + m <= Len(r)
      /\ \A j \in 1..m : b[j] = r[c[k] + j]
  BY <1>1 DEF Holds
<1>4. rest = <<>> => c[k] + m = Len(r)
  BY <1>1, <1>3
<1>5. k < Len(us) /\ Delimits(b, size, rest = <<>>, u, end)
  <2>1. (rest = <<>>) \in BOOLEAN
    OBVIOUS
  <2> DEFINE bEnd == rest = <<>>
  <2>2. bEnd \in BOOLEAN /\ (bEnd => c[k] + Len(b) = Len(r)) /\ P = Parse(b, size, bEnd)
    BY <1>4, <2>1
  <2> HIDE DEF bEnd
  <2>3. /\ Parse(b, size, bEnd).ok => k < Len(us)
        /\ k < Len(us) => Delimits(b, size, bEnd, us[k + 1], c[k + 1] - c[k])
    BY <1>1, <1>2, <2>2, ParseUnits
  <2>4. k < Len(us) /\ Delimits(b, size, bEnd, u, end)
    BY <2>2, <2>3
  <2> QED BY <2>4 DEF bEnd
<1>6. n \in 1..Len(us) /\ n \in 0..Len(us) /\ n - 1 = k
  BY <1>1, <1>2, <1>5
<1>7. u \in Seq(Nat) /\ Len(u) \in Nat
  <2>1. u \in Seq(Nat) BY <1>2, <1>6
  <2> HIDE DEF u
  <2> QED BY <2>1
<1>8. /\ s \in Nat /\ P.cBytes = Len(u) /\ s + P.cBytes = end /\ end <= m
      /\ \A j \in 1..Len(u) : b[s + j] = u[j]
  BY <1>5 DEF Delimits
<1>9. c[n] \in Nat /\ c[n] <= Len(r) /\ Len(r) \in Nat
  <2>1. Len(Blocks(us, size)) = Len(us)
    BY <1>2, BlocksType
  <2> QED BY <1>1, <1>6, <2>1 DEF Placed
<1> HIDE DEF u, n, s
<1>10. SubSeq(b, s + 1, s + P.cBytes) = u
  <2> DEFINE z == s + Len(u)
             v == SubSeq(b, s + 1, z)
  <2>1. s \in Nat /\ z \in Nat /\ s <= z /\ z - s = Len(u)
    BY <1>7, <1>8
  <2>2. z <= Len(b)
    BY <1>8
  <2> HIDE DEF z
  <2>3. v \in Seq(Nat) /\ Len(v) = z - s /\ \A j \in 1..(z - s) : v[j] = b[s + j]
    BY <1>3, <2>1, <2>2, Part
  <2> HIDE DEF v
  <2>4. Len(v) = Len(u) /\ \A j \in 1..Len(v) : v[j] = u[j]
    BY <1>8, <2>1, <2>3
  <2>5. v = u
    BY <1>7, <2>3, <2>4, SameSeq
  <2> QED BY <1>8, <2>5 DEF v, z
<1>11. end \in Nat /\ c[n] = c[k] + end
  BY <1>3, <1>7, <1>8, <1>9
<1> HIDE DEF end
<1>12. y \in Seq(Nat) /\ Len(y) = m - end /\ \A j \in 1..(m - end) : y[j] = b[end + j]
  <2>1. m \in Nat /\ end \in Nat /\ end <= m /\ m <= Len(b)
    BY <1>3, <1>8, <1>11
  <2> HIDE DEF m
  <2> QED BY <1>3, <2>1, Part
<1> HIDE DEF y, m
<1>13. ASSUME NEW j \in 1..(m - end) PROVE y[j] = r[c[n] + j]
  <2>1. end + j \in 1..m /\ c[k] + (end + j) = c[n] + j BY <1>3, <1>8, <1>11
  <2> QED BY <1>3, <1>12, <2>1
<1>14. Holds(y, r, c[n])
  <2>1. c[n] + (m - end) <= Len(r) BY <1>3, <1>8, <1>11
  <2> QED BY <1>9, <1>12, <1>13, <2>1 DEF Holds
<1>15. c[n] + Len(y) + Len(rest) = Len(r) /\ c[n] + Len(y) = c[k] + m
  <2>1. Len(rest) \in Nat /\ Len(r) \in Nat /\ Len(y) = m - end /\ m \in Nat /\ c[k] \in Nat
        /\ c[k] + m + Len(rest) = Len(r) /\ end \in Nat /\ c[n] = c[k] + end
    BY <1>1, <1>3, <1>11, <1>12
  <2>2. (c[k] + end) + (m - end) + Len(rest) = Len(r) /\ (c[k] + end) + (m - end) = c[k] + m
    BY <2>1
  <2> QED BY <2>1, <2>2
<1>16. \A j \in 1..Len(rest) : rest[j] = r[c[n] + Len(y) + j]
  BY <1>1, <1>15
<1>17. Left(us, size, c, r, n, y, rest)
  BY <1>1, <1>6, <1>14, <1>15, <1>16 DEF Left
<1> QED BY <1>5, <1>8, <1>10, <1>17 DEF n, u, s, y, m

\* What an encoder writes is sound and fits.
LEMMA WrittenFit ==
  ASSUME Init
  PROVE  Fit(WrittenUnits, LengthSize) /\ DOMAIN WrittenUnits = DOMAIN written
<1>1. PICK ct \in Contents : config = ct.config /\ written = ct.units
  BY DEF Init
<1>2. LengthSize \in LengthSizes /\ LengthSize \in 0..4
  BY ContentsAssumption DEF Init
<1>3. written \in Seq(Slices \cup Messages) /\ config.sps.log2frame \in 0..12
  BY <1>1, ContentsAssumption
<1>4. \A i \in DOMAIN written, size \in LengthSizes \ {0} :
         FitsField(Len(UnitOf(written[i], config.sps.log2frame + 4)), size)
  BY <1>1, ContentsAssumption DEF FitsField
<1> DEFINE S == Slices \cup Messages
           bits == config.sps.log2frame + 4
           W == WrittenUnits
           l == Len(written)
<1>5. written \in Seq(S) /\ bits \in Nat
  BY <1>3
<1> HIDE DEF S
<1>6. l \in Nat /\ DOMAIN written = 1..l /\ \A i \in 1..l : written[i] \in S
  BY <1>5
<1>7. W = [i \in 1..l |-> UnitOf(written[i], bits)]
  BY <1>6 DEF WrittenUnits
<1> HIDE DEF W, l, bits
<1>8. \A i \in 1..l : Sound(UnitOf(written[i], bits))
  BY <1>5, <1>6, UnitsSound DEF S
<1>9. W \in Seq(Seq(Nat)) /\ Len(W) = l /\ \A i \in 1..l : W[i] = UnitOf(written[i], bits)
  <2>1. \A i \in 1..l : UnitOf(written[i], bits) \in Seq(Nat)
    BY <1>8 DEF Sound
  <2> QED BY <1>6, <1>7, <2>1
<1>10. AllSound(W)
  BY <1>8, <1>9 DEF AllSound
<1>11. \A i \in 1..l : LengthSize # 0 => FitsField(Len(W[i]), LengthSize)
  BY <1>2, <1>4, <1>6, <1>9, SMTT(30) DEF bits
<1>12. DOMAIN W = 1..l
  BY <1>7
<1> QED BY <1>2, <1>6, <1>9, <1>10, <1>11, <1>12 DEF Fit, W

\* In the beginning the whole stream is still to come.
LEMMA FoundInit == Init => FoundInv
<1> SUFFICES ASSUME Init PROVE FoundInv
  OBVIOUS
<1> DEFINE us == WrittenUnits
           size == LengthSize
           q == Blocks(us, size)
           r == FlattenSeq(q)
<1>1. Fit(us, size) /\ DOMAIN us = DOMAIN written
  BY WrittenFit
<1>2. coming = r
  BY <1>1 DEF Init, Blocks
<1>3. buffer = <<>> /\ units = <<>>
  BY DEF Init
<1> HIDE DEF us, size
<1>4. q \in Seq(Seq(Nat)) /\ Len(q) = Len(us) /\ Len(us) \in Nat
  <2>1. AllSound(us) /\ size \in 0..4 /\ Len(us) \in Nat
        /\ \A i \in 1..Len(us) : size # 0 => FitsField(Len(us[i]), size)
    BY <1>1 DEF Fit, AllSound
  <2> QED BY <2>1, BlocksType
<1> HIDE DEF q
<1>5. PICK c : Placed(c, q, r)
  BY <1>4, Flattened
<1>6. r \in Seq(Nat) /\ c[0] = 0
  BY <1>4, <1>5, Flattened DEF Placed
<1> HIDE DEF r
<1>7. Len(<<>>) = 0 /\ <<>> \in Seq(Nat) /\ \A j \in Nat : 0 + 0 + j = j
  OBVIOUS
<1>8. Holds(<<>>, r, c[0])
  BY <1>6, <1>7 DEF Holds
<1>9. Left(us, size, c, r, 0, <<>>, r)
  <2>1. 0 \in 0..Len(us) BY <1>4
  <2>2. c[0] + Len(<<>>) + Len(r) = Len(r) BY <1>6, <1>7
  <2>3. \A j \in 1..Len(r) : r[j] = r[c[0] + Len(<<>>) + j] BY <1>6, <1>7
  <2> QED BY <1>1, <1>5, <1>6, <1>8, <2>1, <2>2, <2>3 DEF Left, q
<1>10. Len(units) = 0 /\ units \in Seq(Nat)
  BY <1>3, <1>7
<1>11. \E c1, r1 : Left(us, size, c1, r1, Len(units), buffer, coming)
  BY <1>2, <1>3, <1>9, <1>10
<1> QED BY <1>4, <1>10, <1>11 DEF FoundInv, us, size

\* Every step keeps it.
LEMMA FoundStep == FoundInv /\ [Next]_vars => FoundInv'
<1> SUFFICES ASSUME FoundInv, [Next]_vars PROVE FoundInv'
  OBVIOUS
<1> DEFINE us == WrittenUnits
           size == LengthSize
<1>0. PICK S, c, r : units \in Seq(S) /\ Left(us, size, c, r, Len(units), buffer, coming)
  BY DEF FoundInv
<1>f. /\ Len(units) <= Len(us)
      /\ \A i \in 1..Len(units) : units[i].unit = us[i]
  BY DEF FoundInv
<1>1. us' = us /\ size' = size
  BY DEF Next, MakeSDP, Arrive, NextUnit, vars, WrittenUnits
<1> HIDE DEF us, size
<1>2. CASE UNCHANGED <<units, buffer, coming>>
  BY <1>0, <1>1, <1>2, <1>f DEF FoundInv, us, size
<1>3. CASE Arrive
  <2>1. PICK n \in 1..Len(coming) :
           /\ buffer' = buffer \o SubSeq(coming, 1, n)
           /\ coming' = SubSeq(coming, n + 1, Len(coming)) /\ units' = units
    BY <1>3 DEF Arrive
  <2>2. Left(us, size, c, r, Len(units), buffer', coming')
    BY <1>0, <2>1, LeftArrive
  <2> QED BY <1>0, <1>1, <1>f, <2>1, <2>2 DEF FoundInv, us, size
<1>4. CASE NextUnit
  <2> DEFINE P == Parse(buffer, LengthSize, coming = <<>>)
             h == Header(SubSeq(buffer, P.start + 1, P.start + P.cBytes))
             e == [unit |-> SubSeq(buffer, P.start + 1, P.start + P.cBytes), header |-> h]
  <2>1. FirstUnit.ok /\ units' = Append(units, FirstUnit.unit) /\ buffer' = FirstUnit.rest
        /\ coming' = coming
    BY <1>4 DEF NextUnit
  <2>2. P.ok /\ FirstUnit = [ok |-> TRUE, unit |-> e,
                             rest |-> SubSeq(buffer, P.start + P.cBytes + 1, Len(buffer))]
    <3>1. FirstUnit = IF P.ok
                      THEN IF h = Hung THEN Hung
                           ELSE [ok |-> TRUE, unit |-> e,
                                 rest |-> SubSeq(buffer, P.start + P.cBytes + 1, Len(buffer))]
                      ELSE None
      BY DEF FirstUnit
    <3> HIDE DEF P, h, e
    <3>2. ~Hung.ok /\ ~None.ok
      BY DEF Hung, None
    <3> QED BY <2>1, <3>1, <3>2
  <2> HIDE DEF h
  <2>3. /\ FirstUnit.unit.unit = SubSeq(buffer, P.start + 1, P.start + P.cBytes)
        /\ FirstUnit.rest = SubSeq(buffer, P.start + P.cBytes + 1, Len(buffer))
    <3> HIDE DEF P
    <3> QED BY <2>2
  <2> DEFINE f == FirstUnit.unit
             k == Len(units)
  <2>4. P = Parse(buffer, size, coming = <<>>)
    BY DEF size
  <2>5. /\ k < Len(us) /\ f.unit = us[k + 1]
        /\ Left(us, size, c, r, k + 1, buffer', coming)
    <3> HIDE DEF P, k
    <3>1. Left(us, size, c, r, k, buffer, coming) /\ P = Parse(buffer, size, coming = <<>>) /\ P.ok
      BY <1>0, <2>2, <2>4 DEF k
    <3>2. /\ k < Len(us)
          /\ SubSeq(buffer, P.start + 1, P.start + P.cBytes) = us[k + 1]
          /\ Left(us, size, c, r, k + 1, SubSeq(buffer, P.start + P.cBytes + 1, Len(buffer)), coming)
      BY <3>1, LeftNext
    <3> QED BY <2>1, <2>3, <3>2
  <2> HIDE DEF f, P
  <2>6. k \in Nat /\ Len(us) \in Nat
    BY <1>0 DEF Left, Fit, AllSound
  <2>7. /\ units' \in Seq(S \cup {f}) /\ Len(units') = k + 1 /\ units'[k + 1] = f
        /\ \A i \in 1..k : units'[i] = units[i]
    <3>1. units' = Append(units, f) BY <2>1 DEF f
    <3>2. units \in Seq(S \cup {f}) /\ f \in S \cup {f} BY <1>0
    <3> QED BY <3>1, <3>2, AppendProperties
  <2>8. \A i \in 1..(k + 1) : i \in 1..k \/ i = k + 1
    BY <2>6
  <2>9. \A i \in 1..Len(units') : units'[i].unit = us[i]
    BY <1>f, <2>5, <2>7, <2>8
  <2>10. Len(units') <= Len(us)
    BY <2>5, <2>6, <2>7
  <2>11. Left(us, size, c, r, Len(units'), buffer', coming')
    BY <2>1, <2>5, <2>7
  <2> QED BY <1>1, <2>7, <2>9, <2>10, <2>11 DEF FoundInv, us, size
<1>5. CASE MakeSDP
  BY <1>2, <1>5 DEF MakeSDP
<1>6. CASE UNCHANGED vars
  BY <1>2, <1>6 DEF vars
<1> QED BY <1>3, <1>4, <1>5, <1>6 DEF Next

\* However the bytes arrive, NALUnit::Parse finds the units that were written, each with
\* all its bytes and none of the zeros of the next start code, for any slices and SEI
\* messages, with start codes or length fields.
THEOREM UnitsWhole == Spec => []UnitsAsWritten
<1>1. Spec => []FoundInv
  BY FoundInit, FoundStep, PTL DEF Spec
<1>2. FoundInv => UnitsAsWritten
  <2> SUFFICES ASSUME FoundInv PROVE UnitsAsWritten
    OBVIOUS
  <2> DEFINE us == WrittenUnits
             s == [i \in DOMAIN units |-> units[i].unit]
             k == Len(units)
  <2>1. PICK S, c, r : units \in Seq(S) /\ Left(us, LengthSize, c, r, k, buffer, coming)
    BY DEF FoundInv
  <2>2. k <= Len(us) /\ \A i \in 1..k : units[i].unit = us[i]
    BY DEF FoundInv
  <2>3. us \in Seq(Seq(Nat)) /\ Len(us) \in Nat
    BY <2>1 DEF Left, Fit, AllSound
  <2>4. DOMAIN units = 1..k /\ k \in Nat
    BY <2>1
  <2> HIDE DEF us, k
  <2>5. s \in Seq(Seq(Nat)) /\ Len(s) = k /\ \A i \in 1..k : s[i] = us[i]
    <3>1. \A i \in 1..k : us[i] \in Seq(Nat) /\ i \in 1..Len(us) BY <2>2, <2>3, <2>4
    <3> QED BY <2>2, <2>4, <3>1
  <2> HIDE DEF s
  <2>6. SubSeq(s, 1, k) = SubSeq(us, 1, k)
    <3> DEFINE x == SubSeq(s, 1, k)
               y == SubSeq(us, 1, k)
    <3>1. CASE k = 0
      <4>1. x = <<>> /\ y = <<>> BY <2>3, <2>5, <3>1
      <4> QED BY <4>1
    <3>2. CASE k # 0
      <4>1. 1 \in 1..Len(s) /\ k \in 1..Len(s) /\ 1 \in 1..Len(us) /\ k \in 1..Len(us)
        BY <2>2, <2>3, <2>4, <2>5, <3>2
      <4>2. x \in Seq(Seq(Nat)) /\ Len(x) = k /\ \A i \in 1..k : x[i] = s[i]
        BY <2>4, <2>5, <4>1
      <4>3. y \in Seq(Seq(Nat)) /\ Len(y) = k /\ \A i \in 1..k : y[i] = us[i]
        BY <2>3, <2>4, <4>1
      <4> HIDE DEF x, y
      <4> QED BY <2>5, <4>2, <4>3
    <3> QED BY <3>1, <3>2
  <2> QED BY <2>2, <2>5, <2>6 DEF UnitsAsWritten, IsPrefix, us, s
<1> QED BY <1>1, <1>2, PTL

=============================================================================
