--------------------------- MODULE AVEncoderProofs ---------------------------
(***************************************************************************)
(* Proofs about AVEncoder, for any number of frames, units of any length,  *)
(* any atoms before mdat, and flushes to the disk at any moment.           *)
(***************************************************************************)
EXTENDS AVEncoder, FiniteSetTheorems, SequenceTheorems, WellFoundedInduction, TLAPS

Units == [frame : Nat, unit : Nalus]

Cell == {[kind |-> "data"]}
          \cup [kind : {"atom"}, name : {"other", "mdat"}, size : Nat]
          \cup [kind : {"length"}, nalu : Units]

AtomCell(name, size) == [kind |-> "atom", name |-> name, size |-> size]
LengthCell(nalu) == [kind |-> "length", nalu |-> nalu]

\* Places in a file.
Places == [Nat -> Nat]

-----------------------------------------------------------------------------
(* Sequences of sequences.                                                  *)

\* Some number in a set of naturals is the least.
LEMMA LeastNumber ==
  ASSUME NEW S \in SUBSET Nat, S # {}
  PROVE  \E i \in S : \A j \in S : i <= j
<1>1. PICK n \in S : TRUE
  OBVIOUS
<1> DEFINE I == 0 .. n
           up(i) == S \cap (0 .. i)
           F == {up(i) : i \in S \cap I}
           R == StrictSubsetOrdering(I)
<1>2. n \in Nat /\ IsFiniteSet(I)
  BY FS_Interval
<1>3. IsWellFoundedOn(R, SUBSET I)
  BY <1>2, FS_StrictSubsetOrderingWellFounded, FS_FiniteSubsetsOfFinite
<1>4. F \subseteq SUBSET I /\ F # {}
  <2>1. n \in S \cap I
    BY <1>2
  <2>2. \A i \in S \cap I : up(i) \subseteq I
    BY <1>2
  <2> QED BY <2>1, <2>2
<1>5. PICK x \in F : \A y \in F : <<y, x>> \notin R
  <2> HIDE DEF F, R
  <2> QED BY <1>3, <1>4, WFMin
<1>6. PICK i \in S \cap I : x = up(i)
  OBVIOUS
<1>7. ASSUME NEW j \in S, j < i PROVE FALSE
  <2>1. j \in S \cap I /\ i \in Nat /\ j \in Nat
    BY <1>2, <1>7
  <2>2. up(j) \subseteq up(i) /\ i \in up(i) /\ i \notin up(j)
    BY <1>7, <2>1
  <2>3. up(i) \subseteq I /\ up(j) \subseteq I
    BY <1>2, <2>1
  <2> HIDE DEF I, up
  <2>4. <<up(j), x>> \in R
    BY <1>6, <2>2, <2>3 DEF StrictSubsetOrdering
  <2>5. up(j) \in F
    BY <2>1
  <2> QED BY <1>5, <2>4, <2>5
<1>8. i \in Nat /\ \A j \in S : j \in Nat
  OBVIOUS
<1> QED BY <1>7, <1>8

\* The first sequences of q joined together, by their number.
Joined(q) == CHOOSE g : g = [i \in 1..Len(q) |-> IF i = 1 THEN q[i] ELSE g[i - 1] \o q[i]]

\* g has them up to number m.
Joins(g, q, m) ==
    \A i \in 1..m : g[i] = IF i = 1 THEN q[i] ELSE g[i - 1] \o q[i]

\* They can be joined.
LEMMA JoinedExists ==
  ASSUME NEW S, NEW q \in Seq(Seq(S))
  PROVE  Joined(q) \in [1..Len(q) -> Seq(S)] /\ Joins(Joined(q), q, Len(q))
<1> DEFINE Can(m) == \E g \in [1..m -> Seq(S)] : Joins(g, q, m)
           Bad == {m \in 0..Len(q) : ~Can(m)}
<1>1. Len(q) \in Nat /\ \A i \in 1..Len(q) : q[i] \in Seq(S)
  OBVIOUS
<1>2. Bad = {}
  <2> SUFFICES ASSUME Bad # {} PROVE FALSE
    OBVIOUS
  <2>1. Bad \subseteq Nat
    BY <1>1
  <2>2. PICK m \in Bad : \A n \in Bad : m <= n
    <3> HIDE DEF Bad
    <3> QED BY <2>1, LeastNumber
  <2>3. m # 0
    <3>1. [i \in 1..0 |-> <<>>] \in [1..0 -> Seq(S)] /\ Joins([i \in 1..0 |-> <<>>], q, 0)
      BY DEF Joins
    <3>2. Can(0)
      BY <3>1
    <3> QED BY <2>2, <3>2
  <2>4. m \in Nat /\ m - 1 \in 0..Len(q) /\ m \in 1..Len(q) /\ ~(m <= m - 1)
    BY <1>1, <2>1, <2>2, <2>3
  <2>5. PICK g \in [1..(m - 1) -> Seq(S)] : Joins(g, q, m - 1)
    BY <2>2, <2>4
  <2> DEFINE last == IF m = 1 THEN q[m] ELSE g[m - 1] \o q[m]
             h == [i \in 1..m |-> IF i = m THEN last ELSE g[i]]
  <2>6. last \in Seq(S)
    <3>1. CASE m = 1 BY <1>1, <2>4, <3>1
    <3>2. CASE m # 1
      <4>1. m - 1 \in 1..(m - 1) BY <2>4, <3>2
      <4>2. g[m - 1] \in Seq(S) /\ q[m] \in Seq(S) BY <1>1, <2>4, <4>1
      <4> QED BY <3>2, <4>2
    <3> QED BY <3>1, <3>2
  <2>7. \A i \in 1..m : i # m => i \in 1..(m - 1)
    BY <2>4
  <2>8. h \in [1..m -> Seq(S)]
    BY <2>6, <2>7
  <2>9. ASSUME NEW i \in 1..m
        PROVE  h[i] = IF i = 1 THEN q[i] ELSE h[i - 1] \o q[i]
    <3>1. CASE i = m /\ m = 1
      BY <2>4, <3>1
    <3>2. CASE i = m /\ m # 1
      <4>1. m - 1 \in 1..m /\ m - 1 # m BY <2>4, <3>2
      <4> QED BY <2>4, <3>2, <4>1
    <3>3. CASE i # m
      <4>1. i \in 1..(m - 1) BY <2>7, <3>3
      <4>2. i # 1 => i - 1 \in 1..m /\ i - 1 # m BY <2>4, <4>1
      <4>3. g[i] = IF i = 1 THEN q[i] ELSE g[i - 1] \o q[i] BY <2>5, <4>1 DEF Joins
      <4> QED BY <3>3, <4>2, <4>3
    <3> QED BY <3>1, <3>2, <3>3
  <2>10. Joins(h, q, m)
    <3> HIDE DEF h
    <3> QED BY <2>9 DEF Joins
  <2>11. Can(m)
    <3> HIDE DEF h
    <3> QED BY <2>8, <2>10
  <2> QED BY <2>2, <2>11
<1>3. PICK g \in [1..Len(q) -> Seq(S)] : Joins(g, q, Len(q))
  BY <1>1, <1>2
<1>4. g = [i \in 1..Len(q) |-> IF i = 1 THEN q[i] ELSE g[i - 1] \o q[i]]
  BY <1>3 DEF Joins
<1>5. Joined(q) = [i \in 1..Len(q) |-> IF i = 1 THEN q[i] ELSE Joined(q)[i - 1] \o q[i]]
  BY <1>4, Zenon DEF Joined
<1>6. Joins(Joined(q), q, Len(q))
  BY <1>5 DEF Joins
<1>7. \A i \in 1..Len(q) : Joined(q)[i] = g[i]
  <2> DEFINE Wrong == {i \in 1..Len(q) : Joined(q)[i] # g[i]}
  <2> SUFFICES ASSUME Wrong # {} PROVE FALSE
    OBVIOUS
  <2>1. Wrong \subseteq Nat
    BY <1>1
  <2>2. PICK i \in Wrong : \A j \in Wrong : i <= j
    <3> HIDE DEF Wrong
    <3> QED BY <2>1, LeastNumber
  <2>3. CASE i = 1
    BY <1>3, <1>6, <2>2, <2>3 DEF Joins
  <2>4. CASE i # 1
    <3>1. i - 1 \in 1..Len(q) /\ ~(i <= i - 1)
      BY <1>1, <2>2, <2>4
    <3>2. Joined(q)[i - 1] = g[i - 1]
      BY <2>2, <3>1
    <3>3. i \in 1..Len(q) /\ Joined(q)[i] # g[i]
      BY <2>2
    <3>4. Joined(q)[i] = Joined(q)[i - 1] \o q[i]
      BY <1>6, <2>4, <3>3, ZenonT(30) DEF Joins
    <3>5. g[i] = g[i - 1] \o q[i]
      BY <1>3, <2>4, <3>3, ZenonT(30) DEF Joins
    <3> QED BY <3>2, <3>3, <3>4, <3>5
  <2> QED BY <2>3, <2>4
<1>8. Joined(q) = g
  <2>1. DOMAIN Joined(q) = 1..Len(q) /\ Joined(q) = [i \in 1..Len(q) |-> Joined(q)[i]]
    BY <1>5
  <2> QED BY <1>3, <1>7, <2>1
<1> QED BY <1>3, <1>8

\* The places where the sequences of q begin in the sequence r; q has l of them.
Begin(q, l, r, c) ==
    /\ c \in Places /\ c[1] = 0
    /\ \A n \in 1..l :
          /\ c[n + 1] = c[n] + Len(q[n]) /\ c[n + 1] <= Len(r)
          /\ \A i \in 1..Len(q[n]) : r[c[n] + i] = q[n][i]
    /\ Len(r) = c[l + 1]

\* The last of the joined sequences has them all, one behind the other.
LEMMA LastJoined ==
  ASSUME NEW S, NEW l \in Nat \ {0}, NEW q \in [1..l -> Seq(S)],
         NEW J \in [1..l -> Seq(S)], Joins(J, q, l)
  PROVE  J[l] \in Seq(S) /\ \E c : Begin(q, l, J[l], c)
<1>0. l \in Nat /\ l \in 1..l /\ \A i \in 1..l : q[i] \in Seq(S) /\ Len(q[i]) \in Nat
  OBVIOUS
<1> DEFINE c == [n \in Nat |-> IF n \in 2..(l + 1) THEN Len(J[n - 1]) ELSE 0]
           r == J[l]
<1>2. J \in [1..l -> Seq(S)] /\ Joins(J, q, l)
  OBVIOUS
<1>3. \A n \in 1..l : J[n] \in Seq(S) /\ Len(J[n]) \in Nat
  BY <1>2
<1>4. c \in Places /\ c[1] = 0
  <2>1. \A n \in 2..(l + 1) : n - 1 \in 1..l
    BY <1>0
  <2> QED BY <1>3, <2>1 DEF Places
<1>5. \A n \in 1..l : c[n + 1] = Len(J[n])
  BY <1>0
<1> HIDE DEF c
<1>6. ASSUME NEW m \in 2..l
      PROVE  /\ m - 1 \in 1..l /\ m \in 1..l /\ m - 1 < m
             /\ Len(J[m]) = Len(J[m - 1]) + Len(q[m])
             /\ \A x \in 1..Len(J[m - 1]) : J[m][x] = J[m - 1][x]
             /\ \A x \in 1..Len(q[m]) : J[m][Len(J[m - 1]) + x] = q[m][x]
  <2>1. m - 1 \in 1..l /\ m \in 1..l /\ m - 1 < m /\ m # 1
    BY <1>0
  <2>2. J[m] = J[m - 1] \o q[m]
    BY <1>2, <2>1 DEF Joins
  <2>3. J[m - 1] \in Seq(S) /\ q[m] \in Seq(S)
    BY <1>0, <1>3, <2>1
  <2>4. Len(J[m - 1]) \in Nat /\ Len(q[m]) \in Nat
    BY <2>3
  <2> QED BY <2>1, <2>2, <2>3, <2>4, ConcatProperties
<1>7. ASSUME NEW n \in 1..l
      PROVE  /\ c[n + 1] = c[n] + Len(q[n]) /\ c[n] \in Nat
             /\ \A i \in 1..Len(q[n]) : J[n][c[n] + i] = q[n][i]
  <2>a. n \in Nat /\ n + 1 \in Nat
    OBVIOUS
  <2>0. n \in Nat /\ n + 1 \in Nat /\ c[n] \in Nat
    BY <1>4, <2>a DEF Places
  <2>1. CASE n = 1
    <3>1. J[1] = q[1]
      BY <1>2, <2>1 DEF Joins
    <3> QED BY <1>0, <1>4, <1>5, <2>1, <3>1
  <2>2. CASE n # 1
    <3>1. n \in 2..l /\ n - 1 \in 1..l /\ n = (n - 1) + 1
      BY <1>0, <2>2
    <3>2. c[n] = Len(J[n - 1]) /\ c[n + 1] = Len(J[n])
      BY <1>5, <3>1
    <3> QED BY <1>6, <2>0, <3>1, <3>2
  <2> QED BY <2>1, <2>2
<1>8. ASSUME NEW n \in 1..l
      PROVE  c[n + 1] <= Len(r) /\ \A i \in 1..Len(q[n]) : r[c[n] + i] = q[n][i]
  <2> DEFINE Good(m) == /\ Len(J[n]) <= Len(J[m])
                        /\ \A i \in 1..Len(q[n]) : J[m][c[n] + i] = q[n][i]
             Wrong == {m \in n..l : ~Good(m)}
  <2>0. /\ c[n + 1] = Len(J[n]) /\ Len(J[n]) \in Nat
        /\ \A i \in 1..Len(q[n]) : c[n] + i \in 1..Len(J[n])
    <3>1. c[n + 1] = Len(J[n]) /\ Len(J[n]) \in Nat /\ Len(q[n]) \in Nat
      BY <1>0, <1>3, <1>5
    <3>2. c[n] \in Nat /\ c[n + 1] = c[n] + Len(q[n])
      BY <1>7
    <3> QED BY <3>1, <3>2, SMTT(20)
  <2> SUFFICES ASSUME Wrong # {} PROVE FALSE
    <3>1. l \in n..l BY <1>0
    <3>2. CASE l \in Wrong BY <3>2
    <3>3. CASE l \notin Wrong
      <4>1. Good(l) BY <3>1, <3>3
      <4> QED BY <2>0, <4>1
    <3> QED BY <3>2, <3>3
  <2>1. Wrong \subseteq Nat
    BY <1>0
  <2>2. PICK m \in Wrong : \A j \in Wrong : m <= j
    <3> HIDE DEF Wrong
    <3> QED BY <2>1, LeastNumber
  <2>3. m \in n..l /\ ~Good(m) /\ \A j \in n..l : ~Good(j) => m <= j
    BY <2>2
  <2> HIDE DEF Wrong
  <2>4. m # n
    <3>1. \A i \in 1..Len(q[n]) : J[n][c[n] + i] = q[n][i]
      BY <1>7
    <3>2. Len(J[n]) <= Len(J[n])
      BY <2>0
    <3>3. Good(n)
      BY <3>1, <3>2
    <3> QED BY <2>3, <3>3
  <2>5. m - 1 \in n..l /\ m \in 2..l /\ ~(m <= m - 1)
    BY <1>0, <2>3, <2>4
  <2>6. Good(m - 1)
    BY <2>3, <2>5
  <2>7. /\ Len(J[m - 1]) \in Nat /\ Len(q[m]) \in Nat
        /\ Len(J[m]) = Len(J[m - 1]) + Len(q[m])
        /\ \A x \in 1..Len(J[m - 1]) : J[m][x] = J[m - 1][x]
    <3>1. m - 1 \in 1..l /\ m \in 1..l
      BY <1>6, <2>5
    <3> QED BY <1>0, <1>3, <1>6, <2>5, <3>1
  <2>8. Len(J[n]) <= Len(J[m - 1]) /\ Len(J[n]) <= Len(J[m])
    <3>1. Len(J[n]) <= Len(J[m - 1])
      BY <2>6
    <3> DEFINE u == Len(J[n])
               v == Len(J[m - 1])
               z == Len(J[m])
    <3>2. u \in Nat /\ v \in Nat /\ u <= v /\ \E y \in Nat : z = v + y
      BY <2>0, <2>7, <3>1
    <3>3. u <= z
      <4> HIDE DEF u, v, z
      <4> QED BY <3>2
    <3> QED BY <3>1, <3>3
  <2>9. ASSUME NEW i \in 1..Len(q[n]) PROVE J[m][c[n] + i] = q[n][i]
    <3>1. c[n] + i \in 1..Len(J[n])
      BY <2>0
    <3>2. c[n] + i \in 1..Len(J[m - 1])
      BY <2>0, <2>7, <2>8, <3>1
    <3>3. J[m - 1][c[n] + i] = q[n][i]
      BY <2>6
    <3> QED BY <2>7, <3>2, <3>3
  <2> QED BY <2>3, <2>8, <2>9
<1>9. l \in 1..l /\ r \in Seq(S) /\ Len(r) = c[l + 1]
  BY <1>0, <1>3, <1>5
<1>10. Begin(q, l, r, c)
  <2> HIDE DEF r
  <2> QED BY <1>4, <1>7, <1>8, <1>9 DEF Begin
<1> QED BY <1>9, <1>10

\* FlattenSeq puts the sequences one behind the other.
LEMMA Flattened ==
  ASSUME NEW S, NEW q \in Seq(Seq(S))
  PROVE  /\ FlattenSeq(q) \in Seq(S)
         /\ \E c : Begin(q, Len(q), FlattenSeq(q), c)
<1>1. CASE Len(q) = 0
  <2>1. FlattenSeq(q) = q /\ q = <<>>
    BY <1>1 DEF FlattenSeq
  <2>2. Begin(q, Len(q), q, [n \in Nat |-> 0])
    BY <1>1, <2>1 DEF Begin, Places
  <2> QED BY <2>1, <2>2
<1>2. CASE Len(q) # 0
  <2>1. FlattenSeq(q) = Joined(q)[Len(q)]
    BY <1>2 DEF FlattenSeq, Joined
  <2>2. Len(q) \in Nat \ {0} /\ q \in [1..Len(q) -> Seq(S)]
    BY <1>2
  <2>3. /\ Joined(q) \in [1..Len(q) -> Seq(S)]
        /\ Joins(Joined(q), q, Len(q))
    BY JoinedExists
  <2> QED BY <2>1, <2>2, <2>3, LastJoined
<1> QED BY <1>1, <1>2

-----------------------------------------------------------------------------
(* What is in a file.                                                       *)

\* Places m[a[n] + 1] with the headers of the atoms: those before mdat, then mdat itself.
AtomsAt(a, m) ==
    /\ a \in Places /\ a[1] = 0
    /\ \A n \in 1..Len(Preamble) :
          /\ a[n + 1] = a[n] + Preamble[n] /\ a[n] + AtomHeader <= Len(m)
          /\ m[a[n] + 1] = AtomCell("other", Preamble[n])
    /\ m[a[Len(Preamble) + 1] + 1] = AtomCell("mdat", 0)
    /\ Len(m) = a[Len(Preamble) + 1] + AtomHeader

\* Places s[c[u] + 1] with the lengths of the units of a frame.
UnitsAt(c, nalus, s) ==
    /\ c \in Places /\ c[1] = 0
    /\ \A u \in 1..Len(nalus) :
          /\ c[u + 1] = c[u] + LengthSize + nalus[u].unit.length /\ c[u + 1] <= Len(s)
          /\ s[c[u] + 1] = LengthCell(nalus[u])
    /\ Len(s) = c[Len(nalus) + 1]

\* The elements of two sequences put together.
LEMMA Together ==
  ASSUME NEW S, NEW s \in Seq(S), NEW t \in Seq(S)
  PROVE  /\ s \o t \in Seq(S) /\ Len(s \o t) = Len(s) + Len(t)
         /\ \A x \in 1..Len(s) : (s \o t)[x] = s[x]
         /\ \A x \in 1..Len(t) : (s \o t)[Len(s) + x] = t[x]
         /\ Len(s) \in Nat /\ Len(t) \in Nat
<1>1. Len(s) \in Nat /\ Len(t) \in Nat
  OBVIOUS
<1>2. \A x \in 1..Len(s) : x \in 1..(Len(s) + Len(t)) /\ x <= Len(s)
  BY <1>1
<1>3. \A x \in 1..Len(t) : /\ Len(s) + x \in 1..(Len(s) + Len(t)) /\ ~(Len(s) + x <= Len(s))
                           /\ (Len(s) + x) - Len(s) = x
  BY <1>1
<1> QED BY <1>1, <1>2, <1>3, ConcatProperties

\* Bytes without a header.
LEMMA DataCells ==
  ASSUME NEW n \in Nat
  PROVE  Data(n) \in Seq(Cell) /\ Len(Data(n)) = n
<1>1. [kind |-> "data"] \in Cell
  BY DEF Cell
<1>2. Data(n) \in [1..n -> Cell]
  BY <1>1 DEF Data
<1> QED BY <1>2

\* A cell and then data.
LEMMA CellAndData ==
  ASSUME NEW x \in Cell, NEW n \in Nat
  PROVE  /\ <<x>> \o Data(n) \in Seq(Cell)
         /\ Len(<<x>> \o Data(n)) = n + 1
         /\ (<<x>> \o Data(n))[1] = x
<1>1. <<x>> \in Seq(Cell) /\ Len(<<x>>) = 1 /\ <<x>>[1] = x
  OBVIOUS
<1> HIDE DEF Cell
<1> QED BY <1>1, DataCells, ConcatProperties

\* The header of an atom.
LEMMA AtomCells ==
  ASSUME NEW name \in {"other", "mdat"}, NEW size \in Nat
  PROVE  /\ Atom(name, size) \in Seq(Cell)
         /\ Len(Atom(name, size)) = AtomHeader
         /\ Atom(name, size)[1] = AtomCell(name, size)
<1>1. AtomCell(name, size) \in Cell
  BY DEF Cell, AtomCell
<1>2. AtomHeader - 1 \in Nat /\ (AtomHeader - 1) + 1 = AtomHeader
  BY EncoderAssumption
<1> QED BY <1>1, <1>2, CellAndData DEF Atom, AtomCell

\* A new movie has its atoms one behind the other (NewMovie).
LEMMA MovieCells ==
  NewMovie \in Seq(Cell) /\ \E a : AtomsAt(a, NewMovie)
<1> DEFINE A(n) == Atom("other", Preamble[n]) \o Data(Preamble[n] - AtomHeader)
           k == Len(Preamble)
           q == [n \in 1..k |-> A(n)]
           r == FlattenSeq(q)
           m == Atom("mdat", 0)
<1>1. k \in Nat /\ AtomHeader \in Nat \ {0}
      /\ \A n \in 1..k : Preamble[n] \in Nat /\ Preamble[n] >= AtomHeader
  BY EncoderAssumption
<1>2. ASSUME NEW n \in 1..k
      PROVE  A(n) \in Seq(Cell) /\ Len(A(n)) = Preamble[n] /\ A(n)[1] = AtomCell("other", Preamble[n])
  <2>1. /\ Atom("other", Preamble[n]) \in Seq(Cell)
        /\ Len(Atom("other", Preamble[n])) = AtomHeader
        /\ Atom("other", Preamble[n])[1] = AtomCell("other", Preamble[n])
    BY <1>1, AtomCells
  <2>2. /\ Preamble[n] - AtomHeader \in Nat
        /\ AtomHeader + (Preamble[n] - AtomHeader) = Preamble[n] /\ 1 \in 1..Preamble[n]
    BY <1>1
  <2>3. /\ Data(Preamble[n] - AtomHeader) \in Seq(Cell)
        /\ Len(Data(Preamble[n] - AtomHeader)) = Preamble[n] - AtomHeader
    BY <2>2, DataCells
  <2>4. 1 \in 1..AtomHeader
    BY <1>1
  <2> DEFINE x == Atom("other", Preamble[n])
             y == Data(Preamble[n] - AtomHeader)
  <2>5. /\ x \in Seq(Cell) /\ y \in Seq(Cell)
        /\ Len(x) + Len(y) = Preamble[n] /\ 1 \in 1..Len(x) /\ x[1] = AtomCell("other", Preamble[n])
    BY <2>1, <2>2, <2>3, <2>4
  <2>6. x \o y \in Seq(Cell) /\ Len(x \o y) = Preamble[n] /\ (x \o y)[1] = AtomCell("other", Preamble[n])
    <3> HIDE DEF x, y
    <3> QED BY <2>5, Together
  <2> QED BY <2>6
<1>3. q \in Seq(Seq(Cell)) /\ Len(q) = k
  <2> HIDE DEF A
  <2> QED BY <1>1, <1>2
<1>4. r \in Seq(Cell) /\ \E c : Begin(q, k, r, c)
  <2> HIDE DEF q
  <2> QED BY <1>3, Flattened
<1>5. PICK c : Begin(q, k, r, c)
  BY <1>4
<1>6. m \in Seq(Cell) /\ Len(m) = AtomHeader /\ m[1] = AtomCell("mdat", 0)
  BY AtomCells
<1>7. NewMovie = r \o m
  BY DEF NewMovie
<1>8. c \in Places /\ Len(r) = c[k + 1] /\ Len(r) \in Nat
  BY <1>4, <1>5 DEF Begin
<1>9. /\ NewMovie \in Seq(Cell) /\ Len(NewMovie) = Len(r) + AtomHeader
      /\ \A x \in 1..Len(r) : NewMovie[x] = r[x]
      /\ NewMovie[Len(r) + 1] = m[1]
  <2>1. 1 \in 1..Len(m)
    BY <1>1, <1>6
  <2> HIDE DEF r, m
  <2>2. /\ r \o m \in Seq(Cell) /\ Len(r \o m) = Len(r) + Len(m)
        /\ \A x \in 1..Len(r) : (r \o m)[x] = r[x]
        /\ \A x \in 1..Len(m) : (r \o m)[Len(r) + x] = m[x]
    <3>1. r \in Seq(Cell) /\ m \in Seq(Cell)
      BY <1>4, <1>6
    <3>2. ASSUME NEW y \in Seq(Cell), NEW z \in Seq(Cell)
          PROVE  /\ y \o z \in Seq(Cell) /\ Len(y \o z) = Len(y) + Len(z)
                 /\ \A x \in 1..Len(y) : (y \o z)[x] = y[x]
                 /\ \A x \in 1..Len(z) : (y \o z)[Len(y) + x] = z[x]
      BY Together
    <3> QED BY <3>1, <3>2
  <2> QED BY <1>6, <1>7, <2>1, <2>2
<1>10. ASSUME NEW n \in 1..k
       PROVE  /\ c[n + 1] = c[n] + Preamble[n] /\ c[n] + AtomHeader <= Len(NewMovie)
              /\ NewMovie[c[n] + 1] = AtomCell("other", Preamble[n])
  <2>1. q[n] = A(n)
    OBVIOUS
  <2>2. /\ c[n + 1] = c[n] + Len(q[n])
        /\ \A i \in 1..Len(q[n]) : r[c[n] + i] = q[n][i]
    BY <1>5 DEF Begin
  <2>3. 1 \in 1..Len(q[n]) /\ Len(q[n]) = Preamble[n]
    BY <1>1, <1>2, <2>1
  <2>4. r[c[n] + 1] = AtomCell("other", Preamble[n])
    BY <1>2, <2>1, <2>2, <2>3
  <2>5. c[n] + 1 \in 1..Len(r) /\ c[n] + AtomHeader <= Len(r) + AtomHeader
    <3>1. c[n + 1] <= Len(r) /\ c[n] \in Nat /\ Preamble[n] \in Nat /\ 1 <= Preamble[n]
      <4> HIDE DEF r
      <4>1. c[n + 1] <= Len(r) /\ c \in Places /\ n \in Nat
        BY <1>5, <1>8 DEF Begin
      <4>2. Preamble[n] \in Nat /\ 1 <= Preamble[n]
        BY <1>1
      <4> QED BY <4>1, <4>2 DEF Places
    <3> DEFINE x == c[n]
               y == c[n + 1]
               z == Len(r)
               v == Preamble[n]
    <3>2. z \in Nat /\ x \in Nat /\ v \in Nat /\ 1 <= v /\ y = x + v /\ y <= z
      BY <1>8, <2>2, <2>3, <3>1
    <3>3. x + 1 \in 1..z /\ x + AtomHeader <= z + AtomHeader
      <4> HIDE DEF x, y, z, v
      <4> QED BY <1>1, <3>2
    <3> QED BY <3>3
  <2> QED BY <1>9, <2>2, <2>3, <2>4, <2>5
<1> QED BY <1>5, <1>6, <1>8, <1>9, <1>10 DEF AtomsAt, Begin

\* The units of a frame stand one behind the other, each after its length (Cells).
LEMMA FrameCells ==
  ASSUME NEW nalus \in Seq(Units)
  PROVE  Cells(nalus) \in Seq(Cell) /\ \E c : UnitsAt(c, nalus, Cells(nalus))
<1> DEFINE A(n) == Sample(nalus[n])
           k == Len(nalus)
           q == [n \in 1..k |-> A(n)]
           r == FlattenSeq(q)
<1>1. k \in Nat /\ LengthSize \in Nat \ {0}
  BY EncoderAssumption
<1>2. ASSUME NEW n \in 1..k
      PROVE  /\ A(n) \in Seq(Cell) /\ Len(A(n)) = LengthSize + nalus[n].unit.length
             /\ A(n)[1] = LengthCell(nalus[n])
             /\ nalus[n].unit.length \in Nat \ {0}
  <2>1. nalus[n] \in Units
    BY <1>1
  <2>2. nalus[n].unit.length \in Nat \ {0}
    BY <2>1 DEF Units, Nalus
  <2>3. /\ LengthSize - 1 + nalus[n].unit.length \in Nat
        /\ (LengthSize - 1 + nalus[n].unit.length) + 1 = LengthSize + nalus[n].unit.length
    BY <1>1, <2>2
  <2>4. LengthCell(nalus[n]) \in Cell
    BY <2>1 DEF LengthCell, Cell
  <2> QED BY <2>2, <2>3, <2>4, CellAndData DEF Sample, LengthCell
<1>3. q \in Seq(Seq(Cell)) /\ Len(q) = k
  <2> HIDE DEF A
  <2> QED BY <1>1, <1>2
<1>4. r \in Seq(Cell) /\ \E c : Begin(q, k, r, c)
  <2> HIDE DEF q
  <2> QED BY <1>3, Flattened
<1>5. PICK c : Begin(q, k, r, c)
  BY <1>4
<1>6. Cells(nalus) = r
  BY DEF Cells
<1>7. ASSUME NEW n \in 1..k
      PROVE  /\ c[n + 1] = c[n] + LengthSize + nalus[n].unit.length /\ c[n + 1] <= Len(r)
             /\ r[c[n] + 1] = LengthCell(nalus[n])
  <2>1. q[n] = A(n)
    OBVIOUS
  <2> HIDE DEF r
  <2>2. /\ c[n + 1] = c[n] + Len(q[n])
        /\ \A i \in 1..Len(q[n]) : r[c[n] + i] = q[n][i]
        /\ c \in Places /\ n \in Nat /\ c[n + 1] <= Len(r)
    BY <1>5 DEF Begin
  <2>3. c[n] \in Nat
    BY <2>2 DEF Places
  <2>4. /\ Len(q[n]) = LengthSize + nalus[n].unit.length /\ q[n][1] = LengthCell(nalus[n])
        /\ nalus[n].unit.length \in Nat \ {0}
    BY <1>2, <2>1
  <2> HIDE DEF A, q
  <2>5. 1 \in 1..Len(q[n])
    BY <1>1, <2>4
  <2>6. r[c[n] + 1] = LengthCell(nalus[n])
    BY <2>2, <2>4, <2>5
  <2>7. c[n + 1] = c[n] + LengthSize + nalus[n].unit.length
    BY <1>1, <2>2, <2>3, <2>4
  <2> QED BY <2>2, <2>6, <2>7
<1>8. UnitsAt(c, nalus, r)
  <2> HIDE DEF r
  <2> QED BY <1>5, <1>7 DEF UnitsAt, Begin
<1> QED BY <1>4, <1>6, <1>8

-----------------------------------------------------------------------------
(* The invariant.                                                           *)

Contents == [cells : Seq(Cell), size : Nat]

TypeInv ==
    /\ cpc \in {"idle", "time", "swap", "write"}
    /\ captured \in 0..MaxFrames
    /\ needParams \in BOOLEAN /\ header \in {"new", "finishing", "done", "failed"}
    /\ times \in Seq(1..MaxFrames)
    /\ currentFile \in 1..MaxIndex /\ inputFile \in 0..MaxIndex
    /\ files \in [1..MaxIndex -> Contents]
    /\ swapping \in BOOLEAN /\ source \in {"none", "active", "cancelled"}
    /\ rpc \in {"idle", "scan", "deliver", "finishing", "drain"}
    /\ pos \in Nat /\ cReady \in Nat
    /\ foundMDAT \in BOOLEAN /\ posMDAT \in Nat /\ bytesToNextAtom \in Nat
    /\ written \in Seq(Seq(Units) \ {<<>>})
    /\ pending \in Seq(Units)
    /\ delivered \in Seq([nalus : Seq(Units), time : Nat])

\* The reader has no file until the header file is finished, works on the file that is being
\* written, and while files are changed on the one before it.
Control ==
    /\ cpc # "idle" => captured >= 1
    /\ needParams => header = "new"
    /\ header # "done" =>
          /\ inputFile = 0 /\ source = "none" /\ rpc = "idle" /\ ~swapping /\ ~foundMDAT
          /\ pos = 0 /\ bytesToNextAtom = 0 /\ pending = <<>> /\ delivered = <<>>
    /\ inputFile = 0 => rpc = "idle" /\ ~swapping /\ source # "cancelled"
    /\ inputFile # 0 /\ ~swapping =>
          inputFile = currentFile /\ source = "active" /\ rpc \in {"idle", "scan", "deliver"}
    /\ swapping =>
          /\ inputFile # 0 /\ currentFile # inputFile /\ foundMDAT
          /\ \/ source = "cancelled" /\ rpc \in {"idle", "scan", "deliver"}
             \/ source = "none" /\ rpc \in {"finishing", "drain"}
    /\ rpc \in {"deliver", "finishing", "drain"} => foundMDAT

\* What the reader counts on is on the disk, and a file is large only after its reader has
\* found mdat in it.
SizeInv ==
    /\ \A n \in 1..MaxIndex : /\ files[n].size <= Len(files[n].cells)
                              /\ files[n].size > SwitchPoint => inputFile = n /\ foundMDAT
    /\ rpc \in {"scan", "deliver", "drain"} => pos + cReady <= files[inputFile].size
    /\ inputFile # 0 => pos <= files[inputFile].size

\* Where the atoms of a new movie begin.
Starts == CHOOSE a : AtomsAt(a, NewMovie)

\* The cells are those of a movie that is being written.
Movie(cells) ==
    Len(cells) >= StartOfSamples /\ \A i \in 1..StartOfSamples : cells[i] = NewMovie[i]

\* The frames b + 1 to e of w stand one behind the other in the cells, up to the place end:
\* unit u of frame f at s[f][u].
Layout(cells, w, b, e, s, end) ==
    /\ s \in [Nat -> Places] /\ b <= e
    /\ s[b + 1][1] = StartOfSamples
    /\ s[e + 1][1] = end /\ end <= Len(cells)
    /\ \A f \in b + 1..e :
          /\ s[f + 1][1] = s[f][Len(w[f]) + 1]
          /\ \A u \in 1..Len(w[f]) :
                /\ s[f][u + 1] = s[f][u] + LengthSize + w[f][u].unit.length
                /\ s[f][u + 1] <= end
                /\ cells[s[f][u] + 1] = LengthCell(w[f][u])

\* The file has not been created, or is a movie with the frames b + 1 to e.
Holds(cells, w, b, e) ==
    \/ cells = <<>> /\ b = e
    \/ Movie(cells) /\ \E s : Layout(cells, w, b, e, s, Len(cells))

\* What has been delivered, and is pending, when unit u of frame f comes next.
Linked(f, u) ==
    /\ u > 1 => Len(delivered) = f - 1 /\ Len(pending) = u - 1
                /\ \A i \in 1..u - 1 : pending[i] = written[f][i]
    /\ u = 1 /\ f > 1 => Len(delivered) = f - 2 /\ pending = written[f - 1]
    /\ u = 1 /\ f = 1 => Len(delivered) = 0 /\ pending = <<>>

\* The reader looks for mdat, or stands in front of unit u of frame f.
Position(b, f, u, s) ==
    /\ foundMDAT => pos = s[f][u] /\ posMDAT + AtomHeader = StartOfSamples
    /\ ~foundMDAT => /\ f = b + 1 /\ u = 1
                     /\ \E n \in 1..Len(Preamble) + 1 : pos + bytesToNextAtom = Starts[n]

\* The file that is being read has the frames b + 1 to e, and unit u of frame f comes next.
Reads(b, e, f, u, s) ==
    /\ IF rpc = "drain"
       THEN Layout(files[inputFile].cells, written, b, e, s, pos + cReady)
       ELSE /\ Movie(files[inputFile].cells)
            /\ Layout(files[inputFile].cells, written, b, e, s, Len(files[inputFile].cells))
    /\ e <= Len(written)
    /\ f \in b + 1..e + 1 /\ (f = e + 1 => u = 1) /\ (f <= e => u \in 1..Len(written[f]))
    /\ Position(b, f, u, s)
    /\ PicturesApart => Linked(f, u)

\* What the writer writes comes after what is in the file that is read.
FileInv ==
    /\ header # "done" => Holds(files[currentFile].cells, written, 0, Len(written))
    /\ inputFile # 0 =>
          \E b, e, f, u \in Nat : \E s :
             /\ Reads(b, e, f, u, s)
             /\ IF swapping THEN Holds(files[currentFile].cells, written, e, Len(written))
                            ELSE e = Len(written)

\* Frames have the shapes the encoder makes, and prev is the header of the last unit.
ShapeInv ==
    /\ \A n \in 1..Len(written) : \E t \in Shapes :
          Len(written[n]) = Len(t) /\ \A i \in 1..Len(t) : written[n][i].unit = t[i]
    /\ pending # <<>> => LET last == pending[Len(pending)].unit
                         IN  prev = [nri |-> last.nri, type |-> last.type]

Inv == TypeInv /\ Control /\ SizeInv /\ FileInv /\ ShapeInv

\* The atoms of a new movie begin there.
LEMMA StartsAt == AtomsAt(Starts, NewMovie)
  BY MovieCells DEF Starts

\* Where the samples begin.
LEMMA SamplesStart ==
  /\ StartOfSamples \in Nat \ {0} /\ StartOfSamples = Starts[Len(Preamble) + 1] + AtomHeader
  /\ Starts[Len(Preamble) + 1] \in Nat
<1>1. Len(Preamble) + 1 \in Nat /\ AtomHeader \in Nat \ {0}
  BY EncoderAssumption
<1>2. Starts[Len(Preamble) + 1] \in Nat
  BY <1>1, StartsAt DEF AtomsAt, Places
<1> QED BY <1>1, <1>2, StartsAt DEF AtomsAt, StartOfSamples

\* The files have their types.
LEMMA FileTypes ==
  ASSUME TypeInv
  PROVE  /\ MaxIndex \in Nat
         /\ \A n \in 1..MaxIndex : /\ files[n] \in Contents /\ files[n].cells \in Seq(Cell)
                                  /\ files[n].size \in Nat /\ Len(files[n].cells) \in Nat
         /\ inputFile # 0 => inputFile \in 1..MaxIndex
         /\ currentFile \in 1..MaxIndex
<1>1. MaxIndex \in Nat
  BY EncoderAssumption
<1>2. \A n \in 1..MaxIndex : files[n] \in Contents
  BY DEF TypeInv
<1>3. \A n \in 1..MaxIndex : files[n].cells \in Seq(Cell) /\ files[n].size \in Nat
  BY <1>2 DEF Contents
<1>4. inputFile # 0 => inputFile \in 1..MaxIndex
  BY <1>1 DEF TypeInv
<1>5. currentFile \in 1..MaxIndex
  BY DEF TypeInv
<1> HIDE DEF Cell
<1>6. \A n \in 1..MaxIndex : Len(files[n].cells) \in Nat
  BY <1>3
<1> QED BY <1>1, <1>2, <1>3, <1>4, <1>5, <1>6

\* Nothing has happened yet.
LEMMA InitInv == Init => Inv
<1> SUFFICES ASSUME Init PROVE Inv
  OBVIOUS
<1>1. MaxIndex \in Nat /\ 1 \in 1..MaxIndex /\ 1 # 0 /\ MaxFrames \in Nat /\ SwitchPoint \in Nat
  BY EncoderAssumption
<1>2. TypeInv
  <2>1. <<>> \in Seq(Cell) /\ NoFile \in Contents
    BY DEF NoFile, Contents
  <2>2. files \in [1..MaxIndex -> Contents]
    BY <2>1 DEF Init
  <2>3. currentFile \in 1..MaxIndex /\ inputFile \in 0..MaxIndex /\ captured \in 0..MaxFrames
    BY <1>1 DEF Init
  <2>4. /\ times \in Seq(1..MaxFrames) /\ written \in Seq(Seq(Units) \ {<<>>})
        /\ pending \in Seq(Units) /\ delivered \in Seq([nalus : Seq(Units), time : Nat])
    BY EmptySeq DEF Init
  <2> QED BY <2>2, <2>3, <2>4 DEF Init, TypeInv
<1>3. Control
  BY DEF Init, Control
<1>4. SizeInv
  BY <1>1 DEF Init, SizeInv, NoFile
<1>5. FileInv
  BY <1>1 DEF Init, FileInv, Holds, NoFile
<1>6. ShapeInv
  BY DEF Init, ShapeInv
<1> QED BY <1>2, <1>3, <1>4, <1>5, <1>6 DEF Inv

-----------------------------------------------------------------------------
(* Steps that leave the files and the place of the reader as they are.      *)

readState == <<files, written, currentFile, inputFile, swapping, pos, foundMDAT, posMDAT,
               bytesToNextAtom, pending, delivered>>

\* Then the place of the reader is what it was.
LEMMA FilesSame ==
  ASSUME FileInv, UNCHANGED readState, header' # "done" => header # "done",
         \/ rpc' = rpc /\ cReady' = cReady
         \/ rpc # "drain" /\ rpc' # "drain"
  PROVE  FileInv'
<1> USE DEF readState
<1>1. \A b, f, u, s : Position(b, f, u, s) => Position(b, f, u, s)'
  BY DEF Position
<1>2. \A f, u : Linked(f, u) => Linked(f, u)'
  BY DEF Linked
<1>3. \A b, e, f, u, s : Reads(b, e, f, u, s) => Reads(b, e, f, u, s)'
  BY <1>1, <1>2 DEF Reads
<1>4. inputFile' # 0 =>
        \E b, e, f, u \in Nat : \E s :
           /\ Reads(b, e, f, u, s)'
           /\ IF swapping' THEN Holds(files'[currentFile'].cells, written', e, Len(written'))
                           ELSE e = Len(written')
  BY <1>3 DEF FileInv
<1> QED BY <1>4 DEF FileInv

\* encodeFrame begins.
LEMMA EncodeInv ==
  ASSUME Inv, NEW ready \in BOOLEAN, encodeFrame(ready)
  PROVE  Inv'
<1> USE DEF Inv, encodeFrame, readVars, scanVars, naluVars
<1>1. TypeInv'
  <2>1. captured' \in 0..MaxFrames
    BY EncoderAssumption DEF TypeInv
  <2> QED BY <2>1 DEF TypeInv
<1>2. Control'
  BY DEF Control, TypeInv
<1>3. SizeInv'
  BY DEF SizeInv
<1>4. FileInv'
  BY FilesSame DEF readState, Control
<1>5. ShapeInv'
  BY DEF ShapeInv
<1> QED BY <1>1, <1>2, <1>3, <1>4, <1>5

\* The time stamp is queued.
LEMMA QueueInv ==
  ASSUME Inv, QueueTime
  PROVE  Inv'
<1> USE DEF Inv, QueueTime, readVars, scanVars, naluVars
<1>1. TypeInv'
  <2>1. captured \in 1..MaxFrames
    BY EncoderAssumption DEF TypeInv, Control
  <2> QED BY <2>1 DEF TypeInv
<1>2. Control'
  BY DEF Control
<1>3. SizeInv'
  BY DEF SizeInv
<1>4. FileInv'
  BY FilesSame DEF readState
<1>5. ShapeInv'
  BY DEF ShapeInv
<1> QED BY <1>1, <1>2, <1>3, <1>4, <1>5

\* The header file cannot be used.
LEMMA ParamsMissingInv ==
  ASSUME Inv, ParamsMissing
  PROVE  Inv'
<1> USE DEF Inv, ParamsMissing, captureVars, readVars, scanVars, naluVars
<1>1. TypeInv'
  BY DEF TypeInv
<1>2. Control'
  BY DEF Control
<1>3. SizeInv'
  BY DEF SizeInv
<1>4. FileInv'
  BY FilesSame DEF readState
<1>5. ShapeInv'
  BY DEF ShapeInv
<1> QED BY <1>1, <1>2, <1>3, <1>4, <1>5

\* The reader looks how much there is to read, goes on with the samples, waits, or lets the
\* old writer finish.
LEMMA WaitingInv ==
  ASSUME Inv, onFileUpdate \/ ScanEnds \/ WaitForMore \/ FinishOld
  PROVE  Inv'
<1> USE DEF Inv, captureVars, scanVars, naluVars
<1>1. UNCHANGED <<captureVars, header, readState>> /\ rpc # "drain" /\ rpc' # "drain"
  BY DEF onFileUpdate, ScanEnds, WaitForMore, FinishOld, readState
<1>2. TypeInv'
  <2>1. CASE onFileUpdate
    <3>1. files[inputFile].size \in Nat
      BY <2>1, FileTypes DEF onFileUpdate
    <3>2. files[inputFile].size - pos \in Nat
      BY <2>1, <3>1 DEF TypeInv, onFileUpdate
    <3> QED BY <2>1, <3>2 DEF TypeInv, onFileUpdate
  <2>2. CASE ScanEnds
    BY <2>2 DEF TypeInv, ScanEnds
  <2>3. CASE WaitForMore
    BY <2>3 DEF TypeInv, WaitForMore
  <2>4. CASE FinishOld
    BY <2>4 DEF TypeInv, FinishOld, readVars
  <2> QED BY <2>1, <2>2, <2>3, <2>4
<1>3. Control'
  <2>1. CASE onFileUpdate
    BY <2>1 DEF Control, onFileUpdate
  <2>2. CASE ScanEnds
    BY <2>2 DEF Control, ScanEnds
  <2>3. CASE WaitForMore
    BY <2>3 DEF Control, WaitForMore
  <2>4. CASE FinishOld
    BY <2>4 DEF Control, FinishOld, readVars
  <2> QED BY <2>1, <2>2, <2>3, <2>4
<1>4. SizeInv'
  <2>1. CASE onFileUpdate
    <3>1. files[inputFile].size \in Nat /\ pos \in Nat
      BY <2>1, FileTypes DEF TypeInv, onFileUpdate
    <3> QED BY <2>1, <3>1 DEF SizeInv, onFileUpdate
  <2>2. CASE ScanEnds
    BY <2>2 DEF SizeInv, ScanEnds
  <2>3. CASE WaitForMore
    BY <2>3 DEF SizeInv, WaitForMore
  <2>4. CASE FinishOld
    BY <2>4 DEF SizeInv, FinishOld, readVars
  <2> QED BY <2>1, <2>2, <2>3, <2>4
<1>5. FileInv'
  BY <1>1, FilesSame
<1>6. ShapeInv'
  BY DEF ShapeInv, onFileUpdate, ScanEnds, WaitForMore, FinishOld
<1> QED BY <1>2, <1>3, <1>4, <1>5, <1>6

-----------------------------------------------------------------------------
(* Layouts.                                                                 *)

\* What is written: frames, none empty.
FrameSeqs == Seq(Seq(Units) \ {<<>>})

\* Frames have units, units have lengths.
LEMMA FrameFacts ==
  ASSUME NEW w \in FrameSeqs
  PROVE  /\ Len(w) \in Nat
         /\ \A f \in 1..Len(w) : /\ w[f] \in Seq(Units) /\ w[f] # <<>> /\ Len(w[f]) \in Nat
                                 /\ 1 \in 1..Len(w[f])
                                 /\ \A u \in 1..Len(w[f]) : w[f][u].unit.length \in Nat \ {0}
<1>1. Len(w) \in Nat /\ \A f \in 1..Len(w) : w[f] \in Seq(Units) \ {<<>>}
  BY DEF FrameSeqs
<1>2. ASSUME NEW f \in 1..Len(w)
      PROVE  /\ Len(w[f]) \in Nat /\ 1 \in 1..Len(w[f])
             /\ \A u \in 1..Len(w[f]) : w[f][u] \in Units
  <2> DEFINE x == w[f]
  <2>1. x \in Seq(Units) /\ x # <<>>
    BY <1>1
  <2> HIDE DEF x
  <2>2. Len(x) \in Nat /\ 1 \in 1..Len(x) /\ \A u \in 1..Len(x) : x[u] \in Units
    BY <2>1
  <2> QED BY <2>2 DEF x
<1>3. \A x \in Units : x.unit.length \in Nat \ {0}
  BY DEF Units, Nalus
<1> QED BY <1>1, <1>2, <1>3

\* A new movie has no frames.
LEMMA NewMovieHolds ==
  ASSUME NEW w, NEW b \in Nat
  PROVE  /\ Movie(NewMovie) /\ NewMovie # <<>>
         /\ Holds(NewMovie, w, b, b)
<1> DEFINE s == [f \in Nat |-> [u \in Nat |-> StartOfSamples]]
<1>1. s \in [Nat -> Places] /\ s[b + 1][1] = StartOfSamples
  BY SamplesStart DEF Places
<1>2. Len(NewMovie) = StartOfSamples /\ StartOfSamples \in Nat \ {0}
  BY SamplesStart DEF StartOfSamples
<1>3. b + 1..b = {} /\ b <= b
  OBVIOUS
<1>4. Layout(NewMovie, w, b, b, s, Len(NewMovie))
  <2> HIDE DEF s
  <2> QED BY <1>1, <1>2, <1>3 DEF Layout
<1>5. Movie(NewMovie)
  BY <1>2 DEF Movie
<1>6. NewMovie # <<>>
  BY <1>2
<1> QED BY <1>4, <1>5, <1>6 DEF Holds

\* The file is created if it is not there.
LEMMA StartedFile ==
  ASSUME NEW f \in Contents, f.size <= Len(f.cells)
  PROVE  /\ Started(f) \in Contents /\ Started(f).size = f.size
         /\ f.size <= Len(Started(f).cells)
         /\ f.cells # <<>> => Started(f) = f
         /\ f.cells = <<>> => Started(f).cells = NewMovie
<1>1. CASE f.cells = <<>>
  <2>1. Started(f) = [f EXCEPT !.cells = NewMovie]
    BY <1>1 DEF Started
  <2>2. Started(f) \in Contents /\ Started(f).cells = NewMovie /\ Started(f).size = f.size
    BY <2>1, MovieCells DEF Contents
  <2>3. f.size <= Len(NewMovie)
    <3>1. f.size \in Nat /\ Len(f.cells) = 0
      BY <1>1 DEF Contents
    <3>2. Len(NewMovie) \in Nat
      BY SamplesStart DEF StartOfSamples
    <3> QED BY <3>1, <3>2
  <2> QED BY <1>1, <2>2, <2>3
<1>2. CASE f.cells # <<>>
  BY <1>2 DEF Started
<1> QED BY <1>1, <1>2

\* Then it has what it had before.
LEMMA StartedHolds ==
  ASSUME NEW f \in Contents, f.size <= Len(f.cells), NEW w, NEW b \in Nat, NEW e \in Nat,
         Holds(f.cells, w, b, e)
  PROVE  /\ Holds(Started(f).cells, w, b, e) /\ Movie(Started(f).cells)
         /\ \E s : Layout(Started(f).cells, w, b, e, s, Len(Started(f).cells))
<1>1. CASE f.cells = <<>>
  <2>1. b = e
    BY <1>1, SamplesStart DEF Holds, Movie
  <2>2. NewMovie # <<>> /\ Movie(NewMovie) /\ Holds(NewMovie, w, b, e)
    BY <2>1, NewMovieHolds
  <2> QED BY <1>1, <2>2, StartedFile DEF Holds
<1>2. CASE f.cells # <<>>
  BY <1>2, StartedFile DEF Holds
<1> QED BY <1>1, <1>2

\* A frame is put behind the others.
LEMMA Appended ==
  ASSUME NEW cells \in Seq(Cell), NEW w \in FrameSeqs, NEW b \in Nat, NEW s, NEW e \in Nat, e = Len(w),
         Movie(cells), Layout(cells, w, b, e, s, Len(cells)),
         NEW nalus \in Seq(Units) \ {<<>>}
  PROVE  /\ cells \o Cells(nalus) \in Seq(Cell) /\ Movie(cells \o Cells(nalus))
         /\ Len(cells) <= Len(cells \o Cells(nalus))
         /\ \E t : /\ Layout(cells \o Cells(nalus), Append(w, nalus), b, e + 1, t, Len(cells \o Cells(nalus)))
                   /\ \A f \in b + 1..e : t[f] = s[f]
                   /\ t[e + 1][1] = s[e + 1][1]
<1> DEFINE n == Cells(nalus)
           more == cells \o n
           w2 == Append(w, nalus)
<1>1. n \in Seq(Cell) /\ \E c : UnitsAt(c, nalus, n)
  BY FrameCells
<1>2. PICK c : UnitsAt(c, nalus, n)
  BY <1>1
<1>3. /\ more \in Seq(Cell) /\ Len(more) = Len(cells) + Len(n)
      /\ \A x \in 1..Len(cells) : more[x] = cells[x]
      /\ \A x \in 1..Len(n) : more[Len(cells) + x] = n[x]
      /\ Len(cells) \in Nat /\ Len(n) \in Nat
  <2> HIDE DEF n, Cell
  <2>1. ASSUME NEW y \in Seq(Cell), NEW z \in Seq(Cell)
        PROVE  /\ y \o z \in Seq(Cell) /\ Len(y \o z) = Len(y) + Len(z)
               /\ \A x \in 1..Len(y) : (y \o z)[x] = y[x]
               /\ \A x \in 1..Len(z) : (y \o z)[Len(y) + x] = z[x]
               /\ Len(y) \in Nat /\ Len(z) \in Nat
    BY Together
  <2> QED BY <1>1, <2>1
<1>4. /\ w2[e + 1] = nalus /\ Len(w2) = e + 1
      /\ \A f \in 1..e : w2[f] = w[f]
  <2>1. w \in Seq(Seq(Units) \ {<<>>})
    BY DEF FrameSeqs
  <2> QED BY <2>1, AppendProperties
<1> HIDE DEF more, n, w2
<1> DEFINE end == Len(cells)
           end2 == Len(more)
           t == [f \in Nat |-> IF f = e + 1 THEN [u \in Nat |-> end + c[u]]
                               ELSE IF f = e + 2 THEN [u \in Nat |-> end2] ELSE s[f]]
<1>5. end \in Nat /\ end2 \in Nat /\ end <= end2 /\ end2 = end + Len(n)
  BY <1>3
<1>6. /\ c \in Places /\ c[1] = 0 /\ Len(n) = c[Len(nalus) + 1]
      /\ \A u \in 1..Len(nalus) :
            /\ c[u + 1] = c[u] + LengthSize + nalus[u].unit.length
            /\ n[c[u] + 1] = LengthCell(nalus[u])
  BY <1>2 DEF UnitsAt
<1>7. /\ s \in [Nat -> Places] /\ b <= e
      /\ s[b + 1][1] = StartOfSamples
      /\ s[e + 1][1] = end
      /\ \A f \in b + 1..e :
            /\ s[f + 1][1] = s[f][Len(w[f]) + 1]
            /\ \A u \in 1..Len(w[f]) :
                  /\ s[f][u + 1] = s[f][u] + LengthSize + w[f][u].unit.length
                  /\ s[f][u + 1] <= end
                  /\ cells[s[f][u] + 1] = LengthCell(w[f][u])
  BY DEF Layout
<1>8. t \in [Nat -> Places]
  <2> HIDE DEF end, end2
  <2>1. \A u \in Nat : c[u] \in Nat
    BY <1>6 DEF Places
  <2>2. \A u \in Nat : end + c[u] \in Nat /\ end2 \in Nat
    BY <1>5, <2>1
  <2>3. [u \in Nat |-> end + c[u]] \in Places /\ [u \in Nat |-> end2] \in Places
    BY <2>2 DEF Places
  <2> QED BY <1>7, <2>3
<1>9. /\ \A f \in b + 1..e : t[f] = s[f]
      /\ t[e + 1] = [u \in Nat |-> end + c[u]] /\ t[e + 2] = [u \in Nat |-> end2]
      /\ t[e + 1][1] = end
  <2>1. \A f \in b + 1..e : f \in Nat /\ f # e + 1 /\ f # e + 2
    OBVIOUS
  <2>2. e + 1 \in Nat /\ e + 2 \in Nat /\ e + 2 # e + 1
    OBVIOUS
  <2>3. end + c[1] = end
    BY <1>5, <1>6
  <2> QED BY <2>1, <2>2, <2>3
<1>a. Len(cells) = end /\ Len(more) = end2
  OBVIOUS
<1> HIDE DEF t, end, end2
<1>10. t[b + 1][1] = StartOfSamples
  <2>1. CASE b = e
    BY <1>7, <1>9, <2>1
  <2>2. CASE b # e
    <3>1. b + 1 \in b + 1..e
      BY <1>7, <2>2
    <3> QED BY <1>7, <1>9, <3>1
  <2> QED BY <2>1, <2>2
<1>11. Movie(more)
  <2>1. Len(cells) >= StartOfSamples /\ \A i \in 1..StartOfSamples : cells[i] = NewMovie[i]
    BY DEF Movie
  <2>2. StartOfSamples \in Nat
    BY SamplesStart
  <2>3. \A i \in 1..StartOfSamples : i \in 1..Len(cells)
    BY <1>3, <2>1, <2>2
  <2>4. Len(more) >= StartOfSamples
    BY <1>5, <1>a, <2>1, <2>2
  <2> QED BY <1>3, <2>1, <2>3, <2>4 DEF Movie
<1>12. LengthSize \in Nat \ {0}
  BY EncoderAssumption
<1>13. ASSUME NEW f \in b + 1..e
       PROVE  /\ t[f + 1][1] = t[f][Len(w2[f]) + 1]
              /\ \A u \in 1..Len(w2[f]) :
                    /\ t[f][u + 1] = t[f][u] + LengthSize + w2[f][u].unit.length
                    /\ t[f][u + 1] <= end2
                    /\ more[t[f][u] + 1] = LengthCell(w2[f][u])
  <2>1. t[f] = s[f] /\ w2[f] = w[f] /\ f \in 1..Len(w) /\ f \in Nat
    BY <1>4, <1>9
  <2>2. t[f + 1][1] = s[f + 1][1]
    <3>1. CASE f = e BY <1>7, <1>9, <3>1
    <3>2. CASE f # e
      <4>1. f + 1 \in b + 1..e BY <3>2
      <4> QED BY <1>9, <4>1
    <3> QED BY <3>1, <3>2
  <2>3. ASSUME NEW u \in 1..Len(w[f])
        PROVE  s[f][u + 1] <= end2 /\ more[s[f][u] + 1] = cells[s[f][u] + 1]
    <3>1. w[f][u].unit.length \in Nat \ {0} /\ Len(w[f]) \in Nat
      BY <2>1, FrameFacts
    <3>2. u \in Nat /\ u + 1 \in Nat
      BY <3>1
    <3>3. s[f] \in Places
      BY <1>7, <2>1
    <3>4. s[f][u] \in Nat /\ s[f][u + 1] \in Nat
      BY <3>2, <3>3 DEF Places
    <3>5. s[f][u + 1] = s[f][u] + LengthSize + w[f][u].unit.length /\ s[f][u + 1] <= end
      BY <1>7
    <3>6. s[f][u] + 1 \in 1..end /\ s[f][u + 1] <= end2
      <4> DEFINE x == s[f][u]
                 y == s[f][u + 1]
                 z == w[f][u].unit.length
      <4>1. x \in Nat /\ y \in Nat /\ z \in Nat \ {0} /\ y = x + LengthSize + z /\ y <= end
        BY <3>1, <3>4, <3>5
      <4>2. x + 1 \in 1..end /\ y <= end2
        <5> HIDE DEF x, y, z
        <5> QED BY <1>5, <1>12, <4>1
      <4> QED BY <4>2
    <3> QED BY <1>3, <1>a, <3>6
  <2> QED BY <1>7, <2>1, <2>2, <2>3, SMTT(20)
<1>14. ASSUME NEW f, f = e + 1
       PROVE  /\ t[f + 1][1] = t[f][Len(w2[f]) + 1]
              /\ \A u \in 1..Len(w2[f]) :
                    /\ t[f][u + 1] = t[f][u] + LengthSize + w2[f][u].unit.length
                    /\ t[f][u + 1] <= end2
                    /\ more[t[f][u] + 1] = LengthCell(w2[f][u])
  <2>1. w2[f] = nalus /\ f + 1 = e + 2 /\ Len(nalus) \in Nat
    <3>1. w2[f] = nalus
      BY <1>4, <1>14, Zenon
    <3>2. f + 1 = e + 2
      BY <1>14
    <3>3. nalus \in Seq(Units)
      OBVIOUS
    <3> HIDE DEF Units
    <3>4. Len(nalus) \in Nat
      BY <3>3
    <3> QED BY <3>1, <3>2, <3>4
  <2>2. t[f + 1][1] = end2
    <3>1. t[f + 1] = [u \in Nat |-> end2]
      BY <1>9, <2>1, Zenon
    <3>2. [u \in Nat |-> end2][1] = end2
      OBVIOUS
    <3> QED BY <3>1, <3>2, Zenon
  <2>3. \A u \in Nat : t[f][u] = end + c[u] /\ c[u] \in Nat
    <3>1. t[f] = [u \in Nat |-> end + c[u]]
      BY <1>9, <1>14, Zenon
    <3>2. \A u \in Nat : c[u] \in Nat
      BY <1>6 DEF Places
    <3> QED BY <3>1, <3>2, Zenon
  <2>4. t[f][Len(nalus) + 1] = end2
    <3>1. Len(nalus) + 1 \in Nat
      BY <2>1
    <3>2. end + c[Len(nalus) + 1] = end2
      BY <1>5, <1>6
    <3> QED BY <2>3, <3>1, <3>2
  <2>5. ASSUME NEW u \in 1..Len(nalus)
        PROVE  /\ t[f][u + 1] = t[f][u] + LengthSize + nalus[u].unit.length
               /\ t[f][u + 1] <= end2
               /\ more[t[f][u] + 1] = LengthCell(nalus[u])
    <3>1. u \in Nat /\ u + 1 \in Nat
      BY <2>1
    <3>2. nalus[u].unit.length \in Nat \ {0}
      <4>1. nalus[u] \in Units
        OBVIOUS
      <4> QED BY <4>1 DEF Units, Nalus
    <3>3. c[u] \in Nat /\ c[u + 1] \in Nat /\ t[f][u] = end + c[u] /\ t[f][u + 1] = end + c[u + 1]
      BY <2>3, <3>1
    <3>4. c[u + 1] = c[u] + LengthSize + nalus[u].unit.length /\ c[u + 1] <= Len(n)
      BY <1>2, <1>6 DEF UnitsAt
    <3>5. /\ c[u] + 1 \in 1..Len(n) /\ end + c[u + 1] <= end2
          /\ end + c[u + 1] = (end + c[u]) + LengthSize + nalus[u].unit.length
          /\ end + (c[u] + 1) = (end + c[u]) + 1
      <4> DEFINE x == c[u]
                 y == c[u + 1]
                 z == nalus[u].unit.length
                 l == Len(n)
      <4>1. /\ x \in Nat /\ y \in Nat /\ z \in Nat \ {0} /\ y = x + LengthSize + z /\ y <= l
            /\ l \in Nat /\ end2 = end + l
        BY <1>3, <1>5, <3>2, <3>3, <3>4
      <4>2. /\ x + 1 \in 1..l /\ end + y <= end2 /\ end + y = (end + x) + LengthSize + z
            /\ end + (x + 1) = (end + x) + 1
        <5> HIDE DEF x, y, z, l
        <5> QED BY <1>5, <1>12, <4>1
      <4> QED BY <4>2
    <3>6. more[Len(cells) + (c[u] + 1)] = n[c[u] + 1]
      BY <1>3, <3>5
    <3>7. Len(cells) + (c[u] + 1) = t[f][u] + 1
      BY <1>a, <3>3, <3>5
    <3>8. t[f][u + 1] = t[f][u] + LengthSize + nalus[u].unit.length /\ t[f][u + 1] <= end2
      BY <3>3, <3>5
    <3> QED BY <1>6, <3>6, <3>7, <3>8
  <2> QED BY <2>1, <2>2, <2>4, <2>5
<1>15. \A f \in b + 1..e + 1 : f \in b + 1..e \/ f = e + 1
  OBVIOUS
<1>16. b <= e + 1 /\ t[(e + 1) + 1][1] = end2 /\ end2 <= Len(more)
  <2>1. (e + 1) + 1 = e + 2 /\ 1 \in Nat
    OBVIOUS
  <2>2. t[e + 2][1] = end2
    BY <1>9
  <2>3. b <= e + 1 /\ end2 <= end2
    BY <1>5, <1>7
  <2> QED BY <1>a, <2>1, <2>2, <2>3
<1>17. Layout(more, w2, b, e + 1, t, end2)
  <2>1. \A f \in b + 1..e + 1 :
          /\ t[f + 1][1] = t[f][Len(w2[f]) + 1]
          /\ \A u \in 1..Len(w2[f]) :
                /\ t[f][u + 1] = t[f][u] + LengthSize + w2[f][u].unit.length
                /\ t[f][u + 1] <= end2
                /\ more[t[f][u] + 1] = LengthCell(w2[f][u])
    BY <1>13, <1>14, <1>15, ZenonT(30)
  <2> QED BY <1>8, <1>10, <1>16, <2>1, ZenonT(30) DEF Layout
<1>18. t[e + 1][1] = s[e + 1][1] /\ \A f \in b + 1..e : t[f] = s[f]
  BY <1>7, <1>9
<1> QED BY <1>3, <1>5, <1>11, <1>17, <1>18, <1>a DEF more, n, w2

\* More frames in another file change nothing.
LEMMA SameLayout ==
  ASSUME NEW cells, NEW w \in FrameSeqs, NEW x, \A f \in 1..Len(w) : x[f] = w[f],
         NEW b \in Nat, NEW e \in Nat, e <= Len(w), NEW s, NEW end, Layout(cells, w, b, e, s, end)
  PROVE  Layout(cells, x, b, e, s, end)
<1>1. \A f \in b + 1..e : x[f] = w[f]
  BY FrameFacts
<1>2. ASSUME NEW f \in b + 1..e
      PROVE  /\ s[f + 1][1] = s[f][Len(x[f]) + 1]
             /\ \A u \in 1..Len(x[f]) :
                   /\ s[f][u + 1] = s[f][u] + LengthSize + x[f][u].unit.length
                   /\ s[f][u + 1] <= end
                   /\ cells[s[f][u] + 1] = LengthCell(x[f][u])
  <2>1. x[f] = w[f]
    BY <1>1
  <2>2. /\ s[f + 1][1] = s[f][Len(w[f]) + 1]
        /\ \A u \in 1..Len(w[f]) :
              /\ s[f][u + 1] = s[f][u] + LengthSize + w[f][u].unit.length
              /\ s[f][u + 1] <= end
              /\ cells[s[f][u] + 1] = LengthCell(w[f][u])
    BY DEF Layout
  <2> QED BY <2>1, <2>2, Zenon
<1>3. /\ s \in [Nat -> Places] /\ b <= e
      /\ s[b + 1][1] = StartOfSamples
      /\ s[e + 1][1] = end /\ end <= Len(cells)
  BY DEF Layout
<1> QED BY <1>2, <1>3, Zenon DEF Layout

-----------------------------------------------------------------------------
(* What the writer does.                                                    *)

\* The places s and t are the same up to the end of frame e.
SamePlaces(s, t, b, e) ==
    (\A f \in b + 1..e : t[f] = s[f]) /\ t[e + 1][1] = s[e + 1][1]

\* The cells c with the frames of w become d with the frames of x.
Grows(c, w, d, x) ==
    /\ x \in FrameSeqs /\ Len(w) <= Len(x) /\ \A f \in 1..Len(w) : x[f] = w[f]
    /\ \A b \in Nat : Holds(c, w, b, Len(w)) => Holds(d, x, b, Len(x))
    /\ \A b \in Nat : \A s :
          Movie(c) /\ Layout(c, w, b, Len(w), s, Len(c)) =>
             Movie(d) /\ \E t : Layout(d, x, b, Len(x), t, Len(d)) /\ SamePlaces(s, t, b, Len(w))

\* A movie is not empty.
LEMMA MovieThere == \A c : Movie(c) => c # <<>>
  BY SamplesStart DEF Movie

\* The file of a dropped frame.
LEMMA DroppedGrows ==
  ASSUME NEW f \in Contents, f.size <= Len(f.cells), NEW w \in FrameSeqs
  PROVE  Grows(f.cells, w, f.cells, w) /\ Grows(f.cells, w, Started(f).cells, w)
<1>1. Len(w) \in Nat /\ Len(w) <= Len(w)
  BY FrameFacts
<1>2. Grows(f.cells, w, f.cells, w)
  BY <1>1 DEF Grows, SamePlaces
<1>3. \A b \in Nat : Holds(f.cells, w, b, Len(w)) => Holds(Started(f).cells, w, b, Len(w))
  BY <1>1, StartedHolds
<1>4. Movie(f.cells) => Started(f) = f
  BY StartedFile, MovieThere
<1> QED BY <1>1, <1>2, <1>3, <1>4 DEF Grows

\* The file of a frame that is written.
LEMMA WrittenGrows ==
  ASSUME NEW f \in Contents, f.size <= Len(f.cells), NEW w \in FrameSeqs,
         NEW nalus \in Seq(Units) \ {<<>>}
  PROVE  Grows(f.cells, w, Started(f).cells \o Cells(nalus), Append(w, nalus))
<1> DEFINE c == Started(f).cells
           d == c \o Cells(nalus)
           x == Append(w, nalus)
           e == Len(w)
<1>1. e \in Nat /\ c \in Seq(Cell)
  BY FrameFacts, StartedFile DEF Contents
<1>2. x \in FrameSeqs /\ Len(x) = e + 1 /\ \A g \in 1..e : x[g] = w[g]
  BY AppendProperties DEF FrameSeqs
<1>3. ASSUME NEW b \in Nat, NEW s, Movie(c), Layout(c, w, b, e, s, Len(c))
      PROVE  Movie(d) /\ \E t : Layout(d, x, b, e + 1, t, Len(d)) /\ SamePlaces(s, t, b, e)
  <2> HIDE DEF c
  <2>1. /\ Movie(d)
        /\ \E t : /\ Layout(d, x, b, e + 1, t, Len(d))
                  /\ \A g \in b + 1..e : t[g] = s[g]
                  /\ t[e + 1][1] = s[e + 1][1]
    BY <1>1, <1>3, Appended
  <2> QED BY <2>1 DEF SamePlaces
<1>4. ASSUME NEW b \in Nat, Holds(f.cells, w, b, e) PROVE Holds(d, x, b, e + 1)
  <2>1. Movie(c) /\ \E s : Layout(c, w, b, e, s, Len(c))
    BY <1>1, <1>4, StartedHolds
  <2> QED BY <1>3, <2>1 DEF Holds
<1>5. Movie(f.cells) => Started(f) = f
  BY StartedFile, MovieThere
<1>6. e <= e + 1
  BY <1>1
<1>7. \A b \in Nat : \A s :
        Movie(f.cells) /\ Layout(f.cells, w, b, e, s, Len(f.cells)) =>
           Movie(d) /\ \E t : Layout(d, x, b, Len(x), t, Len(d)) /\ SamePlaces(s, t, b, e)
  BY <1>2, <1>3, <1>5
<1> QED BY <1>2, <1>4, <1>6, <1>7 DEF Grows

\* What was delivered stays so when frames are written.
LEMMA LinkedGrows ==
  ASSUME written \in FrameSeqs, \A g \in 1..Len(written) : written'[g] = written[g],
         UNCHANGED <<pending, delivered>>,
         NEW b \in Nat, NEW e \in Nat, e <= Len(written),
         NEW f \in b + 1..e + 1, NEW u \in Nat, f = e + 1 => u = 1, Linked(f, u)
  PROVE  Linked(f, u)'
<1>1. Len(written) \in Nat /\ f \in Nat
  BY FrameFacts
<1>2. u > 1 => f \in 1..Len(written)
  BY <1>1
<1>3. u = 1 /\ f > 1 => f - 1 \in 1..Len(written)
  BY <1>1
<1>4. u > 1 => written'[f] = written[f]
  BY <1>2
<1>5. u = 1 /\ f > 1 => written'[f - 1] = written[f - 1]
  BY <1>3
<1> QED BY <1>4, <1>5 DEF Linked

\* The writer adds to its file; the reader stays where it is.
LEMMA GrownInv ==
  ASSUME TypeInv, Control, FileInv,
         Grows(files[currentFile].cells, written, files'[currentFile].cells, written'),
         \A n \in 1..MaxIndex : n # currentFile => files'[n] = files[n],
         UNCHANGED <<header, currentFile, inputFile, swapping, pos, cReady, rpc, foundMDAT,
                     posMDAT, bytesToNextAtom, pending, delivered>>
  PROVE  FileInv'
<1>1. /\ written' \in FrameSeqs /\ Len(written) <= Len(written')
      /\ \A f \in 1..Len(written) : written'[f] = written[f]
      /\ \A b \in Nat : Holds(files[currentFile].cells, written, b, Len(written)) =>
                        Holds(files'[currentFile].cells, written', b, Len(written'))
      /\ \A b \in Nat : \A s :
            Movie(files[currentFile].cells)
              /\ Layout(files[currentFile].cells, written, b, Len(written), s, Len(files[currentFile].cells)) =>
               /\ Movie(files'[currentFile].cells)
               /\ \E t : /\ Layout(files'[currentFile].cells, written', b, Len(written'), t, Len(files'[currentFile].cells))
                         /\ SamePlaces(s, t, b, Len(written))
  BY DEF Grows
<1>2. written \in FrameSeqs /\ Len(written) \in Nat /\ Len(written') \in Nat
  BY <1>1, FrameFacts DEF TypeInv, FrameSeqs
<1>3. header' # "done" => Holds(files'[currentFile'].cells, written', 0, Len(written'))
  BY <1>1 DEF FileInv
<1>4. ASSUME inputFile # 0
      PROVE  \E b, e, f, u \in Nat : \E s :
                /\ Reads(b, e, f, u, s)'
                /\ IF swapping' THEN Holds(files'[currentFile'].cells, written', e, Len(written'))
                                ELSE e = Len(written')
  <2>1. PICK b \in Nat, e \in Nat, f \in Nat, u \in Nat :
           \E s : /\ Reads(b, e, f, u, s)
                  /\ IF swapping THEN Holds(files[currentFile].cells, written, e, Len(written))
                                 ELSE e = Len(written)
    BY <1>4 DEF FileInv
  <2>2. PICK s : /\ Reads(b, e, f, u, s)
                 /\ IF swapping THEN Holds(files[currentFile].cells, written, e, Len(written))
                                ELSE e = Len(written)
    BY <2>1
  <2>3. /\ e <= Len(written) /\ f \in b + 1..e + 1 /\ (f = e + 1 => u = 1)
        /\ (f <= e => u \in 1..Len(written[f])) /\ Position(b, f, u, s)
        /\ PicturesApart => Linked(f, u)
    BY <2>2 DEF Reads
  <2>4. PicturesApart => Linked(f, u)'
    BY <1>1, <1>2, <2>3, LinkedGrows
  <2>5. ASSUME f <= e PROVE u \in 1..Len(written'[f])
    <3>1. f \in 1..Len(written)
      BY <1>2, <2>3, <2>5
    <3> QED BY <1>1, <2>3, <2>5, <3>1
  <2>6. CASE ~swapping
    <3>1. inputFile = currentFile /\ rpc # "drain" /\ e = Len(written)
      BY <1>4, <2>2, <2>6 DEF Control
    <3>2. /\ Movie(files[currentFile].cells)
          /\ Layout(files[currentFile].cells, written, b, Len(written), s, Len(files[currentFile].cells))
      BY <2>2, <3>1 DEF Reads
    <3>3. PICK t : /\ Movie(files'[currentFile].cells)
                   /\ Layout(files'[currentFile].cells, written', b, Len(written'), t, Len(files'[currentFile].cells))
                   /\ SamePlaces(s, t, b, Len(written))
      BY <1>1, <3>2
    <3>4. Position(b, f, u, t)'
      <4>1. t[f][u] = s[f][u]
        <5>1. f \in b + 1..e \/ (f = e + 1 /\ u = 1)
          BY <2>3
        <5> QED BY <3>1, <3>3, <5>1 DEF SamePlaces
      <4> QED BY <2>3, <4>1 DEF Position
    <3>5. /\ f \in b + 1..Len(written') + 1 /\ (f = Len(written') + 1 => u = 1)
          /\ (f <= Len(written') => u \in 1..Len(written'[f]))
      <4>1. CASE f <= e
        <5>1. f \in b + 1..Len(written') + 1 /\ f # Len(written') + 1
          BY <1>1, <1>2, <2>3, <3>1, <4>1
        <5> QED BY <2>5, <4>1, <5>1
      <4>2. CASE ~(f <= e)
        <5>1. f = e + 1 /\ u = 1 /\ f \in b + 1..Len(written') + 1
          BY <1>1, <1>2, <2>3, <3>1, <4>2
        <5>2. f <= Len(written') => f \in 1..Len(written')
          BY <1>2, <5>1
        <5>3. f <= Len(written') => 1 \in 1..Len(written'[f])
          BY <1>1, <5>2, FrameFacts
        <5> QED BY <5>1, <5>3
      <4> QED BY <4>1, <4>2
    <3>6. PICK x \in Nat : x = Len(written')
      BY <1>2
    <3>7. Reads(b, x, f, u, t)'
      BY <2>4, <3>1, <3>3, <3>4, <3>5, <3>6 DEF Reads
    <3>8. ~swapping'
      BY <2>6
    <3> QED BY <2>1, <3>6, <3>7, <3>8
  <2>7. CASE swapping
    <3>1. inputFile # currentFile /\ inputFile \in 1..MaxIndex
      BY <1>4, <2>7, FileTypes DEF Control
    <3>2. files'[inputFile] = files[inputFile]
      BY <3>1
    <3>3. ASSUME NEW end, Layout(files[inputFile].cells, written, b, e, s, end)
          PROVE  Layout(files[inputFile].cells, written', b, e, s, end)
      BY <1>1, <1>2, <2>3, <3>3, SameLayout
    <3>4. Position(b, f, u, s)'
      BY <2>3 DEF Position
    <3>5. e <= Len(written')
      BY <1>1, <1>2, <2>3
    <3>6. Reads(b, e, f, u, s)'
      BY <2>2, <2>3, <2>4, <2>5, <3>2, <3>3, <3>4, <3>5 DEF Reads
    <3>7. Holds(files[currentFile].cells, written, e, Len(written))
      BY <2>2, <2>7
    <3>8. Holds(files'[currentFile].cells, written', e, Len(written'))
      BY <1>1, <3>7
    <3> QED BY <2>1, <2>7, <3>6, <3>8
  <2> QED BY <2>6, <2>7
<1> QED BY <1>3, <1>4 DEF FileInv

\* The frame is dropped.
LEMMA DropInv ==
  ASSUME Inv, DropFrame
  PROVE  Inv'
<1> USE DEF Inv, DropFrame, readVars, scanVars, naluVars
<1> DEFINE n == currentFile
<1>1. /\ n \in 1..MaxIndex /\ files[n] \in Contents /\ files[n].size <= Len(files[n].cells)
      /\ written \in FrameSeqs
  BY FileTypes DEF SizeInv, TypeInv, FrameSeqs
<1>2. /\ Started(files[n]) \in Contents /\ Started(files[n]).size = files[n].size
      /\ files[n].size <= Len(Started(files[n]).cells)
  BY <1>1, StartedFile
<1>3. /\ files' \in [1..MaxIndex -> Contents]
      /\ \A i \in 1..MaxIndex : /\ i # n => files'[i] = files[i]
                                /\ files'[i].size = files[i].size
                                /\ files[i].size <= Len(files[i].cells) =>
                                      files'[i].size <= Len(files'[i].cells)
      /\ files'[n] = files[n] \/ files'[n] = Started(files[n])
  <2>1. CASE UNCHANGED files
    BY <2>1 DEF TypeInv
  <2>2. CASE files' = [files EXCEPT ![n] = Started(@)]
    BY <1>1, <1>2, <2>2 DEF TypeInv
  <2> QED BY <2>1, <2>2
<1>4. TypeInv'
  BY <1>3 DEF TypeInv
<1>5. Control'
  BY DEF Control
<1>6. SizeInv'
  <2>1. inputFile # 0 => inputFile \in 1..MaxIndex
    BY FileTypes
  <2> QED BY <1>3, <2>1 DEF SizeInv, Control
<1>7. FileInv'
  <2>1. Grows(files[n].cells, written, files'[n].cells, written')
    BY <1>1, <1>3, DroppedGrows
  <2> QED BY <1>3, <2>1, GrownInv
<1>8. ShapeInv'
  BY DEF ShapeInv
<1> QED BY <1>4, <1>5, <1>6, <1>7, <1>8

\* The units that the encoder makes of a frame.
LEMMA ShapeUnits ==
  ASSUME NEW shape \in Shapes, NEW k \in Nat
  PROVE  /\ [n \in 1..Len(shape) |-> [frame |-> k, unit |-> shape[n]]] \in Seq(Units) \ {<<>>}
         /\ Len([n \in 1..Len(shape) |-> [frame |-> k, unit |-> shape[n]]]) = Len(shape)
<1>1. shape \in Seq(Nalus) /\ shape # <<>>
  BY EncoderAssumption
<1>2. Len(shape) \in Nat /\ Len(shape) # 0 /\ \A n \in 1..Len(shape) : shape[n] \in Nalus
  BY <1>1
<1>3. [n \in 1..Len(shape) |-> [frame |-> k, unit |-> shape[n]]] \in [1..Len(shape) -> Units]
  BY <1>2 DEF Units
<1> DEFINE q == [n \in 1..Len(shape) |-> [frame |-> k, unit |-> shape[n]]]
<1>4. q \in [1..Len(shape) -> Units]
  BY <1>3
<1> HIDE DEF q, Units
<1>5. q \in Seq(Units) /\ Len(q) = Len(shape)
  BY <1>2, <1>4
<1>6. q # <<>>
  BY <1>2, <1>5
<1> QED BY <1>5, <1>6 DEF q

\* The frame is written.
LEMMA AppendInv ==
  ASSUME Inv, NEW shape \in Shapes, AppendFrame(shape)
  PROVE  Inv'
<1> DEFINE n == currentFile
           nalus == [i \in 1..Len(shape) |-> [frame |-> captured, unit |-> shape[i]]]
           f == Started(files[n])
<1>0. Inv /\ AppendFrame(shape)
  OBVIOUS
<1>1. /\ n \in 1..MaxIndex /\ files[n] \in Contents /\ files[n].size <= Len(files[n].cells)
      /\ written \in FrameSeqs /\ files \in [1..MaxIndex -> Contents]
  BY FileTypes DEF Inv, SizeInv, TypeInv, FrameSeqs
<1>2. /\ f \in Contents /\ f.size = files[n].size
      /\ files[n].size <= Len(f.cells)
  BY <1>1, StartedFile
<1>3. nalus \in Seq(Units) \ {<<>>} /\ Len(nalus) = Len(shape)
  <2>1. captured \in Nat
    BY EncoderAssumption DEF Inv, TypeInv
  <2> QED BY <2>1, ShapeUnits
<1>4. /\ files' = [files EXCEPT ![n].cells = f.cells \o Cells(nalus)]
      /\ written' = Append(written, nalus)
  BY <1>0 DEF AppendFrame
<1>5. f.cells \in Seq(Cell) /\ Len(f.cells) \in Nat
  BY <1>2 DEF Contents
<1>6. /\ f.cells \o Cells(nalus) \in Seq(Cell)
      /\ Len(f.cells) <= Len(f.cells \o Cells(nalus)) /\ Len(f.cells \o Cells(nalus)) \in Nat
  <2> DEFINE y == f.cells
             z == Cells(nalus)
  <2>1. y \in Seq(Cell) /\ z \in Seq(Cell)
    BY <1>3, <1>5, FrameCells
  <2> HIDE DEF y, z, Cell
  <2>2. y \o z \in Seq(Cell) /\ Len(y \o z) = Len(y) + Len(z) /\ Len(y) \in Nat /\ Len(z) \in Nat
    BY <2>1
  <2>3. Len(y) <= Len(y \o z) /\ Len(y \o z) \in Nat
    BY <2>2
  <2> QED BY <2>2, <2>3 DEF y, z
<1>7. /\ files' \in [1..MaxIndex -> Contents]
      /\ \A i \in 1..MaxIndex : i # n => files'[i] = files[i]
      /\ files'[n].cells = f.cells \o Cells(nalus) /\ files'[n].size = files[n].size
      /\ files'[n].size <= Len(files'[n].cells)
  <2> DEFINE g == [files[n] EXCEPT !.cells = f.cells \o Cells(nalus)]
  <2>1. g \in Contents /\ g.cells = f.cells \o Cells(nalus) /\ g.size = f.size
    BY <1>1, <1>2, <1>6 DEF Contents
  <2>2. f.size \in Nat /\ f.size <= Len(f.cells \o Cells(nalus))
    <3>1. f.size \in Nat /\ f.size <= Len(f.cells)
      BY <1>2 DEF Contents
    <3> QED BY <1>5, <1>6, <3>1
  <2> HIDE DEF f
  <2> QED BY <1>1, <1>2, <1>4, <2>1, <2>2
<1> HIDE DEF nalus, f
<1>8. TypeInv'
  <2>1. written' \in Seq(Seq(Units) \ {<<>>})
    BY <1>1, <1>3, <1>4, AppendProperties DEF FrameSeqs
  <2> QED BY <1>0, <1>7, <2>1
       DEF Inv, TypeInv, AppendFrame, readVars, scanVars, naluVars
<1>9. Control'
  BY <1>0 DEF Inv, Control, AppendFrame, readVars, scanVars, naluVars
<1>10. SizeInv'
  <2>1. inputFile # 0 => inputFile \in 1..MaxIndex
    BY <1>0, FileTypes DEF Inv
  <2>2. \A i \in 1..MaxIndex : files'[i].size = files[i].size /\ files'[i].size <= Len(files'[i].cells)
    BY <1>0, <1>7 DEF Inv, SizeInv
  <2> QED BY <1>0, <2>1, <2>2
       DEF Inv, SizeInv, Control, AppendFrame, readVars, scanVars, naluVars
<1>11. FileInv'
  <2>1. Grows(files[n].cells, written, files'[n].cells, written')
    BY <1>1, <1>3, <1>4, <1>7, WrittenGrows DEF f
  <2>2. /\ TypeInv /\ Control /\ FileInv
        /\ UNCHANGED <<header, currentFile, inputFile, swapping, pos, cReady, rpc, foundMDAT,
                       posMDAT, bytesToNextAtom, pending, delivered>>
    BY <1>0 DEF Inv, AppendFrame, readVars, scanVars, naluVars
  <2> QED BY <1>7, <2>1, <2>2, GrownInv
<1>12. ShapeInv'
  <2>1. /\ Len(written) \in Nat /\ Len(written') = Len(written) + 1
        /\ \A i \in 1..Len(written) : written'[i] = written[i]
        /\ written'[Len(written) + 1] = nalus
    BY <1>1, <1>3, <1>4, AppendProperties DEF FrameSeqs
  <2>2. \A i \in 1..Len(shape) : nalus[i].unit = shape[i]
    BY DEF nalus
  <2>3. \A i \in 1..Len(written') : i \in 1..Len(written) \/ i = Len(written) + 1
    BY <2>1
  <2>4. \A i \in 1..Len(written') : \E t \in Shapes :
          Len(written'[i]) = Len(t) /\ \A j \in 1..Len(t) : written'[i][j].unit = t[j]
    <3> SUFFICES ASSUME NEW i \in 1..Len(written')
                 PROVE  \E t \in Shapes :
                           Len(written'[i]) = Len(t) /\ \A j \in 1..Len(t) : written'[i][j].unit = t[j]
      OBVIOUS
    <3>1. CASE i \in 1..Len(written)
      BY <1>0, <2>1, <3>1 DEF Inv, ShapeInv
    <3>2. CASE i = Len(written) + 1
      BY <1>3, <2>1, <2>2, <3>2
    <3> QED BY <2>3, <3>1, <3>2
  <2> QED BY <1>0, <2>4 DEF Inv, ShapeInv, AppendFrame, naluVars
<1> QED BY <1>8, <1>9, <1>10, <1>11, <1>12 DEF Inv

\* More of a file reaches the disk.
LEMMA FlushInv ==
  ASSUME Inv, NEW n \in 1..MaxIndex, Flush(n)
  PROVE  Inv'
<1> USE DEF Inv, readVars, scanVars, naluVars, captureVars
<1>1. PICK size \in (files[n].size + 1)..Len(files[n].cells) :
         KeepsUp(n, size) /\ files' = [files EXCEPT ![n].size = size]
  BY DEF Flush
<1>2. size \in Nat /\ files[n].size <= size /\ size <= Len(files[n].cells)
  BY FileTypes
<1>3. /\ files' \in [1..MaxIndex -> Contents]
      /\ \A i \in 1..MaxIndex : /\ files'[i].cells = files[i].cells
                                /\ files[i].size <= files'[i].size
                                /\ i # n => files'[i].size = files[i].size
      /\ files'[n].size = size
  <2>1. \A i \in 1..MaxIndex : files[i].size <= files[i].size
    BY FileTypes
  <2> QED BY <1>1, <1>2, <2>1 DEF TypeInv, Contents
<1>4. TypeInv'
  BY <1>3 DEF TypeInv, Flush
<1>5. Control'
  BY DEF Control, Flush
<1>6. SizeInv'
  <2>1. \A i \in 1..MaxIndex : /\ files'[i].size <= Len(files'[i].cells)
                               /\ files'[i].size > SwitchPoint => inputFile = i /\ foundMDAT
    BY <1>1, <1>2, <1>3 DEF SizeInv, KeepsUp
  <2>2. ASSUME inputFile # 0
        PROVE  /\ pos <= files'[inputFile].size
               /\ rpc \in {"scan", "deliver", "drain"} => pos + cReady <= files'[inputFile].size
    <3>1. /\ files[inputFile].size \in Nat /\ files'[inputFile].size \in Nat
          /\ files[inputFile].size <= files'[inputFile].size
      BY <1>2, <1>3, <2>2, FileTypes
    <3>2. pos \in Nat /\ cReady \in Nat /\ pos <= files[inputFile].size
      BY <2>2 DEF SizeInv, TypeInv
    <3>3. rpc \in {"scan", "deliver", "drain"} => pos + cReady <= files[inputFile].size
      BY DEF SizeInv
    <3> DEFINE x == files[inputFile].size
               y == files'[inputFile].size
    <3>4. \A z \in Nat : z <= x => z <= y
      <4>1. x \in Nat /\ y \in Nat /\ x <= y
        BY <3>1
      <4> HIDE DEF x, y
      <4> QED BY <4>1
    <3> QED BY <3>2, <3>3, <3>4
  <2>3. inputFile = 0 => rpc = "idle"
    BY DEF Control
  <2> QED BY <2>1, <2>2, <2>3 DEF SizeInv, Flush
<1>7. FileInv'
  <2> USE DEF Flush
  <2>1. currentFile \in 1..MaxIndex /\ (inputFile # 0 => inputFile \in 1..MaxIndex)
    BY FileTypes
  <2>2. \A b, f, u, s : Position(b, f, u, s) => Position(b, f, u, s)'
    BY DEF Position
  <2>3. \A f, u : Linked(f, u) => Linked(f, u)'
    BY DEF Linked
  <2>4. /\ files'[currentFile].cells = files[currentFile].cells
        /\ inputFile # 0 => files'[inputFile].cells = files[inputFile].cells
    BY <1>3, <2>1
  <2>5. ASSUME inputFile # 0
        PROVE  \A b, e, f, u, s : Reads(b, e, f, u, s) => Reads(b, e, f, u, s)'
    BY <2>2, <2>3, <2>4, <2>5 DEF Reads
  <2>6. inputFile' # 0 =>
          \E b, e, f, u \in Nat : \E s :
             /\ Reads(b, e, f, u, s)'
             /\ IF swapping' THEN Holds(files'[currentFile'].cells, written', e, Len(written'))
                             ELSE e = Len(written')
    BY <2>4, <2>5 DEF FileInv
  <2> QED BY <2>4, <2>6 DEF FileInv
<1>8. ShapeInv'
  BY DEF ShapeInv, Flush
<1> QED BY <1>4, <1>5, <1>6, <1>7, <1>8

\* A new writer is put in the place of the old one, or not.
LEMMA SwapInv ==
  ASSUME Inv, SwapWriter
  PROVE  Inv'
<1> USE DEF Inv, SwapWriter, readVars, scanVars, naluVars, captureVars
<1>1. CASE ~swapping /\ TooLarge
  <2>1. /\ swapping' = TRUE /\ currentFile' = NextFile
        /\ files' = [files EXCEPT ![NextFile] = NoFile] /\ source' = "cancelled"
    BY <1>1
  <2>2. /\ inputFile # 0 /\ inputFile \in 1..MaxIndex /\ inputFile = currentFile
        /\ foundMDAT /\ rpc \in {"idle", "scan", "deliver"} /\ header = "done"
    BY <1>1, FileTypes DEF TooLarge, SizeInv, Control
  <2>3. NextFile \in 1..MaxIndex /\ NextFile # currentFile /\ NextFile # inputFile
    <3>1. MaxIndex \in Nat \ {0, 1} /\ currentFile \in 1..MaxIndex
      BY EncoderAssumption, FileTypes
    <3> QED BY <2>2, <3>1 DEF NextFile
  <2>4. /\ files' \in [1..MaxIndex -> Contents] /\ files'[NextFile] = NoFile
        /\ \A i \in 1..MaxIndex : i # NextFile => files'[i] = files[i]
        /\ files'[inputFile] = files[inputFile]
    <3>1. NoFile \in Contents
      BY DEF NoFile, Contents
    <3> QED BY <2>1, <2>2, <2>3, <3>1 DEF TypeInv
  <2>5. TypeInv'
    BY <2>1, <2>3, <2>4 DEF TypeInv
  <2>6. Control'
    BY <2>1, <2>2, <2>3 DEF Control
  <2>7. SizeInv'
    <3>1. NoFile.size = 0 /\ Len(NoFile.cells) = 0 /\ SwitchPoint \in Nat
      BY EncoderAssumption DEF NoFile
    <3>2. \A i \in 1..MaxIndex : /\ files'[i].size <= Len(files'[i].cells)
                                 /\ files'[i].size > SwitchPoint => inputFile = i /\ foundMDAT
      BY <2>4, <3>1 DEF SizeInv
    <3> QED BY <2>4, <3>2 DEF SizeInv
  <2>8. FileInv'
    <3>1. PICK b \in Nat, e \in Nat, f \in Nat, u \in Nat :
             \E s : Reads(b, e, f, u, s) /\ e = Len(written)
      BY <1>1, <2>2 DEF FileInv
    <3>2. PICK s : Reads(b, e, f, u, s) /\ e = Len(written)
      BY <3>1
    <3>3. Reads(b, e, f, u, s)'
      <4>1. Position(b, f, u, s)'
        BY <3>2 DEF Reads, Position
      <4>2. PicturesApart => Linked(f, u)'
        BY <3>2 DEF Reads, Linked
      <4> QED BY <2>2, <2>4, <3>2, <4>1, <4>2 DEF Reads
    <3>4. Holds(files'[currentFile'].cells, written', e, Len(written'))
      BY <2>1, <2>4, <3>2 DEF Holds, NoFile
    <3> QED BY <2>1, <2>2, <3>1, <3>3, <3>4 DEF FileInv
  <2>9. ShapeInv'
    BY DEF ShapeInv
  <2> QED BY <2>5, <2>6, <2>7, <2>8, <2>9
<1>2. CASE ~(~swapping /\ TooLarge)
  <2>1. UNCHANGED <<swapping, currentFile, files, source>>
    BY <1>2
  <2>2. TypeInv'
    BY <2>1 DEF TypeInv
  <2>3. Control'
    BY <2>1 DEF Control
  <2>4. SizeInv'
    BY <2>1 DEF SizeInv
  <2>5. FileInv'
    BY <2>1, FilesSame DEF readState
  <2>6. ShapeInv'
    BY DEF ShapeInv
  <2> QED BY <2>2, <2>3, <2>4, <2>5, <2>6
<1> QED BY <1>1, <1>2

-----------------------------------------------------------------------------
(* The reader opens a file and looks for mdat.                              *)

\* A file that is there is a movie.
LEMMA ThereIsMovie ==
  ASSUME NEW c, NEW w, NEW b, NEW e, Holds(c, w, b, e), c # <<>>
  PROVE  Movie(c) /\ \E s : Layout(c, w, b, e, s, Len(c))
BY DEF Holds

\* The header file is finished: its SPS and PPS are known, and reading begins.
LEMMA ParamsInv ==
  ASSUME Inv, onParamsCompletion
  PROVE  Inv'
<1> USE DEF Inv, onParamsCompletion, readVars, scanVars, naluVars, captureVars
<1>1. /\ inputFile = 0 /\ rpc = "idle" /\ ~swapping /\ ~foundMDAT /\ source = "none"
      /\ pos = 0 /\ bytesToNextAtom = 0 /\ pending = <<>> /\ delivered = <<>> /\ ~needParams
  BY DEF Control
<1>2. currentFile \in 1..MaxIndex /\ currentFile # 0
  BY FileTypes
<1>3. /\ inputFile' \in {0, currentFile}
      /\ inputFile' # 0 => inputFile' = currentFile /\ files[currentFile].cells # <<>>
  BY DEF Open, Exists
<1>4. TypeInv'
  <2>1. inputFile' \in 0..MaxIndex
    BY <1>2, <1>3, EncoderAssumption
  <2> QED BY <2>1 DEF TypeInv
<1>5. Control'
  BY <1>1, <1>3 DEF Control
<1>6. SizeInv'
  <2>1. \A n \in 1..MaxIndex : ~(files[n].size > SwitchPoint)
    BY <1>1 DEF SizeInv
  <2>2. files[currentFile].size \in Nat
    BY FileTypes
  <2>3. pos' <= files'[currentFile].size
    BY <1>1, <2>2
  <2> QED BY <1>1, <1>3, <2>1, <2>3 DEF SizeInv
<1>7. FileInv'
  <2>1. ASSUME inputFile' # 0
        PROVE  \E b, e, f, u \in Nat : \E s :
                  /\ Reads(b, e, f, u, s)'
                  /\ IF swapping' THEN Holds(files'[currentFile'].cells, written', e, Len(written'))
                                  ELSE e = Len(written')
    <3>1. Holds(files[currentFile].cells, written, 0, Len(written)) /\ files[currentFile].cells # <<>>
      BY <1>3, <2>1 DEF FileInv
    <3>2. /\ Movie(files[currentFile].cells)
          /\ \E s : Layout(files[currentFile].cells, written, 0, Len(written), s, Len(files[currentFile].cells))
      BY <3>1, ThereIsMovie
    <3>3. PICK s : Layout(files[currentFile].cells, written, 0, Len(written), s, Len(files[currentFile].cells))
      BY <3>2
    <3>4. written \in FrameSeqs /\ Len(written) \in Nat
      BY FrameFacts DEF TypeInv, FrameSeqs
    <3>5. PICK e \in Nat : e = Len(written)
      BY <3>4
    <3>6. Position(0, 1, 1, s)'
      <4>1. 1 = 0 + 1 /\ 1 \in 1..Len(Preamble) + 1 /\ 0 + 0 = 0
        BY EncoderAssumption
      <4>2. pos' + bytesToNextAtom' = Starts[1]
        BY <1>1, <4>1, StartsAt DEF AtomsAt
      <4> QED BY <1>1, <4>1, <4>2 DEF Position
    <3>7. Linked(1, 1)'
      <4>1. ~(1 > 1) /\ Len(<<>>) = 0
        OBVIOUS
      <4> QED BY <1>1, <4>1 DEF Linked
    <3>8. /\ 1 \in 0 + 1..e + 1 /\ (1 = e + 1 => 1 = 1)
          /\ e <= Len(written) /\ (1 <= e => 1 \in 1..Len(written[1]))
      <4>1. 1 <= e => 1 \in 1..Len(written)
        BY <3>5
      <4>2. 1 <= e => 1 \in 1..Len(written[1])
        BY <3>4, <4>1, FrameFacts
      <4> QED BY <3>5, <4>2
    <3>9. Reads(0, e, 1, 1, s)'
      BY <1>1, <1>3, <2>1, <3>2, <3>3, <3>5, <3>6, <3>7, <3>8 DEF Reads
    <3>10. ~swapping' /\ e = Len(written') /\ 0 \in Nat /\ 1 \in Nat
      BY <3>5
    <3> QED BY <3>9, <3>10
  <2> QED BY <2>1 DEF FileInv
<1>8. ShapeInv'
  BY DEF ShapeInv
<1> QED BY <1>4, <1>5, <1>6, <1>7, <1>8

\* Where the reader looks for a header there is one.
LEMMA ScanPlace ==
  ASSUME Inv, inputFile # 0, ~foundMDAT, rpc = "scan",
         NEW n \in 1..Len(Preamble) + 1, pos = Starts[n], Movie(files[inputFile].cells)
  PROVE  /\ pos + AtomHeader <= StartOfSamples
         /\ n = Len(Preamble) + 1 => Here = AtomCell("mdat", 0) /\ pos + AtomHeader = StartOfSamples
         /\ n # Len(Preamble) + 1 =>
               /\ Here = AtomCell("other", Preamble[n]) /\ n + 1 \in 1..Len(Preamble) + 1
               /\ Starts[n + 1] = Starts[n] + Preamble[n]
               /\ Preamble[n] \in Nat /\ Preamble[n] >= AtomHeader
<1>1. /\ AtomHeader \in Nat \ {0} /\ Len(Preamble) \in Nat
      /\ \A i \in 1..Len(Preamble) : Preamble[i] \in Nat /\ Preamble[i] >= AtomHeader
  BY EncoderAssumption
<1>2. /\ StartOfSamples = Starts[Len(Preamble) + 1] + AtomHeader /\ StartOfSamples = Len(NewMovie)
      /\ StartOfSamples \in Nat /\ pos \in Nat
  BY SamplesStart DEF StartOfSamples, Inv, TypeInv
<1>3. /\ \A i \in 1..Len(Preamble) :
            /\ Starts[i + 1] = Starts[i] + Preamble[i] /\ Starts[i] + AtomHeader <= Len(NewMovie)
            /\ NewMovie[Starts[i] + 1] = AtomCell("other", Preamble[i])
      /\ NewMovie[Starts[Len(Preamble) + 1] + 1] = AtomCell("mdat", 0)
  BY StartsAt DEF AtomsAt
<1>4. n # Len(Preamble) + 1 => n \in 1..Len(Preamble) /\ n + 1 \in 1..Len(Preamble) + 1
  BY <1>1
<1>5. pos + AtomHeader <= StartOfSamples
  BY <1>1, <1>2, <1>3, <1>4
<1>6. pos + 1 \in 1..StartOfSamples
  BY <1>1, <1>2, <1>5
<1>7. Here = NewMovie[pos + 1]
  BY <1>6 DEF Movie, Here
<1> QED BY <1>1, <1>2, <1>3, <1>4, <1>5, <1>7

\* One round of the loop that looks for mdat.
LEMMA FindInv ==
  ASSUME Inv, FindMdat
  PROVE  Inv'
<1> DEFINE due  == bytesToNextAtom = 0
           mdat == due /\ Here.name = "mdat"
           read == IF due THEN AtomHeader ELSE 0
           left == IF mdat THEN 0
                   ELSE IF due THEN Here.size - AtomHeader ELSE bytesToNextAtom
           skip == IF cReady - read < left THEN cReady - read ELSE left
<1>0. /\ TypeInv /\ Control /\ SizeInv /\ FileInv /\ ShapeInv /\ Inv
      /\ rpc = "scan" /\ ~foundMDAT /\ cReady > AtomHeader
      /\ foundMDAT' = mdat
      /\ posMDAT' = IF mdat THEN pos ELSE posMDAT
      /\ bytesToNextAtom' = left - skip
      /\ pos' = pos + read + skip
      /\ cReady' = cReady - read - skip
      /\ UNCHANGED <<captureVars, header, currentFile, files, swapping, source, rpc, inputFile,
                     naluVars, written, delivered>>
  BY DEF FindMdat, Inv
<1>1. /\ inputFile # 0 /\ inputFile \in 1..MaxIndex /\ ~swapping /\ header = "done"
      /\ inputFile = currentFile /\ source = "active"
  BY <1>0, FileTypes DEF Control
<1>2. PICK b \in Nat, e \in Nat, f \in Nat, u \in Nat :
         \E s : Reads(b, e, f, u, s) /\ e = Len(written)
  BY <1>0, <1>1 DEF FileInv
<1>3. PICK s : Reads(b, e, f, u, s) /\ e = Len(written)
  BY <1>2
<1>4. /\ Movie(files[inputFile].cells)
      /\ Layout(files[inputFile].cells, written, b, e, s, Len(files[inputFile].cells))
      /\ f = b + 1 /\ u = 1
      /\ \E n \in 1..Len(Preamble) + 1 : pos + bytesToNextAtom = Starts[n]
  BY <1>0, <1>3 DEF Reads, Position
<1>5. PICK n \in 1..Len(Preamble) + 1 : pos + bytesToNextAtom = Starts[n]
  BY <1>4
<1>6. /\ pos \in Nat /\ cReady \in Nat /\ bytesToNextAtom \in Nat /\ AtomHeader \in Nat \ {0}
      /\ cReady > AtomHeader
  BY <1>0, EncoderAssumption DEF TypeInv
<1>7. due => pos = Starts[n]
  BY <1>5, <1>6
<1>8. /\ left \in Nat /\ skip \in Nat /\ read \in Nat /\ skip <= left /\ read + skip <= cReady
      /\ mdat => skip = 0 /\ read = AtomHeader /\ left = 0
      /\ mdat => pos + AtomHeader = StartOfSamples
      /\ ~mdat => \E i \in 1..Len(Preamble) + 1 : pos + read + left = Starts[i]
  <2>1. CASE mdat
    <3>1. left = 0 /\ read = AtomHeader /\ skip = 0
      BY <1>6, <2>1
    <3>2. n = Len(Preamble) + 1
      <4>1. CASE n # Len(Preamble) + 1
        <5>1. Here = AtomCell("other", Preamble[n])
          BY <1>0, <1>1, <1>4, <1>7, <2>1, <4>1, ScanPlace
        <5> QED BY <2>1, <5>1 DEF AtomCell
      <4> QED BY <4>1
    <3>3. pos + AtomHeader = StartOfSamples
      BY <1>0, <1>1, <1>4, <1>7, <2>1, <3>2, ScanPlace
    <3> QED BY <1>6, <2>1, <3>1, <3>3
  <2>2. CASE due /\ ~mdat
    <3>1. n # Len(Preamble) + 1
      <4>1. CASE n = Len(Preamble) + 1
        <5>1. Here = AtomCell("mdat", 0)
          BY <1>0, <1>1, <1>4, <1>7, <2>2, <4>1, ScanPlace
        <5> QED BY <2>2, <5>1 DEF AtomCell
      <4> QED BY <4>1
    <3>2. /\ Here = AtomCell("other", Preamble[n]) /\ n + 1 \in 1..Len(Preamble) + 1
          /\ Starts[n + 1] = Starts[n] + Preamble[n]
          /\ Preamble[n] \in Nat /\ Preamble[n] >= AtomHeader
      BY <1>0, <1>1, <1>4, <1>7, <2>2, <3>1, ScanPlace
    <3>3. read = AtomHeader /\ left = Preamble[n] - AtomHeader
      BY <2>2, <3>2 DEF AtomCell
    <3>4. left \in Nat /\ skip \in Nat /\ skip <= left /\ read + skip <= cReady
      BY <1>6, <3>2, <3>3
    <3>5. pos + read + left = Starts[n + 1]
      BY <1>6, <1>7, <2>2, <3>2, <3>3
    <3> QED BY <1>6, <2>2, <3>2, <3>3, <3>4, <3>5
  <2>3. CASE ~due
    <3>1. read = 0 /\ left = bytesToNextAtom /\ ~mdat
      BY <2>3
    <3>2. left \in Nat /\ skip \in Nat /\ skip <= left /\ read + skip <= cReady
      BY <1>6, <3>1
    <3>3. pos + read + left = Starts[n]
      BY <1>5, <1>6, <3>1
    <3> QED BY <3>1, <3>2, <3>3
  <2> QED BY <2>1, <2>2, <2>3
<1> HIDE DEF mdat, read, left, skip, due
<1>9. /\ pos' \in Nat /\ cReady' \in Nat /\ bytesToNextAtom' \in Nat /\ foundMDAT' \in BOOLEAN
      /\ pos' + cReady' = pos + cReady /\ pos <= pos'
      /\ pos' + bytesToNextAtom' = pos + read + left
  <2>1. foundMDAT' \in BOOLEAN
    BY <1>0 DEF mdat
  <2> QED BY <1>0, <1>6, <1>8, <2>1
<1>10. TypeInv'
  <2>1. posMDAT' \in Nat
    BY <1>0 DEF TypeInv
  <2> QED BY <1>0, <1>9, <2>1 DEF TypeInv, captureVars, naluVars
<1>11. Control'
  BY <1>0, <1>1 DEF Control, captureVars, naluVars
<1>12. SizeInv'
  <2>1. pos + cReady <= files[inputFile].size /\ files[inputFile].size \in Nat
    BY <1>0, <1>1, FileTypes DEF SizeInv
  <2>2. pos' + cReady' <= files[inputFile].size /\ pos' <= files[inputFile].size
    BY <1>9, <2>1, SMTT(20)
  <2>3. \A i \in 1..MaxIndex : ~(files[i].size > SwitchPoint)
    BY <1>0 DEF SizeInv
  <2> QED BY <1>0, <2>2, <2>3 DEF SizeInv
<1>13. FileInv'
  <2>1. Position(b, f, u, s)'
    <3>1. CASE mdat
      <4>1. s[f][u] = StartOfSamples
        BY <1>4 DEF Layout
      <4>2. pos' = StartOfSamples /\ posMDAT' + AtomHeader = StartOfSamples /\ foundMDAT'
        BY <1>0, <1>6, <1>8, <3>1
      <4> QED BY <4>1, <4>2 DEF Position
    <3>2. CASE ~mdat
      <4>1. \E i \in 1..Len(Preamble) + 1 : pos' + bytesToNextAtom' = Starts[i]
        BY <1>8, <1>9, <3>2
      <4> QED BY <1>0, <1>4, <3>2, <4>1 DEF Position
    <3> QED BY <3>1, <3>2
  <2>2. PicturesApart => Linked(f, u)'
    BY <1>0, <1>3 DEF Reads, Linked, naluVars
  <2>3. Reads(b, e, f, u, s)'
    BY <1>0, <1>3, <1>4, <2>1, <2>2 DEF Reads
  <2>4. ~swapping' /\ e = Len(written')
    BY <1>0, <1>1, <1>3
  <2> QED BY <1>0, <1>1, <1>2, <2>3, <2>4 DEF FileInv
<1>14. ShapeInv'
  BY <1>0 DEF ShapeInv, naluVars
<1> QED BY <1>10, <1>11, <1>12, <1>13, <1>14 DEF Inv

-----------------------------------------------------------------------------
(* The reader takes the units.                                              *)

\* The reader stands in front of the length of unit u of frame f, or at the end.
Facing(e, f, u, s) ==
    /\ pos = s[f][u]
    /\ cReady > LengthSize => f <= e
    /\ ~(f <= e) => f = e + 1 /\ u = 1
    /\ f <= e =>
          /\ f \in 1..Len(written) /\ u \in 1..Len(written[f]) /\ Len(written[f]) \in Nat
          /\ written[f] \in Seq(Units) /\ written[f][u] \in Units
          /\ Here = LengthCell(written[f][u])
          /\ written[f][u].unit.length \in Nat \ {0}
          /\ s[f][u + 1] = pos + LengthSize + written[f][u].unit.length
          /\ s[f + 1][1] = s[f][Len(written[f]) + 1]
          /\ rpc = "drain" => LengthSize + written[f][u].unit.length <= cReady

\* There it stands behind mdat.
LEMMA NextUnit ==
  ASSUME TypeInv, SizeInv, inputFile \in 1..MaxIndex, foundMDAT, rpc \in {"deliver", "drain"},
         NEW b \in Nat, NEW e \in Nat, NEW f \in Nat, NEW u \in Nat, NEW s, Reads(b, e, f, u, s)
  PROVE  Facing(e, f, u, s)
<1>1. /\ pos = s[f][u] /\ e <= Len(written) /\ f \in b + 1..e + 1 /\ (f = e + 1 => u = 1)
      /\ (f <= e => u \in 1..Len(written[f]))
  BY DEF Reads, Position
<1>2. pos \in Nat /\ cReady \in Nat /\ LengthSize \in Nat \ {0}
  BY EncoderAssumption DEF TypeInv
<1>3. /\ Len(files[inputFile].cells) \in Nat /\ files[inputFile].size \in Nat
      /\ pos + cReady <= files[inputFile].size
      /\ files[inputFile].size <= Len(files[inputFile].cells)
  BY FileTypes DEF SizeInv
<1>4. written \in FrameSeqs /\ Len(written) \in Nat
  BY FrameFacts DEF TypeInv, FrameSeqs
<1>5. ~(f <= e) => f = e + 1 /\ u = 1
  BY <1>1
<1>6. PICK end : /\ Layout(files[inputFile].cells, written, b, e, s, end)
                 /\ rpc = "drain" => end = pos + cReady
                 /\ rpc # "drain" => end = Len(files[inputFile].cells)
  BY DEF Reads
<1>7. end \in Nat /\ pos + cReady <= end
  <2>1. CASE rpc = "drain"
    BY <1>2, <1>6, <2>1
  <2>2. CASE rpc # "drain"
    BY <1>2, <1>3, <1>6, <2>2
  <2> QED BY <2>1, <2>2
<1>8. ASSUME ~(f <= e) PROVE ~(cReady > LengthSize)
  <2>1. s[e + 1][1] = end
    BY <1>6 DEF Layout
  <2>2. pos = end
    BY <1>1, <1>5, <1>8, <2>1
  <2> QED BY <1>2, <1>7, <2>2
<1>9. ASSUME f <= e
      PROVE  /\ f \in 1..Len(written) /\ u \in 1..Len(written[f]) /\ Len(written[f]) \in Nat
             /\ written[f] \in Seq(Units) /\ written[f][u] \in Units
             /\ Here = LengthCell(written[f][u])
             /\ written[f][u].unit.length \in Nat \ {0}
             /\ s[f][u + 1] = pos + LengthSize + written[f][u].unit.length
             /\ s[f + 1][1] = s[f][Len(written[f]) + 1]
             /\ rpc = "drain" => LengthSize + written[f][u].unit.length <= cReady
  <2>1. f \in 1..Len(written) /\ u \in 1..Len(written[f]) /\ f \in b + 1..e
    BY <1>1, <1>4, <1>9
  <2>2. /\ Len(written[f]) \in Nat /\ written[f] \in Seq(Units)
        /\ written[f][u].unit.length \in Nat \ {0}
    BY <1>4, <2>1, FrameFacts
  <2>3. written[f][u] \in Units
    BY <2>1, <2>2
  <2>4. /\ s[f][u + 1] = s[f][u] + LengthSize + written[f][u].unit.length
        /\ s[f][u + 1] <= end
        /\ files[inputFile].cells[s[f][u] + 1] = LengthCell(written[f][u])
        /\ s[f + 1][1] = s[f][Len(written[f]) + 1]
    BY <1>6, <2>1 DEF Layout
  <2>5. rpc = "drain" => LengthSize + written[f][u].unit.length <= cReady
    <3> DEFINE l == written[f][u].unit.length
    <3>1. rpc = "drain" => pos + LengthSize + l <= pos + cReady /\ l \in Nat
      BY <1>1, <1>6, <2>2, <2>4
    <3> HIDE DEF l
    <3> QED BY <1>2, <3>1 DEF l
  <2> QED BY <1>1, <2>1, <2>2, <2>3, <2>4, <2>5 DEF Here
<1> QED BY <1>1, <1>5, <1>8, <1>9 DEF Facing

\* NewFrame looks at the header of the unit before.
LEMMA NewFrameBegins ==
  ASSUME NEW p, NEW n, prev = [nri |-> p.nri, type |-> p.type]
  PROVE  NewFrame(n) <=> Begins(p, n)
BY DEF NewFrame, Begins

\* What onNALU does with unit u of frame f.
LEMMA Taken ==
  ASSUME TypeInv, ShapeInv, PicturesApart, NEW f \in 1..Len(written), NEW u \in 1..Len(written[f]),
         Linked(f, u),
         NEW n, n = written[f][u],
         NEW new, new = (pending # <<>> /\ NewFrame(n.unit)),
         pending' = IF new THEN <<n>> ELSE Append(pending, n),
         Len(delivered') = IF new THEN Len(delivered) + 1 ELSE Len(delivered)
  PROVE  /\ Len(delivered') = f - 1 /\ Len(pending') = u
         /\ \A i \in 1..u : pending'[i] = written[f][i]
         /\ new => f > 1 /\ pending = written[f - 1] /\ Len(delivered) = f - 2
<1>1. written \in FrameSeqs
  BY DEF TypeInv, FrameSeqs
<1>2. /\ Len(written) \in Nat /\ f \in Nat /\ u \in Nat
      /\ \A g \in 1..Len(written) : /\ written[g] \in Seq(Units) /\ Len(written[g]) \in Nat
                                    /\ written[g] # <<>> /\ 1 \in 1..Len(written[g])
  <2>1. /\ Len(written) \in Nat
        /\ \A g \in 1..Len(written) : /\ written[g] \in Seq(Units) /\ Len(written[g]) \in Nat
                                      /\ written[g] # <<>> /\ 1 \in 1..Len(written[g])
    BY <1>1, FrameFacts
  <2> QED BY <2>1
<1>3. pending \in Seq(Units) /\ Len(pending) \in Nat /\ Len(delivered) \in Nat
  BY DEF TypeInv
<1>4. /\ n \in Units
      /\ \A g \in 1..Len(written) : \E t \in Shapes :
           Len(written[g]) = Len(t) /\ \A i \in 1..Len(t) : written[g][i].unit = t[i]
  BY <1>2 DEF ShapeInv
<1>5. pending # <<>> => (NewFrame(n.unit) <=> Begins(pending[Len(pending)].unit, n.unit))
  <2> DEFINE last == pending[Len(pending)].unit
  <2>1. pending # <<>> => prev = [nri |-> last.nri, type |-> last.type]
    BY DEF ShapeInv
  <2> HIDE DEF last
  <2> QED BY <2>1, NewFrameBegins DEF last
<1>6. CASE u > 1
  <2>1. Len(delivered) = f - 1 /\ Len(pending) = u - 1 /\ \A i \in 1..u - 1 : pending[i] = written[f][i]
    BY <1>6 DEF Linked
  <2>2. u - 1 \in 1..u - 1 /\ u \in 2..Len(written[f]) /\ pending # <<>>
    BY <1>2, <1>3, <1>6, <2>1
  <2>3. ~Begins(written[f][u - 1].unit, n.unit)
    <3>1. PICK t \in Shapes : Len(written[f]) = Len(t) /\ \A i \in 1..Len(t) : written[f][i].unit = t[i]
      BY <1>4
    <3>2. u \in 2..Len(t) /\ u \in 1..Len(t) /\ u - 1 \in 1..Len(t)
      BY <1>2, <2>2, <3>1
    <3>3. ~Begins(t[u - 1], t[u])
      BY <3>2 DEF PicturesApart
    <3> QED BY <3>1, <3>2, <3>3
  <2>4. ~new /\ pending' = Append(pending, n)
    BY <1>5, <2>1, <2>2, <2>3
  <2>5. /\ Len(pending') = u /\ pending'[u] = n
        /\ \A i \in 1..u - 1 : pending'[i] = pending[i]
    <3>1. /\ Len(pending') = Len(pending) + 1 /\ pending'[Len(pending) + 1] = n
          /\ \A i \in 1..Len(pending) : pending'[i] = pending[i]
      BY <1>3, <1>4, <2>4, AppendProperties
    <3> QED BY <1>2, <2>1, <3>1
  <2>6. \A i \in 1..u : i \in 1..u - 1 \/ i = u
    BY <1>2
  <2> QED BY <2>1, <2>4, <2>5, <2>6
<1>7. CASE u = 1 /\ f > 1
  <2>1. Len(delivered) = f - 2 /\ pending = written[f - 1] /\ f - 1 \in 1..Len(written)
    BY <1>2, <1>7 DEF Linked
  <2>2. pending # <<>> /\ Len(pending) \in 1..Len(pending) /\ 1 \in 1..Len(written[f])
    BY <1>2, <2>1
  <2>3. Begins(pending[Len(pending)].unit, n.unit)
    <3>1. PICK t \in Shapes :
             Len(written[f - 1]) = Len(t) /\ \A i \in 1..Len(t) : written[f - 1][i].unit = t[i]
      BY <1>4, <2>1
    <3>2. PICK r \in Shapes : Len(written[f]) = Len(r) /\ \A i \in 1..Len(r) : written[f][i].unit = r[i]
      BY <1>4
    <3>3. Begins(t[Len(t)], r[1])
      BY DEF PicturesApart
    <3>4. pending[Len(pending)].unit = t[Len(t)] /\ n.unit = r[1]
      BY <1>7, <2>1, <2>2, <3>1, <3>2
    <3> QED BY <3>3, <3>4
  <2>4. new /\ pending' = <<n>>
    BY <1>5, <2>2, <2>3
  <2>5. Len(pending') = 1 /\ pending'[1] = n /\ \A i \in 1..1 : i = 1
    BY <2>4
  <2>6. Len(delivered') = f - 1
    BY <1>2, <2>1, <2>4
  <2> QED BY <1>7, <2>1, <2>5, <2>6
<1>8. CASE u = 1 /\ ~(f > 1)
  <2>1. f = 1 /\ Len(delivered) = 0 /\ pending = <<>>
    BY <1>2, <1>8 DEF Linked
  <2>2. ~new
    BY <2>1
  <2>3. pending' = Append(<<>>, n)
    BY <2>1, <2>2
  <2>4. Len(pending') = 1 /\ pending'[1] = n
    <3>1. Append(<<>>, n) = <<n>> /\ <<n>>[1] = n /\ Len(<<n>>) = 1
      OBVIOUS
    <3> QED BY <2>3, <3>1
  <2>5. \A i \in 1..1 : i = 1
    OBVIOUS
  <2>6. Len(delivered') = f - 1
    BY <2>1, <2>2
  <2> QED BY <1>8, <2>2, <2>4, <2>5, <2>6
<1> QED BY <1>2, <1>6, <1>7, <1>8

\* Then the next unit comes, of this frame or the next.
LEMMA NextLinked ==
  ASSUME NEW f \in Nat, NEW u \in Nat, written[f] \in Seq(Units), u \in 1..Len(written[f]), f >= 1,
         UNCHANGED written, pending' \in Seq(Units),
         Len(delivered') = f - 1, Len(pending') = u, \A i \in 1..u : pending'[i] = written[f][i]
  PROVE  /\ u # Len(written[f]) => Linked(f, u + 1)'
         /\ u = Len(written[f]) => Linked(f + 1, 1)'
<1>1. Len(written[f]) \in Nat /\ u >= 1 /\ (u + 1) - 1 = u /\ u + 1 > 1 /\ u + 1 # 1
  OBVIOUS
<1>2. Linked(f, u + 1)'
  BY <1>1 DEF Linked
<1>3. ASSUME u = Len(written[f]) PROVE Linked(f + 1, 1)'
  <2>1. pending' = written[f]
    <3> DEFINE x == written[f]
               y == pending'
    <3>1. x \in Seq(Units) /\ y \in Seq(Units) /\ Len(x) = Len(y) /\ \A i \in 1..Len(x) : x[i] = y[i]
      BY <1>3
    <3> HIDE DEF x, y, Units
    <3>2. x = y
      BY <3>1, SeqEqual
    <3> QED BY <3>2 DEF x, y
  <2>2. (f + 1) - 1 = f /\ (f + 1) - 2 = f - 1 /\ f + 1 > 1 /\ f + 1 # 1 /\ ~(1 > 1)
    OBVIOUS
  <2> QED BY <2>1, <2>2 DEF Linked
<1> QED BY <1>2, <1>3

\* The next unit is taken, and a frame delivered if one is whole.
LEMMA DeliverInv ==
  ASSUME Inv, readAndDeliver
  PROVE  Inv'
<1> DEFINE n   == Here.nalu
           new == pending # <<>> /\ NewFrame(n.unit)
<1>0. /\ TypeInv /\ Control /\ SizeInv /\ FileInv /\ ShapeInv
      /\ rpc \in {"deliver", "drain"} /\ NaluReady
      /\ IF new THEN onEncodedFrame ELSE UNCHANGED <<times, delivered>>
      /\ pending' = IF new THEN <<n>> ELSE Append(pending, n)
      /\ prev' = [nri |-> n.unit.nri, type |-> n.unit.type]
      /\ pos' = pos + LengthSize + n.unit.length
      /\ cReady' = cReady - LengthSize - n.unit.length
      /\ UNCHANGED <<cpc, captured, needParams, header, currentFile, files, swapping, source, rpc,
                     inputFile, scanVars, written>>
  BY DEF Inv, readAndDeliver
<1>1. inputFile # 0 /\ inputFile \in 1..MaxIndex /\ foundMDAT /\ header = "done"
  BY <1>0, FileTypes DEF Control
<1>2. PICK b \in Nat, e \in Nat, f \in Nat, u \in Nat :
         \E s : /\ Reads(b, e, f, u, s)
                /\ IF swapping THEN Holds(files[currentFile].cells, written, e, Len(written))
                               ELSE e = Len(written)
  BY <1>0, <1>1 DEF FileInv
<1>3. PICK s : /\ Reads(b, e, f, u, s)
               /\ IF swapping THEN Holds(files[currentFile].cells, written, e, Len(written))
                              ELSE e = Len(written)
  BY <1>2
<1>4. /\ pos = s[f][u]
      /\ cReady > LengthSize => f <= e
      /\ f <= e =>
            /\ f \in 1..Len(written) /\ u \in 1..Len(written[f]) /\ Len(written[f]) \in Nat
            /\ written[f] \in Seq(Units) /\ written[f][u] \in Units
            /\ Here = LengthCell(written[f][u])
            /\ written[f][u].unit.length \in Nat \ {0}
            /\ s[f][u + 1] = pos + LengthSize + written[f][u].unit.length
            /\ s[f + 1][1] = s[f][Len(written[f]) + 1]
  <2>1. TypeInv /\ SizeInv /\ inputFile \in 1..MaxIndex /\ foundMDAT /\ rpc \in {"deliver", "drain"}
    BY <1>0, <1>1
  <2>2. Reads(b, e, f, u, s)
    BY <1>3
  <2>3. Facing(e, f, u, s)
    BY <2>1, <2>2, NextUnit
  <2> QED BY <2>3 DEF Facing
<1>5. cReady > LengthSize /\ n.unit.length <= cReady - LengthSize
  BY <1>0 DEF NaluReady
<1>6. f <= e /\ n = written[f][u] /\ n \in Units
  BY <1>4, <1>5 DEF LengthCell
<1>7. /\ pos \in Nat /\ cReady \in Nat /\ LengthSize \in Nat \ {0} /\ n.unit.length \in Nat \ {0}
  BY <1>0, <1>4, <1>6, EncoderAssumption DEF TypeInv
<1>8. /\ pos' \in Nat /\ cReady' \in Nat /\ pos' + cReady' = pos + cReady
      /\ pos' = s[f][u + 1]
  <2> DEFINE l == n.unit.length
  <2>1. l \in Nat /\ l <= cReady - LengthSize /\ s[f][u + 1] = pos + LengthSize + l
    BY <1>4, <1>5, <1>6, <1>7
  <2>2. pos' = pos + LengthSize + l /\ cReady' = cReady - LengthSize - l
    BY <1>0
  <2>3. /\ pos + LengthSize + l \in Nat /\ cReady - LengthSize - l \in Nat
        /\ pos + LengthSize + l + (cReady - LengthSize - l) = pos + cReady
    <3> HIDE DEF l, n
    <3> QED BY <1>7, <2>1
  <2> QED BY <2>1, <2>2, <2>3
<1>9. /\ pending \in Seq(Units) /\ pending' \in Seq(Units)
      /\ Len(pending') \in Nat \ {0} /\ pending'[Len(pending')] = n
  <2>1. pending \in Seq(Units)
    BY <1>0 DEF TypeInv
  <2> HIDE DEF n, new, Units
  <2>2. CASE new
    <3>1. pending' = <<n>>
      BY <1>0, <2>2
    <3>2. <<n>> \in Seq(Units) /\ Len(<<n>>) = 1 /\ <<n>>[1] = n
      BY <1>6
    <3> QED BY <2>1, <3>1, <3>2
  <2>3. CASE ~new
    <3>1. pending' = Append(pending, n)
      BY <1>0, <2>3
    <3>2. /\ Append(pending, n) \in Seq(Units) /\ Len(Append(pending, n)) = Len(pending) + 1
          /\ Append(pending, n)[Len(pending) + 1] = n /\ Len(pending) \in Nat
      BY <1>6, <2>1, AppendProperties
    <3>3. Len(pending) + 1 \in Nat \ {0}
      BY <3>2
    <3> QED BY <2>1, <3>1, <3>2, <3>3
  <2> QED BY <2>2, <2>3
<1>10. /\ times' \in Seq(1..MaxFrames)
       /\ delivered' \in Seq([nalus : Seq(Units), time : Nat])
       /\ Len(delivered) \in Nat
       /\ Len(delivered') = IF new THEN Len(delivered) + 1 ELSE Len(delivered)
  <2> DEFINE time == IF times = <<>> THEN 0 ELSE Head(times)
             D == [nalus : Seq(Units), time : Nat]
  <2>1. times \in Seq(1..MaxFrames) /\ delivered \in Seq(D) /\ Len(delivered) \in Nat
    BY <1>0 DEF TypeInv
  <2>2. time \in Nat
    <3>1. times # <<>> => Head(times) \in 1..MaxFrames
      <4> DEFINE P == 1..MaxFrames
      <4>1. times \in Seq(P)
        BY <2>1
      <4> HIDE DEF P
      <4>2. times # <<>> => Head(times) \in P
        BY <4>1, HeadTailProperties
      <4> QED BY <4>2 DEF P
    <3>2. MaxFrames \in Nat
      BY EncoderAssumption
    <3> QED BY <3>1, <3>2
  <2>3. [nalus |-> pending, time |-> time] \in D
    BY <1>9, <2>2
  <2> HIDE DEF n, new, D
  <2>4. CASE new
    <3>1. delivered' = Append(delivered, [nalus |-> pending, time |-> time])
      BY <1>0, <2>4 DEF onEncodedFrame
    <3>2. times' = IF times = <<>> THEN times ELSE Tail(times)
      BY <1>0, <2>4 DEF onEncodedFrame
    <3>3. times' \in Seq(1..MaxFrames)
      <4> DEFINE P == 1..MaxFrames
      <4>1. times \in Seq(P)
        BY <2>1
      <4> HIDE DEF P
      <4>2. times # <<>> => Tail(times) \in Seq(P)
        BY <4>1, HeadTailProperties
      <4> QED BY <3>2, <4>1, <4>2 DEF P
    <3> HIDE DEF time
    <3>4. delivered' \in Seq(D) /\ Len(delivered') = Len(delivered) + 1
      BY <2>1, <2>3, <3>1, AppendProperties
    <3> QED BY <2>1, <2>4, <3>3, <3>4 DEF D
  <2>5. CASE ~new
    BY <1>0, <2>1, <2>5 DEF D
  <2> QED BY <2>4, <2>5
<1> HIDE DEF n, new
<1>11. TypeInv'
  BY <1>0, <1>8, <1>9, <1>10 DEF TypeInv, scanVars
<1>12. Control'
  BY <1>0, <1>1 DEF Control, scanVars
<1>13. SizeInv'
  <2>1. pos + cReady <= files[inputFile].size /\ files[inputFile].size \in Nat
    BY <1>0, <1>1, FileTypes DEF SizeInv
  <2>2. pos' + cReady' <= files[inputFile].size /\ pos' <= files[inputFile].size
    BY <1>8, <2>1
  <2> QED BY <1>0, <2>2 DEF SizeInv, scanVars
<1>14. ShapeInv'
  <2>1. prev' = [nri |-> n.unit.nri, type |-> n.unit.type]
    BY <1>0
  <2> QED BY <1>0, <1>9, <2>1 DEF ShapeInv
<1>15. ASSUME PicturesApart
       PROVE  /\ u # Len(written[f]) => Linked(f, u + 1)'
              /\ u = Len(written[f]) => Linked(f + 1, 1)'
  <2>1. Linked(f, u)
    BY <1>3, <1>15 DEF Reads
  <2>2. /\ f \in 1..Len(written) /\ u \in 1..Len(written[f]) /\ n = written[f][u]
        /\ f \in Nat /\ f >= 1 /\ written[f] \in Seq(Units)
    BY <1>4, <1>6
  <2>3. /\ Len(delivered') = f - 1 /\ Len(pending') = u
        /\ \A i \in 1..u : pending'[i] = written[f][i]
    <3>1. new = (pending # <<>> /\ NewFrame(n.unit))
      BY DEF new
    <3> QED BY <1>0, <1>10, <1>15, <2>1, <2>2, <3>1, Taken
  <2> QED BY <1>0, <1>9, <2>2, <2>3, NextLinked
<1>16. FileInv'
  <2>0. /\ Layout(files[inputFile].cells, written, b, e, s,
                  IF rpc = "drain" THEN pos + cReady ELSE Len(files[inputFile].cells))
        /\ rpc # "drain" => Movie(files[inputFile].cells)
        /\ e <= Len(written) /\ f \in b + 1..e + 1 /\ posMDAT + AtomHeader = StartOfSamples
    BY <1>1, <1>3 DEF Reads, Position
  <2>1. ASSUME NEW g \in Nat, NEW v \in Nat, pos' = s[g][v], g \in b + 1..e + 1, g = e + 1 => v = 1,
               g <= e => v \in 1..Len(written[g]), PicturesApart => Linked(g, v)'
        PROVE  FileInv'
    <3>1. Position(b, g, v, s)'
      BY <1>0, <1>1, <2>0, <2>1 DEF Position, scanVars
    <3>2. Reads(b, e, g, v, s)'
      BY <1>0, <1>8, <2>0, <2>1, <3>1 DEF Reads
    <3>3. IF swapping' THEN Holds(files'[currentFile'].cells, written', e, Len(written'))
                       ELSE e = Len(written')
      BY <1>0, <1>3
    <3> QED BY <1>0, <1>1, <1>2, <2>1, <3>2, <3>3 DEF FileInv
  <2>2. CASE u # Len(written[f])
    <3>1. /\ u + 1 \in Nat /\ u + 1 \in 1..Len(written[f]) /\ f # e + 1
      BY <1>4, <1>6, <2>2
    <3> QED BY <1>8, <1>15, <2>0, <2>1, <2>2, <3>1
  <2>3. CASE u = Len(written[f])
    <3>1. /\ f + 1 \in Nat /\ f + 1 \in b + 1..e + 1 /\ 1 \in Nat
      BY <1>6, <2>0
    <3>2. pos' = s[f + 1][1]
      BY <1>4, <1>6, <1>8, <2>3
    <3>3. f + 1 <= e => 1 \in 1..Len(written[f + 1])
      <4>1. written \in FrameSeqs /\ Len(written) \in Nat
        BY <1>0, FrameFacts DEF TypeInv, FrameSeqs
      <4>2. f + 1 <= e => f + 1 \in 1..Len(written)
        BY <2>0, <3>1, <4>1
      <4> QED BY <4>1, <4>2, FrameFacts
    <3> QED BY <1>15, <2>1, <2>3, <3>1, <3>2, <3>3
  <2> QED BY <2>2, <2>3
<1> QED BY <1>11, <1>12, <1>13, <1>14, <1>16 DEF Inv

-----------------------------------------------------------------------------
(* The change from one file to the next.                                    *)

\* The old file is finished: the sizes in it change, the samples do not.
LEMMA FinishedCells ==
  ASSUME NEW f \in Contents, Movie(f.cells), NEW w, NEW b \in Nat, NEW e \in Nat, NEW s,
         w \in FrameSeqs, e <= Len(w),
         Layout(f.cells, w, b, e, s, Len(f.cells))
  PROVE  /\ Finished(f) \in Contents /\ Finished(f).size = Len(Finished(f).cells)
         /\ Len(f.cells) <= Len(Finished(f).cells)
         /\ Finished(f).cells[StartOfSamples - AtomHeader + 1].size =
               AtomHeader + Len(f.cells) - StartOfSamples
         /\ Layout(Finished(f).cells, w, b, e, s, Len(f.cells))
<1> DEFINE k == StartOfSamples - AtomHeader + 1
           mdat == [f.cells[k] EXCEPT !.size = AtomHeader + Len(f.cells) - StartOfSamples]
           head == [f.cells EXCEPT ![k] = mdat]
           moov == Atom("other", AtomHeader + 1)
           more == moov \o Data(1)
           all == (head \o moov) \o Data(1)
<1>1. /\ AtomHeader \in Nat \ {0} /\ LengthSize \in Nat \ {0} /\ StartOfSamples \in Nat
      /\ StartOfSamples = Starts[Len(Preamble) + 1] + AtomHeader
      /\ Starts[Len(Preamble) + 1] \in Nat
  BY SamplesStart, EncoderAssumption
<1>2. f.cells \in Seq(Cell) /\ Len(f.cells) \in Nat /\ Len(f.cells) >= StartOfSamples
  <2>1. f.cells \in Seq(Cell)
    BY DEF Contents
  <2> QED BY <2>1 DEF Movie
<1>3. k = Starts[Len(Preamble) + 1] + 1 /\ k \in 1..StartOfSamples /\ k \in 1..Len(f.cells)
  <2> DEFINE m == Len(f.cells)
  <2>1. m \in Nat /\ StartOfSamples <= m
    BY <1>1, <1>2
  <2> HIDE DEF m
  <2> DEFINE start == Starts[Len(Preamble) + 1]
             samples == StartOfSamples
  <2>2. start \in Nat /\ samples = start + AtomHeader /\ k = samples - AtomHeader + 1
    BY <1>1
  <2>3. samples \in Nat /\ samples <= m
    BY <1>1, <2>1
  <2> HIDE DEF k, start, samples
  <2>4. k = start + 1 /\ k \in 1..samples /\ k \in 1..m
    BY <1>1, <2>1, <2>2, <2>3
  <2> QED BY <2>4 DEF m, start, samples
<1>4. f.cells[k] = AtomCell("mdat", 0)
  <2>1. NewMovie[Starts[Len(Preamble) + 1] + 1] = AtomCell("mdat", 0)
    BY StartsAt DEF AtomsAt
  <2> HIDE DEF k
  <2> QED BY <1>3, <2>1 DEF Movie
<1>5. AtomHeader + Len(f.cells) - StartOfSamples \in Nat
  BY <1>1, <1>2, SMTT(20)
<1>6. mdat = AtomCell("mdat", AtomHeader + Len(f.cells) - StartOfSamples) /\ mdat \in Cell
  <2> HIDE DEF k
  <2>1. mdat = AtomCell("mdat", AtomHeader + Len(f.cells) - StartOfSamples)
    BY <1>4 DEF AtomCell
  <2>2. \A size \in Nat : AtomCell("mdat", size) \in Cell
    BY DEF AtomCell, Cell
  <2> QED BY <1>5, <2>1, <2>2
<1> HIDE DEF mdat, k
<1>7. /\ head \in Seq(Cell) /\ Len(head) = Len(f.cells) /\ head[k] = mdat
      /\ \A i \in 1..Len(f.cells) : i # k => head[i] = f.cells[i]
  BY <1>2, <1>3, <1>6
<1>8. moov \in Seq(Cell) /\ Data(1) \in Seq(Cell)
  <2>1. AtomHeader + 1 \in Nat
    BY <1>1
  <2> QED BY <2>1, AtomCells, DataCells
<1> HIDE DEF head, moov
<1>9. /\ all \in Seq(Cell) /\ Len(f.cells) <= Len(all) /\ Len(all) \in Nat
      /\ \A i \in 1..Len(f.cells) : all[i] = head[i]
  <2>1. ASSUME NEW y \in Seq(Cell), NEW z \in Seq(Cell)
        PROVE  /\ y \o z \in Seq(Cell) /\ Len(y \o z) = Len(y) + Len(z)
               /\ \A x \in 1..Len(y) : (y \o z)[x] = y[x]
               /\ Len(y) \in Nat /\ Len(z) \in Nat
    BY Together
  <2> DEFINE one == head \o moov
  <2>2. /\ one \in Seq(Cell) /\ Len(one) = Len(head) + Len(moov)
        /\ \A x \in 1..Len(head) : one[x] = head[x]
        /\ Len(head) \in Nat /\ Len(moov) \in Nat
    BY <1>7, <1>8, <2>1
  <2> HIDE DEF one
  <2>3. /\ one \o Data(1) \in Seq(Cell) /\ Len(one \o Data(1)) = Len(one) + Len(Data(1))
        /\ \A x \in 1..Len(one) : (one \o Data(1))[x] = one[x]
        /\ Len(one) \in Nat /\ Len(Data(1)) \in Nat
    BY <1>8, <2>1, <2>2
  <2>4. \A i \in 1..Len(f.cells) : i \in 1..Len(head) /\ i \in 1..Len(one)
    BY <1>7, <2>2, <2>3
  <2>5. Len(f.cells) <= Len(one \o Data(1)) /\ Len(one \o Data(1)) \in Nat
    BY <1>2, <1>7, <2>2, <2>3
  <2> QED BY <2>2, <2>3, <2>4, <2>5 DEF one
<1>10. Finished(f) = [cells |-> all, size |-> Len(all)]
  BY DEF Finished, head, mdat, moov, k
<1> HIDE DEF all
<1>11. /\ Finished(f) \in Contents /\ Finished(f).size = Len(Finished(f).cells)
       /\ Finished(f).cells = all
  BY <1>9, <1>10 DEF Contents
<1>12. all[k].size = AtomHeader + Len(f.cells) - StartOfSamples
  <2>1. all[k] = mdat
    BY <1>3, <1>7, <1>9
  <2> QED BY <1>6, <2>1 DEF AtomCell
<1>13. ASSUME NEW g \in b + 1..e, NEW u \in 1..Len(w[g])
       PROVE  all[s[g][u] + 1] = LengthCell(w[g][u])
  <2>1. /\ s[g][u + 1] = s[g][u] + LengthSize + w[g][u].unit.length
        /\ s[g][u + 1] <= Len(f.cells)
        /\ f.cells[s[g][u] + 1] = LengthCell(w[g][u]) /\ s \in [Nat -> Places]
    BY DEF Layout
  <2>2. g \in 1..Len(w) /\ g \in Nat /\ Len(w[g]) \in Nat /\ w[g][u].unit.length \in Nat
    BY FrameFacts
  <2>3. s[g][u] \in Nat
    BY <2>1, <2>2 DEF Places
  <2>4. s[g][u] + 1 \in 1..Len(f.cells)
    <3> DEFINE x == s[g][u]
               l == w[g][u].unit.length
               m == Len(f.cells)
    <3>1. x \in Nat /\ l \in Nat /\ m \in Nat /\ x + LengthSize + l <= m
      BY <1>2, <2>1, <2>2, <2>3
    <3>2. x + 1 \in 1..m
      <4> HIDE DEF x, l, m
      <4> QED BY <1>1, <3>1
    <3> QED BY <3>2
  <2>5. s[g][u] + 1 # k
    <3>1. AtomCell("mdat", 0) # LengthCell(w[g][u])
      BY DEF AtomCell, LengthCell
    <3> QED BY <1>4, <2>1, <3>1
  <2> QED BY <1>7, <1>9, <2>1, <2>4, <2>5
<1>14. Layout(all, w, b, e, s, Len(f.cells))
  BY <1>9, <1>13 DEF Layout
<1> QED BY <1>9, <1>11, <1>12, <1>14 DEF k

\* swapFiles reads the size of mdat.
LEMMA SwapFilesInv ==
  ASSUME Inv, swapFiles
  PROVE  Inv'
<1> DEFINE old == files[inputFile]
           new == Finished(old)
<1>0. /\ TypeInv /\ Control /\ SizeInv /\ FileInv /\ ShapeInv
      /\ rpc = "finishing"
      /\ files' = [files EXCEPT ![inputFile] = new]
      /\ cReady' = posMDAT + new.cells[posMDAT + 1].size - pos
      /\ rpc' = "drain"
      /\ UNCHANGED <<captureVars, header, currentFile, swapping, source, inputFile, pos,
                     scanVars, naluVars, written, delivered>>
  BY DEF Inv, swapFiles
<1>1. /\ inputFile # 0 /\ inputFile \in 1..MaxIndex /\ foundMDAT /\ header = "done"
      /\ swapping /\ currentFile # inputFile /\ source = "none"
  BY <1>0, FileTypes DEF Control
<1>2. PICK b \in Nat, e \in Nat, f \in Nat, u \in Nat :
         \E s : Reads(b, e, f, u, s) /\ Holds(files[currentFile].cells, written, e, Len(written))
  BY <1>0, <1>1 DEF FileInv
<1>3. PICK s : Reads(b, e, f, u, s) /\ Holds(files[currentFile].cells, written, e, Len(written))
  BY <1>2
<1>4. /\ Movie(old.cells) /\ Layout(old.cells, written, b, e, s, Len(old.cells))
      /\ e <= Len(written) /\ posMDAT + AtomHeader = StartOfSamples
  BY <1>0, <1>1, <1>3 DEF Reads, Position
<1>5. /\ old \in Contents /\ written \in FrameSeqs /\ Len(old.cells) \in Nat /\ pos \in Nat
      /\ pos <= Len(old.cells) /\ posMDAT \in Nat /\ AtomHeader \in Nat /\ StartOfSamples \in Nat
  <2>1. /\ old \in Contents /\ written \in FrameSeqs /\ Len(old.cells) \in Nat /\ pos \in Nat
        /\ old.size \in Nat /\ posMDAT \in Nat
    BY <1>0, <1>1, FileTypes DEF TypeInv, FrameSeqs
  <2>2. pos <= old.size /\ old.size <= Len(old.cells)
    BY <1>0, <1>1 DEF SizeInv
  <2>3. AtomHeader \in Nat /\ StartOfSamples \in Nat
    BY EncoderAssumption, SamplesStart
  <2> HIDE DEF old
  <2> QED BY <2>1, <2>2, <2>3
<1>6. /\ new \in Contents /\ new.size = Len(new.cells) /\ Len(old.cells) <= Len(new.cells)
      /\ new.cells[StartOfSamples - AtomHeader + 1].size = AtomHeader + Len(old.cells) - StartOfSamples
      /\ Layout(new.cells, written, b, e, s, Len(old.cells))
  <2> HIDE DEF old
  <2> QED BY <1>4, <1>5, FinishedCells
<1> HIDE DEF old, new
<1>7. cReady' \in Nat /\ pos + cReady' = Len(old.cells)
  <2>1. posMDAT + 1 = StartOfSamples - AtomHeader + 1
    BY <1>4, <1>5
  <2> DEFINE m == Len(old.cells)
  <2>2. cReady' = posMDAT + (AtomHeader + m - StartOfSamples) - pos
    BY <1>0, <1>6, <2>1
  <2> HIDE DEF m
  <2>3. m \in Nat /\ pos <= m
    BY <1>5 DEF m
  <2>4. cReady' \in Nat /\ pos + cReady' = m
    BY <1>4, <1>5, <2>2, <2>3
  <2> QED BY <2>4 DEF m
<1>8. /\ files' \in [1..MaxIndex -> Contents] /\ files'[inputFile] = new
      /\ \A i \in 1..MaxIndex : i # inputFile => files'[i] = files[i]
  BY <1>0, <1>1, <1>6 DEF TypeInv
<1>9. TypeInv'
  BY <1>0, <1>7, <1>8 DEF TypeInv, captureVars, scanVars, naluVars
<1>10. Control'
  BY <1>0, <1>1 DEF Control, captureVars, scanVars, naluVars
<1>11. SizeInv'
  <2>1. Len(new.cells) \in Nat
    BY <1>6 DEF Contents
  <2>2. /\ pos' + cReady' <= files'[inputFile'].size /\ pos' <= files'[inputFile'].size
        /\ files'[inputFile].size <= Len(files'[inputFile].cells)
    BY <1>0, <1>5, <1>6, <1>7, <1>8, <2>1, SMTT(20)
  <2>3. \A i \in 1..MaxIndex : /\ files'[i].size <= Len(files'[i].cells)
                               /\ files'[i].size > SwitchPoint => inputFile = i /\ foundMDAT
    BY <1>0, <1>1, <1>8, <2>2 DEF SizeInv
  <2> QED BY <1>0, <2>2, <2>3 DEF SizeInv, scanVars
<1>12. FileInv'
  <2>1. Position(b, f, u, s)'
    BY <1>0, <1>3 DEF Reads, Position, scanVars
  <2>2. PicturesApart => Linked(f, u)'
    BY <1>0, <1>3 DEF Reads, Linked, naluVars
  <2>3. Reads(b, e, f, u, s)'
    BY <1>0, <1>3, <1>6, <1>7, <1>8, <2>1, <2>2 DEF Reads
  <2>4. files'[currentFile] = files[currentFile]
    BY <1>0, <1>1, <1>8, FileTypes
  <2>5. swapping' /\ Holds(files'[currentFile'].cells, written', e, Len(written'))
    BY <1>0, <1>1, <1>3, <2>4
  <2> QED BY <1>0, <1>1, <1>2, <2>3, <2>5 DEF FileInv
<1>13. ShapeInv'
  BY <1>0 DEF ShapeInv, naluVars
<1> QED BY <1>9, <1>10, <1>11, <1>12, <1>13 DEF Inv

\* The old file has been read to its end; the reader goes on with the new one.
LEMMA OpenNewInv ==
  ASSUME Inv, OpenNew
  PROVE  Inv'
<1>0. /\ TypeInv /\ Control /\ SizeInv /\ FileInv /\ ShapeInv
      /\ rpc = "drain"
      /\ ~NaluReady
      /\ files' = [files EXCEPT ![inputFile] = NoFile]
      /\ inputFile' = Open(currentFile)
      /\ pos' = 0 /\ foundMDAT' = FALSE /\ bytesToNextAtom' = 0
      /\ source' = "active"
      /\ swapping' = FALSE
      /\ rpc' = "idle"
      /\ UNCHANGED <<captureVars, header, currentFile, cReady, posMDAT, naluVars, written,
                     delivered>>
  BY DEF Inv, OpenNew
<1>1. /\ inputFile # 0 /\ inputFile \in 1..MaxIndex /\ foundMDAT /\ header = "done"
      /\ swapping /\ currentFile # inputFile /\ currentFile \in 1..MaxIndex
  BY <1>0, FileTypes DEF Control
<1>2. PICK b \in Nat, e \in Nat, f \in Nat, u \in Nat :
         \E s : Reads(b, e, f, u, s) /\ Holds(files[currentFile].cells, written, e, Len(written))
  BY <1>0, <1>1 DEF FileInv
<1>3. PICK s : Reads(b, e, f, u, s) /\ Holds(files[currentFile].cells, written, e, Len(written))
  BY <1>2
<1>4. f = e + 1 /\ u = 1
  <2>1. /\ ~(f <= e) => f = e + 1 /\ u = 1
        /\ f <= e => /\ Here = LengthCell(written[f][u])
                     /\ written[f][u].unit.length \in Nat \ {0}
                     /\ LengthSize + written[f][u].unit.length <= cReady
    <3>1. TypeInv /\ SizeInv /\ inputFile \in 1..MaxIndex /\ foundMDAT /\ rpc \in {"deliver", "drain"}
      BY <1>0, <1>1
    <3>2. Reads(b, e, f, u, s)
      BY <1>3
    <3>3. Facing(e, f, u, s)
      BY <3>1, <3>2, NextUnit
    <3> QED BY <1>0, <3>3 DEF Facing
  <2>2. ASSUME f <= e PROVE FALSE
    <3> DEFINE l == written[f][u].unit.length
    <3>1. Here.nalu.unit.length = l /\ l \in Nat \ {0} /\ LengthSize + l <= cReady
      BY <2>1, <2>2 DEF LengthCell
    <3>2. cReady \in Nat /\ LengthSize \in Nat
      BY <1>0, EncoderAssumption DEF TypeInv
    <3>3. cReady > LengthSize /\ l <= cReady - LengthSize
      <4> HIDE DEF l
      <4> QED BY <3>1, <3>2
    <3> QED BY <1>0, <3>1, <3>3 DEF NaluReady
  <2> QED BY <2>1, <2>2
<1>5. /\ inputFile' \in {0, currentFile} /\ inputFile' \in 0..MaxIndex
      /\ inputFile' # 0 => inputFile' = currentFile /\ files[currentFile].cells # <<>>
  BY <1>0, <1>1, EncoderAssumption DEF Open, Exists
<1>6. /\ files' \in [1..MaxIndex -> Contents] /\ files'[inputFile] = NoFile
      /\ \A i \in 1..MaxIndex : i # inputFile => files'[i] = files[i]
      /\ files'[currentFile] = files[currentFile]
  <2>1. NoFile \in Contents
    BY DEF NoFile, Contents
  <2> QED BY <1>0, <1>1, <2>1 DEF TypeInv
<1>7. TypeInv'
  BY <1>0, <1>5, <1>6 DEF TypeInv, captureVars, naluVars
<1>8. Control'
  BY <1>0, <1>1, <1>5 DEF Control, captureVars, naluVars
<1>9. SizeInv'
  <2>1. NoFile.size = 0 /\ Len(NoFile.cells) = 0 /\ SwitchPoint \in Nat
    BY EncoderAssumption DEF NoFile
  <2>2. \A i \in 1..MaxIndex : /\ files'[i].size <= Len(files'[i].cells)
                               /\ ~(files'[i].size > SwitchPoint)
    BY <1>0, <1>6, <2>1 DEF SizeInv
  <2>3. pos' <= files'[currentFile].size
    BY <1>0, <1>1, <1>6, FileTypes
  <2> QED BY <1>0, <1>5, <2>2, <2>3 DEF SizeInv
<1>10. FileInv'
  <2>1. ASSUME inputFile' # 0
        PROVE  \E c, d, g, v \in Nat : \E t :
                  /\ Reads(c, d, g, v, t)'
                  /\ IF swapping' THEN Holds(files'[currentFile'].cells, written', d, Len(written'))
                                  ELSE d = Len(written')
    <3>1. PICK t : /\ Movie(files[currentFile].cells)
                   /\ Layout(files[currentFile].cells, written, e, Len(written), t, Len(files[currentFile].cells))
      BY <1>3, <1>5, <2>1, ThereIsMovie
    <3>2. written \in FrameSeqs /\ Len(written) \in Nat
      BY <1>0, FrameFacts DEF TypeInv, FrameSeqs
    <3>3. PICK d \in Nat : d = Len(written)
      BY <3>2
    <3>4. e <= d
      BY <1>3, <3>3 DEF Reads
    <3>5. Position(e, e + 1, 1, t)'
      <4>1. 1 \in 1..Len(Preamble) + 1 /\ 0 + 0 = 0
        BY EncoderAssumption
      <4>2. pos' + bytesToNextAtom' = Starts[1]
        BY <1>0, <4>1, StartsAt DEF AtomsAt
      <4> QED BY <1>0, <4>1, <4>2 DEF Position
    <3>6. PicturesApart => Linked(e + 1, 1)'
      <4>1. PicturesApart => Linked(e + 1, 1)
        BY <1>3, <1>4 DEF Reads
      <4> QED BY <1>0, <4>1 DEF Linked, naluVars
    <3>7. /\ e + 1 \in Nat /\ 1 \in Nat
          /\ e + 1 \in e + 1..d + 1 /\ (e + 1 = d + 1 => 1 = 1)
          /\ (e + 1 <= d => 1 \in 1..Len(written[e + 1]))
      <4>1. e + 1 <= d => e + 1 \in 1..Len(written)
        BY <3>3
      <4>2. e + 1 <= d => 1 \in 1..Len(written[e + 1])
        BY <3>2, <4>1, FrameFacts
      <4> QED BY <3>3, <3>4, <4>2
    <3>8. d <= Len(written)
      BY <3>3
    <3>9. Reads(e, d, e + 1, 1, t)'
      BY <1>0, <1>5, <1>6, <2>1, <3>1, <3>3, <3>5, <3>6, <3>7, <3>8 DEF Reads
    <3> QED BY <1>0, <1>2, <3>3, <3>7, <3>9
  <2> QED BY <1>0, <1>1, <2>1 DEF FileInv
<1>11. ShapeInv'
  BY <1>0 DEF ShapeInv, naluVars
<1> QED BY <1>7, <1>8, <1>9, <1>10, <1>11 DEF Inv

\* A stuttering step.
LEMMA StutterInv ==
  ASSUME Inv, UNCHANGED vars
  PROVE  Inv'
<1> USE DEF vars, captureVars, readVars, scanVars, naluVars, Inv
<1>1. TypeInv'
  BY DEF TypeInv
<1>2. Control'
  BY DEF Control
<1>3. SizeInv'
  BY DEF SizeInv
<1>4. FileInv'
  BY FilesSame DEF readState
<1>5. ShapeInv'
  BY DEF ShapeInv
<1> QED BY <1>1, <1>2, <1>3, <1>4, <1>5

\* Every step keeps the invariant.
LEMMA NextInv == Inv /\ [Next]_vars => Inv'
<1> SUFFICES ASSUME Inv, [Next]_vars PROVE Inv'
  OBVIOUS
<1>1. CASE \E ready \in BOOLEAN : encodeFrame(ready)
  BY <1>1, EncodeInv
<1>2. CASE QueueTime
  BY <1>2, QueueInv
<1>3. CASE SwapWriter
  BY <1>3, SwapInv
<1>4. CASE DropFrame
  BY <1>4, DropInv
<1>5. CASE \E shape \in Shapes : AppendFrame(shape)
  BY <1>5, AppendInv
<1>6. CASE \E n \in 1..MaxIndex : Flush(n)
  BY <1>6, FlushInv
<1>7. CASE onParamsCompletion
  BY <1>7, ParamsInv
<1>8. CASE ParamsMissing
  BY <1>8, ParamsMissingInv
<1>9. CASE onFileUpdate \/ ScanEnds \/ WaitForMore \/ FinishOld
  BY <1>9, WaitingInv
<1>10. CASE FindMdat
  BY <1>10, FindInv
<1>11. CASE readAndDeliver
  BY <1>11, DeliverInv
<1>12. CASE OpenNew
  BY <1>12, OpenNewInv
<1>13. CASE swapFiles
  BY <1>13, SwapFilesInv
<1>14. CASE UNCHANGED vars
  BY <1>14, StutterInv
<1> QED BY <1>1, <1>2, <1>3, <1>4, <1>5, <1>6, <1>7, <1>8, <1>9, <1>10, <1>11, <1>12, <1>13, <1>14
     DEF Next, CaptureStep, ReadStep

\* The invariant holds always.
LEMMA Invariant == Spec => []Inv
<1>1. Init => Inv
  BY InitInv
<1>2. Inv /\ [Next]_vars => Inv'
  BY NextInv
<1> QED BY <1>1, <1>2, PTL DEF Spec

\* The state has its types: counters stay natural numbers (encodeFrame, onFileUpdate and the
\* skipping of atoms subtract from them).
THEOREM TypeCorrect == Spec => []TypeOK
<1>1. Inv => TypeOK
  BY DEF Inv, TypeInv, TypeOK
<1> QED BY <1>1, Invariant, PTL

\* The reader is in step with the file, whatever units the encoder makes and however the file
\* grows: where it takes a header or a length, there is one (onFileUpdate, readAndDeliver,
\* swapFiles).
THEOREM InStep == Spec => []ReaderInStep
<1>1. ASSUME Inv PROVE ReaderInStep
  <2>0. TypeInv /\ Control /\ SizeInv /\ FileInv
    BY <1>1 DEF Inv
  <2>1. ASSUME rpc = "scan", ~foundMDAT, cReady > AtomHeader, bytesToNextAtom = 0
        PROVE  Here.kind = "atom"
    <3>1. inputFile # 0 /\ pos \in Nat
      BY <2>0, <2>1 DEF Control, TypeInv
    <3>2. PICK b \in Nat, e \in Nat, f \in Nat, u \in Nat : \E s : Reads(b, e, f, u, s)
      BY <2>0, <3>1 DEF FileInv
    <3>3. PICK n \in 1..Len(Preamble) + 1 : pos + bytesToNextAtom = Starts[n]
      BY <2>1, <3>2 DEF Reads, Position
    <3>4. pos = Starts[n] /\ Movie(files[inputFile].cells)
      BY <2>1, <3>1, <3>2, <3>3 DEF Reads
    <3>5. Here = AtomCell("mdat", 0) \/ Here = AtomCell("other", Preamble[n])
      BY <1>1, <2>1, <3>1, <3>4, ScanPlace
    <3> QED BY <3>5 DEF AtomCell
  <2>2. ASSUME rpc \in {"deliver", "drain"}, cReady > LengthSize
        PROVE  Here.kind = "length"
    <3>1. inputFile # 0 /\ foundMDAT /\ inputFile \in 1..MaxIndex
      BY <2>0, <2>2, FileTypes DEF Control
    <3>2. PICK b \in Nat, e \in Nat, f \in Nat, u \in Nat : \E s : Reads(b, e, f, u, s)
      BY <2>0, <3>1 DEF FileInv
    <3>3. PICK s : Reads(b, e, f, u, s)
      BY <3>2
    <3>4. Here = LengthCell(written[f][u])
      <4>1. TypeInv /\ SizeInv /\ rpc \in {"deliver", "drain"} /\ cReady > LengthSize
        BY <2>0, <2>2
      <4>2. /\ cReady > LengthSize => f <= e
            /\ f <= e => Here = LengthCell(written[f][u])
        <5>1. Facing(e, f, u, s)
          BY <3>1, <3>3, <4>1, NextUnit
        <5> QED BY <5>1 DEF Facing
      <4> QED BY <4>1, <4>2
    <3> QED BY <3>4 DEF LengthCell
  <2> QED BY <2>0, <2>1, <2>2 DEF ReaderInStep, SizeInv
<1> QED BY <1>1, Invariant, PTL

-----------------------------------------------------------------------------
(* The frames that are written, and their times.                            *)

\* The frames that encodeFrame is done with.
Done == IF cpc = "idle" THEN captured ELSE captured - 1

\* Frames are written in the order they are captured, each once.
WrittenInv ==
    /\ \A n \in 1..Len(written) : /\ written[n][1].frame \in Nat
                                  /\ n <= written[n][1].frame /\ written[n][1].frame <= Done
    /\ \A i, j \in 1..Len(written) : i < j => written[i][1].frame < written[j][1].frame
    /\ Len(written) <= Done

\* The times in the queue go on where those of the delivered frames end.
TimesInv ==
    /\ Len(delivered) <= Len(written)
    /\ Len(times) + Len(delivered) + (IF cpc = "time" THEN 1 ELSE 0) = captured
    /\ \A i \in 1..Len(times) : times[i] = Len(delivered) + i
    /\ \A n \in 1..Len(delivered) : delivered[n].nalus = written[n] /\ delivered[n].time = n

\* Only a frame that is written changes what is written.
LEMMA WrittenNext ==
  ASSUME Inv, WrittenInv, [Next]_vars
  PROVE  WrittenInv'
<1>0. /\ written \in FrameSeqs /\ Len(written) \in Nat /\ captured \in Nat /\ Done \in Nat
      /\ cpc # "idle" => captured >= 1
  <2>1. written \in FrameSeqs /\ captured \in Nat
    BY EncoderAssumption DEF Inv, TypeInv, FrameSeqs
  <2>2. cpc # "idle" => captured >= 1
    BY DEF Inv, Control
  <2> QED BY <2>1, <2>2, FrameFacts DEF Done
<1>1. ASSUME NEW shape \in Shapes, AppendFrame(shape) PROVE WrittenInv'
  <2> DEFINE nalus == [i \in 1..Len(shape) |-> [frame |-> captured, unit |-> shape[i]]]
             k == Len(written)
  <2>1. cpc = "write" /\ cpc' = "idle" /\ captured' = captured /\ written' = Append(written, nalus)
    BY <1>1 DEF AppendFrame
  <2>2. nalus \in Seq(Units) \ {<<>>} /\ nalus[1].frame = captured
    <3>1. nalus \in Seq(Units) \ {<<>>} /\ Len(nalus) = Len(shape)
      BY <1>0, ShapeUnits
    <3>2. shape \in Seq(Nalus) /\ shape # <<>>
      BY EncoderAssumption
    <3>3. 1 \in 1..Len(shape)
      BY <3>2
    <3> QED BY <3>1, <3>3
  <2> HIDE DEF nalus
  <2>3. /\ Len(written') = k + 1 /\ written'[k + 1] = nalus
        /\ \A i \in 1..k : written'[i] = written[i]
    BY <1>0, <2>1, <2>2, AppendProperties DEF FrameSeqs
  <2>4. Done' = captured /\ Done = captured - 1
    BY <2>1 DEF Done
  <2>5. \A i \in 1..Len(written') : i \in 1..k \/ i = k + 1
    BY <1>0, <2>3
  <2>6. \A i \in 1..Len(written') : /\ written'[i][1].frame \in Nat
                                    /\ i <= written'[i][1].frame /\ written'[i][1].frame <= Done'
    <3> SUFFICES ASSUME NEW i \in 1..Len(written')
                 PROVE  /\ written'[i][1].frame \in Nat
                        /\ i <= written'[i][1].frame /\ written'[i][1].frame <= Done'
      OBVIOUS
    <3>1. CASE i \in 1..k
      <4>1. written'[i] = written[i]
        BY <2>3, <3>1
      <4>2. /\ written[i][1].frame \in Nat /\ i <= written[i][1].frame /\ written[i][1].frame <= captured - 1
        BY <2>4, <3>1 DEF WrittenInv
      <4>3. \A x \in Nat : x <= captured - 1 => x <= captured
        BY <1>0
      <4> QED BY <2>4, <4>1, <4>2, <4>3
    <3>2. CASE i = k + 1
      <4>1. k <= captured - 1
        BY <2>4 DEF WrittenInv
      <4>2. k + 1 <= captured /\ captured <= captured
        BY <1>0, <4>1
      <4> QED BY <1>0, <2>2, <2>3, <2>4, <3>2, <4>2
    <3> QED BY <2>5, <3>1, <3>2
  <2>7. \A i, j \in 1..Len(written') : i < j => written'[i][1].frame < written'[j][1].frame
    <3> SUFFICES ASSUME NEW i \in 1..Len(written'), NEW j \in 1..Len(written'), i < j
                 PROVE  written'[i][1].frame < written'[j][1].frame
      OBVIOUS
    <3>1. i \in 1..k
      BY <1>0, <2>3
    <3>2. CASE j \in 1..k
      BY <2>3, <3>1, <3>2 DEF WrittenInv
    <3>3. CASE j = k + 1
      <4>1. written'[i][1].frame = written[i][1].frame /\ written'[j][1].frame = captured
        BY <2>2, <2>3, <3>1, <3>3
      <4>2. written[i][1].frame \in Nat /\ written[i][1].frame <= captured - 1
        BY <2>4, <3>1 DEF WrittenInv
      <4>3. \A x \in Nat : x <= captured - 1 => x < captured
        BY <1>0
      <4> QED BY <4>1, <4>2, <4>3
    <3> QED BY <2>5, <3>2, <3>3
  <2>8. Len(written') <= Done'
    <3>1. k <= captured - 1
      BY <2>4 DEF WrittenInv
    <3> QED BY <1>0, <2>3, <2>4, <3>1
  <2> QED BY <2>6, <2>7, <2>8 DEF WrittenInv
<1>2. ASSUME UNCHANGED written, Done' \in Nat, Done <= Done' PROVE WrittenInv'
  <2>1. \A x \in Nat : x <= Done => x <= Done'
    BY <1>0, <1>2
  <2>2. \A n \in 1..Len(written) : written[n][1].frame <= Done'
    BY <2>1 DEF WrittenInv
  <2>3. Len(written) <= Done'
    BY <1>0, <2>1 DEF WrittenInv
  <2> QED BY <1>2, <2>2, <2>3 DEF WrittenInv
<1>3. CASE \E shape \in Shapes : AppendFrame(shape)
  BY <1>1, <1>3
<1>4. ASSUME ~(\E shape \in Shapes : AppendFrame(shape))
      PROVE  UNCHANGED written /\ Done' \in Nat /\ Done <= Done'
  <2>1. CASE \E ready \in BOOLEAN : encodeFrame(ready)
    BY <1>0, <2>1 DEF encodeFrame, Done
  <2>2. CASE QueueTime \/ SwapWriter
    BY <1>0, <2>2 DEF QueueTime, SwapWriter, Done
  <2>3. CASE DropFrame
    BY <1>0, <2>3 DEF DropFrame, Done
  <2>4. CASE UNCHANGED <<cpc, captured, written>>
    BY <1>0, <2>4 DEF Done
  <2>5. \/ \E ready \in BOOLEAN : encodeFrame(ready)
        \/ QueueTime \/ SwapWriter \/ DropFrame
        \/ UNCHANGED <<cpc, captured, written>>
    BY <1>4 DEF Next, CaptureStep, ReadStep, vars, captureVars, Flush, onParamsCompletion, ParamsMissing,
       onFileUpdate, FindMdat, ScanEnds, readAndDeliver, WaitForMore, FinishOld, OpenNew, swapFiles
  <2> QED BY <2>1, <2>2, <2>3, <2>4, <2>5
<1> QED BY <1>2, <1>3, <1>4

\* A frame is delivered: it is the next one.
LEMMA DeliveredNext ==
  ASSUME Inv, PicturesApart, readAndDeliver, ~UNCHANGED delivered
  PROVE  /\ onEncodedFrame
         /\ Len(delivered) + 1 < Len(written) /\ pending = written[Len(delivered) + 1]
<1> DEFINE n   == Here.nalu
           new == pending # <<>> /\ NewFrame(n.unit)
<1>0. /\ TypeInv /\ Control /\ SizeInv /\ FileInv /\ ShapeInv
      /\ rpc \in {"deliver", "drain"} /\ NaluReady
      /\ IF new THEN onEncodedFrame ELSE UNCHANGED <<times, delivered>>
      /\ pending' = IF new THEN <<n>> ELSE Append(pending, n)
  BY DEF Inv, readAndDeliver
<1>1. new /\ onEncodedFrame
  BY <1>0
<1>2. inputFile # 0 /\ inputFile \in 1..MaxIndex /\ foundMDAT /\ header = "done"
  BY <1>0, FileTypes DEF Control
<1>3. PICK b \in Nat, e \in Nat, f \in Nat, u \in Nat : \E s : Reads(b, e, f, u, s)
  BY <1>0, <1>2 DEF FileInv
<1>4. PICK s : Reads(b, e, f, u, s)
  BY <1>3
<1>5. /\ cReady > LengthSize => f <= e
      /\ f <= e => /\ f \in 1..Len(written) /\ u \in 1..Len(written[f])
                   /\ Here = LengthCell(written[f][u])
  <2>1. TypeInv /\ SizeInv /\ inputFile \in 1..MaxIndex /\ foundMDAT /\ rpc \in {"deliver", "drain"}
    BY <1>0, <1>2
  <2>2. Facing(e, f, u, s)
    BY <1>4, <2>1, NextUnit
  <2> QED BY <2>2 DEF Facing
<1>6. cReady > LengthSize
  BY <1>0 DEF NaluReady
<1>7. f \in 1..Len(written) /\ u \in 1..Len(written[f]) /\ n = written[f][u]
  BY <1>5, <1>6 DEF LengthCell
<1>8. Linked(f, u)
  BY <1>4 DEF Reads
<1>9. Len(delivered) \in Nat /\ Len(delivered') = Len(delivered) + 1
  <2> DEFINE D == [nalus : Seq(Units), time : Nat]
             d == [nalus |-> pending, time |-> IF times = <<>> THEN 0 ELSE Head(times)]
  <2>1. delivered \in Seq(D) /\ delivered' = Append(delivered, d)
    BY <1>0, <1>1 DEF TypeInv, onEncodedFrame
  <2> HIDE DEF D, d
  <2> QED BY <2>1
<1>10. f > 1 /\ pending = written[f - 1] /\ Len(delivered) = f - 2
  <2>1. new = (pending # <<>> /\ NewFrame(n.unit))
    OBVIOUS
  <2> HIDE DEF new, n
  <2>2. /\ pending' = IF new THEN <<n>> ELSE Append(pending, n)
        /\ Len(delivered') = IF new THEN Len(delivered) + 1 ELSE Len(delivered)
    BY <1>0, <1>1, <1>9
  <2> QED BY <1>0, <1>1, <1>7, <1>8, <2>1, <2>2, Taken
<1>11. Len(written) \in Nat /\ f \in Nat
  BY <1>0, <1>7 DEF TypeInv
<1>12. Len(delivered) + 1 = f - 1 /\ f - 1 < Len(written)
  BY <1>7, <1>10, <1>11
<1> QED BY <1>1, <1>10, <1>12

\* The times in the queue after a step.
LEMMA TimesNext ==
  ASSUME Inv, WrittenInv, TimesInv, PicturesApart, [Next]_vars
  PROVE  TimesInv'
<1>0. /\ Len(written) \in Nat /\ captured \in Nat /\ Len(delivered) \in Nat /\ Len(times) \in Nat
      /\ times \in Seq(Nat) /\ written \in FrameSeqs
      /\ cpc # "idle" => captured >= 1
  <2> DEFINE P == 1..MaxFrames
             D == [nalus : Seq(Units), time : Nat]
  <2>1. times \in Seq(P) /\ delivered \in Seq(D) /\ written \in FrameSeqs /\ captured \in Nat
    BY EncoderAssumption DEF Inv, TypeInv, FrameSeqs
  <2>2. P \subseteq Nat
    BY EncoderAssumption
  <2> HIDE DEF P, D
  <2>3. Len(times) \in Nat /\ Len(delivered) \in Nat
    BY <2>1
  <2>4. times \in [1..Len(times) -> P]
    BY <2>1
  <2>5. times \in Seq(Nat)
    <3>1. times \in [1..Len(times) -> Nat]
      BY <2>2, <2>4
    <3> QED BY <2>3, <3>1, SeqDef
  <2> QED BY <2>1, <2>3, <2>5, FrameFacts DEF Inv, Control
<1>1. CASE \E ready \in BOOLEAN : encodeFrame(ready)
  <2>1. /\ cpc = "idle" /\ cpc' = "time" /\ captured' = captured + 1
        /\ UNCHANGED <<times, delivered, written>>
    BY <1>1 DEF encodeFrame
  <2>2. Len(times) + Len(delivered) + 1 = captured + 1
    <3>1. Len(times) + Len(delivered) + 0 = captured
      BY <2>1 DEF TimesInv
    <3> QED BY <1>0, <3>1
  <2> QED BY <2>1, <2>2 DEF TimesInv
<1>2. CASE QueueTime
  <2>1. /\ cpc = "time" /\ cpc' = "swap" /\ times' = Append(times, captured)
        /\ UNCHANGED <<captured, delivered, written>>
    BY <1>2 DEF QueueTime
  <2>2. /\ Len(times') = Len(times) + 1 /\ times'[Len(times) + 1] = captured
        /\ \A i \in 1..Len(times) : times'[i] = times[i]
    BY <1>0, <2>1, AppendProperties
  <2>3. Len(times) + Len(delivered) + 1 = captured
    BY <2>1 DEF TimesInv
  <2>4. \A i \in 1..Len(times') : i \in 1..Len(times) \/ i = Len(times) + 1
    BY <1>0, <2>2
  <2>5. captured = Len(delivered) + (Len(times) + 1)
    BY <1>0, <2>3
  <2>6. \A i \in 1..Len(times') : times'[i] = Len(delivered) + i
    BY <2>2, <2>4, <2>5 DEF TimesInv
  <2>7. Len(times') + Len(delivered) + 0 = captured
    BY <1>0, <2>2, <2>3
  <2> QED BY <2>1, <2>6, <2>7 DEF TimesInv
<1>3. CASE \E shape \in Shapes : AppendFrame(shape)
  <2>1. PICK shape \in Shapes : AppendFrame(shape)
    BY <1>3
  <2> DEFINE nalus == [i \in 1..Len(shape) |-> [frame |-> captured, unit |-> shape[i]]]
  <2>2. /\ cpc = "write" /\ cpc' = "idle" /\ written' = Append(written, nalus)
        /\ UNCHANGED <<captured, delivered, times>>
    BY <2>1 DEF AppendFrame
  <2>3. nalus \in Seq(Units) \ {<<>>}
    BY <1>0, ShapeUnits
  <2> HIDE DEF nalus
  <2>4. Len(written') = Len(written) + 1 /\ \A i \in 1..Len(written) : written'[i] = written[i]
    BY <1>0, <2>2, <2>3, AppendProperties DEF FrameSeqs
  <2>5. Len(delivered) <= Len(written') /\ \A i \in 1..Len(delivered) : i \in 1..Len(written)
    BY <1>0, <2>4 DEF TimesInv
  <2> QED BY <2>2, <2>4, <2>5 DEF TimesInv
<1>4. CASE readAndDeliver /\ ~UNCHANGED delivered
  <2>1. /\ onEncodedFrame
        /\ Len(delivered) + 1 < Len(written) /\ pending = written[Len(delivered) + 1]
    BY <1>4, DeliveredNext
  <2>2. UNCHANGED <<captured, written, cpc>>
    BY <1>4 DEF readAndDeliver
  <2>3. Len(delivered) + 1 < captured
    BY <1>0, <2>1 DEF WrittenInv, Done
  <2>4. Len(times) # 0 /\ times # <<>>
    <3>1. cpc = "time" => Len(written) <= captured - 1
      BY DEF WrittenInv, Done
    <3>2. Len(times) # 0
      BY <1>0, <2>1, <2>3, <3>1 DEF TimesInv
    <3> QED BY <1>0, <3>2
  <2>5. Head(times) = Len(delivered) + 1
    <3>1. 1 \in 1..Len(times) /\ Head(times) = times[1]
      BY <1>0, <2>4
    <3> QED BY <3>1 DEF TimesInv
  <2> DEFINE d == [nalus |-> pending, time |-> Head(times)]
             D == [nalus : Seq(Units), time : Nat]
  <2>6. delivered' = Append(delivered, d) /\ times' = Tail(times) /\ delivered \in Seq(D) /\ d \in D
    <3>1. delivered' = Append(delivered, d) /\ times' = Tail(times)
      BY <2>1, <2>4 DEF onEncodedFrame
    <3>2. pending \in Seq(Units) /\ delivered \in Seq(D)
      BY DEF Inv, TypeInv
    <3>3. Head(times) \in Nat
      BY <1>0, <2>5
    <3> QED BY <3>1, <3>2, <3>3
  <2>7. d.nalus = written[Len(delivered) + 1] /\ d.time = Len(delivered) + 1
    BY <2>1, <2>5
  <2> HIDE DEF d, D
  <2>8. /\ Len(delivered') = Len(delivered) + 1 /\ delivered'[Len(delivered) + 1] = d
        /\ \A i \in 1..Len(delivered) : delivered'[i] = delivered[i]
    BY <2>6, AppendProperties
  <2>9. /\ Len(times') = Len(times) - 1
        /\ \A i \in 1..Len(times') : times'[i] = times[i + 1]
    BY <1>0, <2>4, <2>6, HeadTailProperties
  <2>10. Len(delivered') <= Len(written')
    BY <1>0, <2>1, <2>2, <2>8
  <2>11. Len(times') + Len(delivered') + (IF cpc' = "time" THEN 1 ELSE 0) = captured'
    <3>1. CASE cpc = "time"
      BY <1>0, <2>2, <2>8, <2>9, <3>1 DEF TimesInv
    <3>2. CASE cpc # "time"
      BY <1>0, <2>2, <2>8, <2>9, <3>2 DEF TimesInv
    <3> QED BY <3>1, <3>2
  <2>12. ASSUME NEW i \in 1..Len(times') PROVE times'[i] = Len(delivered') + i
    <3>1. i + 1 \in 1..Len(times)
      BY <1>0, <2>4, <2>9
    <3>2. times'[i] = Len(delivered) + (i + 1)
      BY <2>9, <3>1 DEF TimesInv
    <3> QED BY <1>0, <2>8, <3>2
  <2>13. ASSUME NEW m \in 1..Len(delivered')
         PROVE  delivered'[m].nalus = written'[m] /\ delivered'[m].time = m
    <3>1. m \in 1..Len(delivered) \/ m = Len(delivered) + 1
      BY <1>0, <2>8
    <3>2. CASE m \in 1..Len(delivered)
      BY <2>2, <2>8, <3>2 DEF TimesInv
    <3>3. CASE m = Len(delivered) + 1
      BY <2>2, <2>7, <2>8, <3>3
    <3> QED BY <3>1, <3>2, <3>3
  <2> QED BY <2>10, <2>11, <2>12, <2>13 DEF TimesInv
<1>5. CASE /\ UNCHANGED <<captured, times, delivered, written>>
           /\ (cpc' = "time") = (cpc = "time")
  BY <1>5 DEF TimesInv
<1>6. \/ \E ready \in BOOLEAN : encodeFrame(ready)
      \/ QueueTime \/ \E shape \in Shapes : AppendFrame(shape)
      \/ readAndDeliver
      \/ /\ UNCHANGED <<captured, times, delivered, written>>
         /\ (cpc' = "time") = (cpc = "time")
  <2>1. CASE SwapWriter
    BY <2>1 DEF SwapWriter
  <2>2. CASE DropFrame
    BY <2>2 DEF DropFrame
  <2>3. CASE \/ onFileUpdate \/ FindMdat \/ ScanEnds \/ WaitForMore \/ FinishOld \/ OpenNew
    BY <2>3 DEF captureVars, onFileUpdate, FindMdat, ScanEnds, WaitForMore, FinishOld, OpenNew
  <2>4. CASE \/ \E n \in 1..MaxIndex : Flush(n)
             \/ onParamsCompletion \/ ParamsMissing \/ swapFiles \/ UNCHANGED vars
    BY <2>4 DEF captureVars, vars, Flush, onParamsCompletion, ParamsMissing, swapFiles
  <2> QED BY <2>1, <2>2, <2>3, <2>4 DEF Next, CaptureStep, ReadStep
<1>7. CASE readAndDeliver /\ UNCHANGED delivered
  <2>1. UNCHANGED <<captured, written, cpc, delivered>>
    BY <1>7 DEF readAndDeliver
  <2>2. UNCHANGED times
    <3>1. \/ onEncodedFrame
          \/ UNCHANGED <<times, delivered>>
      BY <1>7 DEF readAndDeliver
    <3>2. ~onEncodedFrame
      <4> DEFINE D == [nalus : Seq(Units), time : Nat]
      <4>1. delivered \in Seq(D)
        BY DEF Inv, TypeInv
      <4> HIDE DEF D
      <4>2. \A d : Append(delivered, d) # delivered
        <5>1. \A d : Len(Append(delivered, d)) = Len(delivered) + 1
          BY <4>1
        <5> QED BY <1>0, <5>1
      <4> QED BY <2>1, <4>2 DEF onEncodedFrame
    <3> QED BY <3>1, <3>2
  <2> QED BY <1>5, <2>1, <2>2
<1> QED BY <1>1, <1>2, <1>3, <1>4, <1>5, <1>6, <1>7

\* When frames can be told apart, they are written and timed in order.
LEMMA TimedInvariant == PicturesApart => (Spec => [](Inv /\ WrittenInv /\ TimesInv))
<1> SUFFICES ASSUME PicturesApart PROVE Spec => [](Inv /\ WrittenInv /\ TimesInv)
  OBVIOUS
<1>1. Init => Inv /\ WrittenInv /\ TimesInv
  <2> SUFFICES ASSUME Init PROVE WrittenInv /\ TimesInv
    BY InitInv
  <2>1. Len(<<>>) = 0 /\ 1..0 = {}
    OBVIOUS
  <2> QED BY <2>1 DEF Init, WrittenInv, TimesInv, Done
<1>2. (Inv /\ WrittenInv /\ TimesInv) /\ [Next]_vars => (Inv /\ WrittenInv /\ TimesInv)'
  BY NextInv, WrittenNext, TimesNext
<1> QED BY <1>1, <1>2, PTL DEF Spec

\* What the output block gets is what was written, frame by frame, in spite of units that are
\* not there as a whole, of slices, and of the change of files (onNALU, swapFiles).
THEOREM FramesComplete == PicturesApart => (Spec => []FramesIntact)
<1> SUFFICES ASSUME PicturesApart PROVE Spec => []FramesIntact
  OBVIOUS
<1>1. TimesInv => FramesIntact
  BY DEF TimesInv, FramesIntact, Nth
<1> QED BY <1>1, TimedInvariant, PTL

\* As many numbers are missing from 1 to k as are not among n increasing ones.
LEMMA MissingNumbers ==
  ASSUME NEW n \in Nat, NEW k \in Nat, NEW a \in [1..n -> 1..k],
         \A i, j \in 1..n : i < j => a[i] < a[j]
  PROVE  Cardinality((1..k) \ {a[j] : j \in 1..n}) = k - n
<1> DEFINE S == {a[j] : j \in 1..n}
<1>1. IsFiniteSet(1..k) /\ Cardinality(1..k) = k /\ IsFiniteSet(1..n) /\ Cardinality(1..n) = n
  <2>1. ASSUME NEW m \in Nat PROVE IsFiniteSet(1..m) /\ Cardinality(1..m) = m
    <3>1. 1 \in Int /\ m \in Int
      OBVIOUS
    <3>2. IsFiniteSet(1..m) /\ Cardinality(1..m) = IF 1 > m THEN 0 ELSE m - 1 + 1
      BY <3>1, FS_Interval
    <3>3. (IF 1 > m THEN 0 ELSE m - 1 + 1) = m
      OBVIOUS
    <3> QED BY <3>2, <3>3
  <2> QED BY <2>1
<1>2. a \in Bijection(1..n, S)
  <2>1. a \in [1..n -> S] /\ \A t \in S : \E i \in 1..n : a[i] = t
    OBVIOUS
  <2>2. \A i, j \in 1..n : a[i] = a[j] => i = j
    <3> SUFFICES ASSUME NEW i \in 1..n, NEW j \in 1..n, a[i] = a[j], i # j PROVE FALSE
      OBVIOUS
    <3>1. i < j \/ j < i
      OBVIOUS
    <3>2. a[i] \in 1..k /\ a[j] \in 1..k
      OBVIOUS
    <3>3. ~(a[i] < a[j]) /\ ~(a[j] < a[i])
      BY <3>2
    <3> QED BY <3>1, <3>3
  <2> HIDE DEF S
  <2> QED BY <2>1, <2>2 DEF Bijection, Injection, Surjection, IsInjective
<1>3. IsFiniteSet(S) /\ Cardinality(S) = n
  <2> HIDE DEF S
  <2>1. ExistsBijection(1..n, S)
    BY <1>2 DEF ExistsBijection
  <2> QED BY <1>1, <2>1, FS_Bijection
<1>4. (1..k) \cap S = S
  OBVIOUS
<1> HIDE DEF S
<1>5. Cardinality((1..k) \ S) = Cardinality(1..k) - Cardinality((1..k) \cap S)
  BY <1>1, FS_Difference
<1> QED BY <1>1, <1>3, <1>4, <1>5 DEF S

\* A frame is delivered with the time of an earlier one, as many frames back as were dropped
\* before it (onEncodedFrame takes the oldest time of the queue).
THEOREM TimesLate == PicturesApart => (Spec => []TimesDrift)
<1> SUFFICES ASSUME PicturesApart PROVE Spec => []TimesDrift
  OBVIOUS
<1>1. ASSUME Inv, WrittenInv, TimesInv PROVE TimesDrift
  <2> SUFFICES ASSUME NEW n \in 1..Len(delivered)
               PROVE  delivered[n].time = Nth(n)[1].frame
                         - Cardinality((1..Nth(n)[1].frame) \ {written[j][1].frame : j \in 1..n})
    BY DEF TimesDrift
  <2>1. /\ Len(delivered) \in Nat /\ Len(delivered) <= Len(written) /\ Len(written) \in Nat
        /\ delivered[n].time = n /\ Nth(n) = written[n]
    <3>1. delivered[n].time = n /\ Nth(n) = written[n] /\ Len(delivered) <= Len(written)
      BY <1>1 DEF TimesInv, Nth
    <3> DEFINE D == [nalus : Seq(Units), time : Nat]
    <3>2. delivered \in Seq(D) /\ written \in FrameSeqs
      BY <1>1 DEF Inv, TypeInv, FrameSeqs
    <3> HIDE DEF D
    <3> QED BY <3>1, <3>2, FrameFacts
  <2>2. n \in Nat /\ \A j \in 1..n : j \in 1..Len(written)
    BY <2>1
  <2> DEFINE k == written[n][1].frame
             a == [j \in 1..n |-> written[j][1].frame]
  <2>3. k \in Nat /\ n \in 1..n /\ n \in 1..Len(written)
    BY <1>1, <2>1, <2>2 DEF WrittenInv
  <2>4. \A j \in 1..n : written[j][1].frame \in 1..k
    <3> SUFFICES ASSUME NEW j \in 1..n PROVE written[j][1].frame \in 1..k
      OBVIOUS
    <3>1. written[j][1].frame \in Nat /\ j <= written[j][1].frame /\ j \in 1..Len(written)
      BY <1>1, <2>2 DEF WrittenInv
    <3>2. j < n => written[j][1].frame < k
      BY <1>1, <2>3, <3>1 DEF WrittenInv
    <3>3. j < n \/ j = n
      BY <2>2
    <3> DEFINE x == written[j][1].frame
    <3>4. x \in Nat /\ j <= x /\ (x < k \/ x = k)
      BY <3>1, <3>2, <3>3
    <3> HIDE DEF x, k
    <3>5. x \in 1..k
      BY <2>2, <2>3, <3>4
    <3> QED BY <3>5 DEF x, k
  <2>5. a \in [1..n -> 1..k]
    BY <2>4
  <2>6. \A i, j \in 1..n : i < j => a[i] < a[j]
    BY <1>1, <2>2 DEF WrittenInv
  <2>7. {a[j] : j \in 1..n} = {written[j][1].frame : j \in 1..n}
    OBVIOUS
  <2> HIDE DEF a
  <2>8. Cardinality((1..k) \ {a[j] : j \in 1..n}) = k - n
    <3> HIDE DEF k
    <3> QED BY <2>2, <2>3, <2>5, <2>6, MissingNumbers
  <2>9. n = k - (k - n)
    <3> HIDE DEF k
    <3> QED BY <2>2, <2>3
  <2> QED BY <2>1, <2>7, <2>8, <2>9
<1> QED BY <1>1, TimedInvariant, PTL

=============================================================================
