----------------------------- MODULE H264Syntax -----------------------------
(***************************************************************************)
(* How the H.264 standard writes the units that the parser of the iOS      *)
(* application reads: a reference for NALUnit, written from the standard   *)
(* and independent of the parser.  A byte is a number below 256, a NAL     *)
(* unit a sequence of bytes, bits are sequences of 0 and 1.                *)
(***************************************************************************)
EXTENDS Integers, Sequences, SequencesExt

NAL_Slice == 1
NAL_PartitionA == 2
NAL_IDR_Slice == 5
NAL_SEI == 6
NAL_Sequence_Params == 7

\* The last w digits of n, and what digits stand for.
Digits(base, n, w) == [i \in 1..w |-> (n \div base^(w - i)) % base]

Number(base, digits) ==
  LET value[k \in 0..Len(digits)] == IF k = 0 THEN 0 ELSE base * value[k - 1] + digits[k]
  IN  value[Len(digits)]

\* n in w bits
U(n, w) == Digits(2, n, w)

\* Exp-Golomb: as many zeros as v + 1 has binary digits after the first.
UE(v) == LET k == CHOOSE k \in 0..29 : 2^k <= v + 1 /\ v + 1 < 2^(k + 1)
         IN  U(0, k) \o U(v + 1, k + 1)

SE(v) == UE(IF v > 0 THEN 2 * v - 1 ELSE -2 * v)

\* Bits, the stop bit and zeros up to the end of the byte.
Rbsp(bits) ==
  LET stopped == Append(bits, 1)
      n       == (Len(stopped) + 7) \div 8
      padded  == stopped \o U(0, 8 * n - Len(stopped))
  IN  [i \in 1..n |-> Number(2, SubSeq(padded, 8 * i - 7, 8 * i))]

\* Emulation prevention: 03 between 00 00 and a byte up to 03.
Escape(s, b) ==
  IF Len(s) >= 2 /\ s[Len(s)] = 0 /\ s[Len(s) - 1] = 0 /\ b <= 3 THEN s \o <<3, b>>
  ELSE Append(s, b)

Escaped(bytes) ==
  LET first[k \in 0..Len(bytes)] == IF k = 0 THEN <<>> ELSE Escape(first[k - 1], bytes[k])
  IN  first[Len(bytes)]

Unit(ref, type, bits) == <<32 * ref + type>> \o Escaped(Rbsp(bits))

HighProfiles == {100, 110, 122, 144}

\* scaling lists are absent (<<>>) or eight, each absent or a sequence of deltas
SpsUnit(s) ==
  LET lists == IF s.scaling = <<>> THEN <<0>>
               ELSE <<1>> \o FlattenSeq([i \in 1..8 |->
                      IF s.scaling[i] = <<>> THEN <<0>>
                      ELSE <<1>> \o FlattenSeq([j \in DOMAIN s.scaling[i] |-> SE(s.scaling[i][j])])])
      high  == IF s.profile \notin HighProfiles THEN <<>>
               ELSE UE(s.chroma) \o (IF s.chroma = 3 THEN <<0>> ELSE <<>>)
                    \o UE(s.luma) \o UE(s.luma) \o <<0>> \o lists
      order == CASE s.poc = 0 -> UE(4)
                 [] s.poc = 1 -> <<0>> \o SE(-1) \o SE(2) \o UE(Len(s.cycle))
                                 \o FlattenSeq([j \in DOMAIN s.cycle |-> SE(s.cycle[j])])
                 [] OTHER     -> <<>>
  IN  Unit(3, NAL_Sequence_Params,
           U(s.profile, 8) \o U(s.compat, 8) \o U(s.level, 8) \o UE(s.id) \o high
           \o UE(s.log2frame) \o UE(s.poc) \o order \o UE(1) \o <<0>>
           \o UE(s.width) \o UE(s.height) \o <<s.frames>>
           \o (IF s.frames = 0 THEN <<1>> ELSE <<>>) \o <<1, 0, 0>>)

SliceUnit(s, frameBits) ==
  Unit(2, s.type, UE(s.first) \o UE(7) \o UE(s.pps) \o U(s.frame, frameBits) \o s.data)

\* Numbers of an SEI message: a byte ff for every 255.
FF(n) == [i \in 1..(n \div 255) |-> 255] \o <<n % 255>>

SeiUnit(s) == <<NAL_SEI>> \o Escaped(FF(s.payload) \o FF(s.length) \o <<s.data, 128>>)

UnitOf(s, frameBits) == IF s.type = NAL_SEI THEN SeiUnit(s) ELSE SliceUnit(s, frameBits)

\* A start code has at least two zeros; more may precede it.
Delimited(u, size, i) ==
  (IF size = 0 THEN U(0, 2 + (i % 2)) \o <<1>>
   ELSE Digits(256, Len(u), size)) \o u

Word16(n) == <<n \div 256, n % 256>>

\* The avcC record: the size of length fields (if there are any), one or more
\* sequence parameter sets, one picture parameter set.
AvcC(c, size) ==
  LET Sized(u) == Word16(Len(u)) \o u
      sps      == SpsUnit(c.sps)
  IN  <<1, c.sps.profile, c.sps.compat, c.sps.level, 251 + (IF size = 0 THEN 4 ELSE size), 225 + Len(c.more)>>
      \o Sized(sps) \o FlattenSeq([i \in DOMAIN c.more |-> Sized(c.more[i])])
      \o <<1>> \o Sized(c.pps)

=============================================================================
