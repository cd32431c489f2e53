------------------------------- MODULE NALUnit -------------------------------
(***************************************************************************)
(* The H.264 parser of the iOS application (CV/H264/NALUnit.cpp): the bit  *)
(* reader, sequence parameters, slice headers, SEI messages, the avcC      *)
(* record, and the delimiting of NAL units in a buffer that fills while it *)
(* is being parsed; and the search for the avcC record in the header file  *)
(* (MP4Atom).                                                              *)
(*                                                                         *)
(* A reader is a record of the members m_idx, m_nBits, m_byte and m_cZeros *)
(* with the value read last (v); hung says that GetUE did not return.      *)
(* Init writes a configuration and a stream of units with H264Syntax; what *)
(* the parser finds must be what was written.                              *)
(***************************************************************************)
EXTENDS H264Syntax, MP4Atom, SequencesExt, FiniteSetsExt, TLC

CONSTANTS
  Contents,     \* what an encoder may write: a configuration (sps, more, pps), the
                \* layout of its file, and a sequence of slices and SEI messages
  LengthSizes   \* bytes of a length field, 0 for start codes

\* What an encoder may write: slices, SEI messages, and units that a length field can hold.
Slices ==
  [type : {NAL_Slice, NAL_PartitionA, NAL_IDR_Slice}, first : 0..(2^30 - 2), pps : 0..(2^30 - 2),
   frame : Nat, data : Seq({0, 1})]

Messages == [type : {NAL_SEI}, payload : Nat, length : Nat, data : 0..255]

ASSUME ContentsAssumption ==
  /\ LengthSizes \subseteq 0..4
  /\ \A c \in Contents :
        /\ c.units \in Seq(Slices \cup Messages)
        /\ c.config.sps.log2frame \in 0..12
        /\ \A i \in DOMAIN c.units, size \in LengthSizes \ {0} :
              Len(UnitOf(c.units[i], c.config.sps.log2frame + 4)) \div 256^(size - 1) < 256

VARIABLES
  config,       \* the configuration that was written
  written,      \* the units that were written
  LengthSize,
  file,         \* the finished header file
  coming,       \* bytes that have not arrived yet
  buffer,       \* bytes that have arrived and are not parsed yet
  params,       \* what makeSDP has found in the configuration, or None
  units         \* the units found so far and their headers

vars == <<config, written, LengthSize, file, coming, buffer, params, units>>

None == [ok |-> FALSE]
Hung == [ok |-> FALSE, hung |-> TRUE]   \* GetUE reads zeros for ever

-----------------------------------------------------------------------------
(* Bit reader.                                                             *)

ResetBitstream == [idx |-> 0, nBits |-> 0, byte |-> 0, zeros |-> 0, v |-> 0, hung |-> FALSE]

\* Mutant of GetBYTE: emulation prevention bytes are kept.
GetBYTERaw(u, r) ==
  IF r.idx >= Len(u) THEN [r EXCEPT !.v = 0] ELSE [r EXCEPT !.v = u[r.idx + 1], !.idx = @ + 1]

\* The byte 03 after 00 00 is discarded; after the end there are zeros.
GetBYTE(u, r) ==
  IF r.idx >= Len(u) THEN [r EXCEPT !.v = 0]
  ELSE LET b       == u[r.idx + 1]
           i       == r.idx + 1
           z       == IF b = 0 THEN r.zeros + 1 ELSE 0
           stuffed == i < Len(u) /\ z = 2 /\ u[i + 1] = 3
       IN  [r EXCEPT !.v = b, !.idx = IF stuffed THEN i + 1 ELSE i,
                     !.zeros = IF stuffed THEN 0 ELSE z]

\* m_byte = GetBYTE(), of which n bits are left
Load(u, r, n) == LET g == GetBYTE(u, r) IN [g EXCEPT !.byte = g.v, !.nBits = n]

\* the next of the q.nBits bits left
Shift(q) == [q EXCEPT !.nBits = @ - 1, !.v = (q.byte \div 2^(q.nBits - 1)) % 2]

GetBit(u, r) == Shift(IF r.nBits = 0 THEN Load(u, r, 8) ELSE r)

GetWord(u, r, n) ==
  FoldLeft(LAMBDA q, j : LET b == GetBit(u, q) IN [b EXCEPT !.v = 2 * q.v + b.v],
           [r EXCEPT !.v = 0], [j \in 1..n |-> j])

\* All bits after the end are zero, and then the first loop does not end.
GetUE(u, r) ==
  LET seen[n \in Nat] == IF n = 0 THEN r ELSE GetBit(u, seen[n - 1])
      First(n)        == seen[n].v = 1 /\ \A j \in 1..(n - 1) : seen[j].v = 0
      left            == 1..(8 * (Len(u) - r.idx) + r.nBits)
      Data(w, cZeros) == [w EXCEPT !.v = @ + 2^cZeros - 1]
      After(n)        == Data(GetWord(u, seen[n], n - 1), n - 1)
  IN  IF r.hung \/ ~\E n \in left : First(n) THEN [r EXCEPT !.hung = TRUE]
      ELSE After(CHOOSE n \in left : First(n))

Signed(g) == [g EXCEPT !.v = IF g.v % 2 = 1 THEN (g.v + 1) \div 2 ELSE -((g.v + 1) \div 2)]

GetSE(u, r) == Signed(GetUE(u, r))

\* When the bits left in m_byte are not enough they are counted, but m_nBits
\* is only set again when bits of a further byte are left.
Skip(u, r, nBits) ==
  IF nBits < r.nBits THEN [r EXCEPT !.nBits = @ - nBits]
  ELSE LET rest == nBits - r.nBits
           q    == FoldLeft(LAMBDA s, j : GetBYTE(u, s), r, [j \in 1..(rest \div 8) |-> j])
       IN  IF rest % 8 = 0 THEN q ELSE Load(u, q, 8 - (rest % 8))

-----------------------------------------------------------------------------
(* Headers.                                                                *)

Type(u) == IF u = <<>> THEN 0 ELSE u[1] % 32

\* n values of type SE
GetSEs(u, r, n) == FoldLeft(LAMBDA q, j : GetSE(u, q), r, [j \in 1..n |-> j])

ScalingList(u, r, size) ==
  LET Scale(last, next, g) == [r |-> g, next |-> next, last |-> IF next = 0 THEN last ELSE next]
      Delta(last, g)       == Scale(last, (last + g.v + 256) % 256, g)
      Entry(s, j)          == IF s.next = 0 THEN s ELSE Delta(s.last, GetSE(u, s.r))
  IN  FoldLeft(Entry, [r |-> r, next |-> 8, last |-> 8], [j \in 1..size |-> j]).r

\* Mutant of ScalingLists: the last two lists are taken for lists of 16 values.
ScalingListsShort(u, r) ==
  LET List(b) == IF b.v = 0 THEN b ELSE ScalingList(u, b, 16)
  IN  FoldLeft(LAMBDA q, i : List(GetBit(u, q)), r, [i \in 1..8 |-> i])

\* eight lists, each behind a bit that says whether it is there
ScalingLists(u, r) ==
  LET List(b, i) == IF b.v = 0 THEN b ELSE ScalingList(u, b, IF i <= 6 THEN 16 ELSE 64)
  IN  FoldLeft(LAMBDA q, i : List(GetBit(u, q), i), r, [i \in 1..8 |-> i])

\* The Parse methods read one value after the other: what, how, and when.
Field(name, as, when) == [name |-> name, as |-> as, when |-> when]

SpsFields ==
  << Field("Profile", "u8", "always"), Field("Compat", "u8", "always"),
     Field("Level", "u8", "always"),   Field("id", "ue", "always"),
     Field("chroma", "ue", "high"),    Field("planes", "skip", "separate"),
     Field("luma", "ue", "high"),      Field("depth", "ue", "high"),
     Field("bypass", "skip", "high"),  Field("matrix", "u1", "high"),
     Field("lists", "lists", "scaled"),
     Field("frame", "ue", "always"),   Field("poc", "ue", "always"),
     Field("pocBits", "ue", "poc0"),
     Field("zero", "skip", "poc1"),    Field("nonRef", "se", "poc1"),
     Field("bottom", "se", "poc1"),    Field("cycle", "ue", "poc1"),
     Field("offsets", "cycle", "poc1"),
     Field("refs", "ue", "valid"),     Field("gaps", "u1", "valid"),
     Field("width", "ue", "valid"),    Field("height", "ue", "valid"),
     Field("frames", "u1", "valid") >>

SliceFields ==
  << Field("first", "ue", "always"), Field("sliceType", "ue", "always"),
     Field("pps", "ue", "always"),   Field("framenum", "frame", "always") >>

Present(when, val) ==
  CASE when = "always"   -> TRUE
    [] when = "high"     -> val.Profile \in {100, 110, 122, 144}
    [] when = "separate" -> val.chroma = 3
    [] when = "scaled"   -> val.matrix = 1
    [] when = "poc0"     -> val.poc = 0
    [] when = "poc1"     -> val.poc = 1
    [] when = "valid"    -> val.poc <= 2   \* otherwise Parse returns false

ReadAs(as, u, s) ==
  CASE as = "u1"    -> GetBit(u, s.r)
    [] as = "u8"    -> GetWord(u, s.r, 8)
    [] as = "ue"    -> GetUE(u, s.r)
    [] as = "se"    -> GetSE(u, s.r)
    [] as = "skip"  -> Skip(u, s.r, 1)
    [] as = "lists" -> ScalingLists(u, s.r)
    [] as = "cycle" -> GetSEs(u, s.r, s.val.cycle)
    [] as = "frame" -> GetWord(u, s.r, s.val.bits)

\* All fields after the type byte, until GetUE does not return.
ReadFields(u, fields, val) ==
  LET Keep(s, f, r) == [r |-> r, val |-> (f.name :> r.v) @@ s.val]
      Read(s, f)    == IF s.r.hung \/ ~Present(f.when, s.val) THEN s
                       ELSE Keep(s, f, ReadAs(f.as, u, s))
  IN  FoldLeft(Read, [r |-> Skip(u, ResetBitstream, 8), val |-> val], fields)

\* The members of SeqParamSet; sizes stay 0 when Parse gives up before them, and
\* the height is doubled for fields unless the size is refused.
Members(s) ==
  LET cx   == (s.val.width + 1) * 16
      cy   == (s.val.height + 1) * 16
      sane == cx <= 2000 /\ cy <= 2000
  IN  IF s.r.hung THEN Hung
      ELSE [ok |-> s.val.poc <= 2 /\ sane,
            Profile |-> s.val.Profile, Compat |-> s.val.Compat, Level |-> s.val.Level,
            FrameBits |-> s.val.frame + 4, cx |-> cx,
            cy |-> IF sane /\ s.val.frames = 0 THEN 2 * cy ELSE cy]

SeqParamSet(u) ==
  IF Type(u) # NAL_Sequence_Params THEN None
  ELSE Members(ReadFields(u, SpsFields,
                 [chroma |-> 0, matrix |-> 0, width |-> -1, height |-> -1, frames |-> 1]))

\* The first macroblock of a slice, which AVEncoder reads.
FirstMb(u) == GetUE(u, Skip(u, ResetBitstream, 8)).v

FrameNum(s) == IF s.r.hung THEN Hung ELSE [ok |-> TRUE, framenum |-> s.val.framenum]

SliceHeader(u, m_nBitsFrame) ==
  IF Type(u) \notin {NAL_IDR_Slice, NAL_Slice, NAL_PartitionA} THEN None
  ELSE FrameNum(ReadFields(u, SliceFields, [bits |-> m_nBitsFrame]))

\* Both loops add to m_type.
SEIMessage(u) ==
  LET Low(p) == Min({q \in p..Len(u) : u[q] # 255})   \* first byte from p that is not ff
      t      == Low(2)
      l      == Low(t + 1)
  IN  [ok      |-> TRUE,
       type    |-> 255 * (t - 2) + u[t] + 255 * (l - t - 1),
       length  |-> u[l],
       payload |-> l]

\* The first sequence parameter set and the first picture parameter set.
avcCHeader(h) ==
  LET Size(p)    == 256 * h[p + 1] + h[p + 2]
      Set(s, i)  == IF s.stop \/ s.at + 2 > Len(h) \/ s.at + 2 + Size(s.at) > Len(h)
                    THEN [s EXCEPT !.stop = TRUE]
                    ELSE [s EXCEPT !.at = @ + 2 + Size(s.at),
                                   !.sps = IF i = 1 THEN SubSeq(h, s.at + 3, s.at + 2 + Size(s.at)) ELSE @]
      sets       == FoldLeft(Set, [at |-> 6, sps |-> <<>>, stop |-> FALSE], [i \in 1..(h[6] % 32) |-> i])
      p          == sets.at
  IN  IF Len(h) < 8 THEN [sps |-> <<>>, pps |-> <<>>]
      ELSE [sps |-> sets.sps,
            pps |-> IF sets.stop \/ p + 3 >= Len(h) \/ h[p + 1] = 0 THEN <<>>
                    ELSE SubSeq(h, p + 4, p + 3 + Size(p + 1))]

-----------------------------------------------------------------------------
(* Delimiting.                                                             *)

\* Mutant of GetStartCode: the first 00 is not remembered.
GetStartCodeShort(b, p) ==
  LET hits == {i \in p..(Len(b) - 4) : b[i + 1] = 0 /\ b[i + 2] = 0 /\ b[i + 3] = 1}
  IN  IF hits = {} THEN None ELSE [ok |-> TRUE, start |-> Min(hits) + 3, begin |-> Min(hits)]

\* From position p: where the zeros of the start code begin and the unit starts.
GetStartCode(b, p) ==
  LET hits  == {i \in p..(Len(b) - 4) : b[i + 1] = 0 /\ b[i + 2] = 0 /\ b[i + 3] = 1}
      i     == Min(hits)
  IN  IF hits = {} THEN None
      ELSE [ok |-> TRUE, start |-> i + 3,
            begin |-> Min({k \in p..i : \A l \in k..i : b[l + 1] = 0})]

\* Mutant of Parse: a unit ends only where the next one begins.
ParseBetween(b, size, bEnd) ==
  LET cBytes == Number(256, SubSeq(b, 1, size))
      this   == GetStartCode(b, 0)
      next   == GetStartCode(b, this.start)
  IN  IF size > 0
      THEN IF size > Len(b) \/ cBytes + size > Len(b) THEN None
           ELSE [ok |-> TRUE, start |-> size, cBytes |-> cBytes]
      ELSE IF ~this.ok \/ ~next.ok THEN None
      ELSE [ok |-> TRUE, start |-> this.start, cBytes |-> next.begin - this.start]

\* Start and length of the first unit in b, or None when it is not complete.
Parse(b, size, bEnd) ==
  LET cBytes == Number(256, SubSeq(b, 1, size))
      this   == GetStartCode(b, 0)
      next   == GetStartCode(b, this.start)
  IN  IF size > 0
      THEN IF size > Len(b) \/ cBytes + size > Len(b) THEN None
           ELSE [ok |-> TRUE, start |-> size, cBytes |-> cBytes]
      ELSE IF ~this.ok THEN None
      ELSE IF next.ok THEN [ok |-> TRUE, start |-> this.start, cBytes |-> next.begin - this.start]
      ELSE IF bEnd THEN [ok |-> TRUE, start |-> this.start, cBytes |-> Len(b) - this.start]
      ELSE None

-----------------------------------------------------------------------------
(* The parser at work.                                                     *)

WrittenUnits == [i \in DOMAIN written |-> UnitOf(written[i], config.sps.log2frame + 4)]

\* The header file as AVAssetWriter finishes it; a disabled track has parameters of its own.
HeaderFile ==
  LET other == [config EXCEPT !.sps.width = @ + 1]
  IN  MovieFile(config.layout, AvcC(config, LengthSize), AvcC(other, LengthSize))

Init ==
  /\ \E c \in Contents : config = c.config /\ written = c.units
  /\ LengthSize \in LengthSizes
  /\ file = HeaderFile
  /\ coming = FlattenSeq([i \in DOMAIN written |-> Delimited(WrittenUnits[i], LengthSize, i)])
  /\ buffer = <<>>
  /\ params = None
  /\ units = <<>>

\* onParamsCompletion and makeSDP: the record of the header file, its parameter
\* sets and what the first says.
Sdp ==
  LET Read(p)    == [ok |-> TRUE, lengthSize |-> p.lengthSize, sets |-> avcCHeader(p.avcC)]
      Parsed(r)  == [ok |-> TRUE, lengthSize |-> r.lengthSize, sps |-> r.sets.sps,
                     pps |-> r.sets.pps, seq |-> SeqParamSet(r.sets.sps)]
      Complete(p) == IF p.ok THEN Parsed(Read(p)) ELSE None
      Checked(q) == IF q.ok /\ q.seq = Hung THEN Hung ELSE q
  IN  Checked(Complete(parseParams(file)))

MakeSDP ==
  /\ params = None
  /\ \E found \in {Sdp} : found.ok /\ params' = found
  /\ UNCHANGED <<config, written, LengthSize, file, coming, buffer, units>>

\* One or more bytes arrive.
Arrive ==
  \E n \in 1..Len(coming) :
    /\ buffer' = buffer \o SubSeq(coming, 1, n)
    /\ coming' = SubSeq(coming, n + 1, Len(coming))
    /\ UNCHANGED <<config, written, LengthSize, file, params, units>>

Header(u) == IF Type(u) = NAL_SEI THEN SEIMessage(u) ELSE SliceHeader(u, params.seq.FrameBits)

\* The unit at the front of the buffer with its header, and the bytes after it.
FirstUnit ==
  LET Found(u, h, end) == IF h = Hung THEN Hung
                          ELSE [ok |-> TRUE, unit |-> [unit |-> u, header |-> h],
                                rest |-> SubSeq(buffer, end + 1, Len(buffer))]
      Cut(u, end)      == Found(u, Header(u), end)
      Take(p)          == IF p.ok THEN Cut(SubSeq(buffer, p.start + 1, p.start + p.cBytes),
                                           p.start + p.cBytes)
                          ELSE None
  IN  Take(Parse(buffer, LengthSize, coming = <<>>))

\* The next unit is delimited and its header read.
NextUnit ==
  /\ params # None /\ params.seq.ok
  /\ FirstUnit.ok
  /\ units' = Append(units, FirstUnit.unit)
  /\ buffer' = FirstUnit.rest
  /\ UNCHANGED <<config, written, LengthSize, file, coming, params>>

Next == MakeSDP \/ Arrive \/ NextUnit

Spec == Init /\ [][Next]_vars
-----------------------------------------------------------------------------
(* Properties.                                                             *)

\* makeSDP announces the profile, the level and the size of the enabled track, and
\* hands out its parameter sets byte for byte: however the header file is laid out,
\* parseParams finds the record, and no field of the sequence parameters in front
\* of the size makes the reader lose its place.
ConfigAsWritten ==
  params # None =>
    LET s == config.sps
    IN  /\ LengthSize > 0 => params.lengthSize = LengthSize
        /\ params.sps = SpsUnit(s)
        /\ params.pps = config.pps
        /\ params.seq = [ok |-> TRUE, Profile |-> s.profile, Compat |-> s.compat,
                         Level |-> s.level, FrameBits |-> s.log2frame + 4,
                         cx |-> 16 * (s.width + 1),
                         cy |-> 16 * (s.height + 1) * (2 - s.frames)]

\* However the bytes arrive, NALUnit::Parse finds the units that were written,
\* each with all its bytes and none of the zeros of the next start code.
UnitsAsWritten == IsPrefix([i \in DOMAIN units |-> units[i].unit], WrittenUnits)

\* The headers say what was written, also where emulation prevention put a
\* byte between two bits of a number.
HeadersAsWritten ==
  \A i \in DOMAIN units :
    LET w == written[i]
        h == units[i].header
    IN  IF w.type = NAL_SEI
        THEN /\ h.type = w.payload /\ h.length = w.length
             /\ units[i].unit[h.payload + 1] = w.data
        ELSE h = [ok |-> TRUE, framenum |-> w.frame] /\ FirstMb(units[i].unit) = w.first

\* The parser never stops in front of something to parse: the avcC record is found, no
\* call of GetUE runs past the end of its unit, and the last unit waits for no start code.
NeverStuck ==
  coming = <<>> => IF params = None THEN Sdp.ok
                   ELSE FirstUnit.ok \/ Len(units) = Len(written)

=============================================================================
