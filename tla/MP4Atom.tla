------------------------------- MODULE MP4Atom -------------------------------
(***************************************************************************)
(* How AVEncoder finds the avcC record in the finished header file         *)
(* (CV/H264/MP4Atom.m and parseParams of AVEncoder.mm), and how an MPEG-4  *)
(* file with a video track is written (the reference).                     *)
(*                                                                         *)
(* A file is a sequence of bytes; positions count from 0 as in the code.   *)
(* An atom is a record of the members _offset, _length and _type, with the *)
(* position behind it in its parent (end); a fourcc is its four bytes.     *)
(***************************************************************************)
EXTENDS Integers, Sequences, SequencesExt

ftyp == <<102, 116, 121, 112>>
mdat == <<109, 100, 97, 116>>
moov == <<109, 111, 111, 118>>
trak == <<116, 114, 97, 107>>
tkhd == <<116, 107, 104, 100>>
mdia == <<109, 100, 105, 97>>
minf == <<109, 105, 110, 102>>
stbl == <<115, 116, 98, 108>>
stsd == <<115, 116, 115, 100>>
avc1 == <<97, 118, 99, 49>>
avcC == <<97, 118, 99, 67>>
uuid == <<117, 117, 105, 100>>
free == <<102, 114, 101, 101>>

-----------------------------------------------------------------------------
(* Writing.                                                                *)

Word32(n) == [i \in 1..4 |-> (n \div 256^(4 - i)) % 256]

Zeros(n) == [i \in 1..n |-> 0]

Box(type, body) == Word32(8 + Len(body)) \o type \o body

\* The length in 64 bits behind the type, and the length 0 of a last atom.
WideBox(type, body) == Word32(1) \o type \o Zeros(4) \o Word32(16 + Len(body)) \o body

LastBox(type, body) == Word32(0) \o type \o body

\* The enabled track holds the record; a disabled one is like it.
Track(enabled, record) ==
  LET Entry == Box(avc1, Zeros(78) \o Box(free, <<>>) \o Box(avcC, record))
      Table == Box(stbl, Box(free, <<7>>) \o Box(stsd, Word32(0) \o Word32(1) \o Entry))
  IN  Box(trak, Box(tkhd, <<0, 0, 0, IF enabled THEN 15 ELSE 14>>)
                \o Box(mdia, Box(free, Zeros(9)) \o Box(minf, Table)))

\* The ways in which writers lay out a movie.
Layouts == {"plain", "wide", "last", "uuid", "tracks"}

MovieFile(layout, record, other) ==
  LET tracks == (IF layout = "tracks" THEN Track(FALSE, other) ELSE <<>>) \o Track(TRUE, record)
      user   == IF layout = "uuid" THEN Box(uuid, Zeros(16) \o Box(trak, <<>>)) ELSE <<>>
      Large(type, body) == IF layout = "wide" THEN WideBox(type, body) ELSE Box(type, body)
  IN  Box(ftyp, Zeros(4)) \o Large(mdat, <<1, 2>>)
      \o (IF layout = "last" THEN LastBox(moov, user \o tracks) ELSE Large(moov, user \o tracks))

-----------------------------------------------------------------------------
(* Reading.                                                                *)

Nil == [type |-> <<>>]

to_host(f, p) == f[p + 1] * 256^3 + f[p + 2] * 256^2 + f[p + 3] * 256 + f[p + 4]

\* A length of 64 bits is more than any file has unless its upper half is 0.
to_host64(f, p, length) == IF to_host(f, p) = 0 THEN to_host(f, p + 4) ELSE length + 1

atomAt(offset, length, type, end) ==
  [offset |-> offset, length |-> length, type |-> type, end |-> end]

cHeader(len, type) == 8 + (IF len = 1 THEN 8 ELSE 0) + (IF type = uuid THEN 16 ELSE 0)

\* The child of a at position at, or Nil.
nextChild(f, a, at) ==
  LET p      == a.offset + at
      word   == to_host(f, p)
      type   == SubSeq(f, p + 5, p + 8)
      len    == CASE word = 1 -> to_host64(f, p + 8, a.length)
                  [] word = 0 -> a.length - at
                  [] OTHER    -> word
      header == cHeader(word, type)
  IN  IF at > a.length - 8 THEN Nil
      ELSE IF at + len > a.length THEN Nil
      ELSE atomAt(p + header, len - header, type, at + len)

\* The children that repeated calls of nextChild return, from position at.
Children(f, a, at) ==
  LET From[n \in Nat] ==
        LET c == nextChild(f, a, n) IN IF c = Nil THEN <<>> ELSE <<c>> \o From[c.end]
  IN  IF a = Nil THEN <<>> ELSE From[at]

FirstOf(atoms) == IF atoms = <<>> THEN Nil ELSE Head(atoms)

childOfType(f, a, type, at) == FirstOf(SelectSeq(Children(f, a, at), LAMBDA c : c.type = type))

readAt(f, a, size) == SubSeq(f, a.offset + 1, a.offset + size)

\* Mutant of Enabled: the first track is taken, whatever its flags.
EnabledOrNot(f, track) == TRUE

\* Bit 0 of the flags of the track header.
Enabled(f, track) == readAt(f, childOfType(f, track, tkhd, 0), 4)[4] % 2 = 1

\* The enabled track of the movie, and from there to the avcC record.
parseParams(f) ==
  LET movie  == childOfType(f, atomAt(0, Len(f), <<>>, Len(f)), moov, 0)
      track  == FirstOf(SelectSeq(Children(f, movie, 0), LAMBDA c : c.type = trak /\ Enabled(f, c)))
      table  == FoldLeft(LAMBDA a, type : childOfType(f, a, type, 0), track,
                         <<mdia, minf, stbl, stsd>>)
      esd    == childOfType(f, childOfType(f, table, avc1, 8), avcC, 78)
      record == readAt(f, esd, esd.length)
  IN  IF esd = Nil THEN [ok |-> FALSE]
      ELSE [ok |-> TRUE, avcC |-> record, lengthSize |-> (record[5] % 4) + 1]

=============================================================================
