------------------------------ MODULE MCNALUnit ------------------------------
(* Small instances of NALUnit.                                             *)
EXTENDS NALUnit

Baseline ==
  [profile |-> 66, compat |-> 192, level |-> 30, id |-> 0, chroma |-> 1, luma |-> 0,
   scaling |-> <<>>, log2frame |-> 0, poc |-> 0, cycle |-> <<>>,
   width |-> 44, height |-> 29, frames |-> 1]

Config(s) == [sps |-> s, more |-> <<>>, pps |-> <<104, 206, 60>>, layout |-> "plain"]

\* One list that ends at once, two that are complete, one of them of 64 entries.
Lists == [i \in 1..8 |-> CASE i = 2 -> <<-8>>
                           [] i = 4 -> [j \in 1..16 |-> 1 - 2 * (j % 2)]
                           [] i = 7 -> [j \in 1..64 |-> 0]
                           [] OTHER -> <<>>]

\* The counting types 0 and 2, every length of the codes in front of the size,
\* the largest width, pictures in fields, and the high profile.
Sets ==
  { [Baseline EXCEPT !.id = i, !.log2frame = l, !.poc = p, !.frames = f]
      : i \in {0, 1, 31}, l \in {0, 2, 12}, p \in {0, 2}, f \in {0, 1} }
  \cup { [Baseline EXCEPT !.profile = 100, !.compat = 0, !.chroma = c, !.luma = l, !.scaling = s,
                          !.width = 124]
           : c \in {0, 1, 3}, l \in {0, 2}, s \in {<<>>, Lists} }

Slice(type, first, pps, frame, data) ==
  [type |-> type, first |-> first, pps |-> pps, frame |-> frame, data |-> data]

Sei(payload, length, data) == [type |-> NAL_SEI, payload |-> payload, length |-> length, data |-> data]

\* The code of 255 ends with eight zeros, and behind that of 7 a small frame
\* number of 16 bits has an emulation prevention byte in its middle.
Stream(n, s) == <<Slice(NAL_IDR_Slice, 0, 0, 3, U(0, 24)), s, Slice(NAL_Slice, 7, 255, n, <<0, 1>>)>>

ShortStream == <<Slice(NAL_Slice, 0, 0, 1, <<>>)>>

Content(c, u) == [config |-> c, units |-> u]

\* Picture order count type 1, with frame numbers of a length for which Skip(1) does
\* not meet the last bit of a byte (as it does for 5 and 6 bits).
CycleSets ==
  { [Baseline EXCEPT !.poc = 1, !.log2frame = l, !.cycle = <<1, -2>>] : l \in {0, 3, 12} }

AllContents ==
  { Content(Config(s), ShortStream) : s \in Sets \cup CycleSets }
  \cup { Content([Config(Baseline) EXCEPT !.layout = l], ShortStream)
           : l \in {"wide", "last", "uuid", "tracks"} }
  \cup { Content([Config(Baseline) EXCEPT !.more = <<<<103, 0, 0, 3>>>>], ShortStream) }
  \cup { Content(Config([Baseline EXCEPT !.log2frame = 12]), Stream(n, s))
           : n \in {0, 1}, s \in {Sei(0, 0, 5), Sei(260, 254, 5)} }
=============================================================================
