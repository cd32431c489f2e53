----------------------------- MODULE MCAVEncoder -----------------------------
(* Small instances of AVEncoder: atom headers and length fields of one byte. *)
EXTENDS AVEncoder

Unit(nri, type, mb, length) ==
    [nri |-> nri, type |-> type, firstMb |-> mb, length |-> length]

\* An IDR frame in one slice, one in two slices, and one that is no reference.
ThreeShapes == {<<Unit(1, 5, 0, 2)>>, <<Unit(1, 1, 0, 1), Unit(1, 1, 6, 2)>>, <<Unit(0, 1, 0, 1)>>}

ASSUME Apart == PicturesApart

\* An atom with contents and an empty one.
TwoAtoms == <<3, 1>>

=============================================================================
