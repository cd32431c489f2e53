------------------------------ MODULE AVEncoder ------------------------------
(***************************************************************************)
(* The H.264 encoder of the iOS application (AVEncoder.mm,                 *)
(* VideoEncoder.m).  Camera frames are given to AVAssetWriter, which       *)
(* compresses them into a movie file; the NAL units are read back from     *)
(* that file while it grows, put together to frames and handed to the      *)
(* output block with the next time stamp from a queue.                     *)
(*                                                                         *)
(* Four threads take part: the capture queue (encodeFrame), AVAssetWriter  *)
(* (external), the read queue (onFileUpdate), and the completion handlers  *)
(* (onParamsCompletion, swapFiles), which take no lock.                    *)
(*                                                                         *)
(* A file is a sequence of cells: one with the contents of an atom header  *)
(* or of a length field, where one begins, and "data" for any other byte.  *)
(* The length of a NAL unit is abstract, its header byte is nri and type,  *)
(* and firstMb is what follows it in a slice.                              *)
(***************************************************************************)
EXTENDS Integers, Sequences, FiniteSets, SequencesExt

CONSTANTS
    Shapes,       \* what the encoder may make of a frame: sequences of NAL units
    Preamble,     \* lengths of the atoms before mdat
    AtomHeader,   \* size of an atom header (8)
    LengthSize,   \* _lengthSize, the size of a length field (4)
    SwitchPoint,  \* OUTPUT_FILE_SWITCH_POINT
    MaxIndex,     \* MAX_FILENAME_INDEX
    MaxFrames     \* bound on the number of frames captured

Nalus == [nri : 0..3, type : 1..31, firstMb : Nat, length : Nat \ {0}]

ASSUME EncoderAssumption ==
    /\ Shapes \subseteq Seq(Nalus) \ {<<>>}
    /\ Preamble \in Seq(Nat) /\ \A n \in 1..Len(Preamble) : Preamble[n] >= AtomHeader
    /\ AtomHeader \in Nat \ {0} /\ LengthSize \in Nat \ {0}
    /\ SwitchPoint \in Nat /\ MaxIndex \in Nat \ {0, 1} /\ MaxFrames \in Nat

VARIABLES
    \* the capture queue
    cpc,          \* where it is in encodeFrame
    captured,     \* number of the last frame; also its time stamp
    needParams,   \* _needParams
    header,       \* _headerWriter: new, finishing, done, or nothing will come of it
    times,        \* _times
    \* the files and their writers
    currentFile,  \* _currentFile, the file of _writer
    files,        \* files[n]: the cells of a file, how many of them are on disk
    \* the read queue and the completion handlers
    swapping,     \* _swapping
    source,       \* _readSource: none, active, cancelled
    rpc,          \* where the reader is
    inputFile,    \* the file of _inputFile; 0 for nil
    pos,          \* offsetInFile
    cReady,       \* cReady
    foundMDAT, posMDAT, bytesToNextAtom,
    pending,      \* _pendingNALU
    prev,         \* the header of the last NAL unit: _prev_nal_idc, _prev_nal_type
    \* history
    written,      \* the frames taken by the main writers
    delivered     \* what the output block was called with

captureVars == <<cpc, captured, needParams, times>>
scanVars == <<foundMDAT, posMDAT, bytesToNextAtom>>
naluVars == <<pending, prev>>
readVars == <<rpc, inputFile, pos, cReady>>
vars == <<captureVars, header, currentFile, files, swapping, source, readVars, scanVars,
          naluVars, written, delivered>>

-----------------------------------------------------------------------------
(* Files.                                                                   *)

Data(n) == [x \in 1..n |-> [kind |-> "data"]]

Atom(name, size) ==
    <<[kind |-> "atom", name |-> name, size |-> size]>> \o Data(AtomHeader - 1)

\* What the writer puts into the file for a NAL unit.
Sample(nalu) ==
    <<[kind |-> "length", nalu |-> nalu]>> \o Data(LengthSize - 1 + nalu.unit.length)

Cells(nalus) == FlattenSeq([n \in 1..Len(nalus) |-> Sample(nalus[n])])

\* The beginning of a new movie.  The size in the header of mdat is written when
\* the file is finished.
NewMovie ==
    FlattenSeq([n \in 1..Len(Preamble) |->
                  Atom("other", Preamble[n]) \o Data(Preamble[n] - AtomHeader)])
        \o Atom("mdat", 0)

StartOfSamples == Len(NewMovie)

NoFile == [cells |-> <<>>, size |-> 0]

\* AVAssetWriter has created the file.
Exists(n) == n # 0 /\ files[n].cells # <<>>

\* fileHandleForReadingAtPath: nil if there is no such file.
Open(n) == IF Exists(n) THEN n ELSE 0

\* The reader is at a place where an atom header or a length field begins.
Here == files[inputFile].cells[pos + 1]

-----------------------------------------------------------------------------

Init ==
    /\ cpc = "idle" /\ captured = 0
    /\ needParams = TRUE /\ header = "new"
    /\ times = <<>>
    /\ currentFile = 1
    /\ files = [n \in 1..MaxIndex |-> NoFile]
    /\ swapping = FALSE /\ source = "none"
    /\ rpc = "idle" /\ inputFile = 0 /\ pos = 0 /\ cReady = 0
    /\ foundMDAT = FALSE /\ posMDAT = 0 /\ bytesToNextAtom = 0
    /\ pending = <<>> /\ prev = [nri |-> 0, type |-> 0]
    /\ written = <<>> /\ delivered = <<>>

(* The capture queue: encodeFrame.                                          *)

\* The first frame also goes to the header writer, which is then finished.  If
\* the buffer is not ready (or the writer has failed) nothing more is done.
encodeFrame(ready) ==
    /\ cpc = "idle"
    /\ captured < MaxFrames
    /\ captured' = captured + 1
    /\ needParams' = FALSE
    /\ header' = IF needParams THEN (IF ready THEN "finishing" ELSE "failed") ELSE header
    /\ cpc' = "time"
    /\ UNCHANGED <<times, currentFile, files, swapping, source, readVars, scanVars, naluVars,
                   written, delivered>>

QueueTime ==
    /\ cpc = "time"
    /\ times' = Append(times, captured)
    /\ cpc' = "swap"
    /\ UNCHANGED <<captured, needParams, header, currentFile, files, swapping, source, readVars,
                   scanVars, naluVars, written, delivered>>

\* fstat of _inputFile; while that is nil it is standard input, which is empty.
TooLarge == inputFile # 0 /\ files[inputFile].size > SwitchPoint

NextFile == IF currentFile + 1 > MaxIndex THEN 1 ELSE currentFile + 1

\* The new writer removes a file of its name; the read source is cancelled and a
\* block is queued behind the reading under way.
SwapWriter ==
    /\ cpc = "swap"
    /\ IF ~swapping /\ TooLarge
       THEN /\ swapping' = TRUE
            /\ currentFile' = NextFile
            /\ files' = [files EXCEPT ![NextFile] = NoFile]
            /\ source' = "cancelled"
       ELSE UNCHANGED <<swapping, currentFile, files, source>>
    /\ cpc' = "write"
    /\ UNCHANGED <<captured, needParams, header, times, readVars, scanVars, naluVars, written,
                   delivered>>

\* VideoEncoder encodeFrame: the first frame that is ready creates the file.
Started(f) == IF f.cells = <<>> THEN [f EXCEPT !.cells = NewMovie] ELSE f

\* The frame is appended; the encoder makes NAL units of it.
AppendFrame(shape) ==
    LET nalus == [n \in 1..Len(shape) |-> [frame |-> captured, unit |-> shape[n]]]
    IN /\ cpc = "write"
       /\ files' = [files EXCEPT ![currentFile].cells =
                      Started(files[currentFile]).cells \o Cells(nalus)]
       /\ written' = Append(written, nalus)
       /\ cpc' = "idle"
       /\ UNCHANGED <<captured, needParams, header, times, currentFile, swapping, source,
                      readVars, scanVars, naluVars, delivered>>

\* The frame is dropped: the buffer is not ready, or the writer takes no more at
\* the moment.  Its time stamp stays in the queue.
DropFrame ==
    /\ cpc = "write"
    /\ \/ UNCHANGED files
       \/ files' = [files EXCEPT ![currentFile] = Started(@)]
    /\ cpc' = "idle"
    /\ UNCHANGED <<captured, needParams, header, times, currentFile, swapping, source,
                   readVars, scanVars, naluVars, written, delivered>>

-----------------------------------------------------------------------------
(* AVAssetWriter and its completion handlers.                               *)

\* The reader has found mdat long before a file is large enough to be replaced:
\* minutes lie between the two.
KeepsUp(n, size) == size > SwitchPoint => inputFile = n /\ foundMDAT

\* More of a file reaches the disk.
Flush(n) ==
    /\ \E size \in (files[n].size + 1)..Len(files[n].cells) :
          /\ KeepsUp(n, size)
          /\ files' = [files EXCEPT ![n].size = size]
    /\ UNCHANGED <<captureVars, header, currentFile, swapping, source, readVars, scanVars,
                   naluVars, written, delivered>>

\* Mutant of onParamsCompletion: the read source is not resumed.
ParamsSuspended ==
    /\ header = "finishing"
    /\ header' = "done"
    /\ swapping' = FALSE
    /\ inputFile' = Open(currentFile)
    /\ UNCHANGED <<captureVars, currentFile, files, source, rpc, pos, cReady, scanVars, naluVars,
                   written, delivered>>

\* onParamsCompletion: parseParams has found avcC in the finished header file.
onParamsCompletion ==
    /\ header = "finishing"
    /\ header' = "done"
    /\ swapping' = FALSE
    /\ inputFile' = Open(currentFile)
    /\ source' = "active"
    /\ UNCHANGED <<captureVars, currentFile, files, rpc, pos, cReady, scanVars, naluVars,
                   written, delivered>>

\* onParamsCompletion: parseParams has found nothing.
ParamsMissing ==
    /\ header = "finishing"
    /\ header' = "failed"
    /\ UNCHANGED <<captureVars, currentFile, files, swapping, source, readVars, scanVars,
                   naluVars, written, delivered>>

-----------------------------------------------------------------------------
(* The read queue.                                                          *)

\* The read source fires: onFileUpdate looks how much there is to read.
onFileUpdate ==
    /\ rpc = "idle" /\ source = "active"
    /\ inputFile # 0 /\ files[inputFile].size > pos
    /\ cReady' = files[inputFile].size - pos
    /\ rpc' = "scan"
    /\ UNCHANGED <<captureVars, header, currentFile, files, swapping, source, inputFile, pos,
                   scanVars, naluVars, written, delivered>>

\* One round of the loop that looks for mdat: read a header if one is due, and
\* skip what is there of the atom.
FindMdat ==
    LET due  == bytesToNextAtom = 0
        mdat == due /\ Here.name = "mdat"
        read == IF due THEN AtomHeader ELSE 0
        left == IF mdat THEN 0
                ELSE IF due THEN Here.size - AtomHeader ELSE bytesToNextAtom
        skip == IF cReady - read < left THEN cReady - read ELSE left
    IN /\ rpc = "scan"
       /\ ~foundMDAT /\ cReady > AtomHeader
       /\ foundMDAT' = mdat
       /\ posMDAT' = IF mdat THEN pos ELSE posMDAT
       /\ bytesToNextAtom' = left - skip
       /\ pos' = pos + read + skip
       /\ cReady' = cReady - read - skip
       /\ UNCHANGED <<captureVars, header, currentFile, files, swapping, source, rpc, inputFile,
                      naluVars, written, delivered>>

ScanEnds ==
    /\ rpc = "scan"
    /\ foundMDAT \/ cReady <= AtomHeader
    /\ rpc' = IF foundMDAT THEN "deliver" ELSE "idle"
    /\ UNCHANGED <<captureVars, header, currentFile, files, swapping, source, inputFile, pos,
                   cReady, scanVars, naluVars, written, delivered>>

\* Mutant of NewFrame: the position of a slice is not looked at.
NewFrameByHeader(n) ==
    \/ n.nri # prev.nri /\ (n.nri = 0 \/ prev.nri = 0)
    \/ n.type # prev.type /\ (n.type = 5 \/ prev.type = 5)

\* onNALU: a unit n that comes after one with the header p begins a new frame.
Begins(p, n) ==
    \/ n.nri # p.nri /\ (n.nri = 0 \/ p.nri = 0)
    \/ n.type # p.type /\ (n.type = 5 \/ p.type = 5)
    \/ n.type \in 1..5 /\ n.firstMb = 0

NewFrame(n) == Begins(prev, n)

\* What onNALU takes for the beginnings of frames are the beginnings of the frames that
\* the encoder makes, and nothing else.
PicturesApart ==
    /\ \A s, t \in Shapes : Begins(s[Len(s)], t[1])
    /\ \A s \in Shapes : \A n \in 2..Len(s) : ~Begins(s[n - 1], s[n])

\* Mutant of onEncodedFrame: the time stamp stays in the queue.
KeepTime ==
    /\ delivered' = Append(delivered, [nalus |-> pending,
                                       time  |-> IF times = <<>> THEN 0 ELSE Head(times)])
    /\ UNCHANGED times

\* onEncodedFrame: the pending units go out with the next time stamp, or with 0.
onEncodedFrame ==
    /\ delivered' = Append(delivered, [nalus |-> pending,
                                       time  |-> IF times = <<>> THEN 0 ELSE Head(times)])
    /\ times' = IF times = <<>> THEN times ELSE Tail(times)

\* The next unit is there as a whole.
NaluReady ==
    cReady > LengthSize /\ Here.nalu.unit.length <= cReady - LengthSize

\* readAndDeliver takes the next unit, on the read queue or in swapFiles.
readAndDeliver ==
    /\ rpc \in {"deliver", "drain"}
    /\ NaluReady
    /\ LET n   == Here.nalu
           new == pending # <<>> /\ NewFrame(n.unit)
       IN /\ IF new THEN onEncodedFrame ELSE UNCHANGED <<times, delivered>>
          /\ pending' = IF new THEN <<n>> ELSE Append(pending, n)
          /\ prev' = [nri |-> n.unit.nri, type |-> n.unit.type]
          /\ pos' = pos + LengthSize + n.unit.length
          /\ cReady' = cReady - LengthSize - n.unit.length
    /\ UNCHANGED <<cpc, captured, needParams, header, currentFile, files, swapping, source, rpc,
                   inputFile, scanVars, written>>

\* Mutant of WaitForMore: the length field is not read again.
WaitWithoutSeek ==
    /\ rpc = "deliver"
    /\ ~NaluReady
    /\ rpc' = "idle"
    /\ pos' = IF cReady > LengthSize THEN pos + LengthSize ELSE pos
    /\ UNCHANGED <<captureVars, header, currentFile, files, swapping, source, inputFile,
                   cReady, scanVars, naluVars, written, delivered>>

\* The rest is not there yet: back to the length field, and wait.
WaitForMore ==
    /\ rpc = "deliver"
    /\ ~NaluReady
    /\ rpc' = "idle"
    /\ UNCHANGED <<captureVars, header, currentFile, files, swapping, source, inputFile, pos,
                   cReady, scanVars, naluVars, written, delivered>>

\* The block queued by SwapWriter: the old writer is told to finish.
FinishOld ==
    /\ rpc = "idle" /\ source = "cancelled"
    /\ source' = "none"
    /\ rpc' = "finishing"
    /\ UNCHANGED <<captureVars, header, currentFile, files, swapping, inputFile, pos, cReady,
                   scanVars, naluVars, written, delivered>>

\* What the writer makes of a file when it is finished: all of it is on disk, the
\* size of mdat is known, and moov follows.
Finished(f) ==
    LET mdat == [f.cells[StartOfSamples - AtomHeader + 1] EXCEPT
                   !.size = AtomHeader + Len(f.cells) - StartOfSamples]
        all  == [f.cells EXCEPT ![StartOfSamples - AtomHeader + 1] = mdat]
                    \o Atom("other", AtomHeader + 1) \o Data(1)
    IN [cells |-> all, size |-> Len(all)]

\* The file is finished; swapFiles reads the size of mdat and goes on reading up
\* to its end.
swapFiles ==
    LET f == Finished(files[inputFile])
    IN /\ rpc = "finishing"
       /\ files' = [files EXCEPT ![inputFile] = f]
       /\ cReady' = posMDAT + f.cells[posMDAT + 1].size - pos
       /\ rpc' = "drain"
       /\ UNCHANGED <<captureVars, header, currentFile, swapping, source, inputFile, pos,
                      scanVars, naluVars, written, delivered>>

\* The old file is removed and the new one opened -- if it is there.
OpenNew ==
    /\ rpc = "drain"
    /\ ~NaluReady
    /\ files' = [files EXCEPT ![inputFile] = NoFile]
    /\ inputFile' = Open(currentFile)
    /\ pos' = 0 /\ foundMDAT' = FALSE /\ bytesToNextAtom' = 0
    /\ source' = "active"
    /\ swapping' = FALSE
    /\ rpc' = "idle"
    /\ UNCHANGED <<captureVars, header, currentFile, cReady, posMDAT, naluVars, written,
                   delivered>>

-----------------------------------------------------------------------------

CaptureStep == QueueTime \/ SwapWriter \/ DropFrame \/ \E shape \in Shapes : AppendFrame(shape)

ReadStep ==
    \/ onFileUpdate \/ FindMdat \/ ScanEnds \/ readAndDeliver \/ WaitForMore
    \/ FinishOld \/ OpenNew

Next ==
    \/ \E ready \in BOOLEAN : encodeFrame(ready)
    \/ CaptureStep
    \/ \E n \in 1..MaxIndex : Flush(n)
    \/ onParamsCompletion \/ ParamsMissing
    \/ ReadStep
    \/ swapFiles

\* Threads run, writers write what they were given and finish.
Fairness ==
    /\ WF_vars(CaptureStep) /\ WF_vars(ReadStep) /\ WF_vars(swapFiles)
    /\ WF_vars(onParamsCompletion \/ ParamsMissing)
    /\ \A n \in 1..MaxIndex : WF_vars(Flush(n))

Spec == Init /\ [][Next]_vars /\ Fairness

-----------------------------------------------------------------------------
(* Properties.                                                              *)

TypeOK ==
    /\ cpc \in {"idle", "time", "swap", "write"}
    /\ captured \in 0..MaxFrames
    /\ needParams \in BOOLEAN /\ header \in {"new", "finishing", "done", "failed"}
    /\ times \in Seq(1..MaxFrames)
    /\ currentFile \in 1..MaxIndex /\ inputFile \in 0..MaxIndex
    /\ swapping \in BOOLEAN /\ source \in {"none", "active", "cancelled"}
    /\ rpc \in {"idle", "scan", "deliver", "finishing", "drain"}
    /\ pos \in Nat /\ cReady \in Nat
    /\ foundMDAT \in BOOLEAN /\ posMDAT \in Nat /\ bytesToNextAtom \in Nat

\* The reader is never out of step with the file: where it expects an atom header
\* or the length of a NAL unit there is one, in spite of files that end in the
\* middle of either, and a file is not replaced while it is being read.
ReaderInStep ==
    /\ rpc = "scan" /\ ~foundMDAT /\ cReady > AtomHeader /\ bytesToNextAtom = 0
          => Here.kind = "atom"
    /\ rpc \in {"deliver", "drain"} /\ cReady > LengthSize => Here.kind = "length"
    /\ inputFile # 0 => pos <= files[inputFile].size

Nth(n) == delivered[n].nalus

\* The output block gets the frames as they were written: every frame whole, none
\* twice, none missing, in order -- across the change from one file to the next.
FramesIntact ==
    /\ Len(delivered) <= Len(written)
    /\ \A n \in 1..Len(delivered) : Nth(n) = written[n]

\* A frame is delivered with a time, never with a later one than its own, and too
\* early only by the number of frames that were dropped before it.
TimesDrift ==
    \A n \in 1..Len(delivered) :
        LET own == Nth(n)[1].frame
            dropped == (1..own) \ {written[j][1].frame : j \in 1..n}
        IN delivered[n].time = own - Cardinality(dropped)

\* The reader has no file, or will never have one.
Lost == header = "failed" \/ (source = "active" /\ inputFile = 0)

\* A frame is delivered once the next one is written.
FramesAreDelivered ==
    \A n \in 1..MaxFrames : Len(written) > n ~> Len(delivered) >= n \/ Lost

=============================================================================
