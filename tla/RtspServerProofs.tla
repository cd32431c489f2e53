--------------------------- MODULE RtspServerProofs ---------------------------
(***************************************************************************)
(* Proofs about RtspServer, for any number of clients, sessions and        *)
(* frames, any sizes, and whatever requests are answered while a frame is  *)
(* being sent.  First the packets, each by itself; then what a client sees *)
(* of the stream and what shutdownServer leaves; then the sender reports.  *)
(***************************************************************************)
EXTENDS RtspServer, SequenceTheorems, FiniteSetTheorems, WellFoundedInduction, TLAPS

\* Removing a connection from the list leaves a list of connections.
LEMMA RemoveAtSeq ==
  ASSUME NEW S, NEW s \in Seq(S), NEW j \in 1..Len(s)
  PROVE  RemoveAt(s, j) \in Seq(S)
<1>1. SubSeq(s, 1, j - 1) \in Seq(S) BY SubSeqProperties
<1>2. SubSeq(s, j + 1, Len(s)) \in Seq(S) BY SubSeqProperties
<1> QED BY <1>1, <1>2, ConcatProperties DEF RemoveAt

\* The arithmetic of onVideoData.  Of a NAL unit too long for one packet the
\* fragment sent is not empty, fits into a packet, and is not the whole unit: the
\* first fragment of such a unit always leaves a second one to be sent.
LEMMA FragmentSize ==
  ASSUME NEW n \in Nat, ~Fits(n), off \in Nat, cBytes \in Nat,
         off > 0, cBytes > 0, off + cBytes = n
  PROVE  /\ cThis \in Nat /\ cThis > 0 /\ cThis <= cBytes
         /\ RtpHeader + 2 + cThis <= MaxPacket
         /\ off = 1 => cThis < cBytes
  BY RtspAssumption DEF Fits, cThis, MaxFragment, MaxSingle

\* A NAL unit that is sent whole fits into a packet.
LEMMA SingleSize ==
  ASSUME NEW n \in Nat, Fits(n), off = 0, cBytes = n
  PROVE  cThis = n /\ RtpHeader + cThis <= MaxPacket
  BY RtspAssumption DEF Fits, cThis, MaxSingle

\* The NAL units of the frames encoded so far have a length.
LEMMA FrameTypes ==
  ASSUME TypeOK, NEW f \in 1..Len(frames), NEW n \in 1..Len(frames[f])
  PROVE  frames[f] \in Seq(Nalus) /\ frames[f][n] \in Nalus
         /\ frames[f][n].length \in Nat /\ frames[f][n].length > 0
         /\ frames[f][n].idr \in BOOLEAN
<1>1. frames \in Seq(FrameSet) BY DEF TypeOK
<1>2. frames[f] \in FrameSet BY <1>1
<1>3. frames[f] \in Seq(Nalus) BY <1>2, RtspAssumption
<1>4. frames[f][n] \in Nalus BY <1>3
<1> QED BY <1>3, <1>4 DEF Nalus

\* Inside the loop there is a frame being sent to a connection of the list.
LEMMA LoopFacts ==
  ASSUME TypeOK, LoopInv, InLoop
  PROVE  /\ frameNo \in 1..Len(frames) /\ frame \in Seq(Nalus)
         /\ k \in 1..Len(connections) /\ current \in Conns
         /\ i \in Nat /\ i > 0
<1>1. frames \in Seq(FrameSet) /\ connections \in Seq(Conns) /\ k \in Nat /\ i \in Nat
  BY DEF TypeOK
<1>2. ServerLocked /\ vpc # "idle" BY DEF InLoop, ServerLocked
<1>3. k > 0 /\ k <= Len(connections) /\ i > 0 /\ frameNo > 0
  BY <1>2 DEF LoopInv
<1>4. k \in 1..Len(connections) /\ Len(frames) \in Nat
  BY <1>1, <1>3
<1>5. frameNo \in 1..Len(frames) BY <1>3, <1>4 DEF frameNo
<1>6. frame \in FrameSet BY <1>1, <1>5 DEF frame
<1>7. frame \in Seq(Nalus) BY <1>6, RtspAssumption
<1>8. current \in Conns BY <1>1, <1>4 DEF current
<1> QED BY <1>1, <1>3, <1>4, <1>5, <1>7, <1>8

\* A packet is about to be sent: its size, and what is left afterwards.
LEMMA SendFacts ==
  ASSUME TypeOK, LoopInv, vpc \in {"seq", "map", "time", "send"}
  PROVE  /\ InLoop
         /\ i \in 1..Len(frame)
         /\ nalu.length \in Nat
         /\ off \in Nat /\ cBytes \in Nat /\ off + cBytes = nalu.length
         /\ cThis \in Nat /\ cThis > 0 /\ cThis <= cBytes
         /\ off = 0 => cThis = cBytes /\ RtpHeader + cThis <= MaxPacket
         /\ off > 0 => RtpHeader + 2 + cThis <= MaxPacket
         /\ off > 0 => (bStart <=> off = 1)
         /\ off = 1 => cThis < cBytes
<1>1. InLoop BY DEF InLoop
<1>2. off \in Nat /\ cBytes \in Nat BY DEF TypeOK
<1>3. /\ i <= Len(frame) /\ cBytes > 0 /\ off + cBytes = nalu.length
      /\ off = 0 => Fits(nalu.length)
      /\ off > 0 => ~Fits(nalu.length) /\ (bStart <=> off = 1)
  BY DEF LoopInv
<1>4. i \in 1..Len(frame) /\ frameNo \in 1..Len(frames)
  BY <1>1, <1>3, LoopFacts
<1>5. nalu.length \in Nat
  BY <1>4, FrameTypes DEF nalu, frame
<1>6. CASE off = 0
  <2>1. cBytes = nalu.length BY <1>2, <1>3, <1>5, <1>6
  <2>2. cThis = nalu.length /\ RtpHeader + cThis <= MaxPacket
    BY <1>3, <1>5, <1>6, <2>1, SingleSize
  <2> QED BY <1>1, <1>2, <1>3, <1>4, <1>5, <1>6, <2>1, <2>2
<1>7. CASE off > 0
  <2>1. /\ cThis \in Nat /\ cThis > 0 /\ cThis <= cBytes
        /\ RtpHeader + 2 + cThis <= MaxPacket
        /\ off = 1 => cThis < cBytes
    BY <1>2, <1>3, <1>5, <1>7, FragmentSize
  <2> QED BY <1>1, <1>2, <1>3, <1>4, <1>5, <1>7, <2>1
<1> QED BY <1>2, <1>6, <1>7

-----------------------------------------------------------------------------
(* Type correctness.                                                        *)

\* Each step of the main thread and of the video thread keeps every variable in
\* its type.
LEMMA TypeStep ==
  TypeOK /\ MainBusyWith /\ LoopInv /\ [Next]_vars => TypeOK'
<1> SUFFICES ASSUME TypeOK, MainBusyWith, LoopInv, [Next]_vars PROVE TypeOK'
  OBVIOUS
<1> USE DEF mainVars, sessionVars, counterVars, videoVars, netVars
<1>1. ASSUME NEW c \in Conns, onAccept(c) PROVE TypeOK'
  BY <1>1 DEF onAccept, TypeOK
<1>2. ASSUME NEW c \in Conns, Setup(c) PROVE TypeOK'
  <2>0. setups \in [Conns -> Nat] BY DEF TypeOK
  <2>1. setups[c] + 1 \in Nat /\ setups[c] \in Nat BY <2>0
  <2>2. port' \in [conn : Conns, session : Nat] \cup {NoConn}
    BY <1>2, <2>1 DEF Setup, TypeOK, Receiver
  <2>3. born' \in [Conns -> Nat]
    BY <1>2, LenProperties DEF Setup, TypeOK, frameNo
  <2> QED BY <1>2, <2>1, <2>2, <2>3 DEF Setup, TypeOK
<1>3. ASSUME NEW c \in Conns, Play(c) PROVE TypeOK'
  BY <1>3 DEF Play, TypeOK, Request
<1>4. ASSUME NEW c \in Conns, Teardown(c) PROVE TypeOK'
  BY <1>4 DEF Teardown, TypeOK, Request, CloseSockets
<1>5. ASSUME NEW c \in Conns, Disconnect(c) PROVE TypeOK'
  BY <1>5 DEF Disconnect, TypeOK, Request, CloseSockets
<1>6. ASSUME StopRunning PROVE TypeOK'
  BY <1>6 DEF StopRunning, TypeOK
<1>7. ASSUME AddObject PROVE TypeOK'
  <2>1. mconn \in Conns BY <1>7 DEF AddObject, MainBusyWith
  <2>2. connections' \in Seq(Conns)
    BY <1>7, <2>1, AppendProperties DEF AddObject, TypeOK
  <2> QED BY <1>7, <2>2 DEF AddObject, TypeOK
<1>8. ASSUME ResetPackets PROVE TypeOK'
  BY <1>8 DEF ResetPackets, TypeOK
<1>9. ASSUME ResetCounters PROVE TypeOK'
  BY <1>9 DEF ResetCounters, TypeOK
<1>10. ASSUME shutdownConnection PROVE TypeOK'
  <2>1. connections' \in Seq(Conns)
    BY <1>10, RemoveAtSeq DEF shutdownConnection, TypeOK
  <2> QED BY <1>10, <2>1 DEF shutdownConnection, TypeOK
<1>11. ASSUME shutdownServer PROVE TypeOK'
  <2>1. connections' \in Seq(Conns) BY <1>11 DEF shutdownServer
  <2>2. tcp' \in [Conns -> {"none", "open", "closed"}]
    BY <1>11 DEF shutdownServer, TypeOK
  <2>3. /\ session' \in [Conns -> Nat]
        /\ client' \in [Conns -> {"new", "setup", "playing", "torn"}]
        /\ port' \in [conn : Conns, session : Nat] \cup {NoConn}
    BY <1>11 DEF shutdownServer, CloseSockets, TypeOK
  <2> QED BY <1>11, <2>1, <2>2, <2>3 DEF shutdownServer, CloseSockets, TypeOK
<1>12. ASSUME NEW f \in FrameSet, EncodedFrame(f) PROVE TypeOK'
  BY <1>12, SMTT(20) DEF EncodedFrame, TypeOK, frameNo
<1>13. ASSUME onVideoData PROVE TypeOK'
  BY <1>13 DEF onVideoData, TypeOK
<1>14. ASSUME NextConnection PROVE TypeOK'
  <2>1. k' \in Nat /\ i' \in Nat
        /\ vpc' \in {"idle", "lock", "connection", "nalu", "seq", "map", "time", "send"}
    BY <1>14, SMTT(20) DEF NextConnection, TypeOK
  <2> QED BY <1>14, <2>1 DEF NextConnection, TypeOK
<1>15. ASSUME NextNalu PROVE TypeOK'
  <2>1. k' \in Nat /\ i' \in Nat
        /\ vpc' \in {"idle", "lock", "connection", "nalu", "seq", "map", "time", "send"}
    BY <1>15, SMTT(20) DEF NextNalu, TypeOK
  <2> QED BY <1>15, <2>1 DEF NextNalu, TypeOK
<1>16. ASSUME BeginNalu PROVE TypeOK'
  <2>1. InLoop /\ i <= Len(frame) BY <1>16 DEF BeginNalu, InLoop
  <2>2. frameNo \in 1..Len(frames) /\ i \in 1..Len(frame)
    BY <2>1, LoopFacts
  <2>3. nalu.length \in Nat /\ nalu.length > 0
    BY <2>2, FrameTypes DEF nalu, frame
  <2>4. off' \in Nat /\ cBytes' \in Nat
    BY <1>16, <2>3 DEF BeginNalu, Fits
  <2>6. bStart' \in BOOLEAN BY <1>16, Zenon DEF BeginNalu
  <2>5. bFirst' \in [Conns -> BOOLEAN] BY <1>16 DEF BeginNalu, TypeOK
  <2> QED BY <1>16, <2>4, <2>5, <2>6 DEF BeginNalu, TypeOK
<1>17. ASSUME WriteSeq PROVE TypeOK'
  <2>1. current \in Conns
    BY <1>17, LoopFacts DEF WriteSeq, InLoop
  <2>2. packets[current] \in Nat /\ SeqWrap \in Nat \ {0}
    BY <2>1, RtspAssumption DEF TypeOK
  <2>3. packets[current] % SeqWrap \in 0..(SeqWrap - 1)
    BY <2>2
  <2>4. header' \in Headers BY <1>17, <2>3 DEF WriteSeq, TypeOK, Headers
  <2> QED BY <1>17, <2>4 DEF WriteSeq, TypeOK
<1>18. ASSUME MapTime PROVE TypeOK'
  BY <1>18 DEF MapTime, TypeOK
<1>19. ASSUME WriteTime PROVE TypeOK'
  <2>1. current \in Conns
    BY <1>19, LoopFacts DEF WriteTime, InLoop
  <2>2. header' \in Headers BY <1>19, <2>1 DEF WriteTime, TypeOK, Headers
  <2> QED BY <1>19, <2>2 DEF WriteTime, TypeOK
<1>20. ASSUME NEW due \in BOOLEAN, sendPacket(due) PROVE TypeOK'
  <2>1. current \in Conns /\ frameNo \in Nat /\ i \in Nat /\ i + 1 \in Nat
    BY <1>20, LoopFacts DEF sendPacket, InLoop
  <2>2. /\ cThis \in Nat /\ off \in Nat /\ cBytes \in Nat /\ cThis <= cBytes
    BY <1>20, SendFacts DEF sendPacket
  <2>3. off' \in Nat /\ cBytes' \in Nat
    BY <1>20, <2>2 DEF sendPacket
  <2>9. bStart' \in BOOLEAN BY <1>20, Zenon DEF sendPacket
  <2>4. Packet \in Packets
    BY <2>1, <2>2 DEF Packet, Packets, TypeOK, Headers
  <2>5. wire' \in [Conns -> Seq(Packets)]
    BY <1>20, <2>1, <2>4, AppendProperties DEF sendPacket, TypeOK
  <2>6. packets' \in [Conns -> Nat]
    <3>1. packets' = [packets EXCEPT ![current] = @ + 1] BY <1>20 DEF sendPacket
    <3>2. packets \in [Conns -> Nat] BY DEF TypeOK
    <3> QED BY <2>1, <3>1, <3>2
  <2>7. /\ reports' \in [Conns -> Seq(Reports)]
        /\ sentRTCP' \in [Conns -> BOOLEAN]
        /\ reported' \in [Conns -> Nat]
    <3>1. CASE ~sentRTCP[current] \/ due
      <4> DEFINE r == [session |-> session[current], ssrc |-> setups[current],
                       base |-> rtpBase[current],
                       count |-> packets[current] + 1 - reported[current],
                       inherited |-> born[current] = frameNo]
      <4>1. packets[current] \in Nat /\ reported[current] \in Nat
        BY <2>1 DEF TypeOK
      <4>2. r \in Reports
        BY <2>1, <4>1 DEF Reports, TypeOK
      <4>3. /\ reports' = IF session[current] = 0 THEN reports
                          ELSE [reports EXCEPT ![current] = Append(@, r)]
            /\ sentRTCP' = [sentRTCP EXCEPT ![current] = TRUE]
            /\ reported' = [reported EXCEPT ![current] = packets[current] + 1]
        BY <1>20, <3>1 DEF sendPacket, Report
      <4> HIDE DEF r
      <4>4. /\ reports \in [Conns -> Seq(Reports)]
            /\ sentRTCP \in [Conns -> BOOLEAN]
            /\ reported \in [Conns -> Nat]
        BY DEF TypeOK
      <4>5. Append(reports[current], r) \in Seq(Reports)
        BY <2>1, <4>2, <4>4, AppendProperties
      <4>6. reports' \in [Conns -> Seq(Reports)] BY <2>1, <4>3, <4>4, <4>5
      <4>7. sentRTCP' \in [Conns -> BOOLEAN]
        <5>1. sentRTCP' = [sentRTCP EXCEPT ![current] = TRUE] BY <4>3
        <5>2. sentRTCP \in [Conns -> BOOLEAN] BY <4>4
        <5> QED BY <5>1, <5>2
      <4>8. reported' \in [Conns -> Nat]
        <5>1. reported' = [reported EXCEPT ![current] = packets[current] + 1] BY <4>3
        <5>2. reported \in [Conns -> Nat] /\ packets[current] + 1 \in Nat BY <4>1, <4>4
        <5> QED BY <5>1, <5>2
      <4> QED BY <4>6, <4>7, <4>8
    <3>2. CASE ~(~sentRTCP[current] \/ due)
      BY <1>20, <3>2 DEF sendPacket, Report, TypeOK
    <3> QED BY <3>1, <3>2
  <2>8. i' \in Nat
        /\ vpc' \in {"idle", "lock", "connection", "nalu", "seq", "map", "time", "send"}
    BY <1>20, <2>1 DEF sendPacket
  <2> QED BY <1>20, <2>3, <2>5, <2>6, <2>7, <2>8, <2>9 DEF sendPacket, TypeOK
<1>21. CASE UNCHANGED vars
  BY <1>21 DEF vars, TypeOK
<1> QED BY <1>1, <1>2, <1>3, <1>4, <1>5, <1>6, <1>7, <1>8, <1>9, <1>10, <1>11,
           <1>12, <1>13, <1>14, <1>15, <1>16, <1>17, <1>18, <1>19, <1>20, <1>21 DEF Next, MainStep, VideoStep

-----------------------------------------------------------------------------
(* The invariant of the loops.                                              *)

\* While a packet is on its way to the network what is left of its NAL unit is
\* known, whatever the main thread does meanwhile.
LEMMA LoopStep ==
  TypeOK /\ MainBusyWith /\ LoopInv /\ [Next]_vars => MainBusyWith' /\ LoopInv'
<1> SUFFICES ASSUME TypeOK, MainBusyWith, LoopInv, [Next]_vars
             PROVE  MainBusyWith' /\ LoopInv'
  OBVIOUS
<1> USE DEF mainVars, sessionVars, counterVars, videoVars, netVars
<1>1. ASSUME NEW c \in Conns, onAccept(c) PROVE MainBusyWith' /\ LoopInv'
  BY <1>1 DEF onAccept, MainBusyWith, LoopInv, InLoop, ServerLocked, frameNo, frame, nalu
<1>2. ASSUME NEW c \in Conns, Setup(c) PROVE MainBusyWith' /\ LoopInv'
  BY <1>2 DEF Setup, Request, MainBusyWith, LoopInv, InLoop, ServerLocked, frameNo, frame, nalu
<1>3. ASSUME NEW c \in Conns, Play(c) PROVE MainBusyWith' /\ LoopInv'
  BY <1>3 DEF Play, Request, MainBusyWith, LoopInv, InLoop, ServerLocked, frameNo, frame, nalu
<1>4. ASSUME NEW c \in Conns, Teardown(c) PROVE MainBusyWith' /\ LoopInv'
  BY <1>4 DEF Teardown, MainBusyWith, LoopInv, InLoop, ServerLocked, frameNo, frame, nalu
<1>5. ASSUME NEW c \in Conns, Disconnect(c) PROVE MainBusyWith' /\ LoopInv'
  BY <1>5 DEF Disconnect, Request, MainBusyWith, LoopInv, InLoop, ServerLocked, frameNo, frame, nalu
<1>6. ASSUME StopRunning PROVE MainBusyWith' /\ LoopInv'
  BY <1>6 DEF StopRunning, MainBusyWith, LoopInv, InLoop, ServerLocked, frameNo, frame, nalu
<1>7. ASSUME AddObject PROVE MainBusyWith' /\ LoopInv'
  BY <1>7 DEF AddObject, MainBusyWith, LoopInv, InLoop, ServerLocked, frameNo, frame, nalu
<1>8. ASSUME ResetPackets PROVE MainBusyWith' /\ LoopInv'
  BY <1>8 DEF ResetPackets, MainBusyWith, LoopInv, InLoop, ServerLocked, frameNo, frame, nalu
<1>9. ASSUME ResetCounters PROVE MainBusyWith' /\ LoopInv'
  BY <1>9 DEF ResetCounters, MainBusyWith, LoopInv, InLoop, ServerLocked, frameNo, frame, nalu
<1>10. ASSUME shutdownConnection PROVE MainBusyWith' /\ LoopInv'
  BY <1>10 DEF shutdownConnection, MainBusyWith, LoopInv, InLoop, ServerLocked, frameNo, frame, nalu
<1>11. ASSUME shutdownServer PROVE MainBusyWith' /\ LoopInv'
  BY <1>11 DEF shutdownServer, MainBusyWith, LoopInv, InLoop, ServerLocked, frameNo, frame, nalu
<1>12. ASSUME NEW f \in FrameSet, EncodedFrame(f) PROVE MainBusyWith' /\ LoopInv'
  BY <1>12 DEF EncodedFrame, MainBusyWith, LoopInv, InLoop, ServerLocked, frameNo, frame, nalu
<1>13. ASSUME onVideoData PROVE MainBusyWith' /\ LoopInv'
  BY <1>13 DEF onVideoData, MainBusyWith, LoopInv, InLoop, ServerLocked, frameNo, frame, nalu
<1>14. ASSUME NextConnection PROVE MainBusyWith' /\ LoopInv'
  <2>1. k \in Nat /\ Len(connections) \in Nat BY LenProperties DEF TypeOK
  <2>2. k > 0 /\ frameNo > 0 BY <1>14 DEF NextConnection, LoopInv, ServerLocked
  <2>3. frameNo' = frameNo /\ connections' = connections /\ mpc' = mpc /\ mconn' = mconn
    BY <1>14 DEF NextConnection, frameNo
  <2>4. CASE vpc' = "idle"
    BY <2>3, <2>4 DEF MainBusyWith, LoopInv, InLoop, ServerLocked
  <2>5. CASE vpc' = "connection" /\ k' = k + 1
    BY <2>1, <2>2, <2>3, <2>5 DEF MainBusyWith, LoopInv, InLoop, ServerLocked
  <2>6. CASE vpc' = "nalu" /\ k' = k /\ k <= Len(connections) /\ i' = 1
    BY <2>1, <2>2, <2>3, <2>6 DEF MainBusyWith, LoopInv, InLoop, ServerLocked
  <2> QED BY <1>14, <2>4, <2>5, <2>6 DEF NextConnection
<1>15. ASSUME NextNalu PROVE MainBusyWith' /\ LoopInv'
  <2>1. k \in Nat /\ i \in Nat BY DEF TypeOK
  <2>2. k > 0 /\ frameNo > 0 /\ k <= Len(connections) /\ i > 0
    BY <1>15 DEF NextNalu, LoopInv, ServerLocked, InLoop
  <2>3. frameNo' = frameNo /\ connections' = connections /\ mpc' = mpc /\ mconn' = mconn
    BY <1>15 DEF NextNalu, frameNo
  <2>4. CASE vpc' = "connection" /\ k' = k + 1
    BY <2>1, <2>2, <2>3, <2>4 DEF MainBusyWith, LoopInv, InLoop, ServerLocked
  <2>5. CASE vpc' = "nalu" /\ k' = k /\ i' = i + 1
    BY <2>1, <2>2, <2>3, <2>5 DEF MainBusyWith, LoopInv, InLoop, ServerLocked
  <2> QED BY <1>15, <2>4, <2>5 DEF NextNalu
<1>16. ASSUME BeginNalu PROVE MainBusyWith' /\ LoopInv'
  <2>1. InLoop /\ ServerLocked /\ vpc # "idle" /\ i <= Len(frame)
    BY <1>16 DEF BeginNalu, InLoop, ServerLocked
  <2>2. /\ frameNo \in 1..Len(frames) /\ i \in 1..Len(frame)
        /\ k > 0 /\ k <= Len(connections) /\ frameNo > 0
    BY <2>1, LoopFacts DEF LoopInv
  <2>3. nalu.length \in Nat /\ nalu.length > 0
    BY <2>2, FrameTypes DEF nalu, frame
  <2>4. /\ frameNo' = frameNo /\ frame' = frame /\ nalu' = nalu /\ i' = i /\ k' = k
        /\ connections' = connections /\ mpc' = mpc /\ mconn' = mconn /\ vpc' = "seq"
    BY <1>16 DEF BeginNalu, frameNo, frame, nalu
  <2>5. CASE Fits(nalu.length)
    <3>1. off' = 0 /\ cBytes' = nalu.length BY <1>16, <2>5 DEF BeginNalu
    <3> QED BY <2>2, <2>3, <2>4, <2>5, <3>1 DEF MainBusyWith, LoopInv, InLoop, ServerLocked, Fits
  <2>6. CASE ~Fits(nalu.length)
    <3>1. off' = 1 /\ cBytes' = nalu.length - 1 /\ bStart' = TRUE
      BY <1>16, <2>6 DEF BeginNalu
    <3>2. nalu.length > 1
      BY <2>3, <2>6, RtspAssumption DEF Fits, MaxSingle, MaxFragment
    <3> QED BY <2>2, <2>3, <2>4, <2>6, <3>1, <3>2
               DEF MainBusyWith, LoopInv, InLoop, ServerLocked, Fits
  <2> QED BY <2>5, <2>6
<1>17. ASSUME WriteSeq PROVE MainBusyWith' /\ LoopInv'
  BY <1>17 DEF WriteSeq, MainBusyWith, LoopInv, InLoop, ServerLocked, frameNo, frame, nalu
<1>18. ASSUME MapTime PROVE MainBusyWith' /\ LoopInv'
  BY <1>18 DEF MapTime, MainBusyWith, LoopInv, InLoop, ServerLocked, frameNo, frame, nalu
<1>19. ASSUME WriteTime PROVE MainBusyWith' /\ LoopInv'
  BY <1>19 DEF WriteTime, MainBusyWith, LoopInv, InLoop, ServerLocked, frameNo, frame, nalu
<1>20. ASSUME NEW due \in BOOLEAN, sendPacket(due) PROVE MainBusyWith' /\ LoopInv'
  <2>1. /\ InLoop /\ i \in 1..Len(frame) /\ nalu.length \in Nat
        /\ off \in Nat /\ cBytes \in Nat /\ off + cBytes = nalu.length
        /\ cThis \in Nat /\ cThis > 0 /\ cThis <= cBytes
        /\ off = 0 => cThis = cBytes
    BY <1>20, SendFacts DEF sendPacket
  <2>2. k > 0 /\ k <= Len(connections) /\ frameNo > 0
    BY <1>20, <2>1 DEF LoopInv, InLoop, ServerLocked, sendPacket
  <2>3. /\ frameNo' = frameNo /\ frame' = frame /\ k' = k
        /\ connections' = connections /\ mpc' = mpc /\ mconn' = mconn
    BY <1>20 DEF sendPacket, frameNo, frame
  <2>4. CASE cThis = cBytes
    <3>1. i' = i + 1 /\ vpc' = "nalu" BY <1>20, <2>4 DEF sendPacket
    <3> QED BY <2>1, <2>2, <2>3, <3>1 DEF MainBusyWith, LoopInv, InLoop, ServerLocked
  <2>5. CASE cThis # cBytes
    <3>1. /\ i' = i /\ vpc' = "seq" /\ nalu' = nalu
          /\ off' = off + cThis /\ cBytes' = cBytes - cThis /\ bStart' = FALSE
      BY <1>20, <2>3, <2>5 DEF sendPacket, nalu
    <3>2. off > 0 /\ ~Fits(nalu.length)
      BY <1>20, <2>1, <2>5 DEF LoopInv, sendPacket
    <3>3. /\ off' > 1 /\ off' # 0 /\ cBytes' > 0
          /\ off' + cBytes' = nalu.length
      BY <2>1, <2>5, <3>1, <3>2
    <3>4. off' > 0 => ~Fits(nalu.length)' /\ (bStart' <=> off' = 1)
      BY <3>1, <3>2, <3>3 DEF Fits
    <3>5. i' > 0 /\ i' <= Len(frame') BY <2>1, <2>3, <3>1
    <3> QED BY <2>2, <2>3, <3>1, <3>3, <3>4, <3>5 DEF MainBusyWith, LoopInv, InLoop, ServerLocked
  <2> QED BY <2>4, <2>5
<1>21. CASE UNCHANGED vars
  BY <1>21 DEF vars, MainBusyWith, LoopInv, InLoop, ServerLocked, frameNo, frame, nalu
<1> QED BY <1>1, <1>2, <1>3, <1>4, <1>5, <1>6, <1>7, <1>8, <1>9, <1>10, <1>11,
           <1>12, <1>13, <1>14, <1>15, <1>16, <1>17, <1>18, <1>19, <1>20, <1>21 DEF Next, MainStep, VideoStep

-----------------------------------------------------------------------------
(* The packets.                                                             *)

Good(fs, p) == Known(fs, p) /\ WellFormed(fs, p)

AllGood == \A c \in Conns : \A j \in 1..Len(wire[c]) : Good(frames, wire[c][j])

\* The two statements about packets can be taken together.
LEMMA GoodIsWellFormed == AllGood <=> PacketsKnown /\ PacketsWellFormed
  BY DEF AllGood, Good, PacketsKnown, PacketsWellFormed

\* The packet sendPacket sends is well formed.
LEMMA PacketGood ==
  ASSUME TypeOK, LoopInv, vpc = "send" PROVE Good(frames, Packet)
<1>1. /\ InLoop /\ i \in 1..Len(frame) /\ nalu.length \in Nat
      /\ off \in Nat /\ cBytes \in Nat /\ off + cBytes = nalu.length
      /\ cThis \in Nat /\ cThis > 0 /\ cThis <= cBytes
      /\ off = 0 => cThis = cBytes /\ RtpHeader + cThis <= MaxPacket
      /\ off > 0 => RtpHeader + 2 + cThis <= MaxPacket
      /\ off > 0 => (bStart <=> off = 1)
      /\ off = 1 => cThis < cBytes
  BY SendFacts
<1>2. frameNo \in 1..Len(frames) BY <1>1, LoopFacts
<1> DEFINE p == Packet
<1>3. /\ p.frame = frameNo /\ p.nalu = i /\ p.off = off /\ p.length = cThis
      /\ p.start = (off > 0 /\ bStart)
      /\ p.end = (off > 0 /\ ~bStart /\ cThis = cBytes)
      /\ p.marker = (i = Len(frame) /\ cThis = cBytes)
  BY DEF Packet
<1> HIDE DEF p
<1>4. frames[p.frame] = frame /\ frames[p.frame][p.nalu] = nalu
  BY <1>3 DEF frame, nalu
<1>5. p.frame \in 1..Len(frames) /\ p.nalu \in 1..Len(frames[p.frame])
  BY <1>1, <1>2, <1>3, <1>4
<1>6. p.off + p.length = nalu.length <=> cThis = cBytes
  BY <1>1, <1>3
<1>7. p.length > 0 /\ p.off + p.length <= nalu.length
  BY <1>1, <1>3
<1>8. /\ p.off = 0 => p.length = nalu.length /\ RtpHeader + p.length <= MaxPacket
      /\ p.off > 0 => RtpHeader + 2 + p.length <= MaxPacket
  BY <1>1, <1>3
<1>9. off = 1 => off > 0 /\ cThis # cBytes BY <1>1
<1>10. p.start <=> p.off = 1 BY <1>1, <1>3, <1>9
<1>11. p.end <=> p.off > 0 /\ p.off + p.length = nalu.length
  BY <1>1, <1>3, <1>6, <1>9
<1>12. ~(p.start /\ p.end) BY <1>3
<1>13. p.marker <=> p.nalu = Len(frame) /\ p.off + p.length = nalu.length
  BY <1>3, <1>6
<1>14. Good(frames, p)
  BY <1>4, <1>5, <1>7, <1>8, <1>10, <1>11, <1>12, <1>13 DEF Good, Known, WellFormed
<1> QED BY <1>14 DEF p

\* A packet stays well formed when more frames are encoded.
LEMMA GoodAppend ==
  ASSUME TypeOK, NEW f \in FrameSet, NEW p, Good(frames, p)
  PROVE  Good(Append(frames, f), p)
<1>1. frames \in Seq(FrameSet) BY DEF TypeOK
<1>2. p.frame \in 1..Len(frames) BY DEF Good, Known
<1>3. p.frame \in 1..Len(Append(frames, f)) /\ Append(frames, f)[p.frame] = frames[p.frame]
  BY <1>1, <1>2, AppendProperties
<1> QED BY <1>3 DEF Good, Known, WellFormed

\* No step breaks a packet: only EncodedFrame and sendPacket touch what they are about.
LEMMA PacketStep ==
  TypeOK /\ LoopInv /\ AllGood /\ [Next]_vars => AllGood'
<1> SUFFICES ASSUME TypeOK, LoopInv, AllGood, [Next]_vars PROVE AllGood'
  OBVIOUS
<1> USE DEF mainVars, sessionVars, counterVars, videoVars, netVars
<1>1. ASSUME NEW f \in FrameSet, EncodedFrame(f) PROVE AllGood'
  <2>1. frames' = Append(frames, f) /\ wire' = wire BY <1>1 DEF EncodedFrame
  <2> QED BY <2>1, GoodAppend DEF AllGood
<1>2. ASSUME NEW due \in BOOLEAN, sendPacket(due) PROVE AllGood'
  <2>1. frames' = frames BY <1>2 DEF sendPacket
  <2>2. Good(frames, Packet) BY <1>2, PacketGood DEF sendPacket
  <2>3. wire \in [Conns -> Seq(Packets)] BY DEF TypeOK
  <2>4. CASE wire' = wire BY <2>1, <2>4 DEF AllGood
  <2>5. CASE wire' = [wire EXCEPT ![current] = Append(@, Packet)]
    <3> SUFFICES ASSUME NEW c \in Conns, NEW j \in 1..Len(wire'[c])
                 PROVE  Good(frames, wire'[c][j])
      BY <2>1 DEF AllGood
    <3>1. CASE c # current
      BY <2>3, <2>5, <3>1 DEF AllGood
    <3>2. CASE c = current
      <4>1. wire'[c] = Append(wire[c], Packet) /\ wire[c] \in Seq(Packets)
        BY <2>3, <2>5, <3>2
      <4>2. CASE j = Len(wire[c]) + 1
        BY <2>2, <4>1, <4>2, LenProperties
      <4>3. CASE j \in 1..Len(wire[c])
        BY <4>1, <4>3 DEF AllGood
      <4>4. Len(wire'[c]) = Len(wire[c]) + 1 /\ Len(wire[c]) \in Nat
        BY <4>1, LenProperties
      <4> QED BY <4>2, <4>3, <4>4
    <3> QED BY <3>1, <3>2
  <2> QED BY <1>2, <2>4, <2>5 DEF sendPacket
<1>3. ASSUME UNCHANGED <<frames, wire>> PROVE AllGood'
  BY <1>3 DEF AllGood
<1>4. ASSUME NEW c \in Conns,
             onAccept(c) \/ Setup(c) \/ Play(c) \/ Teardown(c) \/ Disconnect(c)
      PROVE  AllGood'
  BY <1>3, <1>4 DEF onAccept, Setup, Play, Teardown, Disconnect
<1>5. ASSUME StopRunning \/ MainStep PROVE AllGood'
  BY <1>3, <1>5 DEF StopRunning, MainStep, AddObject, ResetPackets, ResetCounters,
                    shutdownConnection, shutdownServer
<1>6. ASSUME onVideoData \/ NextConnection \/ NextNalu \/ BeginNalu \/ WriteSeq
             \/ MapTime \/ WriteTime
      PROVE  AllGood'
  BY <1>3, <1>6 DEF onVideoData, NextConnection, NextNalu, BeginNalu, WriteSeq, MapTime,
                    WriteTime
<1>7. CASE UNCHANGED vars BY <1>3, <1>7 DEF vars
<1> QED BY <1>1, <1>2, <1>4, <1>5, <1>6, <1>7 DEF Next, VideoStep

-----------------------------------------------------------------------------
(* The theorems.                                                            *)

\* The server starts in a state of Inv.
LEMMA InvInit == Init => Inv
<1> SUFFICES ASSUME Init PROVE Inv OBVIOUS
<1>1. header \in Headers BY RtspAssumption DEF Init, Headers
<1>2. TypeOK
  <2>1. /\ bFirst \in [Conns -> BOOLEAN] /\ sentRTCP \in [Conns -> BOOLEAN]
        /\ listening \in BOOLEAN /\ bStart \in BOOLEAN
    BY DEF Init
  <2>2. /\ connections \in Seq(Conns) /\ frames \in Seq(FrameSet)
        /\ wire \in [Conns -> Seq(Packets)] /\ reports \in [Conns -> Seq(Reports)]
    BY DEF Init
  <2>3. /\ mpc \in {"idle", "addObject", "packets", "counters", "removeObject", "shutdownServer"}
        /\ mconn \in Conns \cup {NoConn}
        /\ port \in [conn : Conns, session : Nat] \cup {NoConn}
    BY DEF Init
  <2>4. /\ tcp \in [Conns -> {"none", "open", "closed"}]
        /\ state \in [Conns -> {"ServerIdle", "Setup", "Playing"}]
        /\ client \in [Conns -> {"new", "setup", "playing", "torn"}]
        /\ vpc \in {"idle", "lock", "connection", "nalu", "seq", "map", "time", "send"}
    BY DEF Init
  <2>5. /\ setups \in [Conns -> Nat] /\ session \in [Conns -> Nat]
        /\ packets \in [Conns -> Nat] /\ reported \in [Conns -> Nat]
        /\ rtpBase \in [Conns -> Nat] /\ born \in [Conns -> Nat]
        /\ k \in Nat /\ i \in Nat /\ off \in Nat /\ cBytes \in Nat
    BY DEF Init
  <2> QED BY <1>1, <2>1, <2>2, <2>3, <2>4, <2>5 DEF TypeOK
<1>3. MainBusyWith /\ LoopInv BY DEF Init, MainBusyWith, LoopInv, ServerLocked, InLoop
<1>4. AllGood BY DEF Init, AllGood
<1> QED BY <1>2, <1>3, <1>4, GoodIsWellFormed DEF Inv

\* Every step keeps Inv.
LEMMA InvStep == Inv /\ [Next]_vars => Inv'
<1> SUFFICES ASSUME Inv, [Next]_vars PROVE Inv' OBVIOUS
<1>1. TypeOK /\ MainBusyWith /\ LoopInv /\ AllGood BY GoodIsWellFormed DEF Inv
<1>2. TypeOK' BY <1>1, TypeStep
<1>3. MainBusyWith' /\ LoopInv' BY <1>1, LoopStep
<1>4. AllGood' BY <1>1, PacketStep
<1>5. PacketsKnown' /\ PacketsWellFormed' BY <1>4, GoodIsWellFormed, PTL
<1> QED BY <1>2, <1>3, <1>5 DEF Inv

\* Inv is an invariant of the server.
THEOREM Invariance == Spec => []Inv
<1>1. Inv /\ UNCHANGED vars => Inv' BY InvStep
<1> QED BY InvInit, InvStep, PTL DEF Spec

\* Every variable of the server keeps its type -- the sequence number in the header
\* its 16 bits -- for any number of clients, whatever the frames.
THEOREM TypeCorrect == Spec => []TypeOK
<1>1. Inv => TypeOK BY DEF Inv
<1> QED BY Invariance, <1>1, PTL

\* onVideoData cuts NAL units of every length into packets of at most
\* max_packet_size, with the start, end and marker bits where they belong, whatever
\* requests the main thread answers meanwhile.
THEOREM PacketsCorrect == Spec => []PacketsWellFormed
<1>1. Inv => PacketsWellFormed BY DEF Inv
<1> QED BY Invariance, <1>1, PTL

-----------------------------------------------------------------------------
(* The invariants.                                                          *)

LastSent(c) == wire[c][Len(wire[c])]
Fresh(c) == wire[c] = <<>> \/ LastSent(c).session # session[c]
Visiting(c) == InLoop /\ current = c
Sending(c) == vpc \in {"seq", "map", "time", "send"} /\ current = c

\* The list of connections holds every open connection once, but for the one that
\* has just been accepted; only open connections have sockets to send from.
ListInv ==
    /\ IsInjective(connections)
    /\ mpc = "addObject" => tcp[mconn] # "none" /\ mconn \notin ToSet(connections)
    /\ mpc = "removeObject" => tcp[mconn] # "open"
    /\ ~listening => mpc = "idle" /\ connections = <<>>
    /\ \A c \in Conns :
          /\ tcp[c] = "none" => c \notin ToSet(connections)
          /\ tcp[c] = "open" => c \in ToSet(connections) \/ (mpc = "addObject" /\ mconn = c)
          /\ session[c] # 0 => tcp[c] = "open"

\* Session numbers are new when they are given.  A connection the video thread is
\* busy with is playing, unless SETUP came after the thread had looked.
SessionInv ==
    \A c \in Conns :
        /\ session[c] <= setups[c]
        /\ \A j \in 1..Len(wire[c]) : wire[c][j].session > 0 /\ wire[c][j].session <= setups[c]
        /\ client[c] \in {"new", "torn"} => session[c] = 0
        /\ client[c] = "setup" => state[c] = "Setup"
        /\ Visiting(c) /\ state[c] = "Setup" => born[c] = frameNo
        /\ mpc \in {"packets", "counters"} /\ mconn = c => state[c] = "Setup" /\ Fresh(c)

\* Before the first packet of a session _bFirst is set, or that packet is being
\* written: it begins an IDR slice, or belongs to a frame that was under way.
StartInv ==
    \A c \in Conns :
        /\ Fresh(c) /\ session[c] # 0 /\ client[c] = "playing" =>
              \/ bFirst[c]
              \/ Sending(c) /\ (born[c] = frameNo \/ (nalu.idr /\ off <= 1))
        /\ Sending(c) /\ bFirst[c] => born[c] = frameNo

\* Where the stream of a session has got to: what follows its last packet p.
Follows(c, p) ==
    /\ ~Complete(p) =>
          Sending(c) /\ <<frameNo, i, off>> = <<p.frame, p.nalu, p.off + p.length>>
    /\ Sending(c) /\ off > 1 =>
          <<frameNo, i, off>> = <<p.frame, p.nalu, p.off + p.length>>
    /\ p.frame <= frameNo
    /\ p.frame = frameNo /\ vpc # "idle" =>
          /\ ServerLocked
          /\ \/ \E j \in 1..(k - 1) : connections[j] = c
             \/ Visiting(c) /\ (Complete(p) => p.nalu < i)

ProgressInv == \A c \in Conns : ~Fresh(c) => Follows(c, LastSent(c))

FirstOfSession(c) ==
    Len(wire[c]) > 1 => wire[c][Len(wire[c]) - 1].session # LastSent(c).session

\* Which number the next packet gets, once it has been written, and which one the
\* last packet has got.
Writing(c) == vpc \in {"map", "time", "send"} /\ current = c

NumberWritten(c) ==
    header.seq = packets[c] % SeqWrap \/ (born[c] = frameNo /\ Fresh(c))

NumberSent(c) ==
    \/ packets[c] > 0 /\ LastSent(c).seq = (packets[c] - 1) % SeqWrap
    \/ LastSent(c).inherited /\ FirstOfSession(c)

NumberInv ==
    \A c \in Conns : (Writing(c) => NumberWritten(c)) /\ (~Fresh(c) => NumberSent(c))

-----------------------------------------------------------------------------
(* The list of connections.                                                 *)

\* Nothing is in an empty list.
LEMMA EmptyList == ToSet(<<>>) = {} /\ IsInjective(<<>>)
<1>1. DOMAIN <<>> = {} OBVIOUS
<1> QED BY <1>1 DEF ToSet, IsInjective

\* addObject: a new connection is in the list once.
LEMMA ListAppend ==
  ASSUME NEW S, NEW s \in Seq(S), NEW e \in S, IsInjective(s), e \notin ToSet(s)
  PROVE  ToSet(Append(s, e)) = ToSet(s) \cup {e} /\ IsInjective(Append(s, e))
<1> DEFINE a == Append(s, e)
<1>1. /\ Len(a) = Len(s) + 1 /\ a[Len(s) + 1] = e
      /\ \A j \in 1..Len(s) : a[j] = s[j]
      /\ a \in Seq(S)
  BY AppendProperties
<1>2. DOMAIN s = 1..Len(s) /\ DOMAIN a = 1..(Len(s) + 1) /\ Len(s) \in Nat
  BY <1>1
<1> HIDE DEF a
<1>3. \A j \in 1..(Len(s) + 1) : j \in 1..Len(s) \/ j = Len(s) + 1
  BY <1>2
<1>4. ToSet(a) = ToSet(s) \cup {e}
  BY <1>1, <1>2, <1>3 DEF ToSet
<1>5. \A j \in 1..Len(s) : s[j] # e
  BY <1>2 DEF ToSet
<1>6. IsInjective(a)
  BY <1>1, <1>2, <1>3, <1>5 DEF IsInjective
<1> QED BY <1>4, <1>6 DEF a

\* removeObject: the connection is in the list no more, the others still are.
LEMMA ListRemove ==
  ASSUME NEW S, NEW s \in Seq(S), NEW j \in 1..Len(s), IsInjective(s)
  PROVE  ToSet(RemoveAt(s, j)) = ToSet(s) \ {s[j]} /\ IsInjective(RemoveAt(s, j))
<1> DEFINE r == RemoveAt(s, j)
           n0 == Len(s)
           x1 == SubSeq(s, 1, j - 1)
           x2 == SubSeq(s, j + 1, n0)
           up(z) == IF z < j THEN z ELSE z + 1
<1>0. n0 \in Nat /\ j \in Nat /\ 1 <= j /\ j <= n0 /\ DOMAIN s = 1..n0
  OBVIOUS
<1>1. /\ x1 \in Seq(S) /\ Len(x1) = j - 1 /\ \A n \in 1..(j - 1) : x1[n] = s[n]
      /\ x2 \in Seq(S) /\ Len(x2) = n0 - j /\ \A n \in 1..(n0 - j) : x2[n] = s[j + n]
  <2>1. \A n \in 1..n0 : s[n] \in S
    BY <1>0
  <2>2. (\A n \in 1..(j - 1) : s[n] \in S) /\ (\A n \in (j + 1)..n0 : s[n] \in S)
    BY <1>0, <2>1
  <2>3. /\ x1 \in Seq(S)
        /\ Len(x1) = IF 1 <= j - 1 THEN (j - 1) - 1 + 1 ELSE 0
        /\ \A n \in 1..((j - 1) - 1 + 1) : x1[n] = s[1 + n - 1]
    BY <1>0, <2>2, SubSeqProperties
  <2>4. /\ x2 \in Seq(S)
        /\ Len(x2) = IF j + 1 <= n0 THEN n0 - (j + 1) + 1 ELSE 0
        /\ \A n \in 1..(n0 - (j + 1) + 1) : x2[n] = s[j + 1 + n - 1]
    BY <1>0, <2>2, SubSeqProperties
  <2> HIDE DEF x1, x2, n0
  <2>5. Len(x1) = j - 1 /\ Len(x2) = n0 - j
    BY <1>0, <2>3, <2>4
  <2>6. \A n \in 1..(j - 1) : x1[n] = s[n]
    <3> TAKE n \in 1..(j - 1)
    <3>1. 1 + n - 1 = n /\ n \in 1..((j - 1) - 1 + 1) BY <1>0
    <3> QED BY <2>3, <3>1
  <2>7. \A n \in 1..(n0 - j) : x2[n] = s[j + n]
    <3> TAKE n \in 1..(n0 - j)
    <3>1. j + 1 + n - 1 = j + n /\ n \in 1..(n0 - (j + 1) + 1) BY <1>0
    <3> QED BY <2>4, <3>1
  <2> QED BY <2>3, <2>4, <2>5, <2>6, <2>7
<1>2. r = x1 \o x2 BY DEF RemoveAt
<1> HIDE DEF r, n0, x1, x2, up
<1>3. /\ r \in Seq(S) /\ Len(r) = n0 - 1
      /\ \A n \in 1..(n0 - 1) : r[n] = IF n <= j - 1 THEN x1[n] ELSE x2[n - (j - 1)]
  <2>1. /\ r \in Seq(S) /\ Len(r) = Len(x1) + Len(x2)
        /\ \A n \in 1..(Len(x1) + Len(x2)) : r[n] = IF n <= Len(x1) THEN x1[n] ELSE x2[n - Len(x1)]
    BY <1>1, <1>2, ConcatProperties
  <2>2. Len(x1) + Len(x2) = n0 - 1 BY <1>0, <1>1
  <2> QED BY <1>1, <2>1, <2>2
<1>4. \A n \in 1..(n0 - 1) : up(n) \in 1..n0 /\ up(n) # j /\ r[n] = s[up(n)]
  <2> TAKE n \in 1..(n0 - 1)
  <2>1. CASE n < j
    <3>1. up(n) = n /\ n \in 1..(j - 1) /\ n <= j - 1 BY <1>0, <2>1 DEF up
    <3>2. r[n] = x1[n] BY <1>3, <3>1
    <3>3. x1[n] = s[n] BY <1>1, <3>1
    <3>4. n \in 1..n0 /\ n # j BY <1>0, <2>1
    <3> QED BY <3>1, <3>2, <3>3, <3>4
  <2>2. CASE ~(n < j)
    <3>1. up(n) = n + 1 /\ ~(n <= j - 1) /\ n - (j - 1) \in 1..(n0 - j) /\ j + (n - (j - 1)) = n + 1
      BY <1>0, <2>2 DEF up
    <3>2. r[n] = x2[n - (j - 1)] BY <1>3, <3>1
    <3>3. x2[n - (j - 1)] = s[j + (n - (j - 1))] BY <1>1, <3>1
    <3>4. n + 1 \in 1..n0 /\ n + 1 # j BY <1>0, <2>2
    <3> QED BY <3>1, <3>2, <3>3, <3>4
  <2> QED BY <2>1, <2>2
<1>5. \A m, n \in 1..(n0 - 1) : up(m) = up(n) => m = n
  BY <1>0 DEF up
<1>6. \A m \in 1..n0 : m # j => \E n \in 1..(n0 - 1) : up(n) = m
  <2> TAKE m \in 1..n0
  <2>1. CASE m < j
    <3>1. m \in 1..(n0 - 1) /\ up(m) = m BY <1>0, <2>1 DEF up
    <3> QED BY <3>1
  <2>2. CASE m > j
    <3>1. m - 1 \in 1..(n0 - 1) /\ up(m - 1) = m BY <1>0, <2>2 DEF up
    <3> QED BY <3>1
  <2> QED BY <1>0, <2>1, <2>2
<1>7. DOMAIN r = 1..(n0 - 1) BY <1>0, <1>3
<1>8. \A m, n \in 1..n0 : s[m] = s[n] => m = n
  BY <1>0 DEF IsInjective
<1>9. ToSet(r) = ToSet(s) \ {s[j]}
  <2>1. \A x : x \in ToSet(s) <=> \E n \in 1..n0 : x = s[n]
    BY <1>0 DEF ToSet
  <2>2. \A x : x \in ToSet(r) <=> \E n \in 1..(n0 - 1) : x = r[n]
    BY <1>7 DEF ToSet
  <2>3. j \in 1..n0 BY <1>0
  <2>4. ASSUME NEW x \in ToSet(r) PROVE x \in ToSet(s) \ {s[j]}
    BY <1>4, <1>8, <2>1, <2>2, <2>3
  <2>5. ASSUME NEW x \in ToSet(s) \ {s[j]} PROVE x \in ToSet(r)
    BY <1>4, <1>6, <2>1, <2>2
  <2> QED BY <2>4, <2>5
<1>10. IsInjective(r)
  BY <1>4, <1>5, <1>7, <1>8 DEF IsInjective
<1> QED BY <1>9, <1>10 DEF r

\* At the start there is no connection.
LEMMA ListInit == Init => ListInv
  BY EmptyList DEF Init, ListInv

\* Every step keeps ListInv.
LEMMA ListStep == Inv /\ ListInv /\ [Next]_vars => ListInv'
<1> SUFFICES ASSUME Inv, ListInv, [Next]_vars PROVE ListInv' OBVIOUS
<1> USE DEF mainVars, sessionVars, counterVars, videoVars, netVars
<1>0. /\ connections \in Seq(Conns) /\ listening \in BOOLEAN /\ MainBusyWith
      /\ tcp \in [Conns -> {"none", "open", "closed"}]
      /\ session \in [Conns -> Nat] /\ setups \in [Conns -> Nat]
  BY DEF Inv, TypeOK
<1>1. ASSUME NEW c \in Conns, onAccept(c) PROVE ListInv'
  BY <1>0, <1>1 DEF onAccept, ListInv
<1>2. ASSUME NEW c \in Conns, Setup(c) PROVE ListInv'
  <2>1. tcp[c] = "open" /\ setups[c] + 1 # 0 BY <1>0, <1>2 DEF Setup, Request
  <2>2. listening BY <1>2, <2>1, EmptyList DEF Setup, Request, ListInv
  <2> QED BY <1>0, <1>2, <2>1, <2>2 DEF Setup, Request, ListInv
<1>3. ASSUME NEW c \in Conns, Play(c) PROVE ListInv'
  BY <1>3 DEF Play, ListInv
<1>4. ASSUME NEW c \in Conns, Teardown(c) PROVE ListInv'
  BY <1>0, <1>4 DEF Teardown, CloseSockets, ListInv
<1>5. ASSUME NEW c \in Conns, Disconnect(c) PROVE ListInv'
  <2>1. listening BY <1>5, EmptyList DEF Disconnect, Request, ListInv
  <2> QED BY <1>0, <1>5, <2>1 DEF Disconnect, Request, CloseSockets, ListInv
<1>6. ASSUME StopRunning PROVE ListInv'
  BY <1>6 DEF StopRunning, ListInv
<1>7. ASSUME AddObject PROVE ListInv'
  <2>1. mconn \in Conns /\ mconn \notin ToSet(connections) /\ listening
    BY <1>0, <1>7 DEF AddObject, MainBusyWith, ListInv
  <2>2. /\ ToSet(connections') = ToSet(connections) \cup {mconn}
        /\ IsInjective(connections')
    BY <1>0, <1>7, <2>1, ListAppend DEF AddObject, ListInv
  <2> QED BY <1>0, <1>7, <2>1, <2>2 DEF AddObject, ListInv
<1>8. ASSUME ResetPackets PROVE ListInv'
  BY <1>8 DEF ResetPackets, ListInv
<1>9. ASSUME ResetCounters PROVE ListInv'
  BY <1>9 DEF ResetCounters, ListInv
<1>10. ASSUME shutdownConnection PROVE ListInv'
  <2>1. /\ mpc = "removeObject" /\ mpc' = "idle"
        /\ tcp' = tcp /\ session' = session /\ listening' = listening
    BY <1>10 DEF shutdownConnection
  <2>2. PICK j \in 1..Len(connections) :
           connections[j] = mconn /\ connections' = RemoveAt(connections, j)
    BY <1>10 DEF shutdownConnection
  <2>3. /\ ToSet(connections') = ToSet(connections) \ {mconn}
        /\ IsInjective(connections')
    BY <1>0, <2>2, ListRemove DEF ListInv
  <2> QED BY <1>0, <2>1, <2>3 DEF ListInv
<1>11. ASSUME shutdownServer PROVE ListInv'
  <2>1. /\ mpc = "shutdownServer" /\ mpc' = "idle" /\ connections' = <<>>
        /\ tcp' = [c \in Conns |-> IF c \in ToSet(connections) THEN "closed" ELSE tcp[c]]
        /\ session' = [c \in Conns |-> IF c \in ToSet(connections) THEN 0 ELSE session[c]]
    BY <1>11 DEF shutdownServer, CloseSockets
  <2>2. \A c \in Conns : tcp'[c] # "open" /\ session'[c] = 0
    BY <1>0, <2>1 DEF ListInv
  <2> QED BY <2>1, <2>2, EmptyList DEF ListInv
<1>12. ASSUME UNCHANGED <<listening, connections, mpc, mconn, tcp, session>> PROVE ListInv'
  BY <1>12 DEF ListInv
<1>13. ASSUME NEW f \in FrameSet, EncodedFrame(f) PROVE ListInv'
  BY <1>12, <1>13 DEF EncodedFrame
<1>14. CASE VideoStep
  BY <1>12, <1>14 DEF VideoStep, onVideoData, NextConnection, NextNalu, BeginNalu, WriteSeq,
                      MapTime, WriteTime, sendPacket
<1>15. CASE UNCHANGED vars
  BY <1>12, <1>15 DEF vars
<1> QED BY <1>1, <1>2, <1>3, <1>4, <1>5, <1>6, <1>7, <1>8, <1>9, <1>10, <1>11,
           <1>13, <1>14, <1>15 DEF Next, MainStep

-----------------------------------------------------------------------------
(* Sessions.                                                                *)

\* sendPacket adds one packet for the connection it is busy with, if that has a
\* socket, and nothing else to what was sent.
LEMMA SendEffect ==
  ASSUME Inv, NEW due \in BOOLEAN, sendPacket(due)
  PROVE  /\ current \in Conns /\ Visiting(current) /\ ~ConnLocked(current)
         /\ \A c \in Conns : c # current => wire'[c] = wire[c]
         /\ session[current] = 0 => wire' = wire
         /\ session[current] # 0 =>
               /\ wire'[current] = Append(wire[current], Packet)
               /\ Len(wire'[current]) = Len(wire[current]) + 1
               /\ wire'[current][Len(wire[current]) + 1] = Packet
               /\ \A j \in 1..Len(wire[current]) : wire'[current][j] = wire[current][j]
         /\ UNCHANGED <<mainVars, sessionVars, frames, k, header, bFirst, rtpBase>>
<1>1. InLoop BY DEF sendPacket, InLoop
<1>2. current \in Conns BY <1>1, LoopFacts DEF Inv
<1>3. wire \in [Conns -> Seq(Packets)] BY DEF Inv, TypeOK
<1>4. wire' = IF session[current] = 0 THEN wire
              ELSE [wire EXCEPT ![current] = Append(@, Packet)]
  BY DEF sendPacket
<1>5. ~ConnLocked(current) /\ UNCHANGED <<mainVars, sessionVars, frames, k, header, bFirst, rtpBase>>
  BY DEF sendPacket
<1> DEFINE p == Packet
           c0 == current
<1> HIDE DEF p, c0
<1>6. session[c0] # 0 => wire' = [wire EXCEPT ![c0] = Append(@, p)]
  BY <1>4 DEF p, c0
<1>7. session[c0] # 0 => wire'[c0] = Append(wire[c0], p) /\ \A c \in Conns : c # c0 => wire'[c] = wire[c]
  BY <1>2, <1>3, <1>6 DEF c0
<1>8. session[c0] # 0 =>
         /\ Len(wire'[c0]) = Len(wire[c0]) + 1
         /\ wire'[c0][Len(wire[c0]) + 1] = p
         /\ \A j \in 1..Len(wire[c0]) : wire'[c0][j] = wire[c0][j]
  BY <1>2, <1>3, <1>7 DEF c0
<1> QED BY <1>1, <1>2, <1>4, <1>5, <1>7, <1>8 DEF p, c0, Visiting

\* A session that is given a new number, or none, has sent nothing yet.
LEMMA NewSession ==
  ASSUME Inv, SessionInv, NEW c \in Conns, NEW n \in Nat, n > setups[c] \/ n = 0
  PROVE  wire[c] = <<>> \/ LastSent(c).session # n
<1>1. wire[c] \in Seq(Packets) /\ setups[c] \in Nat BY DEF Inv, TypeOK
<1>2. CASE wire[c] # <<>>
  <2>1. Len(wire[c]) \in 1..Len(wire[c]) /\ LastSent(c) \in Packets
    BY <1>1, <1>2 DEF LastSent
  <2>2. LastSent(c).session > 0 /\ LastSent(c).session <= setups[c] /\ LastSent(c).session \in Nat
    BY <2>1 DEF SessionInv, LastSent, Packets
  <2> QED BY <1>1, <2>2
<1> QED BY <1>2

\* At the start there is no session.
LEMMA SessionInit == Init => SessionInv
  BY DEF Init, SessionInv, Visiting, InLoop

\* Every step keeps SessionInv.
LEMMA SessionStep == Inv /\ SessionInv /\ [Next]_vars => SessionInv'
<1> SUFFICES ASSUME Inv, SessionInv, [Next]_vars PROVE SessionInv' OBVIOUS
<1> USE DEF mainVars, sessionVars, counterVars, videoVars, netVars
<1>0. /\ setups \in [Conns -> Nat] /\ session \in [Conns -> Nat] /\ born \in [Conns -> Nat]
      /\ state \in [Conns -> {"ServerIdle", "Setup", "Playing"}]
      /\ client \in [Conns -> {"new", "setup", "playing", "torn"}]
      /\ wire \in [Conns -> Seq(Packets)]
  BY DEF Inv, TypeOK
<1>1. ASSUME UNCHANGED <<state, setups, session, client, born, wire>>,
             mpc' \in {"packets", "counters"} => mpc \in {"packets", "counters"} /\ mconn' = mconn,
             \A c \in Conns : Visiting(c)' /\ state[c] = "Setup" => Visiting(c) /\ frameNo' = frameNo
      PROVE  SessionInv'
  <2> SUFFICES ASSUME NEW c \in Conns
               PROVE  /\ (Visiting(c) /\ state[c] = "Setup" => born[c] = frameNo)'
                      /\ (mpc \in {"packets", "counters"} /\ mconn = c => state[c] = "Setup" /\ Fresh(c))'
    BY <1>1 DEF SessionInv
  <2>1. Fresh(c)' <=> Fresh(c) BY <1>1 DEF Fresh, LastSent
  <2> QED BY <1>1, <2>1 DEF SessionInv
<1>2. ASSUME UNCHANGED <<frames, connections, k, vpc>> PROVE \A c : frameNo' = frameNo /\ (Visiting(c)' <=> Visiting(c))
  BY <1>2 DEF Visiting, InLoop, current, frameNo
<1>3. ASSUME NEW c \in Conns, onAccept(c) PROVE SessionInv'
  BY <1>1, <1>2, <1>3 DEF onAccept
<1>4. ASSUME NEW c \in Conns, Setup(c) PROVE SessionInv'
  <2>1. /\ setups' = [setups EXCEPT ![c] = @ + 1] /\ session' = [session EXCEPT ![c] = setups[c] + 1]
        /\ state' = [state EXCEPT ![c] = "Setup"] /\ client' = [client EXCEPT ![c] = "setup"]
        /\ born' = [born EXCEPT ![c] = IF InLoop /\ current = c THEN frameNo ELSE 0]
        /\ mpc' = "packets" /\ mconn' = c /\ wire' = wire
    BY <1>4 DEF Setup
  <2>2. \A x : frameNo' = frameNo /\ (Visiting(x)' <=> Visiting(x))
    BY <1>2, <1>4 DEF Setup
  <2>3. Fresh(c)'
    <3>1. setups[c] \in Nat /\ setups[c] + 1 \in Nat BY <1>0
    <3>2. wire[c] = <<>> \/ LastSent(c).session # setups[c] + 1 BY <3>1, NewSession
    <3> QED BY <1>0, <2>1, <3>2 DEF Fresh, LastSent
  <2>4. \A x \in Conns : x # c =>
           /\ setups'[x] = setups[x] /\ session'[x] = session[x] /\ state'[x] = state[x]
           /\ client'[x] = client[x] /\ born'[x] = born[x]
    BY <1>0, <2>1
  <2>5. /\ setups'[c] = setups[c] + 1 /\ session'[c] = setups[c] + 1 /\ state'[c] = "Setup"
        /\ client'[c] = "setup" /\ (Visiting(c) => born'[c] = frameNo)
    BY <1>0, <2>1 DEF Visiting
  <2>6. \A j \in 1..Len(wire[c]) : wire[c][j] \in Packets /\ wire[c][j].session \in Nat
    <3>1. wire[c] \in Seq(Packets) BY <1>0
    <3>2. \A j \in 1..Len(wire[c]) : wire[c][j] \in Packets BY <3>1
    <3> QED BY <3>2 DEF Packets
  <2> QED BY <1>0, <2>1, <2>2, <2>3, <2>4, <2>5, <2>6 DEF SessionInv
<1>5. ASSUME NEW c \in Conns, Play(c) PROVE SessionInv'
  <2>1. /\ mpc = "idle" /\ mpc' = "idle"
        /\ state' = [state EXCEPT ![c] = "Playing"] /\ client' = [client EXCEPT ![c] = "playing"]
        /\ UNCHANGED <<setups, session, born, wire>>
    BY <1>5 DEF Play, Request
  <2>2. \A x : frameNo' = frameNo /\ (Visiting(x)' <=> Visiting(x))
    BY <1>2, <1>5 DEF Play
  <2> QED BY <1>0, <2>1, <2>2 DEF SessionInv
<1>6. ASSUME NEW cs \in SUBSET Conns, CloseSockets(cs), mpc \notin {"packets", "counters"},
             mpc' \notin {"packets", "counters"}, wire' = wire,
             \A c \in Conns : Visiting(c)' => Visiting(c) /\ frameNo' = frameNo
      PROVE  SessionInv'
  <2>1. /\ session' = [c \in Conns |-> IF c \in cs THEN 0 ELSE session[c]]
        /\ client' = [c \in Conns |-> IF c \in cs THEN "torn" ELSE client[c]]
        /\ UNCHANGED <<state, setups, born>>
    BY <1>6 DEF CloseSockets
  <2> QED BY <1>0, <1>6, <2>1 DEF SessionInv
<1>7. ASSUME NEW c \in Conns, Teardown(c) PROVE SessionInv'
  BY <1>2, <1>6, <1>7 DEF Teardown, Request
<1>8. ASSUME NEW c \in Conns, Disconnect(c) PROVE SessionInv'
  BY <1>2, <1>6, <1>8 DEF Disconnect, Request
<1>9. ASSUME StopRunning PROVE SessionInv'
  BY <1>1, <1>2, <1>9 DEF StopRunning
<1>10. ASSUME ~ServerLocked, vpc' = vpc PROVE \A c : ~Visiting(c)'
  BY <1>10 DEF ServerLocked, Visiting, InLoop
<1>11. ASSUME AddObject \/ shutdownConnection PROVE SessionInv'
  BY <1>1, <1>10, <1>11 DEF AddObject, shutdownConnection
<1>12. ASSUME ResetPackets \/ ResetCounters PROVE SessionInv'
  BY <1>1, <1>2, <1>12 DEF ResetPackets, ResetCounters
<1>13. ASSUME shutdownServer PROVE SessionInv'
  <2>1. connections \in Seq(Conns) BY DEF Inv, TypeOK
  <2>2. ToSet(connections) \in SUBSET Conns BY <2>1 DEF ToSet
  <2> QED BY <1>6, <1>10, <1>13, <2>2 DEF shutdownServer
<1>14. ASSUME NEW f \in FrameSet, EncodedFrame(f) PROVE SessionInv'
  <2>1. \A c : ~Visiting(c)' BY <1>14 DEF EncodedFrame, Visiting, InLoop
  <2> QED BY <1>1, <1>14, <2>1 DEF EncodedFrame
<1>15. ASSUME onVideoData PROVE SessionInv'
  <2>1. \A c : ~Visiting(c)' BY <1>15 DEF onVideoData, Visiting, InLoop
  <2> QED BY <1>1, <1>15, <2>1 DEF onVideoData
<1>16. ASSUME NextConnection PROVE SessionInv'
  <2>1. \A c \in Conns : Visiting(c)' => state[c] = "Playing"
    BY <1>16 DEF NextConnection, Visiting, InLoop, current
  <2> QED BY <1>1, <1>16, <2>1 DEF NextConnection
<1>17. ASSUME NextNalu \/ BeginNalu \/ WriteSeq \/ MapTime \/ WriteTime PROVE SessionInv'
  <2>1. \A c : Visiting(c)' => Visiting(c)
    BY <1>17 DEF NextNalu, BeginNalu, WriteSeq, MapTime, WriteTime, Visiting, InLoop, current
  <2>2. frameNo' = frameNo
    BY <1>17 DEF NextNalu, BeginNalu, WriteSeq, MapTime, WriteTime, frameNo
  <2> QED BY <1>1, <1>17, <2>1, <2>2 DEF NextNalu, BeginNalu, WriteSeq, MapTime, WriteTime
<1>18. ASSUME NEW due \in BOOLEAN, sendPacket(due) PROVE SessionInv'
  <2>1. /\ UNCHANGED <<state, setups, session, client, born, mpc, mconn>>
        /\ frameNo' = frameNo
        /\ \A c : Visiting(c)' => Visiting(c)
    BY <1>18, SendEffect DEF sendPacket, frameNo, Visiting, InLoop, current
  <2>2. CASE session[current] = 0
    BY <1>1, <1>18, <2>1, <2>2, SendEffect
  <2>3. CASE session[current] # 0
    <3> DEFINE c0 == current
    <3>1. /\ c0 \in Conns /\ ~ConnLocked(c0)
          /\ \A c \in Conns : c # c0 => wire'[c] = wire[c]
          /\ Len(wire'[c0]) = Len(wire[c0]) + 1
          /\ wire'[c0][Len(wire[c0]) + 1] = Packet
          /\ \A j \in 1..Len(wire[c0]) : wire'[c0][j] = wire[c0][j]
      BY <1>18, <2>3, SendEffect
    <3>2. Packet.session = session[c0] BY DEF Packet
    <3> HIDE DEF c0
    <3>3. session[c0] > 0 /\ session[c0] <= setups[c0]
      BY <1>0, <2>3, <3>1 DEF SessionInv, c0
    <3>4. \A c \in Conns : \A j \in 1..Len(wire'[c]) :
             wire'[c][j].session > 0 /\ wire'[c][j].session <= setups[c]
      <4> TAKE c \in Conns
      <4>1. CASE c # c0 BY <3>1, <4>1 DEF SessionInv
      <4>2. CASE c = c0
        <5>1. Len(wire[c0]) \in Nat BY <1>0, <3>1
        <5>2. \A j \in 1..Len(wire'[c0]) : j \in 1..Len(wire[c0]) \/ j = Len(wire[c0]) + 1
          BY <3>1, <5>1
        <5> QED BY <3>1, <3>2, <3>3, <4>2, <5>2 DEF SessionInv
      <4> QED BY <4>1, <4>2
    <3>5. \A c \in Conns : mpc \in {"packets", "counters"} /\ mconn = c => (Fresh(c)' <=> Fresh(c))
      BY <2>1, <3>1 DEF Fresh, LastSent, ConnLocked
    <3> QED BY <1>0, <2>1, <3>4, <3>5 DEF SessionInv
  <2> QED BY <2>2, <2>3
<1>19. CASE UNCHANGED vars BY <1>1, <1>2, <1>19 DEF vars
<1> QED BY <1>3, <1>4, <1>5, <1>7, <1>8, <1>9, <1>11, <1>12, <1>13, <1>14, <1>15,
           <1>16, <1>17, <1>18, <1>19 DEF Next, MainStep, VideoStep

-----------------------------------------------------------------------------
(* The first packet of a session.                                           *)

\* At the start there is no session.
LEMMA StartInit == Init => StartInv
  BY DEF Init, StartInv, Sending

\* Every step keeps StartInv.
LEMMA StartStep == Inv /\ SessionInv /\ StartInv /\ [Next]_vars => StartInv'
<1> SUFFICES ASSUME Inv, SessionInv, StartInv, [Next]_vars PROVE StartInv' OBVIOUS
<1> USE DEF mainVars, sessionVars, counterVars, videoVars, netVars
<1>0. /\ session \in [Conns -> Nat] /\ born \in [Conns -> Nat] /\ bFirst \in [Conns -> BOOLEAN]
      /\ client \in [Conns -> {"new", "setup", "playing", "torn"}]
      /\ setups \in [Conns -> Nat] /\ connections \in Seq(Conns)
  BY DEF Inv, TypeOK
<1>1. ASSUME UNCHANGED <<session, client, born, bFirst, wire>>,
             \A c \in Conns : ~Sending(c) /\ ~Sending(c)'
      PROVE  StartInv'
  <2>1. \A c \in Conns : Fresh(c)' <=> Fresh(c) BY <1>1 DEF Fresh, LastSent
  <2> QED BY <1>1, <2>1 DEF StartInv
<1>2. ASSUME UNCHANGED <<frames, connections, k, i, off>>,
             vpc' = vpc \/ (vpc \in {"seq", "map", "time"} /\ vpc' \in {"map", "time", "send"})
      PROVE  frameNo' = frameNo /\ nalu' = nalu /\ off' = off /\ \A c : Sending(c)' <=> Sending(c)
  BY <1>2 DEF Sending, current, frameNo, nalu, frame
<1>3. ASSUME UNCHANGED <<frames, connections, k, i, off, session, client, born, bFirst, wire>>,
             vpc' = vpc \/ (vpc \in {"seq", "map", "time"} /\ vpc' \in {"map", "time", "send"})
      PROVE  StartInv'
  <2>1. \A c \in Conns : Fresh(c)' <=> Fresh(c) BY <1>3 DEF Fresh, LastSent
  <2>2. frameNo' = frameNo /\ nalu' = nalu /\ off' = off /\ \A c : Sending(c)' <=> Sending(c)
    BY <1>2, <1>3
  <2> QED BY <1>3, <2>1, <2>2 DEF StartInv
<1>4. ASSUME NEW c \in Conns, Setup(c) PROVE StartInv'
  <2>1. /\ session' = [session EXCEPT ![c] = setups[c] + 1]
        /\ client' = [client EXCEPT ![c] = "setup"]
        /\ born' = [born EXCEPT ![c] = IF InLoop /\ current = c THEN frameNo ELSE 0]
        /\ UNCHANGED <<bFirst, wire>>
    BY <1>4 DEF Setup
  <2>2. frameNo' = frameNo /\ nalu' = nalu /\ off' = off /\ \A x : Sending(x)' <=> Sending(x)
    BY <1>2, <1>4 DEF Setup
  <2>3. \A x \in Conns : x # c =>
           /\ session'[x] = session[x] /\ client'[x] = client[x] /\ born'[x] = born[x]
           /\ Fresh(x)' <=> Fresh(x)
    BY <1>0, <2>1 DEF Fresh, LastSent
  <2>4. client'[c] = "setup" /\ (Sending(c) => born'[c] = frameNo)
    BY <1>0, <2>1 DEF Sending, InLoop
  <2> QED BY <2>1, <2>2, <2>3, <2>4 DEF StartInv
<1>5. ASSUME NEW c \in Conns, Play(c) PROVE StartInv'
  <2>1. /\ state[c] = "Setup" /\ bFirst' = [bFirst EXCEPT ![c] = TRUE]
        /\ client' = [client EXCEPT ![c] = "playing"]
        /\ UNCHANGED <<session, born, wire>>
    BY <1>5 DEF Play
  <2>2. frameNo' = frameNo /\ nalu' = nalu /\ off' = off /\ \A x : Sending(x)' <=> Sending(x)
    BY <1>2, <1>5 DEF Play
  <2>3. \A x \in Conns : x # c =>
           bFirst'[x] = bFirst[x] /\ client'[x] = client[x] /\ (Fresh(x)' <=> Fresh(x))
    BY <1>0, <2>1 DEF Fresh, LastSent
  <2>4. bFirst'[c] /\ (Sending(c) => born[c] = frameNo)
    BY <1>0, <2>1 DEF SessionInv, Sending, Visiting, InLoop
  <2> QED BY <2>1, <2>2, <2>3, <2>4 DEF StartInv
<1>6. ASSUME NEW cs \in SUBSET Conns, CloseSockets(cs), UNCHANGED <<wire, bFirst>>,
             \A c \in Conns : Sending(c)' <=> Sending(c),
             frameNo' = frameNo, nalu' = nalu, off' = off
      PROVE  StartInv'
  <2>1. /\ session' = [c \in Conns |-> IF c \in cs THEN 0 ELSE session[c]]
        /\ client' = [c \in Conns |-> IF c \in cs THEN "torn" ELSE client[c]]
        /\ born' = born
    BY <1>6 DEF CloseSockets
  <2>2. \A c \in Conns : c \notin cs =>
           session'[c] = session[c] /\ client'[c] = client[c] /\ (Fresh(c)' <=> Fresh(c))
    BY <1>6, <2>1 DEF Fresh, LastSent
  <2>3. \A c \in Conns : c \in cs => session'[c] = 0 BY <2>1
  <2> QED BY <1>6, <2>1, <2>2, <2>3 DEF StartInv
<1>7. ASSUME NEW c \in Conns, Teardown(c) \/ Disconnect(c) PROVE StartInv'
  <2>1. /\ CloseSockets({c}) /\ UNCHANGED <<wire, bFirst, frames, connections, k, i, off, vpc>>
    BY <1>7 DEF Teardown, Disconnect
  <2> QED BY <1>2, <1>6, <2>1
<1>8. ASSUME ~ServerLocked, vpc' = vpc PROVE \A c : ~Sending(c) /\ ~Sending(c)'
  BY <1>8 DEF ServerLocked, Sending
<1>9. ASSUME shutdownServer PROVE StartInv'
  <2>1. ToSet(connections) \in SUBSET Conns BY <1>0 DEF ToSet
  <2>2. frameNo' = frameNo /\ UNCHANGED <<wire, bFirst>> /\ CloseSockets(ToSet(connections))
        /\ \A c : ~Sending(c) /\ ~Sending(c)'
    BY <1>8, <1>9 DEF shutdownServer, frameNo
  <2>3. nalu' = nalu /\ off' = off BY <1>9 DEF shutdownServer, nalu, frame, frameNo
  <2> QED BY <1>6, <2>1, <2>2, <2>3
<1>10. ASSUME AddObject \/ shutdownConnection PROVE StartInv'
  BY <1>1, <1>8, <1>10 DEF AddObject, shutdownConnection
<1>11. ASSUME NEW c \in Conns, onAccept(c) PROVE StartInv'
  BY <1>3, <1>11 DEF onAccept
<1>12. ASSUME StopRunning \/ ResetPackets \/ ResetCounters PROVE StartInv'
  BY <1>3, <1>12 DEF StopRunning, ResetPackets, ResetCounters
<1>13. ASSUME NEW f \in FrameSet, EncodedFrame(f) PROVE StartInv'
  BY <1>1, <1>13 DEF EncodedFrame, Sending
<1>14. ASSUME onVideoData \/ NextConnection \/ NextNalu PROVE StartInv'
  BY <1>1, <1>14 DEF onVideoData, NextConnection, NextNalu, Sending
<1>15. ASSUME BeginNalu PROVE StartInv'
  <2> DEFINE c0 == current
  <2>1. /\ vpc = "nalu" /\ vpc' = "seq" /\ (bFirst[c0] => nalu.idr) /\ off' \in {0, 1}
        /\ bFirst' = [bFirst EXCEPT ![c0] = FALSE]
        /\ UNCHANGED <<session, client, born, wire>>
    BY <1>15 DEF BeginNalu
  <2>2. frameNo' = frameNo /\ nalu' = nalu /\ current' = current
    BY <1>15 DEF BeginNalu, frameNo, nalu, frame, current
  <2>3. c0 \in Conns BY <1>15, LoopFacts DEF Inv, InLoop, BeginNalu
  <2>4. \A c : ~Sending(c) /\ (Sending(c)' <=> c = c0)
    BY <2>1, <2>2 DEF Sending
  <2> HIDE DEF c0
  <2>5. \A c \in Conns : (Fresh(c)' <=> Fresh(c)) /\ (c # c0 => bFirst'[c] = bFirst[c])
    BY <1>0, <2>1 DEF Fresh, LastSent
  <2>6. ~bFirst'[c0] /\ off' <= 1 BY <1>0, <2>1, <2>3
  <2> QED BY <2>1, <2>2, <2>3, <2>4, <2>5, <2>6 DEF StartInv
<1>16. ASSUME WriteSeq \/ MapTime \/ WriteTime PROVE StartInv'
  BY <1>3, <1>16 DEF WriteSeq, MapTime, WriteTime
<1>17. ASSUME NEW due \in BOOLEAN, sendPacket(due) PROVE StartInv'
  <2> DEFINE c0 == current
  <2>1. /\ c0 \in Conns /\ vpc = "send" /\ vpc' \in {"seq", "nalu"}
        /\ UNCHANGED <<session, client, born, bFirst>>
        /\ frameNo' = frameNo /\ current' = c0
        /\ \A c \in Conns : c # c0 => wire'[c] = wire[c]
    BY <1>17, SendEffect DEF sendPacket, frameNo, current
  <2>2. \A c \in Conns : c = c0 /\ session[c] # 0 => ~Fresh(c)'
    <3> SUFFICES ASSUME session[c0] # 0
                 PROVE  wire'[c0] # <<>> /\ wire'[c0][Len(wire'[c0])].session = session'[c0]
      BY DEF Fresh, LastSent
    <3>1. wire \in [Conns -> Seq(Packets)] BY DEF Inv, TypeOK
    <3>2. Len(wire[c0]) \in Nat BY <2>1, <3>1
    <3>3. Len(wire'[c0]) = Len(wire[c0]) + 1 /\ wire'[c0][Len(wire[c0]) + 1] = Packet
      BY <1>17, SendEffect
    <3>4. Packet.session = session[c0] BY DEF Packet
    <3>5. wire'[c0] # <<>> BY <3>2, <3>3
    <3> QED BY <2>1, <3>3, <3>4, <3>5
  <2>3. Sending(c0) /\ \A c : c # c0 => ~Sending(c) /\ ~Sending(c)'
    BY <2>1 DEF Sending
  <2> HIDE DEF c0
  <2>4. \A c \in Conns : c # c0 => (Fresh(c)' <=> Fresh(c))
    BY <2>1 DEF Fresh, LastSent
  <2> QED BY <2>1, <2>2, <2>3, <2>4 DEF StartInv
<1>18. CASE UNCHANGED vars BY <1>3, <1>18 DEF vars
<1> QED BY <1>4, <1>5, <1>7, <1>9, <1>10, <1>11, <1>12, <1>13, <1>14, <1>15, <1>16,
           <1>17, <1>18 DEF Next, MainStep, VideoStep

-----------------------------------------------------------------------------
(* The packets of a session, one after the other.                           *)

\* The last packet sent belongs to a frame that has been encoded.
LEMMA LastKnown ==
  ASSUME Inv, NEW c \in Conns, wire[c] # <<>>
  PROVE  /\ Len(wire[c]) \in 1..Len(wire[c])
         /\ LastSent(c) \in Packets /\ Known(frames, LastSent(c))
<1>1. wire[c] \in Seq(Packets) BY DEF Inv, TypeOK
<1>2. Len(wire[c]) \in 1..Len(wire[c]) BY <1>1
<1>3. LastSent(c) \in Packets BY <1>1, <1>2 DEF LastSent
<1> QED BY <1>2, <1>3 DEF LastSent, Inv, PacketsKnown

\* At the start nothing has been sent.
LEMMA ProgressInit == Init => ProgressInv
  BY DEF Init, ProgressInv, Fresh

\* Every step keeps ProgressInv.
LEMMA ProgressStep == Inv /\ SessionInv /\ ProgressInv /\ [Next]_vars => ProgressInv'
<1> SUFFICES ASSUME Inv, SessionInv, ProgressInv, [Next]_vars, NEW c \in Conns, ~Fresh(c)'
             PROVE  Follows(c, LastSent(c))'
  BY DEF ProgressInv
<1> USE DEF mainVars, sessionVars, counterVars, videoVars, netVars
<1>0. /\ session \in [Conns -> Nat] /\ setups \in [Conns -> Nat] /\ connections \in Seq(Conns)
      /\ wire \in [Conns -> Seq(Packets)] /\ frames \in Seq(FrameSet)
      /\ k \in Nat /\ i \in Nat /\ off \in Nat
  BY DEF Inv, TypeOK
<1>1. PICK p : p = LastSent(c) OBVIOUS
<1>2. ASSUME wire'[c] = wire[c], session'[c] = session[c]
      PROVE  ~Fresh(c) /\ LastSent(c)' = p /\ Follows(c, p) /\ wire[c] # <<>>
  <2>1. ~Fresh(c) /\ LastSent(c)' = p /\ wire[c] # <<>> BY <1>1, <1>2 DEF Fresh, LastSent
  <2> QED BY <1>1, <2>1 DEF ProgressInv
\* A state in which c has got as far as before.
<1>3. ASSUME wire'[c] = wire[c], session'[c] = session[c],
             UNCHANGED <<frames, connections, k, i, off>>,
             vpc' = vpc \/ (vpc \in {"seq", "map", "time"} /\ vpc' \in {"map", "time", "send"})
      PROVE  Follows(c, LastSent(c))'
  <2>1. /\ frameNo' = frameNo /\ (Sending(c)' <=> Sending(c)) /\ (Visiting(c)' <=> Visiting(c))
        /\ (ServerLocked' <=> ServerLocked) /\ (vpc' = "idle" <=> vpc = "idle")
    BY <1>3 DEF frameNo, Sending, Visiting, InLoop, current, ServerLocked
  <2> QED BY <1>2, <1>3, <2>1 DEF Follows, Complete
\* Between frames all packets of the frame before have been sent.
<1>4. ASSUME wire'[c] = wire[c], session'[c] = session[c], frames' = frames,
             ~ServerLocked, vpc' = vpc
      PROVE  Follows(c, LastSent(c))'
  <2>1. frameNo' = frameNo /\ ~Sending(c) /\ ~Sending(c)'
    BY <1>4 DEF frameNo, Sending, ServerLocked
  <2> QED BY <1>2, <1>4, <2>1 DEF Follows, Complete
<1>5. ASSUME NEW cs \in SUBSET Conns, CloseSockets(cs), wire' = wire
      PROVE  session'[c] = session[c]
  <2>1. session' = [x \in Conns |-> IF x \in cs THEN 0 ELSE session[x]]
    BY <1>5 DEF CloseSockets
  <2>2. c \in cs => Fresh(c)'
    BY <1>5, <2>1, NewSession DEF Fresh, LastSent
  <2> QED BY <2>1, <2>2
<1>6. ASSUME NEW x \in Conns, Setup(x) PROVE Follows(c, LastSent(c))'
  <2>1. session' = [session EXCEPT ![x] = setups[x] + 1] /\ wire' = wire
    BY <1>6 DEF Setup
  <2>2. x = c => Fresh(c)'
    <3>1. setups[c] + 1 \in Nat /\ setups[c] + 1 > setups[c] BY <1>0
    <3>2. wire[c] = <<>> \/ LastSent(c).session # setups[c] + 1 BY <3>1, NewSession
    <3> QED BY <1>0, <2>1, <3>2 DEF Fresh, LastSent
  <2>3. session'[c] = session[c] BY <1>0, <2>1, <2>2
  <2> QED BY <1>3, <1>6, <2>1, <2>3 DEF Setup
<1>7. ASSUME NEW x \in Conns, Teardown(x) \/ Disconnect(x) PROVE Follows(c, LastSent(c))'
  BY <1>3, <1>5, <1>7 DEF Teardown, Disconnect
<1>8. ASSUME shutdownServer PROVE Follows(c, LastSent(c))'
  <2>1. ToSet(connections) \in SUBSET Conns BY <1>0 DEF ToSet
  <2> QED BY <1>4, <1>5, <1>8, <2>1 DEF shutdownServer
<1>9. ASSUME AddObject \/ shutdownConnection PROVE Follows(c, LastSent(c))'
  BY <1>4, <1>9 DEF AddObject, shutdownConnection
<1>10. ASSUME NEW x \in Conns, onAccept(x) \/ Play(x) PROVE Follows(c, LastSent(c))'
  BY <1>3, <1>10 DEF onAccept, Play
<1>11. ASSUME StopRunning \/ ResetPackets \/ ResetCounters PROVE Follows(c, LastSent(c))'
  BY <1>3, <1>11 DEF StopRunning, ResetPackets, ResetCounters
<1>12. ASSUME NEW f \in FrameSet, EncodedFrame(f) PROVE Follows(c, LastSent(c))'
  <2>1. /\ vpc = "idle" /\ vpc' \in {"idle", "lock"} /\ frames' = Append(frames, f)
        /\ wire' = wire /\ session' = session
    BY <1>12 DEF EncodedFrame
  <2>2. LastSent(c)' = p /\ Follows(c, p) /\ Known(frames, p) /\ p \in Packets
    BY <1>1, <1>2, <2>1, LastKnown
  <2>3. p.frame \in 1..Len(frames) /\ Len(frames) \in Nat
    BY <1>0, <2>2 DEF Known
  <2>4. Len(frames') = Len(frames) + 1 /\ frames'[p.frame] = frames[p.frame]
    BY <1>0, <2>1, <2>3
  <2>5. ~Sending(c) /\ ~Sending(c)' /\ frameNo' = frameNo + 1 /\ frameNo = Len(frames)
    BY <2>1, <2>4 DEF Sending, frameNo
  <2>6. p.frame < frameNo' BY <2>3, <2>5
  <2>7. Complete(p) /\ p.frame \in Nat /\ frameNo' \in Nat BY <2>2, <2>3, <2>5 DEF Follows
  <2>8. Complete(p)' BY <2>4, <2>7 DEF Complete
  <2> QED BY <2>2, <2>5, <2>6, <2>7, <2>8 DEF Follows
<1>13. ASSUME onVideoData PROVE Follows(c, LastSent(c))'
  <2>1. /\ vpc = "lock" /\ vpc' = "connection" /\ wire' = wire /\ session' = session
        /\ frames' = frames
    BY <1>13 DEF onVideoData
  <2>2. ~Sending(c) /\ ~Sending(c)' /\ frameNo' = frameNo /\ ~ServerLocked
    BY <2>1 DEF Sending, frameNo, ServerLocked
  <2> QED BY <1>2, <2>1, <2>2 DEF Follows, Complete
<1>14. ASSUME NextConnection PROVE Follows(c, LastSent(c))'
  <2>1. /\ vpc = "connection" /\ wire' = wire /\ session' = session /\ UNCHANGED <<frames, connections>>
        /\ \/ vpc' = "idle"
           \/ vpc' \in {"connection", "nalu"} /\ k' \in {k, k + 1}
    BY <1>14 DEF NextConnection
  <2>2. ~Sending(c) /\ ~Sending(c)' /\ frameNo' = frameNo /\ ~Visiting(c)
    BY <2>1 DEF Sending, frameNo, Visiting, InLoop
  <2>3. vpc' # "idle" => ServerLocked' /\ \A j \in 1..(k - 1) : j \in 1..(k' - 1)
    BY <1>0, <2>1 DEF ServerLocked
  <2> QED BY <1>2, <2>1, <2>2, <2>3 DEF Follows, Complete
<1>15. ASSUME NextNalu PROVE Follows(c, LastSent(c))'
  <2>1. /\ vpc = "nalu" /\ wire' = wire /\ session' = session /\ UNCHANGED <<frames, connections>>
        /\ \/ vpc' = "connection" /\ k' = k + 1 /\ i' = i
           \/ vpc' = "nalu" /\ k' = k /\ i' = i + 1
    BY <1>15 DEF NextNalu
  <2>2. ~Sending(c) /\ ~Sending(c)' /\ frameNo' = frameNo /\ ServerLocked'
    BY <2>1 DEF Sending, frameNo, ServerLocked
  <2>3. CASE vpc' = "connection" /\ k' = k + 1
    <3>1. /\ \A j \in 1..(k - 1) : j \in 1..(k' - 1)
          /\ k > 0 => k \in 1..(k' - 1)
      BY <1>0, <2>3
    <3>2. k > 0 BY <2>1 DEF Inv, LoopInv, ServerLocked
    <3> QED BY <1>2, <2>1, <2>2, <3>1, <3>2 DEF Follows, Complete, Visiting, current
  <2>4. CASE vpc' = "nalu" /\ k' = k /\ i' = i + 1
    <3>1. Visiting(c)' <=> Visiting(c)
      BY <2>1, <2>4 DEF Visiting, InLoop, current
    <3>2. p \in Packets BY <1>1, <1>2, <2>1, LastKnown
    <3>3. p.nalu < i => p.nalu < i' BY <1>0, <2>4, <3>2 DEF Packets
    <3> QED BY <1>2, <2>1, <2>2, <2>4, <3>1, <3>3 DEF Follows, Complete
  <2> QED BY <2>1, <2>3, <2>4
<1>16. ASSUME BeginNalu PROVE Follows(c, LastSent(c))'
  <2>1. /\ vpc = "nalu" /\ vpc' = "seq" /\ wire' = wire /\ session' = session
        /\ UNCHANGED <<frames, connections, k, i>> /\ off' \in {0, 1}
    BY <1>16 DEF BeginNalu
  <2>2. /\ ~Sending(c) /\ frameNo' = frameNo /\ ServerLocked'
        /\ (Visiting(c)' <=> Visiting(c))
    BY <2>1 DEF Sending, frameNo, ServerLocked, Visiting, InLoop, current
  <2>3. ~(off' > 1) BY <2>1
  <2> QED BY <1>2, <2>1, <2>2, <2>3 DEF Follows, Complete
<1>17. ASSUME WriteSeq \/ MapTime \/ WriteTime PROVE Follows(c, LastSent(c))'
  BY <1>3, <1>17 DEF WriteSeq, MapTime, WriteTime
<1>18. ASSUME NEW due \in BOOLEAN, sendPacket(due) PROVE Follows(c, LastSent(c))'
  <2>1. /\ vpc = "send" /\ session' = session /\ UNCHANGED <<frames, connections, k>>
        /\ off' = off + cThis
        /\ IF cThis = cBytes THEN i' = i + 1 /\ vpc' = "nalu" ELSE i' = i /\ vpc' = "seq"
    BY <1>18 DEF sendPacket
  <2>2. frameNo' = frameNo /\ ServerLocked' /\ current' = current /\ (Visiting(c)' <=> c = current)
    BY <2>1 DEF frameNo, ServerLocked, Visiting, InLoop, current
  <2>3. CASE c # current
    <3>1. ~Sending(c) /\ ~Sending(c)' /\ ~Visiting(c) /\ ~Visiting(c)'
      BY <2>2, <2>3 DEF Sending, Visiting
    <3>2. wire'[c] = wire[c] BY <1>18, <2>3, SendEffect
    <3> QED BY <1>2, <2>1, <2>2, <3>1, <3>2 DEF Follows, Complete
  <2>4. CASE c = current
    <3>1. session[c] # 0
      <4>1. session[c] = 0 => wire'[c] = wire[c] /\ session'[c] = session[c]
        BY <1>18, <2>1, <2>4, SendEffect
      <4>2. wire[c] = <<>> \/ LastSent(c).session # 0 BY NewSession
      <4> QED BY <1>2, <4>1, <4>2 DEF Fresh, LastSent
    <3>2. LastSent(c)' = Packet
      BY <1>18, <2>4, <3>1, SendEffect DEF LastSent
    <3>3. /\ i \in 1..Len(frame) /\ nalu.length \in Nat /\ cBytes \in Nat
          /\ off + cBytes = nalu.length /\ cThis \in Nat /\ cThis <= cBytes
          /\ off \in Nat
      BY <2>1, SendFacts DEF Inv
    <3> DEFINE q == Packet
    <3>4. /\ q.frame = frameNo /\ q.nalu = i /\ q.off = off /\ q.length = cThis
      BY DEF Packet
    <3>5. frames'[q.frame][q.nalu].length = nalu.length
      BY <2>1, <3>4 DEF nalu, frame
    <3> HIDE DEF q
    <3>6. LastSent(c)' = q BY <3>2 DEF q
    <3>7. Complete(LastSent(c))' <=> cThis = cBytes
      <4>1. Complete(LastSent(c))' <=> q.off + q.length = frames'[q.frame][q.nalu].length
        BY <3>6 DEF Complete
      <4>2. off + cThis = nalu.length <=> cThis = cBytes BY <3>3
      <4>3. q.off + q.length = off + cThis BY <3>4
      <4> QED BY <3>5, <4>1, <4>2, <4>3
    <3>8. Sending(c)' => vpc' = "seq" BY <2>1 DEF Sending
    <3>9. vpc' = "seq" => Sending(c)' BY <2>2, <2>4 DEF Sending
    <3>10. cThis = cBytes => i < i' /\ vpc' = "nalu" BY <1>0, <2>1
    <3>11. cThis # cBytes => i' = i /\ vpc' = "seq" BY <2>1
    <3>12. frameNo \in Nat BY <1>0 DEF frameNo
    <3>13. Visiting(c)' BY <2>2, <2>4
    <3>14. vpc' # "idle" BY <2>1
    <3>15. LastSent(c)'.frame = frameNo /\ LastSent(c)'.nalu = i /\ LastSent(c)'.off + LastSent(c)'.length = off'
      BY <2>1, <3>4, <3>6
    <3>16. vpc' = "nalu" => ~Sending(c)' BY DEF Sending
    <3> QED BY <2>2, <3>7, <3>8, <3>9, <3>10, <3>11, <3>12, <3>13, <3>14, <3>15, <3>16 DEF Follows
  <2> QED BY <2>3, <2>4
<1>19. CASE UNCHANGED vars BY <1>3, <1>19 DEF vars
<1> QED BY <1>6, <1>7, <1>8, <1>9, <1>10, <1>11, <1>12, <1>13, <1>14, <1>15, <1>16,
           <1>17, <1>18, <1>19 DEF Next, MainStep, VideoStep

-----------------------------------------------------------------------------
(* Sequence numbers.                                                        *)

\* What remains of a number when multiples of w are taken away.
LEMMA Remainder ==
  ASSUME NEW w \in Nat, w > 0, NEW q \in Nat, NEW r \in 0..(w - 1), NEW n \in Nat,
         n = w * q + r
  PROVE  n % w = r
  OBVIOUS

\* Sequence numbers are consecutive modulo SeqWrap.
LEMMA NextNumber ==
  ASSUME NEW n \in Nat, n > 0
  PROVE  n % SeqWrap = (((n - 1) % SeqWrap) + 1) % SeqWrap
<1> DEFINE w == SeqWrap
           q == (n - 1) \div w
           r == (n - 1) % w
<1>1. w \in Nat /\ w > 0 BY RtspAssumption
<1>2. n - 1 = w * q + r /\ r \in 0..(w - 1) /\ q \in Nat
  BY <1>1
<1> HIDE DEF w, q, r
<1>3. CASE r = w - 1
  <2>1. n = w * (q + 1) + 0 /\ w = w * 1 + 0 /\ r + 1 = w BY <1>1, <1>2, <1>3
  <2>2. n % w = 0 BY <1>1, <1>2, <2>1, Remainder
  <2>3. w % w = 0 BY <1>1, <2>1, Remainder
  <2> QED BY <2>1, <2>2, <2>3 DEF r, w
<1>4. CASE r < w - 1
  <2>1. n = w * q + (r + 1) /\ r + 1 = w * 0 + (r + 1) /\ r + 1 \in 0..(w - 1) /\ r + 1 \in Nat
    BY <1>1, <1>2, <1>4
  <2>2. n % w = r + 1 BY <1>1, <1>2, <2>1, Remainder
  <2>3. (r + 1) % w = r + 1 BY <1>1, <2>1, Remainder
  <2> QED BY <2>2, <2>3 DEF r, w
<1> QED BY <1>1, <1>2, <1>3, <1>4

\* At the start nothing has been sent.
LEMMA NumberInit == Init => NumberInv
  BY DEF Init, NumberInv, Fresh, Writing

\* Every step keeps NumberInv.
LEMMA NumberStep == Inv /\ SessionInv /\ NumberInv /\ [Next]_vars => NumberInv'
<1> SUFFICES ASSUME Inv, SessionInv, NumberInv, [Next]_vars, NEW c \in Conns
             PROVE  /\ (Writing(c) => NumberWritten(c))'
                    /\ (~Fresh(c) => NumberSent(c))'
  BY DEF NumberInv
<1> USE DEF mainVars, sessionVars, counterVars, videoVars, netVars
<1>0. /\ session \in [Conns -> Nat] /\ setups \in [Conns -> Nat] /\ connections \in Seq(Conns)
      /\ wire \in [Conns -> Seq(Packets)] /\ packets \in [Conns -> Nat] /\ born \in [Conns -> Nat]
      /\ header \in Headers
  BY DEF Inv, TypeOK
\* Nothing changes for c.
<1>1. ASSUME wire'[c] = wire[c], session'[c] = session[c], packets'[c] = packets[c],
             ~Fresh(c)'
      PROVE  NumberSent(c)'
  <2>1. ~Fresh(c) /\ LastSent(c)' = LastSent(c) BY <1>1 DEF Fresh, LastSent
  <2> QED BY <1>1, <2>1 DEF NumberInv, NumberSent, FirstOfSession
<1>2. ASSUME wire'[c] = wire[c], session'[c] = session[c], packets'[c] = packets[c],
             born' = born, frames' = frames, Writing(c)', Writing(c), header'.seq = header.seq
      PROVE  NumberWritten(c)'
  <2>1. Fresh(c)' <=> Fresh(c) BY <1>2 DEF Fresh, LastSent
  <2> QED BY <1>2, <2>1 DEF NumberInv, NumberWritten, frameNo
<1>3. ASSUME UNCHANGED <<frames, connections, k, vpc>>
      PROVE  frameNo' = frameNo /\ (Writing(c)' <=> Writing(c))
  BY <1>3 DEF frameNo, Writing, current
<1>4. ASSUME NEW x \in Conns, Setup(x) PROVE (Writing(c) => NumberWritten(c))' /\ (~Fresh(c) => NumberSent(c))'
  <2>1. /\ session' = [session EXCEPT ![x] = setups[x] + 1]
        /\ born' = [born EXCEPT ![x] = IF InLoop /\ current = x THEN frameNo ELSE 0]
        /\ UNCHANGED <<wire, packets, header, frames, connections, k, vpc>>
    BY <1>4 DEF Setup
  <2>2. CASE x # c
    <3>1. session'[c] = session[c] /\ born'[c] = born[c] BY <1>0, <2>1, <2>2
    <3>2. Fresh(c)' <=> Fresh(c) BY <2>1, <3>1 DEF Fresh, LastSent
    <3>3. Writing(c)' => NumberWritten(c)'
      BY <1>3, <2>1, <3>1, <3>2 DEF NumberInv, NumberWritten
    <3> QED BY <1>1, <2>1, <3>1, <3>3
  <2>3. CASE x = c
    <3>1. setups[c] + 1 \in Nat /\ setups[c] + 1 > setups[c] BY <1>0
    <3>2. wire[c] = <<>> \/ LastSent(c).session # setups[c] + 1 BY <3>1, NewSession
    <3>3. Fresh(c)' BY <1>0, <2>1, <2>3, <3>2 DEF Fresh, LastSent
    <3>4. Writing(c) => born'[c] = frameNo
      BY <1>0, <2>1, <2>3 DEF Writing, InLoop
    <3> QED BY <1>3, <2>1, <3>3, <3>4 DEF NumberWritten
  <2> QED BY <2>2, <2>3
<1>5. ASSUME NEW cs \in SUBSET Conns, CloseSockets(cs), wire' = wire
      PROVE  session'[c] = session[c] \/ Fresh(c)'
  <2>1. session' = [x \in Conns |-> IF x \in cs THEN 0 ELSE session[x]]
    BY <1>5 DEF CloseSockets
  <2> QED BY <1>5, <2>1, NewSession DEF Fresh, LastSent
<1>6. ASSUME NEW x \in Conns, Teardown(x) \/ Disconnect(x)
      PROVE  (Writing(c) => NumberWritten(c))' /\ (~Fresh(c) => NumberSent(c))'
  <2>1. /\ CloseSockets({x})
        /\ UNCHANGED <<wire, packets, header, frames, connections, k, vpc, born>>
    BY <1>6 DEF Teardown, Disconnect, CloseSockets
  <2>2. CASE session'[c] = session[c] BY <1>1, <1>2, <1>3, <2>1, <2>2
  <2>3. CASE Fresh(c)'
    <3>1. Fresh(c)' => (Fresh(c) \/ ~Fresh(c)) OBVIOUS
    <3>2. Writing(c)' => NumberWritten(c)'
      BY <1>3, <2>1, <2>3 DEF NumberInv, NumberWritten
    <3> QED BY <2>3, <3>2
  <2> QED BY <1>5, <2>1, <2>2, <2>3
<1>7. ASSUME ~ServerLocked, vpc' = vpc PROVE ~Writing(c)'
  BY <1>7 DEF ServerLocked, Writing
<1>8. ASSUME shutdownServer PROVE (Writing(c) => NumberWritten(c))' /\ (~Fresh(c) => NumberSent(c))'
  <2>1. ToSet(connections) \in SUBSET Conns BY <1>0 DEF ToSet
  <2>2. /\ ~Writing(c)' /\ CloseSockets(ToSet(connections)) /\ wire' = wire /\ packets' = packets
    BY <1>7, <1>8 DEF shutdownServer
  <2> QED BY <1>1, <1>5, <2>1, <2>2
<1>9. ASSUME AddObject \/ shutdownConnection
      PROVE  (Writing(c) => NumberWritten(c))' /\ (~Fresh(c) => NumberSent(c))'
  BY <1>1, <1>7, <1>9 DEF AddObject, shutdownConnection
<1>10. ASSUME UNCHANGED <<wire, session, packets, born, frames, connections, k, vpc, header>>
       PROVE  (Writing(c) => NumberWritten(c))' /\ (~Fresh(c) => NumberSent(c))'
  BY <1>1, <1>2, <1>3, <1>10
<1>11. ASSUME NEW x \in Conns, onAccept(x) \/ Play(x)
       PROVE  (Writing(c) => NumberWritten(c))' /\ (~Fresh(c) => NumberSent(c))'
  BY <1>10, <1>11 DEF onAccept, Play
<1>12. ASSUME StopRunning \/ ResetCounters
       PROVE  (Writing(c) => NumberWritten(c))' /\ (~Fresh(c) => NumberSent(c))'
  BY <1>10, <1>12 DEF StopRunning, ResetCounters
<1>13. ASSUME ResetPackets
       PROVE  (Writing(c) => NumberWritten(c))' /\ (~Fresh(c) => NumberSent(c))'
  <2>1. /\ mpc = "packets" /\ packets' = [packets EXCEPT ![mconn] = 0]
        /\ UNCHANGED <<wire, session, born, frames, connections, k, vpc, header>>
    BY <1>13 DEF ResetPackets
  <2>2. CASE mconn # c
    <3>1. packets'[c] = packets[c] BY <1>0, <2>1, <2>2
    <3> QED BY <1>1, <1>2, <1>3, <2>1, <3>1
  <2>3. CASE mconn = c
    <3>1. Fresh(c) /\ state[c] = "Setup" BY <2>1, <2>3 DEF SessionInv
    <3>2. Fresh(c)' BY <2>1, <3>1 DEF Fresh, LastSent
    <3>3. Writing(c) => born[c] = frameNo
      BY <3>1 DEF SessionInv, Visiting, InLoop, Writing
    <3> QED BY <1>3, <2>1, <3>2, <3>3 DEF NumberWritten
  <2> QED BY <2>2, <2>3
<1>14. ASSUME NEW f \in FrameSet, EncodedFrame(f)
       PROVE  (Writing(c) => NumberWritten(c))' /\ (~Fresh(c) => NumberSent(c))'
  BY <1>1, <1>14 DEF EncodedFrame, Writing
<1>15. ASSUME onVideoData \/ NextConnection \/ NextNalu \/ BeginNalu
       PROVE  (Writing(c) => NumberWritten(c))' /\ (~Fresh(c) => NumberSent(c))'
  <2>1. ~Writing(c)'
    BY <1>15 DEF onVideoData, NextConnection, NextNalu, BeginNalu, Writing
  <2>2. UNCHANGED <<wire, session, packets>>
    BY <1>15 DEF onVideoData, NextConnection, NextNalu, BeginNalu
  <2> QED BY <1>1, <2>1, <2>2
<1>16. ASSUME WriteSeq
       PROVE  (Writing(c) => NumberWritten(c))' /\ (~Fresh(c) => NumberSent(c))'
  <2>1. /\ header' = [header EXCEPT !.seq = packets[current] % SeqWrap]
        /\ UNCHANGED <<wire, session, packets, connections, k>>
    BY <1>16 DEF WriteSeq
  <2>2. header'.seq = packets[current] % SeqWrap BY <1>0, <2>1 DEF Headers
  <2>3. Writing(c)' => c = current BY <2>1 DEF Writing, current
  <2> QED BY <1>1, <2>1, <2>2, <2>3 DEF NumberWritten
<1>17. ASSUME MapTime
       PROVE  (Writing(c) => NumberWritten(c))' /\ (~Fresh(c) => NumberSent(c))'
  <2>1. Writing(c)' => Writing(c) BY <1>17 DEF MapTime, Writing, current
  <2> QED BY <1>1, <1>2, <1>17, <2>1 DEF MapTime
<1>18. ASSUME WriteTime
       PROVE  (Writing(c) => NumberWritten(c))' /\ (~Fresh(c) => NumberSent(c))'
  <2>1. Writing(c)' => Writing(c) BY <1>18 DEF WriteTime, Writing, current
  <2>2. header' = [header EXCEPT !.base = rtpBase[current], !.ssrc = setups[current]]
    BY <1>18 DEF WriteTime
  <2>3. header'.seq = header.seq BY <1>0, <2>2 DEF Headers
  <2> QED BY <1>1, <1>2, <1>18, <2>1, <2>3 DEF WriteTime
<1>19. ASSUME NEW due \in BOOLEAN, sendPacket(due)
       PROVE  (Writing(c) => NumberWritten(c))' /\ (~Fresh(c) => NumberSent(c))'
  <2>1. /\ vpc = "send" /\ vpc' \in {"seq", "nalu"} /\ session' = session
        /\ packets' = [packets EXCEPT ![current] = @ + 1]
    BY <1>19 DEF sendPacket
  <2>2. ~Writing(c)' BY <2>1 DEF Writing
  <2>3. CASE c # current
    <3>1. packets'[c] = packets[c] /\ wire'[c] = wire[c]
      BY <1>0, <1>19, <2>1, <2>3, SendEffect
    <3> QED BY <1>1, <2>1, <2>2, <3>1
  <2>4. CASE c = current /\ session[c] = 0
    <3>1. wire'[c] = wire[c] BY <1>19, <2>4, SendEffect
    <3>2. wire[c] = <<>> \/ LastSent(c).session # 0 BY NewSession
    <3>3. Fresh(c)' BY <2>1, <2>4, <3>1, <3>2 DEF Fresh, LastSent
    <3> QED BY <2>2, <3>3
  <2>5. CASE c = current /\ session[c] # 0
    <3>1. /\ Len(wire'[c]) = Len(wire[c]) + 1 /\ wire'[c][Len(wire[c]) + 1] = Packet
          /\ \A j \in 1..Len(wire[c]) : wire'[c][j] = wire[c][j]
          /\ Len(wire[c]) \in Nat
      BY <1>0, <1>19, <2>5, SendEffect
    <3>2. Packet.session = session[c] /\ Packet.seq = header.seq
          /\ Packet.inherited = (born[c] = frameNo)
      BY <2>5 DEF Packet
    <3>3. LastSent(c)' = Packet BY <3>1 DEF LastSent
    <3>4. packets'[c] = packets[c] + 1 /\ packets[c] \in Nat BY <1>0, <2>1, <2>5
    <3>5. packets'[c] > 0 /\ packets'[c] - 1 = packets[c] BY <3>4
    <3>6. NumberWritten(c) BY <2>1, <2>5 DEF NumberInv, Writing
    <3>7. CASE header.seq = packets[c] % SeqWrap
      BY <2>2, <3>2, <3>3, <3>5, <3>7 DEF NumberSent
    <3>8. CASE born[c] = frameNo /\ Fresh(c)
      <4>1. FirstOfSession(c)'
        <5> SUFFICES ASSUME Len(wire'[c]) > 1
                     PROVE  wire'[c][Len(wire'[c]) - 1].session # LastSent(c)'.session
          BY DEF FirstOfSession
        <5>1. Len(wire'[c]) - 1 = Len(wire[c]) /\ Len(wire[c]) \in 1..Len(wire[c])
          BY <3>1
        <5>2. wire[c] # <<>> BY <5>1
        <5> QED BY <3>1, <3>2, <3>3, <3>8, <5>1, <5>2 DEF Fresh, LastSent
      <4> QED BY <2>2, <3>2, <3>3, <3>8, <4>1 DEF NumberSent
    <3> QED BY <2>2, <3>6, <3>7, <3>8 DEF NumberWritten
  <2> QED BY <2>3, <2>4, <2>5
<1>20. CASE UNCHANGED vars BY <1>10, <1>20 DEF vars
<1> QED BY <1>4, <1>6, <1>8, <1>9, <1>11, <1>12, <1>13, <1>14, <1>15, <1>16, <1>17,
           <1>18, <1>19, <1>20 DEF Next, MainStep, VideoStep

-----------------------------------------------------------------------------
(* The theorems.                                                            *)

StreamInv == ListInv /\ SessionInv /\ StartInv /\ ProgressInv /\ NumberInv

\* The invariants hold together.
LEMMA StreamInvariance == Spec => [](Inv /\ StreamInv)
<1>1. Init => Inv /\ StreamInv
  BY InvInit, ListInit, SessionInit, StartInit, ProgressInit, NumberInit DEF StreamInv
<1>2. Inv /\ StreamInv /\ [Next]_vars => (Inv /\ StreamInv)'
  BY InvStep, ListStep, SessionStep, StartStep, ProgressStep, NumberStep DEF StreamInv
<1> QED BY <1>1, <1>2, PTL DEF Spec

\* After shutdownServer no connection is open and no session has a socket, although
\* the video thread may be about to send a frame to connections it finds no more.
THEOREM ShutdownIsComplete == Spec => []ShutdownComplete
<1>1. Inv /\ StreamInv => ShutdownComplete
  <2> SUFFICES ASSUME Inv, ListInv, ~listening, NEW c \in Conns
               PROVE  tcp[c] # "open" /\ session[c] = 0
    BY DEF StreamInv, ShutdownComplete
  <2>1. c \notin ToSet(connections) /\ mpc # "addObject"
    BY EmptyList DEF ListInv
  <2> QED BY <2>1 DEF ListInv
<1> QED BY <1>1, StreamInvariance, PTL

\* A connection with a socket that the video thread is busy with is playing, or was
\* set up again while the frame was being sent.
LEMMA SocketMeansPlaying ==
  ASSUME Inv, SessionInv, NEW c \in Conns, Visiting(c), session[c] # 0
  PROVE  client[c] = "playing" \/ (client[c] = "setup" /\ born[c] = frameNo)
<1>1. client[c] \in {"new", "setup", "playing", "torn"} BY DEF Inv, TypeOK
<1> QED BY <1>1 DEF SessionInv

\* Which packets were there before, and which is new.
LEMMA WireStep ==
  ASSUME Inv, [Next]_vars
  PROVE  \/ wire' = wire /\ frames' = frames
         \/ wire' = wire /\ \E f \in FrameSet : frames' = Append(frames, f)
         \/ /\ frames' = frames /\ vpc = "send" /\ current \in Conns
            /\ session[current] # 0
            /\ \A c \in Conns : c # current => wire'[c] = wire[c]
            /\ Len(wire'[current]) = Len(wire[current]) + 1
            /\ wire'[current][Len(wire[current]) + 1] = Packet
            /\ \A j \in 1..Len(wire[current]) : wire'[current][j] = wire[current][j]
            /\ Len(wire[current]) \in Nat
<1> USE DEF mainVars, sessionVars, counterVars, videoVars, netVars
<1>1. ASSUME NEW f \in FrameSet, EncodedFrame(f) PROVE wire' = wire /\ frames' = Append(frames, f)
  BY <1>1 DEF EncodedFrame
<1>2. ASSUME NEW due \in BOOLEAN, sendPacket(due), session[current] # 0
      PROVE  /\ frames' = frames /\ vpc = "send" /\ current \in Conns
             /\ \A c \in Conns : c # current => wire'[c] = wire[c]
             /\ Len(wire'[current]) = Len(wire[current]) + 1
             /\ wire'[current][Len(wire[current]) + 1] = Packet
             /\ \A j \in 1..Len(wire[current]) : wire'[current][j] = wire[current][j]
             /\ Len(wire[current]) \in Nat
  <2>1. current \in Conns BY <1>2, SendEffect
  <2>2. wire \in [Conns -> Seq(Packets)] BY DEF Inv, TypeOK
  <2>3. Len(wire[current]) \in Nat BY <2>1, <2>2
  <2> QED BY <1>2, <2>3, SendEffect DEF sendPacket
<1>3. ASSUME NEW due \in BOOLEAN, sendPacket(due), session[current] = 0
      PROVE  wire' = wire /\ frames' = frames
  BY <1>3, SendEffect
<1>4. ASSUME NEW c \in Conns,
             onAccept(c) \/ Setup(c) \/ Play(c) \/ Teardown(c) \/ Disconnect(c)
      PROVE  wire' = wire /\ frames' = frames
  BY <1>4 DEF onAccept, Setup, Play, Teardown, Disconnect
<1>5. ASSUME StopRunning \/ MainStep PROVE wire' = wire /\ frames' = frames
  BY <1>5 DEF StopRunning, MainStep, AddObject, ResetPackets, ResetCounters,
              shutdownConnection, shutdownServer
<1>6. ASSUME onVideoData \/ NextConnection \/ NextNalu \/ BeginNalu \/ WriteSeq
             \/ MapTime \/ WriteTime
      PROVE  wire' = wire /\ frames' = frames
  BY <1>6 DEF onVideoData, NextConnection, NextNalu, BeginNalu, WriteSeq, MapTime,
              WriteTime
<1>7. CASE UNCHANGED vars BY <1>7 DEF vars
<1> QED BY <1>1, <1>2, <1>3, <1>4, <1>5, <1>6, <1>7 DEF Next, VideoStep

\* A client is sent packets only between PLAY and TEARDOWN; the rest of a frame that
\* was under way may still follow a second SETUP.
THEOREM OnlyWhilePlaying == Spec => SentOnlyWhilePlaying
<1>1. (Inv /\ StreamInv) /\ [Next]_vars =>
         [\A c \in Conns : wire'[c] # wire[c] =>
             \/ client[c] = "playing"
             \/ client[c] = "setup" /\ born[c] = frameNo]_vars
  <2> SUFFICES ASSUME Inv, SessionInv, [Next]_vars, NEW c \in Conns, wire'[c] # wire[c]
               PROVE  client[c] = "playing" \/ (client[c] = "setup" /\ born[c] = frameNo)
    BY DEF StreamInv
  <2>1. vpc = "send" /\ c = current /\ session[c] # 0 BY WireStep
  <2>2. Visiting(c) BY <2>1 DEF Visiting, InLoop
  <2> QED BY <2>1, <2>2, SocketMeansPlaying
<1> QED BY <1>1, StreamInvariance, PTL DEF Spec, SentOnlyWhilePlaying

\* The first packet of each session, in any list of packets.
First(s, j) == j = 1 \/ s[j - 1].session # s[j].session

\* Every step keeps StartsAtIdr.
LEMMA IdrStep == Inv /\ StreamInv /\ StartsAtIdr /\ [Next]_vars => StartsAtIdr'
<1> SUFFICES ASSUME Inv, StreamInv, StartsAtIdr, [Next]_vars,
                    NEW c \in Conns, NEW j \in 1..Len(wire'[c]),
                    First(wire'[c], j), ~wire'[c][j].inherited
             PROVE  /\ frames'[wire'[c][j].frame][wire'[c][j].nalu].idr
                    /\ wire'[c][j].off <= 1
  BY DEF StartsAtIdr, First
<1>0. wire[c] \in Seq(Packets) /\ frames \in Seq(FrameSet) BY DEF Inv, TypeOK
\* A packet that was there before.
<1>1. ASSUME j \in 1..Len(wire[c]), wire'[c][j] = wire[c][j],
             j > 1 => wire'[c][j - 1] = wire[c][j - 1]
      PROVE  /\ frames[wire'[c][j].frame][wire'[c][j].nalu].idr /\ wire'[c][j].off <= 1
             /\ wire'[c][j].frame \in 1..Len(frames)
  <2>1. j = 1 \/ wire[c][j - 1].session # wire[c][j].session
    <3>1. j = 1 \/ j > 1 BY <1>1
    <3> QED BY <1>1, <3>1 DEF First
  <2>2. Known(frames, wire[c][j]) BY <1>1 DEF Inv, PacketsKnown
  <2> QED BY <1>1, <2>1, <2>2 DEF StartsAtIdr, Known
<1>2. CASE wire' = wire /\ frames' = frames BY <1>1, <1>2
<1>3. ASSUME NEW f \in FrameSet, wire' = wire, frames' = Append(frames, f)
      PROVE  frames'[wire'[c][j].frame][wire'[c][j].nalu].idr /\ wire'[c][j].off <= 1
  <2>1. wire'[c][j].frame \in 1..Len(frames) BY <1>1, <1>3
  <2>2. frames'[wire'[c][j].frame] = frames[wire'[c][j].frame] BY <1>0, <1>3, <2>1
  <2> QED BY <1>1, <1>3, <2>2
<1>4. ASSUME frames' = frames, vpc = "send", current \in Conns, session[current] # 0,
             \A x \in Conns : x # current => wire'[x] = wire[x],
             Len(wire'[current]) = Len(wire[current]) + 1,
             wire'[current][Len(wire[current]) + 1] = Packet,
             \A n \in 1..Len(wire[current]) : wire'[current][n] = wire[current][n]
      PROVE  frames'[wire'[c][j].frame][wire'[c][j].nalu].idr /\ wire'[c][j].off <= 1
  <2>1. CASE c # current BY <1>1, <1>4, <2>1
  <2>2. CASE c = current /\ j \in 1..Len(wire[c])
    <3>1. j > 1 => j - 1 \in 1..Len(wire[c]) BY <2>2
    <3> QED BY <1>1, <1>4, <2>2, <3>1
  <2>3. CASE c = current /\ j = Len(wire[c]) + 1
    <3>1. /\ Packet.session = session[c] /\ Packet.frame = frameNo /\ Packet.nalu = i
          /\ Packet.off = off /\ Packet.inherited = (born[c] = frameNo)
      BY <2>3 DEF Packet
    <3>2. wire'[c][j] = Packet BY <1>4, <2>3
    <3>3. born[c] # frameNo BY <3>1, <3>2
    <3>4. Fresh(c)
      <4>1. j > 1 => j - 1 = Len(wire[c]) /\ j - 1 \in 1..Len(wire[c]) BY <1>0, <2>3
      <4>2. j = 1 => Len(wire[c]) = 0 BY <1>0, <2>3
      <4>3. j = 1 => wire[c] = <<>> BY <1>0, <4>2
      <4>4. j > 1 => wire'[c][j - 1] = LastSent(c) BY <1>4, <2>3, <4>1 DEF LastSent
      <4>5. j = 1 \/ j > 1 BY <1>0, <2>3
      <4>6. j > 1 => LastSent(c).session # session[c] BY <3>1, <3>2, <4>4 DEF First
      <4> QED BY <4>3, <4>5, <4>6 DEF Fresh
    <3>5. Visiting(c) /\ Sending(c) BY <1>4, <2>3 DEF Visiting, Sending, InLoop
    <3>6. client[c] = "playing"
      BY <1>4, <2>3, <3>3, <3>5, SocketMeansPlaying DEF StreamInv
    <3>7. nalu.idr /\ off <= 1
      BY <1>4, <2>3, <3>3, <3>4, <3>5, <3>6 DEF StreamInv, StartInv
    <3> QED BY <1>4, <3>1, <3>2, <3>7 DEF nalu, frame
  <2>4. j \in 1..Len(wire[c]) \/ j = Len(wire[c]) + 1 \/ c # current BY <1>0, <1>4
  <2> QED BY <2>1, <2>2, <2>3, <2>4
<1> QED BY <1>2, <1>3, <1>4, WireStep

\* Playback begins with an IDR slice, for any number of sessions and whatever is
\* requested while frames are sent; sessions set up in the middle of a frame are
\* the exception.
THEOREM PlaybackStartsAtIdr == Spec => []StartsAtIdr
<1>1. Init => StartsAtIdr BY DEF Init, StartsAtIdr
<1> QED BY <1>1, IdrStep, StreamInvariance, PTL DEF Spec

\* What StreamContiguous says of the packets at j and j + 1 of a list, for the frames fs.
Whole(fs, p) == p.off + p.length = fs[p.frame][p.nalu].length

Joined(fs, s, j) ==
    LET p == s[j]
        q == s[j + 1]
    IN /\ IF Whole(fs, p)
          THEN q.off <= 1 /\ <<q.frame, q.nalu>> # <<p.frame, p.nalu>>
          ELSE <<q.frame, q.nalu, q.off>> = <<p.frame, p.nalu, p.off + p.length>>
       /\ \/ q.seq = (p.seq + 1) % SeqWrap
          \/ p.inherited /\ (j > 1 => s[j - 1].session # p.session)

AllJoined ==
    \A c \in Conns : \A j \in 1..Len(wire[c]) :
        j < Len(wire[c]) /\ wire[c][j].session = wire[c][j + 1].session => Joined(frames, wire[c], j)

\* StreamContiguous, of the list and the frames by name.
LEMMA JoinedIsContiguous == AllJoined <=> StreamContiguous
  BY DEF AllJoined, Joined, Whole, StreamContiguous, Successive, Complete

\* The packet that is about to be sent continues the stream.
LEMMA PacketJoins ==
  ASSUME Inv, StreamInv, vpc = "send", NEW c \in Conns, c = current, ~Fresh(c)
  PROVE  LET p == LastSent(c)
         IN /\ IF Complete(p)
               THEN off <= 1 /\ <<frameNo, i>> # <<p.frame, p.nalu>>
               ELSE <<frameNo, i, off>> = <<p.frame, p.nalu, p.off + p.length>>
            /\ \/ header.seq = (p.seq + 1) % SeqWrap
               \/ p.inherited /\ FirstOfSession(c)
<1> DEFINE p == LastSent(c)
<1>1. Sending(c) /\ Writing(c) /\ InLoop BY DEF Sending, Writing, InLoop
<1>2. Follows(c, p) BY DEF StreamInv, ProgressInv
<1>3. /\ off \in Nat /\ cBytes \in Nat /\ off + cBytes = nalu.length /\ cBytes > 0
      /\ i \in Nat /\ nalu.length \in Nat
  BY SendFacts DEF Inv, LoopInv, TypeOK
<1>4. p \in Packets BY LastKnown DEF Fresh
<1>5. p.nalu \in Nat BY <1>4 DEF Packets
<1>6. packets[c] \in Nat BY DEF Inv, TypeOK
<1>7. NumberWritten(c) /\ NumberSent(c) BY <1>1 DEF StreamInv, NumberInv
<1> HIDE DEF p
<1>8. ~Complete(p) => <<frameNo, i, off>> = <<p.frame, p.nalu, p.off + p.length>>
  BY <1>2 DEF Follows
<1>9. ASSUME Complete(p) PROVE off <= 1
  <2> SUFFICES ASSUME off > 1 PROVE FALSE BY <1>3
  <2>1. frameNo = p.frame /\ i = p.nalu /\ off = p.off + p.length BY <1>1, <1>2 DEF Follows
  <2>2. p.off + p.length = nalu.length BY <1>9, <2>1 DEF Complete, nalu, frame
  <2> QED BY <1>3, <2>1, <2>2
<1>10. ASSUME Complete(p) PROVE ~(frameNo = p.frame /\ i = p.nalu)
  <2> SUFFICES ASSUME frameNo = p.frame, i = p.nalu PROVE FALSE OBVIOUS
  <2>1. \E j \in 1..(k - 1) : connections[j] = c
    BY <1>2, <1>3, <1>5, <1>10 DEF Follows
  <2>2. PICK j \in 1..(k - 1) : connections[j] = c BY <2>1
  <2>3. k \in 1..Len(connections) /\ connections[k] = c /\ connections \in Seq(Conns)
    BY <1>1, LoopFacts DEF Inv, current, TypeOK
  <2>4. j \in 1..Len(connections) /\ j # k BY <2>2, <2>3
  <2>5. j \in DOMAIN connections /\ k \in DOMAIN connections BY <2>3, <2>4
  <2> QED BY <2>2, <2>3, <2>4, <2>5 DEF StreamInv, ListInv, IsInjective
<1>11. header.seq = (p.seq + 1) % SeqWrap \/ (p.inherited /\ FirstOfSession(c))
  <2>1. header.seq = packets[c] % SeqWrap BY <1>7 DEF NumberWritten
  <2>2. CASE packets[c] > 0 /\ p.seq = (packets[c] - 1) % SeqWrap
    BY <1>6, <2>1, <2>2, NextNumber
  <2>3. CASE p.inherited /\ FirstOfSession(c) BY <2>3
  <2> QED BY <1>7, <2>2, <2>3 DEF NumberSent, p
<1> QED BY <1>8, <1>9, <1>10, <1>11 DEF p

\* Every step keeps AllJoined.
LEMMA JoinedStep == Inv /\ StreamInv /\ AllJoined /\ [Next]_vars => AllJoined'
<1> SUFFICES ASSUME Inv, StreamInv, AllJoined, [Next]_vars,
                    NEW c \in Conns, NEW j \in 1..Len(wire'[c]),
                    j < Len(wire'[c]), wire'[c][j].session = wire'[c][j + 1].session
             PROVE  Joined(frames', wire'[c], j)
  BY DEF AllJoined
<1>0. wire[c] \in Seq(Packets) /\ frames \in Seq(FrameSet) /\ Len(wire[c]) \in Nat
  BY DEF Inv, TypeOK
<1>1. CASE wire' = wire /\ frames' = frames BY <1>1 DEF AllJoined
<1>2. ASSUME NEW f \in FrameSet, wire' = wire, frames' = Append(frames, f)
      PROVE  Joined(frames', wire'[c], j)
  <2>1. Joined(frames, wire[c], j) BY <1>2 DEF AllJoined
  <2>2. wire[c][j].frame \in 1..Len(frames) BY <1>2 DEF Inv, PacketsKnown, Known
  <2>3. frames'[wire[c][j].frame] = frames[wire[c][j].frame] BY <1>0, <1>2, <2>2
  <2> QED BY <1>2, <2>1, <2>3 DEF Joined, Whole
<1>3. ASSUME frames' = frames, vpc = "send", current \in Conns, session[current] # 0,
             \A x \in Conns : x # current => wire'[x] = wire[x],
             Len(wire'[current]) = Len(wire[current]) + 1,
             wire'[current][Len(wire[current]) + 1] = Packet,
             \A n \in 1..Len(wire[current]) : wire'[current][n] = wire[current][n]
      PROVE  Joined(frames', wire'[c], j)
  <2>1. CASE c # current BY <1>3, <2>1 DEF AllJoined
  <2>2. CASE c = current /\ j < Len(wire[c])
    <3>1. j \in 1..Len(wire[c]) /\ j + 1 \in 1..Len(wire[c]) /\ (j > 1 => j - 1 \in 1..Len(wire[c]))
      BY <1>0, <2>2
    <3>2. /\ wire'[c][j] = wire[c][j] /\ wire'[c][j + 1] = wire[c][j + 1]
          /\ (j > 1 => wire'[c][j - 1] = wire[c][j - 1])
      BY <1>3, <2>2, <3>1
    <3>3. Joined(frames, wire[c], j) BY <2>2, <3>1, <3>2 DEF AllJoined
    <3> QED BY <1>3, <3>2, <3>3 DEF Joined
  <2>3. CASE c = current /\ j = Len(wire[c])
    <3> DEFINE p == LastSent(c)
    <3>1. /\ Packet.session = session[c] /\ Packet.frame = frameNo /\ Packet.nalu = i
          /\ Packet.off = off /\ Packet.seq = header.seq
      BY <2>3 DEF Packet
    <3>2. wire'[c][j + 1] = Packet /\ wire'[c][j] = p
      BY <1>0, <1>3, <2>3 DEF LastSent
    <3>3. j > 1 => wire'[c][j - 1] = wire[c][Len(wire[c]) - 1]
      <4>1. j > 1 => j - 1 \in 1..Len(wire[c]) BY <1>0, <2>3
      <4> QED BY <1>3, <2>3, <4>1
    <3>4. wire[c] # <<>> BY <1>0, <2>3
    <3>5. ~Fresh(c) BY <3>1, <3>2, <3>4 DEF Fresh
    <3>6. /\ IF Complete(p)
             THEN off <= 1 /\ <<frameNo, i>> # <<p.frame, p.nalu>>
             ELSE <<frameNo, i, off>> = <<p.frame, p.nalu, p.off + p.length>>
          /\ \/ header.seq = (p.seq + 1) % SeqWrap
             \/ p.inherited /\ FirstOfSession(c)
      BY <1>3, <2>3, <3>5, PacketJoins
    <3> HIDE DEF p
    <3>7. FirstOfSession(c) => (j > 1 => wire'[c][j - 1].session # p.session)
      BY <2>3, <3>3 DEF FirstOfSession, p
    <3>8. Complete(p) <=> Whole(frames', p) BY <1>3 DEF Complete, Whole
    <3> QED BY <3>1, <3>2, <3>6, <3>7, <3>8 DEF Joined
  <2>4. c # current \/ j < Len(wire[c]) \/ j = Len(wire[c]) BY <1>0, <1>3
  <2> QED BY <2>1, <2>2, <2>3, <2>4
<1> QED BY <1>1, <1>2, <1>3, WireStep

\* A receiver can put the stream together again: within a session fragments of a NAL
\* unit follow each other without a gap, no unit is sent twice, and the sequence
\* numbers are consecutive, for every frame, every width of the sequence number and
\* whatever requests the main thread answers between the steps of the video thread.
THEOREM StreamIsContiguous == Spec => []StreamContiguous
<1>1. Init => AllJoined BY DEF Init, AllJoined
<1>2. Spec => []AllJoined BY <1>1, JoinedStep, StreamInvariance, PTL DEF Spec
<1> QED BY <1>2, JoinedIsContiguous, PTL

-----------------------------------------------------------------------------
(* What the sender reports say.                                             *)

\* No session has the number n yet, or this one has sent nothing and reported nothing.
Unused(c, n) ==
    /\ SentIn(c, n) = 0 /\ SumOf(c, n) = 0
    /\ \A e \in 1..Len(reports[c]) : reports[c][e].session # n

\* Packets and reports of session n carry its number and its time base.
Marked(c, n) ==
    /\ \A e \in 1..Len(reports[c]) :
          reports[c][e].session = n => reports[c][e].base = n /\ reports[c][e].ssrc = n
    /\ \A j \in 1..Len(wire[c]) :
          wire[c][j].session = n => wire[c][j].base = n /\ wire[c][j].ssrc = n

\* createSession is still setting the counters back: nothing reads them meanwhile.
Starting(c, n) ==
    /\ ~Visiting(c) /\ Unused(c, n)
    /\ mpc = "counters" => packets[c] = 0

\* The counters tell what was sent, and the header being written belongs to the session.
Running(c, n) ==
    /\ SumOf(c, n) = reported[c] /\ SentIn(c, n) = packets[c]
    /\ rtpBase[c] \in {0, n}
    /\ Visiting(c) /\ vpc \in {"time", "send"} => rtpBase[c] = n
    /\ Visiting(c) /\ vpc = "send" => header.base = n /\ header.ssrc = n

\* The session with the number n, unless it was set up in the middle of a frame.
Counted(c, n) ==
    born[c] = 0 => /\ Marked(c, n)
                   /\ IF ConnLocked(c) THEN Starting(c, n) ELSE Running(c, n)

Count(c) ==
    \A n \in Nat : /\ n > setups[c] => Unused(c, n)
                   /\ n = session[c] /\ n # 0 => n = setups[c] /\ Counted(c, n)

CountInv == \A c \in Conns : Count(c)

\* Some number in a set of naturals is the least.
LEMMA LeastNumber ==
  ASSUME NEW S \in SUBSET Nat, S # {}
  PROVE  \E m \in S : \A n \in S : m <= n
<1>1. PICK top \in S : TRUE
  OBVIOUS
<1> DEFINE I == 0 .. top
           up(m) == S \cap (0 .. m)
           F == {up(m) : m \in S \cap I}
           R == StrictSubsetOrdering(I)
<1>2. top \in Nat /\ IsFiniteSet(I)
  BY FS_Interval
<1>3. IsWellFoundedOn(R, SUBSET I)
  BY <1>2, FS_StrictSubsetOrderingWellFounded, FS_FiniteSubsetsOfFinite
<1>4. F \subseteq SUBSET I /\ F # {}
  <2>1. top \in S \cap I
    BY <1>2
  <2>2. \A m \in S \cap I : up(m) \subseteq I
    BY <1>2
  <2> QED BY <2>1, <2>2
<1>5. PICK x \in F : \A y \in F : <<y, x>> \notin R
  <2> HIDE DEF F, R
  <2> QED BY <1>3, <1>4, WFMin
<1>6. PICK m \in S \cap I : x = up(m)
  OBVIOUS
<1>7. ASSUME NEW n \in S, n < m PROVE FALSE
  <2>1. n \in S \cap I /\ m \in Nat /\ n \in Nat
    BY <1>2, <1>7
  <2>2. up(n) \subseteq up(m) /\ m \in up(m) /\ m \notin up(n)
    BY <1>7, <2>1
  <2>3. up(m) \subseteq I /\ up(n) \subseteq I
    BY <1>2, <2>1
  <2> HIDE DEF I, up
  <2>4. <<up(n), x>> \in R
    BY <1>6, <2>2, <2>3 DEF StrictSubsetOrdering
  <2>5. up(n) \in F
    BY <2>1
  <2> QED BY <1>5, <2>4, <2>5
<1>8. m \in Nat /\ \A n \in S : n \in Nat
  OBVIOUS
<1> QED BY <1>7, <1>8

\* The sums Total runs through, by the number of reports, and what they are.
Counts(s, n, m) == IF s[m].session = n THEN s[m].count ELSE 0

Sums(s, n) == CHOOSE g : g = [m \in 0..Len(s) |-> IF m = 0 THEN 0 ELSE g[m - 1] + Counts(s, n, m)]

Adds(g, s, n, l) == \A m \in 0..l : g[m] = IF m = 0 THEN 0 ELSE g[m - 1] + Counts(s, n, m)

\* Total is the last of them.
LEMMA TotalIsLast == \A s, n : Total(s, n) = Sums(s, n)[Len(s)]
  BY DEF Total, Sums, Counts

\* Two running sums are the same up to place l.
SumsAgree(g, h, l) == \A m \in 0..l : g[m] = h[m]

\* The same reports have the same sums, as far as they are the same.
LEMMA SameSums ==
  ASSUME NEW s, NEW r, NEW n, NEW l \in Nat, NEW g, NEW h,
         Adds(g, s, n, l), Adds(h, r, n, l), \A m \in 1..l : r[m] = s[m]
  PROVE  SumsAgree(g, h, l)
<1> DEFINE Wrong == {m \in 0..l : g[m] # h[m]}
<1> SUFFICES ASSUME Wrong # {} PROVE FALSE
  BY DEF SumsAgree
<1>1. Wrong \subseteq Nat
  OBVIOUS
<1>2. PICK m \in Wrong : \A e \in Wrong : m <= e
  <2> HIDE DEF Wrong
  <2> QED BY <1>1, LeastNumber
<1>3. CASE m = 0
  BY <1>2, <1>3 DEF Adds
<1>4. CASE m # 0
  <2>1. m - 1 \in 0..l /\ ~(m <= m - 1) /\ m \in 1..l
    BY <1>2, <1>4
  <2>2. g[m - 1] = h[m - 1] /\ Counts(s, n, m) = Counts(r, n, m)
    BY <1>2, <2>1 DEF Counts
  <2>3. g[m] = g[m - 1] + Counts(s, n, m) /\ h[m] = h[m - 1] + Counts(r, n, m)
    BY <1>4, <2>1 DEF Adds
  <2> QED BY <1>2, <2>2, <2>3
<1> QED BY <1>3, <1>4

\* There are such sums.
LEMMA SumsExist ==
  ASSUME NEW s \in Seq(Reports), NEW n
  PROVE  Sums(s, n) \in [0..Len(s) -> Int] /\ Adds(Sums(s, n), s, n, Len(s))
<1> DEFINE Can(m) == \E g \in [0..m -> Int] : Adds(g, s, n, m)
           Bad == {m \in 0..Len(s) : ~Can(m)}
<1>1. Len(s) \in Nat /\ \A m \in 1..Len(s) : Counts(s, n, m) \in Int
  <2>1. \A m \in 1..Len(s) : s[m] \in Reports
    OBVIOUS
  <2> QED BY <2>1 DEF Counts, Reports
<1>2. Bad = {}
  <2> SUFFICES ASSUME Bad # {} PROVE FALSE
    OBVIOUS
  <2>1. Bad \subseteq Nat
    BY <1>1
  <2>2. PICK m \in Bad : \A l \in Bad : m <= l
    <3> HIDE DEF Bad
    <3> QED BY <2>1, LeastNumber
  <2>3. m # 0
    <3>1. [l \in 0..0 |-> 0] \in [0..0 -> Int] /\ Adds([l \in 0..0 |-> 0], s, n, 0)
      BY DEF Adds
    <3>2. Can(0)
      BY <3>1
    <3> QED BY <2>2, <3>2
  <2>4. m \in Nat /\ m - 1 \in 0..Len(s) /\ m \in 1..Len(s) /\ ~(m <= m - 1)
    BY <1>1, <2>1, <2>2, <2>3
  <2>5. PICK g \in [0..(m - 1) -> Int] : Adds(g, s, n, m - 1)
    BY <2>2, <2>4
  <2> DEFINE last == g[m - 1] + Counts(s, n, m)
             h == [l \in 0..m |-> IF l = m THEN last ELSE g[l]]
  <2>6. last \in Int
    <3>1. g[m - 1] \in Int BY <2>4, <2>5
    <3> QED BY <1>1, <2>4, <3>1
  <2>7. \A l \in 0..m : l # m => l \in 0..(m - 1)
    BY <2>4
  <2>8. h \in [0..m -> Int]
    BY <2>6, <2>7
  <2>9. ASSUME NEW l \in 0..m
        PROVE  h[l] = IF l = 0 THEN 0 ELSE h[l - 1] + Counts(s, n, l)
    <3>1. CASE l = m
      <4>1. m - 1 \in 0..m /\ m - 1 # m BY <2>4
      <4>2. h[m] = last /\ h[m - 1] = g[m - 1] BY <2>4, <4>1
      <4> QED BY <2>3, <3>1, <4>2
    <3>2. CASE l # m
      <4>1. l \in 0..(m - 1) BY <2>7, <3>2
      <4>2. l # 0 => l - 1 \in 0..m /\ l - 1 # m BY <2>4, <4>1
      <4>3. g[l] = IF l = 0 THEN 0 ELSE g[l - 1] + Counts(s, n, l) BY <2>5, <4>1 DEF Adds
      <4> QED BY <3>2, <4>2, <4>3
    <3> QED BY <3>1, <3>2
  <2>10. Adds(h, s, n, m)
    <3> HIDE DEF h
    <3> QED BY <2>9 DEF Adds
  <2>11. Can(m)
    <3> HIDE DEF h
    <3> QED BY <2>8, <2>10
  <2> QED BY <2>2, <2>11
<1>3. PICK g \in [0..Len(s) -> Int] : Adds(g, s, n, Len(s))
  BY <1>1, <1>2
<1>4. g = [m \in 0..Len(s) |-> IF m = 0 THEN 0 ELSE g[m - 1] + Counts(s, n, m)]
  BY <1>3 DEF Adds
<1>5. Sums(s, n) = [m \in 0..Len(s) |-> IF m = 0 THEN 0 ELSE Sums(s, n)[m - 1] + Counts(s, n, m)]
  BY <1>4, Zenon DEF Sums
<1>6. Adds(Sums(s, n), s, n, Len(s))
  BY <1>5 DEF Adds
<1>7. SumsAgree(Sums(s, n), g, Len(s))
  <2> DEFINE t == Sums(s, n)
  <2>1. Adds(t, s, n, Len(s)) BY <1>6
  <2> HIDE DEF t
  <2>2. SumsAgree(t, g, Len(s)) BY <1>1, <1>3, <2>1, SameSums
  <2> QED BY <2>2 DEF t
<1>8. Sums(s, n) = g
  <2>1. DOMAIN Sums(s, n) = 0..Len(s) /\ Sums(s, n) = [m \in 0..Len(s) |-> Sums(s, n)[m]]
    BY <1>5
  <2> QED BY <1>3, <1>7, <2>1 DEF SumsAgree
<1> QED BY <1>3, <1>8

\* A report that is added counts for its session.
LEMMA TotalAppend ==
  ASSUME NEW s \in Seq(Reports), NEW r \in Reports, NEW n
  PROVE  /\ Total(s, n) \in Int
         /\ Total(Append(s, r), n) = Total(s, n) + (IF r.session = n THEN r.count ELSE 0)
<1> DEFINE t == Append(s, r)
           l == Len(s)
<1>1. t \in Seq(Reports) /\ Len(t) = l + 1 /\ t[l + 1] = r /\ l \in Nat /\ \A m \in 1..l : t[m] = s[m]
  BY AppendProperties
<1> HIDE DEF t, l
<1>2. Sums(s, n) \in [0..l -> Int] /\ Adds(Sums(s, n), s, n, l)
  BY SumsExist DEF l
<1>3. Adds(Sums(t, n), t, n, l + 1)
  BY <1>1, SumsExist
<1>4. Adds(Sums(t, n), t, n, l)
  BY <1>1, <1>3 DEF Adds
<1> DEFINE g == Sums(s, n)
           h == Sums(t, n)
<1> HIDE DEF g, h
<1>5. SumsAgree(g, h, l)
  <2>1. Adds(g, s, n, l) /\ Adds(h, t, n, l)
    BY <1>2, <1>4 DEF g, h
  <2> QED BY <1>1, <2>1, SameSums
<1>6. g[l] = h[l] /\ g[l] \in Int
  BY <1>1, <1>2, <1>5 DEF SumsAgree, g
<1>7. h[l + 1] = h[l] + Counts(t, n, l + 1)
  <2>1. l + 1 \in 0..(l + 1) /\ l + 1 # 0 /\ (l + 1) - 1 = l
    BY <1>1
  <2>2. Adds(h, t, n, l + 1) BY <1>3 DEF h
  <2> QED BY <2>1, <2>2 DEF Adds
<1>8. Counts(t, n, l + 1) = IF r.session = n THEN r.count ELSE 0
  BY <1>1 DEF Counts
<1>9. Total(s, n) = g[l] /\ Total(t, n) = h[l + 1]
  BY <1>1, TotalIsLast DEF g, h, l
<1> QED BY <1>6, <1>7, <1>8, <1>9 DEF t

\* No report, no sum.
LEMMA TotalEmpty == \A n : Total(<<>>, n) = 0
<1> SUFFICES ASSUME NEW n PROVE Total(<<>>, n) = 0
  OBVIOUS
<1>1. <<>> \in Seq(Reports) /\ Len(<<>>) = 0
  OBVIOUS
<1>2. Adds(Sums(<<>>, n), <<>>, n, 0)
  BY <1>1, SumsExist
<1> QED BY <1>1, <1>2, TotalIsLast DEF Adds

\* The number of packets of session n in a list.
HowMany(w, n) == Cardinality({j \in 1..Len(w) : w[j].session = n})

\* A packet that is added counts for its session.
LEMMA HowManyAppend ==
  ASSUME NEW w \in Seq(Packets), NEW p \in Packets, NEW n
  PROVE  /\ HowMany(w, n) \in Nat
         /\ HowMany(Append(w, p), n) = HowMany(w, n) + (IF p.session = n THEN 1 ELSE 0)
<1> DEFINE v == Append(w, p)
           l == Len(w)
           S == {j \in 1..l : w[j].session = n}
<1>1. Len(v) = l + 1 /\ v[l + 1] = p /\ l \in Nat /\ \A j \in 1..l : v[j] = w[j]
  BY AppendProperties
<1>2. IsFiniteSet(S) /\ Cardinality(S) \in Nat
  <2>1. IsFiniteSet(1..l) BY <1>1, FS_Interval
  <2>2. S \subseteq 1..l OBVIOUS
  <2>3. IsFiniteSet(S) BY <2>1, <2>2, FS_Subset
  <2> QED BY <2>3, FS_CardinalityType
<1>3. l + 1 \notin S
  BY <1>1
<1> HIDE DEF v, l
<1>4. {j \in 1..(l + 1) : v[j].session = n} = S \cup (IF p.session = n THEN {l + 1} ELSE {})
  <2>1. \A j \in 1..(l + 1) : j \in 1..l \/ j = l + 1
    BY <1>1
  <2>2. l + 1 \in 1..(l + 1) /\ \A j \in 1..l : j \in 1..(l + 1)
    BY <1>1
  <2> QED BY <1>1, <2>1, <2>2
<1>5. HowMany(w, n) = Cardinality(S) BY DEF HowMany, l
<1>6. HowMany(v, n) = Cardinality({j \in 1..(l + 1) : v[j].session = n})
  BY <1>1 DEF HowMany
<1> HIDE DEF S
<1>7. CASE p.session = n
  <2>1. HowMany(v, n) = Cardinality(S \cup {l + 1}) BY <1>4, <1>6, <1>7
  <2>2. Cardinality(S \cup {l + 1}) = Cardinality(S) + 1 BY <1>2, <1>3, FS_AddElement
  <2> QED BY <1>2, <1>5, <1>7, <2>1, <2>2 DEF v
<1>8. CASE p.session # n
  <2>1. HowMany(v, n) = Cardinality(S) BY <1>4, <1>6, <1>8
  <2> QED BY <1>2, <1>5, <1>8, <2>1 DEF v
<1> QED BY <1>7, <1>8

\* No packet of session n, none counted.
LEMMA HowManyNone ==
  ASSUME NEW w, NEW n, \A j \in 1..Len(w) : w[j].session # n
  PROVE  HowMany(w, n) = 0
<1>1. {j \in 1..Len(w) : w[j].session = n} = {} OBVIOUS
<1> QED BY <1>1, FS_EmptySet DEF HowMany

\* What is unused or marked depends on the two lists only.
LEMMA CountsOfLists ==
  ASSUME NEW c, NEW n, wire'[c] = wire[c], reports'[c] = reports[c]
  PROVE  /\ SumOf(c, n)' = SumOf(c, n) /\ SentIn(c, n)' = SentIn(c, n)
         /\ Unused(c, n)' = Unused(c, n) /\ Marked(c, n)' = Marked(c, n)
  BY DEF SumOf, SentIn, Unused, Marked

\* A step that leaves the session of c, its counters and its lists alone, and does not
\* bring the video thread to c while createSession is at work, nor nearer to a packet.
LEMMA CountKept ==
  ASSUME NEW c \in Conns, Count(c),
         session'[c] = session[c], setups'[c] = setups[c], born'[c] = born[c],
         wire'[c] = wire[c], reports'[c] = reports[c], packets'[c] = packets[c],
         reported'[c] = reported[c], rtpBase'[c] = rtpBase[c],
         ConnLocked(c)' <=> ConnLocked(c),
         ConnLocked(c) /\ mpc' = "counters" => mpc = "counters",
         Visiting(c)' => Visiting(c) \/ ~ConnLocked(c),
         Visiting(c)' /\ vpc' \in {"time", "send"} => Visiting(c) /\ vpc \in {"time", "send"},
         Visiting(c)' /\ vpc' = "send" => Visiting(c) /\ vpc = "send" /\ header' = header
  PROVE  Count(c)'
<1> SUFFICES ASSUME NEW n \in Nat
             PROVE  /\ (n > setups[c] => Unused(c, n))'
                    /\ (n = session[c] /\ n # 0 => n = setups[c] /\ Counted(c, n))'
  BY DEF Count
<1>1. n > setups[c] => Unused(c, n)'
  BY CountsOfLists DEF Count
<1>2. ASSUME n = session[c], n # 0, born[c] = 0
      PROVE  Marked(c, n)' /\ IF ConnLocked(c)' THEN Starting(c, n)' ELSE Running(c, n)'
  <2>1. Marked(c, n) /\ IF ConnLocked(c) THEN Starting(c, n) ELSE Running(c, n)
    BY <1>2 DEF Count, Counted
  <2>2. Marked(c, n)'
    BY <2>1, CountsOfLists
  <2>3. ConnLocked(c) => Starting(c, n)'
    BY <2>1, CountsOfLists DEF Starting
  <2>4. ~ConnLocked(c) => Running(c, n)'
    BY <2>1, CountsOfLists DEF Running
  <2> QED BY <2>2, <2>3, <2>4
<1> QED BY <1>1, <1>2 DEF Count, Counted

\* At the start there is no session.
LEMMA CountInit == Init => CountInv
<1> SUFFICES ASSUME Init, NEW c \in Conns, NEW n \in Nat
             PROVE  /\ n > setups[c] => Unused(c, n)
                    /\ ~(n = session[c] /\ n # 0)
  BY DEF CountInv, Count
<1>1. wire[c] = <<>> /\ reports[c] = <<>> /\ session[c] = 0
  BY DEF Init
<1>2. SentIn(c, n) = 0
  <2>1. \A j \in 1..Len(wire[c]) : wire[c][j].session # n BY <1>1
  <2>2. HowMany(wire[c], n) = 0 BY <2>1, HowManyNone
  <2> QED BY <2>2 DEF SentIn, HowMany
<1>3. SumOf(c, n) = 0
  BY <1>1, TotalEmpty DEF SumOf
<1> QED BY <1>1, <1>2, <1>3 DEF Unused

\* CountInv is what ReportsMatchStream says.
LEMMA CountMatches == Inv /\ CountInv => ReportsMatchStream
<1> SUFFICES ASSUME Inv, CountInv, NEW c \in Conns, session[c] # 0, born[c] = 0, ~ConnLocked(c)
             PROVE  /\ SumOf(c, session[c]) = reported[c]
                    /\ SentIn(c, session[c]) = packets[c]
                    /\ \A e \in 1..Len(reports[c]), j \in 1..Len(wire[c]) :
                          LET r == reports[c][e]
                              p == wire[c][j]
                          IN r.session = session[c] /\ p.session = session[c] =>
                                 r.base # 0 /\ r.base = p.base /\ r.ssrc = p.ssrc
  BY DEF ReportsMatchStream
<1>1. session[c] \in Nat BY DEF Inv, TypeOK
<1>2. Marked(c, session[c]) /\ Running(c, session[c])
  BY <1>1 DEF CountInv, Count, Counted
<1> QED BY <1>2 DEF Marked, Running

\* The report that sendPacket makes of a session.
ReportMade(c, r) ==
    /\ r \in Reports /\ reports'[c] = Append(reports[c], r)
    /\ r.session = session[c] /\ r.ssrc = setups[c] /\ r.base = rtpBase[c]
    /\ r.count = packets[c] + 1 - reported[c]
    /\ reported'[c] = packets[c] + 1

\* Which reports sendPacket sends, and what it writes down.
LEMMA ReportEffect ==
  ASSUME Inv, NEW due \in BOOLEAN, sendPacket(due), NEW c \in Conns
  PROVE  /\ c # current => /\ reports'[c] = reports[c] /\ reported'[c] = reported[c]
                           /\ packets'[c] = packets[c]
         /\ c = current => packets'[c] = packets[c] + 1
         /\ c = current /\ session[c] = 0 => reports'[c] = reports[c]
         /\ c = current /\ session[c] # 0 =>
               \/ reports'[c] = reports[c] /\ reported'[c] = reported[c]
               \/ \E r : ReportMade(c, r)
<1> DEFINE s == [session |-> session[current], ssrc |-> setups[current],
                 base |-> rtpBase[current],
                 count |-> packets[current] + 1 - reported[current],
                 inherited |-> born[current] = frameNo]
<1>0. current \in Conns BY SendEffect
<1>1. /\ reports \in [Conns -> Seq(Reports)] /\ reported \in [Conns -> Nat] /\ packets \in [Conns -> Nat]
      /\ setups \in [Conns -> Nat] /\ session \in [Conns -> Nat] /\ rtpBase \in [Conns -> Nat]
  BY DEF Inv, TypeOK
<1>2. packets' = [packets EXCEPT ![current] = @ + 1]
  BY DEF sendPacket
<1>3. \/ reports' = reports /\ reported' = reported
      \/ /\ reports' = IF session[current] = 0 THEN reports
                       ELSE [reports EXCEPT ![current] = Append(@, s)]
         /\ reported' = [reported EXCEPT ![current] = packets[current] + 1]
  BY DEF sendPacket, Report
<1>4. s \in Reports
  BY <1>0, <1>1 DEF Reports
<1>5. /\ s.session = session[current] /\ s.ssrc = setups[current] /\ s.base = rtpBase[current]
      /\ s.count = packets[current] + 1 - reported[current]
  OBVIOUS
<1> HIDE DEF s
<1>6. CASE c # current
  BY <1>0, <1>1, <1>2, <1>3, <1>6
<1>7. CASE c = current
  <2>1. packets'[c] = packets[c] + 1 BY <1>1, <1>2, <1>7
  <2>2. session[c] = 0 => reports'[c] = reports[c] BY <1>3, <1>7
  <2>3. ASSUME session[c] # 0, reports' = [reports EXCEPT ![current] = Append(@, s)],
               reported' = [reported EXCEPT ![current] = packets[current] + 1]
        PROVE  ReportMade(c, s)
    BY <1>1, <1>4, <1>5, <1>7, <2>3 DEF ReportMade
  <2> QED BY <1>3, <1>7, <2>1, <2>2, <2>3
<1> QED BY <1>6, <1>7

\* Numbers that are not given yet stay unused while nothing is sent to c.
LEMMA StaysUnused ==
  ASSUME NEW c \in Conns, Count(c), wire'[c] = wire[c], reports'[c] = reports[c],
         setups[c] \in Nat, setups'[c] \in Nat, setups'[c] >= setups[c]
  PROVE  \A n \in Nat : n > setups'[c] => Unused(c, n)'
<1> SUFFICES ASSUME NEW n \in Nat, n > setups'[c] PROVE Unused(c, n)'
  OBVIOUS
<1>1. n > setups[c] OBVIOUS
<1>2. Unused(c, n) BY <1>1 DEF Count
<1> QED BY <1>2, CountsOfLists

\* createSession draws a number nobody has used, and starts.
LEMMA CountSetup ==
  ASSUME Inv, SessionInv, NEW c \in Conns, Count(c), Setup(c)
  PROVE  Count(c)'
<1> USE DEF counterVars, videoVars, netVars
<1>0. /\ setups \in [Conns -> Nat] /\ session \in [Conns -> Nat] /\ born \in [Conns -> Nat]
      /\ wire \in [Conns -> Seq(Packets)]
  BY DEF Inv, TypeOK
<1>1. /\ setups' = [setups EXCEPT ![c] = @ + 1] /\ session' = [session EXCEPT ![c] = setups[c] + 1]
      /\ born' = [born EXCEPT ![c] = IF InLoop /\ current = c THEN frameNo ELSE 0]
      /\ mpc' = "packets" /\ mconn' = c /\ wire' = wire /\ reports' = reports
      /\ UNCHANGED <<vpc, k, connections>>
  BY DEF Setup
<1>2. setups'[c] = setups[c] + 1 /\ session'[c] = setups[c] + 1 /\ setups[c] \in Nat
  BY <1>0, <1>1
<1>3. \A n \in Nat : n > setups'[c] => Unused(c, n)'
  BY <1>1, <1>2, StaysUnused
<1>4. ASSUME NEW n \in Nat, n = session'[c], born'[c] = 0
      PROVE  Marked(c, n)' /\ ConnLocked(c)' /\ Starting(c, n)'
  <2>1. Unused(c, n) BY <1>2, <1>4 DEF Count
  <2>2. \A j \in 1..Len(wire[c]) : wire[c][j].session # n
    <3> SUFFICES ASSUME NEW j \in 1..Len(wire[c]) PROVE wire[c][j].session # n
      OBVIOUS
    <3>1. wire[c][j].session <= setups[c] BY DEF SessionInv
    <3>2. wire[c][j] \in Packets BY <1>0
    <3>3. wire[c][j].session \in Nat BY <3>2 DEF Packets
    <3> QED BY <1>2, <1>4, <3>1, <3>3
  <2>3. Marked(c, n) BY <2>1, <2>2 DEF Unused, Marked
  <2>4. ~Visiting(c)'
    <3>1. ASSUME InLoop, current = c PROVE FALSE
      <4>1. frameNo \in 1..Len(frames) BY <3>1, LoopFacts DEF Inv
      <4>2. frameNo # 0 BY <4>1
      <4> QED BY <1>0, <1>1, <1>4, <3>1, <4>2
    <3> QED BY <1>1, <3>1 DEF Visiting, InLoop, current
  <2>5. Unused(c, n)' /\ Marked(c, n)'
    BY <1>1, <2>1, <2>3, CountsOfLists
  <2>6. ConnLocked(c)' BY <1>1 DEF ConnLocked
  <2> QED BY <1>1, <2>4, <2>5, <2>6 DEF Starting
<1> QED BY <1>2, <1>3, <1>4 DEF Count, Counted

\* The counters are set back while the connection is locked.
LEMMA CountReset ==
  ASSUME Inv, Count(mconn), ResetPackets \/ ResetCounters, NEW c \in Conns, c = mconn
  PROVE  Count(c)'
<1> USE DEF sessionVars, videoVars, netVars
<1>0. /\ setups \in [Conns -> Nat] /\ packets \in [Conns -> Nat] /\ reported \in [Conns -> Nat]
      /\ rtpBase \in [Conns -> Nat]
  BY DEF Inv, TypeOK
<1>1. UNCHANGED <<session, setups, born, wire, reports, vpc, k, connections, header>>
  BY DEF ResetPackets, ResetCounters
<1>2. Count(c) OBVIOUS
<1>3. ConnLocked(c) BY DEF ConnLocked, ResetPackets, ResetCounters
<1>4. Visiting(c)' <=> Visiting(c) BY <1>1 DEF Visiting, InLoop, current
<1>5. \A n \in Nat : n > setups'[c] => Unused(c, n)'
  BY <1>0, <1>1, <1>2, StaysUnused
<1>6. ASSUME NEW n \in Nat, n = session[c], n # 0, born[c] = 0
      PROVE  Marked(c, n)' /\ IF ConnLocked(c)' THEN Starting(c, n)' ELSE Running(c, n)'
  <2>1. Marked(c, n) /\ Starting(c, n)
    BY <1>2, <1>3, <1>6 DEF Count, Counted
  <2>2. Marked(c, n)' /\ Unused(c, n)' /\ SumOf(c, n)' = 0 /\ SentIn(c, n)' = 0
    BY <1>1, <2>1, CountsOfLists DEF Starting, Unused
  <2>3. CASE ResetPackets
    <3>1. packets'[c] = 0 BY <1>0, <2>3 DEF ResetPackets
    <3>2. ConnLocked(c)' BY <2>3 DEF ResetPackets, ConnLocked
    <3> QED BY <1>4, <2>1, <2>2, <3>1, <3>2 DEF Starting
  <2>4. CASE ResetCounters
    <3>1. mpc = "counters" /\ packets[c] = 0 BY <2>1, <2>4 DEF ResetCounters, Starting
    <3>2. packets' = packets /\ reported'[c] = 0 /\ rtpBase'[c] = 0 /\ mpc' = "idle"
      BY <1>0, <2>4 DEF ResetCounters
    <3>3. ~ConnLocked(c)' BY <3>2 DEF ConnLocked
    <3>4. ~Visiting(c)' BY <1>4, <2>1 DEF Starting
    <3> QED BY <2>2, <3>1, <3>2, <3>3, <3>4 DEF Running
  <2> QED BY <2>2, <2>3, <2>4
<1>7. \A n \in Nat : n = session[c] /\ n # 0 => n = setups[c]
  BY <1>2 DEF Count
<1> QED BY <1>1, <1>5, <1>6, <1>7 DEF Count, Counted

\* The packet that is sent, and the report that goes with it, count for their session.
LEMMA CountSend ==
  ASSUME Inv, SessionInv, Inv', NEW c \in Conns, Count(c), NEW due \in BOOLEAN, sendPacket(due),
         c = current
  PROVE  Count(c)'
<1>0. /\ setups \in [Conns -> Nat] /\ packets \in [Conns -> Nat] /\ reported \in [Conns -> Nat]
      /\ session \in [Conns -> Nat] /\ rtpBase \in [Conns -> Nat]
      /\ wire \in [Conns -> Seq(Packets)] /\ reports \in [Conns -> Seq(Reports)]
      /\ wire' \in [Conns -> Seq(Packets)]
  BY DEF Inv, TypeOK
<1>1. /\ Visiting(c) /\ ~ConnLocked(c) /\ vpc = "send"
      /\ session' = session /\ setups' = setups /\ born' = born /\ rtpBase' = rtpBase
      /\ mpc' = mpc /\ mconn' = mconn
      /\ vpc' \in {"nalu", "seq"}
  BY SendEffect DEF sendPacket, mainVars, sessionVars
<1>2. ~ConnLocked(c)' BY <1>1 DEF ConnLocked
<1>3. session[c] <= setups[c] BY DEF SessionInv
<1>4. CASE session[c] = 0
  <2>1. wire'[c] = wire[c] /\ reports'[c] = reports[c]
    BY <1>4, SendEffect, ReportEffect
  <2>2. \A n \in Nat : n > setups'[c] => Unused(c, n)'
    <3>1. setups[c] \in Nat /\ setups'[c] \in Nat /\ setups'[c] >= setups[c] BY <1>0, <1>1
    <3> QED BY <2>1, <3>1, StaysUnused
  <2> QED BY <1>1, <1>4, <2>2 DEF Count
<1>5. CASE session[c] # 0
  <2> DEFINE p == Packet
  <2>1. wire'[c] = Append(wire[c], p) /\ p.session = session[c] /\ p.base = header.base /\ p.ssrc = header.ssrc
    BY <1>5, SendEffect DEF Packet
  <2> HIDE DEF p
  <2>2. /\ Len(wire'[c]) = Len(wire[c]) + 1 /\ wire'[c][Len(wire[c]) + 1] = p
        /\ \A j \in 1..Len(wire[c]) : wire'[c][j] = wire[c][j]
        /\ wire[c] \in Seq(Packets) /\ Len(wire[c]) \in Nat
    BY <1>0, <2>1
  <2>3. p \in Packets
    <3>1. Len(wire[c]) + 1 \in 1..Len(wire'[c]) /\ wire'[c] \in Seq(Packets) BY <1>0, <2>2
    <3> QED BY <2>2, <3>1
  <2>4. packets'[c] = packets[c] + 1 BY ReportEffect
  <2>5. \/ reports'[c] = reports[c] /\ reported'[c] = reported[c]
        \/ \E r : ReportMade(c, r)
    BY <1>5, ReportEffect
  <2>6. \A n : SentIn(c, n)' = SentIn(c, n) + (IF n = session[c] THEN 1 ELSE 0) /\ SentIn(c, n) \in Nat
    <3> SUFFICES ASSUME NEW n
                 PROVE  SentIn(c, n)' = SentIn(c, n) + (IF n = session[c] THEN 1 ELSE 0) /\ SentIn(c, n) \in Nat
      OBVIOUS
    <3>1. /\ HowMany(wire[c], n) \in Nat
          /\ HowMany(Append(wire[c], p), n) = HowMany(wire[c], n) + (IF p.session = n THEN 1 ELSE 0)
      BY <2>2, <2>3, HowManyAppend
    <3>2. SentIn(c, n) = HowMany(wire[c], n) /\ SentIn(c, n)' = HowMany(wire'[c], n)
      BY DEF SentIn, HowMany
    <3> QED BY <2>1, <3>1, <3>2
  <2>7. ASSUME NEW n \in Nat, n > setups[c] PROVE Unused(c, n)'
    <3>1. Unused(c, n) BY <2>7 DEF Count
    <3>2. n # session[c] BY <1>0, <1>3, <2>7
    <3>3. SentIn(c, n)' = 0 BY <2>6, <3>1, <3>2 DEF Unused
    <3>4. CASE reports'[c] = reports[c]
      BY <3>1, <3>3, <3>4 DEF Unused, SumOf
    <3>5. ASSUME NEW r, ReportMade(c, r) PROVE Unused(c, n)'
      <4>1. r \in Reports /\ reports'[c] = Append(reports[c], r) /\ r.session = session[c] /\ reports[c] \in Seq(Reports)
        BY <1>0, <3>5 DEF ReportMade
      <4>2. /\ Total(reports[c], n) \in Int
            /\ Total(reports'[c], n) = Total(reports[c], n) + (IF r.session = n THEN r.count ELSE 0)
        BY <4>1, TotalAppend
      <4>3. SumOf(c, n)' = 0 BY <3>1, <3>2, <4>1, <4>2 DEF Unused, SumOf
      <4>4. \A e \in 1..Len(reports'[c]) : reports'[c][e].session # n
        BY <3>1, <3>2, <4>1 DEF Unused
      <4> QED BY <3>3, <4>3, <4>4 DEF Unused
    <3> QED BY <2>5, <3>4, <3>5
  <2>8. ASSUME NEW n \in Nat, n = session[c], born[c] = 0
        PROVE  Marked(c, n)' /\ Running(c, n)'
    <3>1. Marked(c, n) /\ Running(c, n) /\ n = setups[c]
      BY <1>1, <1>5, <2>8 DEF Count, Counted
    <3>2. /\ SumOf(c, n) = reported[c] /\ SentIn(c, n) = packets[c]
          /\ rtpBase[c] = n /\ header.base = n /\ header.ssrc = n
      BY <1>1, <3>1 DEF Running
    <3>3. SentIn(c, n)' = packets'[c] BY <2>4, <2>6, <2>8, <3>2
    <3>4. \A j \in 1..Len(wire'[c]) :
             wire'[c][j].session = n => wire'[c][j].base = n /\ wire'[c][j].ssrc = n
      <4> SUFFICES ASSUME NEW j \in 1..Len(wire'[c]), wire'[c][j].session = n
                   PROVE  wire'[c][j].base = n /\ wire'[c][j].ssrc = n
        OBVIOUS
      <4>1. j \in 1..Len(wire[c]) \/ j = Len(wire[c]) + 1 BY <2>2
      <4> QED BY <2>1, <2>2, <3>1, <3>2, <4>1, SMTT(20) DEF Marked
    <3>5. SumOf(c, n)' = reported'[c] /\ \A e \in 1..Len(reports'[c]) :
             reports'[c][e].session = n => reports'[c][e].base = n /\ reports'[c][e].ssrc = n
      <4>1. CASE reports'[c] = reports[c] /\ reported'[c] = reported[c]
        BY <3>1, <3>2, <4>1 DEF Marked, SumOf
      <4>2. ASSUME NEW r, ReportMade(c, r)
            PROVE  /\ SumOf(c, n)' = reported'[c]
                   /\ \A e \in 1..Len(reports'[c]) :
                         reports'[c][e].session = n => reports'[c][e].base = n /\ reports'[c][e].ssrc = n
        <5>1. /\ r \in Reports /\ reports'[c] = Append(reports[c], r) /\ reports[c] \in Seq(Reports)
              /\ r.session = n /\ r.base = n /\ r.ssrc = n
              /\ r.count = packets[c] + 1 - reported[c] /\ reported'[c] = packets[c] + 1
          BY <1>0, <2>8, <3>1, <3>2, <4>2 DEF ReportMade
        <5>2. Total(reports'[c], n) = Total(reports[c], n) + r.count
          BY <5>1, TotalAppend
        <5>3. SumOf(c, n)' = reported[c] + (packets[c] + 1 - reported[c])
          BY <3>2, <5>1, <5>2 DEF SumOf
        <5>4. SumOf(c, n)' = reported'[c] BY <1>0, <5>1, <5>3
        <5>5. \A e \in 1..Len(reports'[c]) :
                 reports'[c][e].session = n => reports'[c][e].base = n /\ reports'[c][e].ssrc = n
          <6> SUFFICES ASSUME NEW e \in 1..Len(reports'[c]), reports'[c][e].session = n
                       PROVE  reports'[c][e].base = n /\ reports'[c][e].ssrc = n
            OBVIOUS
          <6>1. e \in 1..Len(reports[c]) \/ e = Len(reports[c]) + 1 BY <5>1
          <6>2. CASE e \in 1..Len(reports[c])
            <7>1. reports'[c][e] = reports[c][e] BY <5>1, <6>2
            <7> QED BY <3>1, <6>2, <7>1 DEF Marked
          <6>3. CASE e = Len(reports[c]) + 1
            <7>1. reports'[c][e] = r BY <5>1, <6>3
            <7> QED BY <5>1, <7>1
          <6> QED BY <6>1, <6>2, <6>3
        <5> QED BY <5>4, <5>5
      <4> QED BY <2>5, <4>1, <4>2
    <3> QED BY <1>1, <3>2, <3>3, <3>4, <3>5 DEF Marked, Running
  <2>9. \A n \in Nat : n = session[c] /\ n # 0 => n = setups[c] BY DEF Count
  <2> QED BY <1>1, <1>2, <2>7, <2>8, <2>9 DEF Count, Counted
<1> QED BY <1>4, <1>5

\* The header is written from _rtpBase, and _rtpBase is drawn once for a session.
LEMMA CountHeader ==
  ASSUME Inv, NEW c \in Conns, Count(c), MapTime \/ WriteTime, c = current
  PROVE  Count(c)'
<1> USE DEF mainVars, sessionVars, netVars
<1>0. /\ setups \in [Conns -> Nat] /\ rtpBase \in [Conns -> Nat] /\ header \in Headers
  BY DEF Inv, TypeOK
<1>1. /\ UNCHANGED <<session, setups, born, wire, reports, packets, reported, mpc, mconn, k, connections>>
  BY DEF MapTime, WriteTime, counterVars
<1>2. Visiting(c) /\ (ConnLocked(c)' <=> ConnLocked(c))
  BY <1>1 DEF MapTime, WriteTime, Visiting, InLoop, ConnLocked
<1>3. \A n \in Nat : n > setups'[c] => Unused(c, n)'
  BY <1>0, <1>1, StaysUnused
<1>4. ASSUME NEW n \in Nat, n = session[c], n # 0, born[c] = 0
      PROVE  Marked(c, n)' /\ ~ConnLocked(c) /\ Running(c, n)' /\ n = setups[c]
  <2>1. Marked(c, n) /\ ~ConnLocked(c) /\ Running(c, n) /\ n = setups[c]
    BY <1>2, <1>4 DEF Count, Counted, Starting
  <2>2. Marked(c, n)' /\ SumOf(c, n)' = reported'[c] /\ SentIn(c, n)' = packets'[c]
    BY <1>1, <2>1, CountsOfLists DEF Running
  <2>3. CASE MapTime
    <3>1. rtpBase'[c] = n BY <1>0, <2>1, <2>3 DEF MapTime, Running
    <3>2. vpc' = "time" BY <2>3 DEF MapTime
    <3> QED BY <2>1, <2>2, <3>1, <3>2 DEF Running
  <2>4. CASE WriteTime
    <3>1. rtpBase' = rtpBase /\ rtpBase[c] = n BY <1>2, <2>1, <2>4 DEF WriteTime, Running, counterVars
    <3>2. header'.base = n /\ header'.ssrc = n
      BY <1>0, <2>1, <2>4, <3>1 DEF WriteTime, Headers
    <3> QED BY <2>1, <2>2, <3>1, <3>2 DEF Running
  <2> QED BY <2>1, <2>2, <2>3, <2>4
<1> QED BY <1>1, <1>2, <1>3, <1>4 DEF Count, Counted

\* Every step keeps CountInv.
LEMMA CountStep == Inv /\ SessionInv /\ CountInv /\ [Next]_vars => CountInv'
<1> SUFFICES ASSUME Inv, SessionInv, CountInv, [Next]_vars, NEW c \in Conns PROVE Count(c)'
  BY DEF CountInv
<1> USE DEF mainVars, sessionVars, counterVars, videoVars, netVars
<1>0. /\ setups \in [Conns -> Nat] /\ session \in [Conns -> Nat] /\ born \in [Conns -> Nat]
      /\ packets \in [Conns -> Nat] /\ reported \in [Conns -> Nat] /\ rtpBase \in [Conns -> Nat]
      /\ Count(c)
  BY DEF Inv, TypeOK, CountInv
<1>1. ASSUME UNCHANGED <<session, setups, born, wire, reports, packets, reported, rtpBase>>,
             ConnLocked(c)' <=> ConnLocked(c),
             ConnLocked(c) /\ mpc' = "counters" => mpc = "counters",
             Visiting(c)' => Visiting(c) \/ ~ConnLocked(c),
             Visiting(c)' /\ vpc' \in {"time", "send"} => Visiting(c) /\ vpc \in {"time", "send"},
             Visiting(c)' /\ vpc' = "send" => Visiting(c) /\ vpc = "send" /\ header' = header
      PROVE  Count(c)'
  BY <1>0, <1>1, CountKept
<1>2. ASSUME UNCHANGED <<session, setups, born, wire, reports, packets, reported, rtpBase>>,
             mpc \notin {"packets", "counters"}, mpc' \notin {"packets", "counters"},
             \/ UNCHANGED <<vpc, k, connections, header>>
             \/ ~Visiting(c)'
      PROVE  Count(c)'
  BY <1>1, <1>2 DEF ConnLocked, Visiting, InLoop, current
<1>3. ASSUME ~ServerLocked, vpc' = vpc PROVE ~Visiting(c)'
  BY <1>3 DEF ServerLocked, Visiting, InLoop
<1>4. ASSUME NEW d \in Conns, onAccept(d) \/ Play(d) PROVE Count(c)'
  BY <1>2, <1>4 DEF onAccept, Play, Request
<1>5. ASSUME NEW d \in Conns, Setup(d) PROVE Count(c)'
  <2>1. CASE d = c BY <1>0, <1>5, <2>1, CountSetup
  <2>2. CASE d # c
    <3>1. /\ session'[c] = session[c] /\ setups'[c] = setups[c] /\ born'[c] = born[c]
          /\ UNCHANGED <<wire, reports, packets, reported, rtpBase, vpc, k, connections, header>>
      BY <1>0, <1>5, <2>2 DEF Setup
    <3>2. ~ConnLocked(c) /\ ~ConnLocked(c)'
      BY <1>5, <2>2 DEF Setup, Request, ConnLocked
    <3>3. Visiting(c)' <=> Visiting(c) BY <3>1 DEF Visiting, InLoop, current
    <3> QED BY <1>0, <3>1, <3>2, <3>3, CountKept
  <2> QED BY <2>1, <2>2
<1>6. ASSUME NEW cs \in SUBSET Conns, CloseSockets(cs), mpc \notin {"packets", "counters"},
             mpc' \notin {"packets", "counters"},
             UNCHANGED <<wire, reports, packets, reported, rtpBase>>,
             \/ UNCHANGED <<vpc, k, connections, header>>
             \/ ~Visiting(c)'
      PROVE  Count(c)'
  <2>1. setups' = setups /\ born' = born /\ session'[c] = IF c \in cs THEN 0 ELSE session[c]
    BY <1>6 DEF CloseSockets
  <2>2. CASE session'[c] = session[c]
    <3>1. ~ConnLocked(c) /\ ~ConnLocked(c)' BY <1>6 DEF ConnLocked
    <3>2. UNCHANGED <<vpc, k, connections, header>> => (Visiting(c)' <=> Visiting(c))
      BY DEF Visiting, InLoop, current
    <3> QED BY <1>0, <1>6, <2>1, <2>2, <3>1, <3>2, CountKept
  <2>3. CASE session'[c] = 0
    <3>1. \A n \in Nat : n > setups'[c] => Unused(c, n)'
      BY <1>0, <1>6, <2>1, StaysUnused
    <3> QED BY <2>3, <3>1 DEF Count
  <2> QED BY <2>1, <2>2, <2>3
<1>7. ASSUME NEW d \in Conns, Teardown(d) \/ Disconnect(d) PROVE Count(c)'
  BY <1>6, <1>7 DEF Teardown, Disconnect, Request
<1>8. ASSUME StopRunning \/ AddObject \/ shutdownConnection PROVE Count(c)'
  BY <1>2, <1>3, <1>8 DEF StopRunning, AddObject, shutdownConnection
<1>9. ASSUME shutdownServer PROVE Count(c)'
  <2>1. connections \in Seq(Conns) BY DEF Inv, TypeOK
  <2>2. ToSet(connections) \in SUBSET Conns BY <2>1 DEF ToSet
  <2> QED BY <1>3, <1>6, <1>9, <2>2 DEF shutdownServer
<1>10. ASSUME ResetPackets \/ ResetCounters PROVE Count(c)'
  <2>1. mconn \in Conns BY <1>10 DEF Inv, MainBusyWith, ResetPackets, ResetCounters
  <2>2. CASE c = mconn
    BY <1>0, <1>10, <2>2, CountReset
  <2>3. CASE c # mconn
    <3>1. /\ UNCHANGED <<session, setups, born, wire, reports, vpc, k, connections, header>>
          /\ packets'[c] = packets[c] /\ reported'[c] = reported[c] /\ rtpBase'[c] = rtpBase[c]
      BY <1>0, <1>10, <2>1, <2>3 DEF ResetPackets, ResetCounters
    <3>2. ~ConnLocked(c) /\ ~ConnLocked(c)'
      BY <1>10, <2>3 DEF ResetPackets, ResetCounters, ConnLocked
    <3>3. Visiting(c)' <=> Visiting(c) BY <3>1 DEF Visiting, InLoop, current
    <3> QED BY <1>0, <3>1, <3>2, <3>3, CountKept
  <2> QED BY <2>2, <2>3
<1>11. ASSUME NEW f \in FrameSet, EncodedFrame(f) PROVE Count(c)'
  <2>1. ~Visiting(c)' BY <1>11 DEF EncodedFrame, Visiting, InLoop
  <2> QED BY <1>1, <1>11, <2>1 DEF EncodedFrame, ConnLocked
<1>12. ASSUME onVideoData PROVE Count(c)'
  <2>1. ~Visiting(c)' BY <1>12 DEF onVideoData, Visiting, InLoop
  <2> QED BY <1>1, <1>12, <2>1 DEF onVideoData, ConnLocked
<1>13. ASSUME NextConnection PROVE Count(c)'
  <2>1. vpc' \notin {"time", "send"} /\ UNCHANGED <<mpc, mconn, connections>>
    BY <1>13 DEF NextConnection
  <2>2. Visiting(c)' => ~ConnLocked(c)
    BY <1>13 DEF NextConnection, Visiting, InLoop, current
  <2>3. ConnLocked(c)' <=> ConnLocked(c) BY <2>1 DEF ConnLocked
  <2> QED BY <1>1, <1>13, <2>1, <2>2, <2>3 DEF NextConnection
<1>14. ASSUME NextNalu \/ BeginNalu \/ WriteSeq PROVE Count(c)'
  <2>1. /\ vpc' \notin {"time", "send"} /\ UNCHANGED <<mpc, mconn, connections>>
        /\ UNCHANGED <<session, setups, born, wire, reports, packets, reported, rtpBase>>
    BY <1>14 DEF NextNalu, BeginNalu, WriteSeq
  <2>2. Visiting(c)' => Visiting(c)
    BY <1>14 DEF NextNalu, BeginNalu, WriteSeq, Visiting, InLoop, current
  <2>3. ConnLocked(c)' <=> ConnLocked(c) BY <2>1 DEF ConnLocked
  <2> QED BY <1>1, <2>1, <2>2, <2>3
<1>15. ASSUME MapTime \/ WriteTime PROVE Count(c)'
  <2>1. CASE c = current BY <1>0, <1>15, <2>1, CountHeader
  <2>2. CASE c # current
    <3>1. InLoop BY <1>15 DEF MapTime, WriteTime, InLoop
    <3>2. current \in Conns BY <3>1, LoopFacts DEF Inv
    <3>3. rtpBase'[c] = rtpBase[c] BY <1>0, <1>15, <2>2, <3>2 DEF MapTime, WriteTime
    <3>4. UNCHANGED <<session, setups, born, wire, reports, packets, reported, mpc, mconn, k, connections>>
      BY <1>15 DEF MapTime, WriteTime
    <3>5. ~Visiting(c)' BY <2>2, <3>4 DEF Visiting, current
    <3>6. ConnLocked(c)' <=> ConnLocked(c) BY <3>4 DEF ConnLocked
    <3> QED BY <1>0, <3>3, <3>4, <3>5, <3>6, CountKept
  <2> QED BY <2>1, <2>2
<1>16. ASSUME NEW due \in BOOLEAN, sendPacket(due) PROVE Count(c)'
  <2>1. Inv' BY InvStep
  <2>2. CASE c = current BY <1>0, <1>16, <2>1, <2>2, CountSend
  <2>3. CASE c # current
    <3>1. /\ wire'[c] = wire[c] /\ reports'[c] = reports[c] /\ packets'[c] = packets[c]
          /\ reported'[c] = reported[c]
      BY <1>16, <2>3, SendEffect, ReportEffect
    <3>2. UNCHANGED <<session, setups, born, rtpBase, mpc, mconn, k, connections>>
      BY <1>16, SendEffect
    <3>3. ~Visiting(c)' BY <2>3, <3>2 DEF Visiting, current
    <3>4. ConnLocked(c)' <=> ConnLocked(c) BY <3>2 DEF ConnLocked
    <3> QED BY <1>0, <3>1, <3>2, <3>3, <3>4, CountKept
  <2> QED BY <2>2, <2>3
<1>17. CASE UNCHANGED vars
  BY <1>1, <1>17 DEF vars, Visiting, InLoop, current, ConnLocked
<1> QED BY <1>4, <1>5, <1>7, <1>8, <1>9, <1>10, <1>11, <1>12, <1>13, <1>14, <1>15,
           <1>16, <1>17 DEF Next, MainStep, VideoStep

\* The sender reports of a session add up to the packets sent in it and give the time
\* base and the source that its packets carry, although createSession sets _packets,
\* _rtpBase and the rest back one after the other while the video thread reads them
\* without a lock: for any number of sessions, frames and clients.
THEOREM ReportsMatch == Spec => []ReportsMatchStream
<1>1. Spec => []CountInv
  <2>1. Inv /\ StreamInv /\ CountInv /\ [Next]_vars => CountInv'
    BY CountStep DEF StreamInv
  <2> QED BY <2>1, CountInit, StreamInvariance, PTL DEF Spec
<1> QED BY <1>1, CountMatches, StreamInvariance, PTL

=============================================================================
