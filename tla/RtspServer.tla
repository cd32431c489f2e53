------------------------------ MODULE RtspServer ------------------------------
(***************************************************************************)
(* The RTSP server of the iOS application (RTSPServer.m,                   *)
(* RTSPClientConnection.mm).  Two threads meet here:                       *)
(*                                                                         *)
(* the main thread accepts connections, answers requests and shuts the     *)
(* server down;                                                            *)
(*                                                                         *)
(* the video thread (the read queue of AVEncoder) hands each encoded frame *)
(* to every connection, which cuts its NAL units into RTP packets.         *)
(*                                                                         *)
(* There is one lock for the server, which the video thread holds for a    *)
(* whole frame, and one per connection, which it takes to look at the      *)
(* state and again for each packet.  Between the two it reads and writes   *)
(* _bFirst, _packets, _rtpBase and _ssrc without a lock, so these reads,   *)
(* and the assignments of createSession, are steps of their own.           *)
(*                                                                         *)
(* OPTIONS, DESCRIBE and refused requests change no state.  Byte counts    *)
(* are kept like packet counts and left out.                               *)
(***************************************************************************)
EXTENDS Integers, Sequences, FiniteSets, SequencesExt

CONSTANTS
    Conns,       \* the TCP connections clients may open
    FrameSet,    \* the frames the encoder may produce: sequences of NAL units
    MaxPacket,   \* max_packet_size
    RtpHeader,   \* rtp_header_size
    SeqWrap,     \* sequence numbers are taken modulo this (2^16)
    MaxFrames,   \* bound on the number of frames
    MaxSetups    \* bound on the number of SETUP requests per connection

Nalus == [idr : BOOLEAN, length : Nat \ {0}]

MaxSingle == MaxPacket - RtpHeader     \* max_single_packet
MaxFragment == MaxSingle - 2           \* max_fragment_packet

ASSUME RtspAssumption ==
    /\ FrameSet \subseteq Seq(Nalus)
    /\ MaxPacket \in Nat /\ RtpHeader \in Nat /\ MaxFragment > 0
    /\ SeqWrap \in Nat \ {0} /\ MaxFrames \in Nat /\ MaxSetups \in Nat

VARIABLES
    \* RTSPServer and the main thread
    listening,    \* _listener is valid
    connections,  \* _connections
    mpc, mconn,   \* where the main thread is, and for which connection
    tcp,          \* tcp[c]: none, open or closed
    \* RTSPClientConnection
    state,        \* _state
    setups,       \* number of createSession calls; it names session and _ssrc
    session,      \* the session whose sockets _sRTP and _sRTCP are; 0 for nil
    port,         \* the _recvRTCP that has bound UDP port 6971
    bFirst,       \* _bFirst
    packets,      \* _packets
    reported,     \* _packetsReported
    rtpBase,      \* _rtpBase: 0, or the session in which it was drawn
    sentRTCP,     \* _sentRTCP is not nil
    \* the video thread, in onVideoData
    vpc,          \* where it is
    k, i,         \* index of the connection, index of the NAL unit
    off, cBytes,  \* position of pSource (0: not fragmented), bytes to send
    bStart,       \* no fragment of this NAL unit has been sent
    header,       \* the RTP header being written
    \* history: what clients were told and what went over the network
    client,       \* client[c]: what the answers to its requests amount to
    born,         \* the frame that was under way when the session was set up
    frames,       \* the frames encoded so far
    wire,         \* wire[c]: the RTP packets sent to c
    reports       \* reports[c]: the RTCP sender reports sent to c

mainVars == <<listening, connections, mpc, mconn, tcp>>
sessionVars == <<state, setups, session, port, client, born>>
counterVars == <<bFirst, packets, reported, rtpBase, sentRTCP>>
videoVars == <<vpc, k, i, off, cBytes, bStart, header>>
netVars == <<frames, wire, reports>>
vars == <<mainVars, sessionVars, counterVars, videoVars, netVars>>

NoConn == [kind |-> "noConn"]
Receiver(c, n) == [conn |-> c, session |-> n]

Headers == [seq : 0..(SeqWrap - 1), base : Nat, ssrc : Nat]

Packets == [session : Nat, seq : Nat, base : Nat, ssrc : Nat, frame : Nat, nalu : Nat,
            off : Nat, length : Nat, start : BOOLEAN, end : BOOLEAN, marker : BOOLEAN,
            inherited : BOOLEAN]

Reports == [session : Nat, ssrc : Nat, base : Nat, count : Int, inherited : BOOLEAN]

TypeOK ==
    /\ listening \in BOOLEAN
    /\ connections \in Seq(Conns)
    /\ mpc \in {"idle", "addObject", "packets", "counters", "removeObject", "shutdownServer"}
    /\ mconn \in Conns \cup {NoConn}
    /\ tcp \in [Conns -> {"none", "open", "closed"}]
    /\ state \in [Conns -> {"ServerIdle", "Setup", "Playing"}]
    /\ setups \in [Conns -> Nat] /\ session \in [Conns -> Nat]
    /\ port \in [conn : Conns, session : Nat] \cup {NoConn}
    /\ bFirst \in [Conns -> BOOLEAN]
    /\ packets \in [Conns -> Nat] /\ reported \in [Conns -> Nat]
    /\ rtpBase \in [Conns -> Nat]
    /\ sentRTCP \in [Conns -> BOOLEAN]
    /\ vpc \in {"idle", "lock", "connection", "nalu", "seq", "map", "time", "send"}
    /\ k \in Nat /\ i \in Nat /\ off \in Nat /\ cBytes \in Nat
    /\ bStart \in BOOLEAN
    /\ header \in Headers
    /\ client \in [Conns -> {"new", "setup", "playing", "torn"}]
    /\ born \in [Conns -> Nat]
    /\ frames \in Seq(FrameSet)
    /\ wire \in [Conns -> Seq(Packets)]
    /\ reports \in [Conns -> Seq(Reports)]

Init ==
    /\ listening = TRUE
    /\ connections = <<>>
    /\ mpc = "idle" /\ mconn = NoConn
    /\ tcp = [c \in Conns |-> "none"]
    /\ state = [c \in Conns |-> "ServerIdle"]
    /\ setups = [c \in Conns |-> 0] /\ session = [c \in Conns |-> 0]
    /\ port = NoConn
    /\ bFirst = [c \in Conns |-> FALSE]
    /\ packets = [c \in Conns |-> 0] /\ reported = [c \in Conns |-> 0]
    /\ rtpBase = [c \in Conns |-> 0]
    /\ sentRTCP = [c \in Conns |-> FALSE]
    /\ vpc = "idle"
    /\ k = 0 /\ i = 0 /\ off = 0 /\ cBytes = 0
    /\ bStart = FALSE
    /\ header = [seq |-> 0, base |-> 0, ssrc |-> 0]
    /\ client = [c \in Conns |-> "new"]
    /\ born = [c \in Conns |-> 0]
    /\ frames = <<>>
    /\ wire = [c \in Conns |-> <<>>]
    /\ reports = [c \in Conns |-> <<>>]

\* The frame being sent, the connection it is sent to, and the NAL unit.
frameNo == Len(frames)
frame == frames[frameNo]
current == connections[k]
nalu == frame[i]

InLoop == vpc \in {"nalu", "seq", "map", "time", "send"}

-----------------------------------------------------------------------------
(* The locks.  The main thread takes the server's lock for one step only.   *)

ServerLocked == vpc \notin {"idle", "lock"}

\* Mutant of ConnLocked: shutdownConnection is called with the lock held.
ConnLockedLonger(c) == mpc \in {"packets", "counters", "removeObject"} /\ mconn = c

ConnLocked(c) == mpc \in {"packets", "counters"} /\ mconn = c

-----------------------------------------------------------------------------
(* The main thread.                                                         *)

onAccept(c) ==
    /\ mpc = "idle" /\ listening
    /\ tcp[c] = "none"
    /\ tcp' = [tcp EXCEPT ![c] = "open"]
    /\ mpc' = "addObject" /\ mconn' = c
    /\ UNCHANGED <<listening, connections, sessionVars, counterVars, videoVars, netVars>>

AddObject ==
    /\ mpc = "addObject"
    /\ ~ServerLocked
    /\ connections' = Append(connections, mconn)
    /\ mpc' = "idle" /\ mconn' = NoConn
    /\ UNCHANGED <<listening, tcp, sessionVars, counterVars, videoVars, netVars>>

\* The main thread is in its run loop and c has sent a request.
Request(c) == mpc = "idle" /\ tcp[c] = "open"

\* SETUP with a usable transport: createSession creates the sockets -- whatever
\* was in the variables before -- and draws session and ssrc.  Binding port 6971
\* fails silently while another socket holds it.
Setup(c) ==
    /\ Request(c)
    /\ setups[c] < MaxSetups
    /\ setups' = [setups EXCEPT ![c] = @ + 1]
    /\ session' = [session EXCEPT ![c] = setups[c] + 1]
    /\ port' = IF port = NoConn THEN Receiver(c, setups[c] + 1) ELSE port
    /\ state' = [state EXCEPT ![c] = "Setup"]
    /\ client' = [client EXCEPT ![c] = "setup"]
    /\ born' = [born EXCEPT ![c] = IF InLoop /\ current = c THEN frameNo ELSE 0]
    /\ mpc' = "packets" /\ mconn' = c
    /\ UNCHANGED <<listening, connections, tcp, counterVars, videoVars, netVars>>

ResetPackets ==
    /\ mpc = "packets"
    /\ packets' = [packets EXCEPT ![mconn] = 0]
    /\ mpc' = "counters"
    /\ UNCHANGED <<listening, connections, mconn, tcp, sessionVars, videoVars, netVars>>
    /\ UNCHANGED <<bFirst, reported, rtpBase, sentRTCP>>

ResetCounters ==
    /\ mpc = "counters"
    /\ rtpBase' = [rtpBase EXCEPT ![mconn] = 0]
    /\ sentRTCP' = [sentRTCP EXCEPT ![mconn] = FALSE]
    /\ reported' = [reported EXCEPT ![mconn] = 0]
    /\ mpc' = "idle" /\ mconn' = NoConn
    /\ UNCHANGED <<listening, connections, tcp, sessionVars, videoVars, netVars>>
    /\ UNCHANGED <<bFirst, packets>>

\* Mutant of Play: _bFirst is not set.
PlayAnywhere(c) ==
    /\ Request(c)
    /\ state[c] = "Setup"
    /\ state' = [state EXCEPT ![c] = "Playing"]
    /\ client' = [client EXCEPT ![c] = "playing"]
    /\ UNCHANGED <<mainVars, setups, session, port, born, counterVars, videoVars, netVars>>

\* PLAY; in any other state the answer is "Wrong state".
Play(c) ==
    /\ Request(c)
    /\ state[c] = "Setup"
    /\ state' = [state EXCEPT ![c] = "Playing"]
    /\ bFirst' = [bFirst EXCEPT ![c] = TRUE]
    /\ client' = [client EXCEPT ![c] = "playing"]
    /\ UNCHANGED <<mainVars, setups, session, port, born, videoVars, netVars>>
    /\ UNCHANGED <<packets, reported, rtpBase, sentRTCP>>

\* Mutant of CloseSockets: the variables keep the sockets.
CloseReceiverOnly(cs) ==
    /\ port' = IF \E c \in cs : port = Receiver(c, session[c]) THEN NoConn ELSE port
    /\ client' = [c \in Conns |-> IF c \in cs THEN "torn" ELSE client[c]]
    /\ UNCHANGED <<session, state, setups, born>>

\* tearDown of the connections cs; _state stays as it is.
CloseSockets(cs) ==
    /\ session' = [c \in Conns |-> IF c \in cs THEN 0 ELSE session[c]]
    /\ port' = IF \E c \in cs : port = Receiver(c, session[c]) THEN NoConn ELSE port
    /\ client' = [c \in Conns |-> IF c \in cs THEN "torn" ELSE client[c]]
    /\ UNCHANGED <<state, setups, born>>

Teardown(c) ==
    /\ Request(c)
    /\ CloseSockets({c})
    /\ UNCHANGED <<mainVars, counterVars, videoVars, netVars>>

\* The client has closed the connection: onSocketData with no data.
Disconnect(c) ==
    /\ Request(c)
    /\ CloseSockets({c})
    /\ tcp' = [tcp EXCEPT ![c] = "closed"]
    /\ mpc' = "removeObject" /\ mconn' = c
    /\ UNCHANGED <<listening, connections, counterVars, videoVars, netVars>>

shutdownConnection ==
    /\ mpc = "removeObject"
    /\ ~ServerLocked
    /\ \E j \in 1..Len(connections) :
          connections[j] = mconn /\ connections' = RemoveAt(connections, j)
    /\ mpc' = "idle" /\ mconn' = NoConn
    /\ UNCHANGED <<listening, tcp, sessionVars, counterVars, videoVars, netVars>>

\* stopRunning has been called: the main thread waits for the server's lock.
StopRunning ==
    /\ mpc = "idle" /\ listening
    /\ mpc' = "shutdownServer"
    /\ UNCHANGED <<listening, connections, mconn, tcp>>
    /\ UNCHANGED <<sessionVars, counterVars, videoVars, netVars>>

shutdownServer ==
    /\ mpc = "shutdownServer"
    /\ ~ServerLocked
    /\ CloseSockets(ToSet(connections))
    /\ tcp' = [c \in Conns |-> IF c \in ToSet(connections) THEN "closed" ELSE tcp[c]]
    /\ connections' = <<>>
    /\ listening' = FALSE
    /\ mpc' = "idle"
    /\ UNCHANGED <<mconn, counterVars, videoVars, netVars>>

-----------------------------------------------------------------------------
(* The video thread: the loop over connections and NAL units.               *)

\* The encoder's output block: nothing is done while nobody is connected.
EncodedFrame(f) ==
    /\ vpc = "idle"
    /\ frameNo < MaxFrames
    /\ frames' = Append(frames, f)
    /\ vpc' = IF connections = <<>> THEN "idle" ELSE "lock"
    /\ UNCHANGED <<k, i, off, cBytes, bStart, header, wire, reports>>
    /\ UNCHANGED <<mainVars, sessionVars, counterVars>>

onVideoData ==
    /\ vpc = "lock"
    /\ vpc' = "connection"
    /\ k' = 1
    /\ UNCHANGED <<i, off, cBytes, bStart, header, mainVars, sessionVars, counterVars, netVars>>

NextConnection ==
    /\ vpc = "connection"
    /\ \/ /\ k > Len(connections)
          /\ vpc' = "idle"
          /\ UNCHANGED <<k, i>>
       \/ /\ k <= Len(connections)
          /\ ~ConnLocked(current)
          /\ state[current] # "Playing"
          /\ k' = k + 1
          /\ UNCHANGED <<vpc, i>>
       \/ /\ k <= Len(connections)
          /\ ~ConnLocked(current)
          /\ state[current] = "Playing"
          /\ i' = 1
          /\ vpc' = "nalu"
          /\ UNCHANGED k
    /\ UNCHANGED <<off, cBytes, bStart, header, mainVars, sessionVars, counterVars, netVars>>

\* The NAL units are done, or the next one is skipped because playback has not
\* started and it is no IDR slice.
NextNalu ==
    /\ vpc = "nalu"
    /\ \/ /\ i > Len(frame)
          /\ vpc' = "connection"
          /\ k' = k + 1
          /\ UNCHANGED i
       \/ /\ i <= Len(frame)
          /\ bFirst[current] /\ ~nalu.idr
          /\ i' = i + 1
          /\ UNCHANGED <<vpc, k>>
    /\ UNCHANGED <<off, cBytes, bStart, header, mainVars, sessionVars, counterVars, netVars>>

\* Mutant of Fits: a NAL unit that fits into a fragment is fragmented.
FitsFragment(n) == n < MaxFragment

Fits(n) == n < MaxSingle

BeginNalu ==
    /\ vpc = "nalu"
    /\ i <= Len(frame)
    /\ bFirst[current] => nalu.idr
    /\ bFirst' = [bFirst EXCEPT ![current] = FALSE]
    /\ IF Fits(nalu.length)
       THEN off' = 0 /\ cBytes' = nalu.length /\ bStart' = FALSE
       ELSE off' = 1 /\ cBytes' = nalu.length - 1 /\ bStart' = TRUE
    /\ vpc' = "seq"
    /\ UNCHANGED <<k, i, header, mainVars, sessionVars, netVars>>
    /\ UNCHANGED <<packets, reported, rtpBase, sentRTCP>>

-----------------------------------------------------------------------------
(* writeHeader, without any lock, and sendPacket.                           *)

\* Mutant of WriteSeq: numbers start again with each NAL unit.
WriteSeqOfNalu ==
    /\ vpc = "seq"
    /\ header' = [header EXCEPT !.seq = off % SeqWrap]
    /\ vpc' = "map"
    /\ UNCHANGED <<k, i, off, cBytes, bStart, mainVars, sessionVars, counterVars, netVars>>

\* Mutant of WriteSeq: the number is not cut to 16 bits.
WriteSeqUnmasked ==
    /\ vpc = "seq"
    /\ header' = [header EXCEPT !.seq = packets[current]]
    /\ vpc' = "map"
    /\ UNCHANGED <<k, i, off, cBytes, bStart, mainVars, sessionVars, counterVars, netVars>>

WriteSeq ==
    /\ vpc = "seq"
    /\ header' = [header EXCEPT !.seq = packets[current] % SeqWrap]
    /\ vpc' = "map"
    /\ UNCHANGED <<k, i, off, cBytes, bStart, mainVars, sessionVars, counterVars, netVars>>

MapTime ==
    /\ vpc = "map"
    /\ rtpBase' = [rtpBase EXCEPT ![current] = IF @ = 0 THEN setups[current] ELSE @]
    /\ vpc' = "time"
    /\ UNCHANGED <<k, i, off, cBytes, bStart, header, mainVars, sessionVars, netVars>>
    /\ UNCHANGED <<bFirst, packets, reported, sentRTCP>>

WriteTime ==
    /\ vpc = "time"
    /\ header' = [header EXCEPT !.base = rtpBase[current], !.ssrc = setups[current]]
    /\ vpc' = "send"
    /\ UNCHANGED <<k, i, off, cBytes, bStart, mainVars, sessionVars, counterVars, netVars>>

cThis == IF off > 0 /\ cBytes >= MaxFragment THEN MaxFragment ELSE cBytes

Packet == [session |-> session[current], seq |-> header.seq, base |-> header.base,
           ssrc    |-> header.ssrc,
           frame   |-> frameNo, nalu |-> i, off |-> off, length |-> cThis,
           start   |-> off > 0 /\ bStart,
           end     |-> off > 0 /\ ~bStart /\ cThis = cBytes,
           marker  |-> i = Len(frame) /\ cThis = cBytes,
           inherited |-> born[current] = frameNo]

\* Mutant of Report: the interval is not restarted.
ReportTotal(due) ==
    IF ~sentRTCP[current] \/ due
    THEN /\ reports' = IF session[current] = 0 THEN reports
                       ELSE [reports EXCEPT ![current] = Append(@,
                                [session |-> session[current], ssrc |-> setups[current],
                                 base |-> rtpBase[current],
                                 count |-> packets[current] + 1,
                                 inherited |-> born[current] = frameNo])]
         /\ sentRTCP' = [sentRTCP EXCEPT ![current] = TRUE]
         /\ reported' = [reported EXCEPT ![current] = packets[current] + 1]
    ELSE UNCHANGED <<reports, sentRTCP, reported>>

\* A sender report goes with the first packet, and with one when a second has
\* passed since the last report (due).
Report(due) ==
    IF ~sentRTCP[current] \/ due
    THEN /\ reports' = IF session[current] = 0 THEN reports
                       ELSE [reports EXCEPT ![current] = Append(@,
                                [session |-> session[current], ssrc |-> setups[current],
                                 base |-> rtpBase[current],
                                 count |-> packets[current] + 1 - reported[current],
                                 inherited |-> born[current] = frameNo])]
         /\ sentRTCP' = [sentRTCP EXCEPT ![current] = TRUE]
         /\ reported' = [reported EXCEPT ![current] = packets[current] + 1]
    ELSE UNCHANGED <<reports, sentRTCP, reported>>

sendPacket(due) ==
    /\ vpc = "send"
    /\ ~ConnLocked(current)
    /\ wire' = IF session[current] = 0 THEN wire
               ELSE [wire EXCEPT ![current] = Append(@, Packet)]
    /\ packets' = [packets EXCEPT ![current] = @ + 1]
    /\ Report(due)
    /\ cBytes' = cBytes - cThis
    /\ off' = off + cThis
    /\ bStart' = FALSE
    /\ IF cThis = cBytes
       THEN i' = i + 1 /\ vpc' = "nalu"
       ELSE vpc' = "seq" /\ UNCHANGED i
    /\ UNCHANGED <<k, header, mainVars, sessionVars, bFirst, rtpBase, frames>>

-----------------------------------------------------------------------------

MainStep ==
    AddObject \/ ResetPackets \/ ResetCounters \/ shutdownConnection \/ shutdownServer

VideoStep ==
    \/ onVideoData \/ NextConnection \/ NextNalu \/ BeginNalu
    \/ WriteSeq \/ MapTime \/ WriteTime
    \/ \E due \in BOOLEAN : sendPacket(due)

Next ==
    \/ \E c \in Conns : onAccept(c) \/ Setup(c) \/ Play(c) \/ Teardown(c) \/ Disconnect(c)
    \/ StopRunning
    \/ MainStep
    \/ \E f \in FrameSet : EncodedFrame(f)
    \/ VideoStep

\* Both threads run.  Nothing makes clients send requests, frames arrive or the
\* user stop the server.
Fairness == WF_vars(MainStep) /\ WF_vars(VideoStep)

Spec == Init /\ [][Next]_vars /\ Fairness

-----------------------------------------------------------------------------
(* Properties.                                                              *)

\* What p says of itself agrees with the NAL unit it is cut from.
WellFormed(fs, p) ==
    LET n == fs[p.frame][p.nalu].length
    IN /\ p.length > 0 /\ p.off + p.length <= n
       /\ p.off = 0 => p.length = n /\ RtpHeader + p.length <= MaxPacket
       /\ p.off > 0 => ~(p.start /\ p.end) /\ RtpHeader + 2 + p.length <= MaxPacket
       /\ p.start <=> p.off = 1
       /\ p.end <=> p.off > 0 /\ p.off + p.length = n
       /\ p.marker <=> p.nalu = Len(fs[p.frame]) /\ p.off + p.length = n

\* Every packet holds a whole NAL unit or a proper part of one, does not exceed
\* max_packet_size, and says so: only the first fragment has the start bit, only
\* the last the end bit, none has both, and the marker is on the last packet of
\* the frame (the arithmetic of onVideoData, at the boundaries 1186 to 1188).
PacketsWellFormed ==
    \A c \in Conns : \A j \in 1..Len(wire[c]) : WellFormed(frames, wire[c][j])

\* The strengthening that makes PacketsWellFormed inductive: what is left of the
\* NAL unit being sent, and that the connections a frame is sent to stay in the
\* list while the video thread holds the server's lock.
MainBusyWith ==
    mpc \in {"addObject", "packets", "counters", "removeObject"} => mconn \in Conns

LoopInv ==
    /\ vpc # "idle" => frameNo > 0
    /\ ServerLocked => k > 0
    /\ InLoop => k <= Len(connections) /\ i > 0
    /\ vpc \in {"seq", "map", "time", "send"} =>
          /\ i <= Len(frame)
          /\ cBytes > 0 /\ off + cBytes = nalu.length
          /\ off = 0 => Fits(nalu.length)
          /\ off > 0 => ~Fits(nalu.length) /\ (bStart <=> off = 1)

Known(fs, p) == p.frame \in 1..Len(fs) /\ p.nalu \in 1..Len(fs[p.frame])

PacketsKnown ==
    \A c \in Conns : \A j \in 1..Len(wire[c]) : Known(frames, wire[c][j])

\* The inductive invariant.
Inv == TypeOK /\ MainBusyWith /\ LoopInv /\ PacketsKnown /\ PacketsWellFormed

\* p and q are sent one after the other in one session.
Successive(c, j) ==
    j < Len(wire[c]) /\ wire[c][j].session = wire[c][j + 1].session

Complete(p) == p.off + p.length = frames[p.frame][p.nalu].length

\* What a receiver needs to put fragments together: after a packet that does not
\* complete its NAL unit comes the rest of that unit and nothing else, and the
\* sequence numbers are consecutive -- in spite of requests on the main thread.
\* Only the first packet of a session that was set up in the middle of a frame
\* can carry a number of the session before.
StreamContiguous ==
    \A c \in Conns : \A j \in 1..Len(wire[c]) : Successive(c, j) =>
        LET p == wire[c][j]
            q == wire[c][j + 1]
        IN /\ IF Complete(p)
              THEN q.off <= 1 /\ <<q.frame, q.nalu>> # <<p.frame, p.nalu>>
              ELSE <<q.frame, q.nalu, q.off>> = <<p.frame, p.nalu, p.off + p.length>>
           /\ \/ q.seq = (p.seq + 1) % SeqWrap
              \/ p.inherited /\ (j > 1 => wire[c][j - 1].session # p.session)

\* Playback of a session begins with an IDR slice, unless the session was set up
\* while a frame was being sent to the same client.
StartsAtIdr ==
    \A c \in Conns : \A j \in 1..Len(wire[c]) :
        LET p == wire[c][j]
        IN (j = 1 \/ wire[c][j - 1].session # p.session) /\ ~p.inherited
               => frames[p.frame][p.nalu].idr /\ p.off <= 1

\* A client is sent packets only between PLAY and TEARDOWN (or disconnecting, or
\* shutdownServer).  onVideoData looks at the state once per frame, so the rest of
\* a frame that was being sent may still follow a second SETUP; it never follows a
\* TEARDOWN, because sendPacket looks at the socket under the lock.
SentOnlyWhilePlaying ==
    [][\A c \in Conns : wire'[c] # wire[c] =>
           \/ client[c] = "playing"
           \/ client[c] = "setup" /\ born[c] = frameNo]_vars

\* What the reports of s about session n add up to.
Total(s, n) ==
    LET sum[m \in 0..Len(s)] ==
            IF m = 0 THEN 0
            ELSE sum[m - 1] + (IF s[m].session = n THEN s[m].count ELSE 0)
    IN sum[Len(s)]

SumOf(c, n) == Total(reports[c], n)

SentIn(c, n) == Cardinality({j \in 1..Len(wire[c]) : wire[c][j].session = n})

\* The reports of a session add up to the packets sent in it, up to the last
\* report, and each gives the time base that the packets use; sessions set up in
\* the middle of a frame are the exception.
ReportsMatchStream ==
    \A c \in Conns : session[c] # 0 /\ born[c] = 0 /\ ~ConnLocked(c) =>
        /\ SumOf(c, session[c]) = reported[c]
        /\ SentIn(c, session[c]) = packets[c]
        /\ \A a \in 1..Len(reports[c]), j \in 1..Len(wire[c]) :
              LET r == reports[c][a]
                  p == wire[c][j]
              IN r.session = session[c] /\ p.session = session[c] =>
                     r.base # 0 /\ r.base = p.base /\ r.ssrc = p.ssrc

\* shutdownServer leaves nothing behind: no connection is open, no session has a
\* socket, although the video thread may be about to send a frame.
ShutdownComplete ==
    ~listening => \A c \in Conns : tcp[c] # "open" /\ session[c] = 0

\* The two locks are taken in one order only: the frame under way is sent, and
\* with it the server's lock is released.
FrameIsSent == vpc # "idle" ~> vpc = "idle"

=============================================================================
