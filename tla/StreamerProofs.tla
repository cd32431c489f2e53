---------------------------- MODULE StreamerProofs ----------------------------
(***************************************************************************)
(* Proofs about Streamer, for any number of connections, of camera frames, *)
(* of fragments to a frame and of chunks in the file.                      *)
(***************************************************************************)
EXTENDS Streamer, SequenceTheorems, TLAPS

-----------------------------------------------------------------------------
(* What is on a wire, and what is there behind a close message.             *)

Items == {Close} \cup [from : Threads, no : Nat, part : Nat, of : Nat]

Elems(s) == {s[i] : i \in DOMAIN s}
LateItems(s) == {s[i] : i \in {j \in DOMAIN s : \E k \in 1..(j - 1) : s[k] = Close}}

Has(c, t) == \E x \in Elems(wire[c]) : x.from = t

-----------------------------------------------------------------------------
(* The inductive invariant, in layers.                                      *)

WireType == wire \in [Conns -> Seq(Items)]

Active(t) == sending[t].pc \in {"submit", "fragments"}

\* A connection is opened by one handler, which waits for it: until then nobody
\* else knows it and nothing is written to it.
Phases ==
    /\ \A c \in Conns :
          /\ socket[c] = "none" <=> c > opened
          /\ socket[c] \in {"none", "connecting"} => wire[c] = <<>>
          /\ socket[c] = "connecting" => mpc = "semaphore" /\ mconn = c /\ semaphore[c] = 0
          /\ semaphore[c] > 0 => mpc = "semaphore" /\ mconn = c
    /\ mconn <= opened /\ serverConnectionInput <= opened
    /\ \A t \in Threads : Active(t) => sending[t].conn \in 1..opened
    /\ mpc = "semaphore" =>
          /\ serverConnectionInput # mconn
          /\ \A t \in Threads : Active(t) => sending[t].conn # mconn
          /\ \A t \in Threads : ~Has(mconn, t)

\* Which handler is where, and what it has done to the capture session.
Control ==
    /\ button = "none" <=> mpc = "idle"
    /\ button = "start" => mpc = "semaphore" /\ ~capturing
    /\ button = "stop" =>
          /\ mpc \notin {"semaphore", "read"}
          /\ capturing /\ ~running /\ mconn = serverConnectionInput
    /\ running => capturing \/ button = "start"
    /\ sending[Main].pc # "input"
    /\ Active(Main) => mpc = "read" /\ sending[Main].conn = mconn
    /\ Active(Camera) => sending[Camera].no = frames

\* Once a close message is on its way the connection is no longer open.
Closed(c) == readystate[c] \in {"Closing", "Closed"}
ClosePhase ==
    /\ mpc \in {"sendClose", "markClosing", "stopped"} => Closed(mconn)
    /\ \A c \in Conns : Close \in Elems(wire[c]) => Closed(c)

Core == TypeOK /\ WireType /\ Phases /\ Control /\ ClosePhase

\* A thread in the middle of a message goes on with the message it has already
\* written behind the close, if it has written any.
LateInv ==
    \A c \in Conns : \A x \in LateItems(wire[c]) :
        /\ \A y \in LateItems(wire[c]) : x.from = y.from => x.no = y.no
        /\ \A t \in Threads :
              sending[t].pc = "fragments" /\ sending[t].conn = c /\ x.from = t => x.no = sending[t].no

\* An open connection that has not been told to close is being captured to, is in
\* the hands of a handler, or was replaced.
LeftOpen(c) == socket[c] = "up" /\ Close \notin Elems(wire[c])
OpenInv ==
    /\ \A c \in Conns : LeftOpen(c) =>
          \/ c \in replaced
          \/ capturing /\ c = serverConnectionInput
          \/ c = mconn /\ mpc \in {"semaphore", "read", "close", "sendClose"}
    /\ mpc \in {"markClosing", "stopped"} => ~LeftOpen(mconn)

\* While the file is sent no frame is captured, so that the camera has one frame at
\* most for that connection; once the connection closes, none is begun.
Feeds(c) == mconn = c /\ button = "predef" /\ mpc # "semaphore"
StreamInv ==
    replaced = {} =>
        /\ button = "predef" /\ mpc # "semaphore" => ~running
        /\ \A c \in Conns :
              /\ Has(c, Main) => Feeds(c) \/ Closed(c)
              /\ Has(c, Main) \/ Feeds(c) =>
                    \A x, y \in Elems(wire[c]) :
                        x.from = Camera /\ y.from = Camera => x.no = y.no
              /\ \/ Feeds(c)
                 \/ Has(c, Main) /\ sending[Camera].pc = "fragments" /\ sending[Camera].conn = c
                 => \A x \in Elems(wire[c]) : x.from = Camera => x.no = frames

-----------------------------------------------------------------------------
(* Facts about the wires.                                                   *)

\* Nothing is on an empty wire.
LEMMA EmptyWire == Elems(<<>>) = {} /\ LateItems(<<>>) = {}
<1>1. DOMAIN <<>> = {} OBVIOUS
<1> QED BY <1>1 DEF Elems, LateItems

\* What is written is added, and is late if there is a close before it.
LEMMA AppendWire ==
  ASSUME NEW s \in Seq(Items), NEW f \in Items
  PROVE  /\ Append(s, f) \in Seq(Items)
         /\ Elems(Append(s, f)) = Elems(s) \cup {f}
         /\ LateItems(Append(s, f)) =
               IF Close \in Elems(s) THEN LateItems(s) \cup {f} ELSE LateItems(s)
<1> DEFINE a == Append(s, f)
           L(z, j) == \E k \in 1..(j - 1) : z[k] = Close
<1>1. /\ a \in Seq(Items)
      /\ Len(a) = Len(s) + 1
      /\ \A i \in 1..Len(s) : a[i] = s[i]
      /\ a[Len(s) + 1] = f
  BY AppendProperties
<1>2. DOMAIN s = 1..Len(s) /\ DOMAIN a = 1..(Len(s) + 1) /\ Len(s) \in Nat
  BY <1>1
<1> HIDE DEF a
<1>3. Elems(a) = Elems(s) \cup {f}
  BY <1>1, <1>2 DEF Elems
<1>4. \A j \in 1..Len(s) : L(a, j) <=> L(s, j)
  <2> TAKE j \in 1..Len(s)
  <2>1. \A k \in 1..(j - 1) : k \in 1..Len(s)
    BY <1>2
  <2> QED BY <1>1, <2>1
<1>5. L(a, Len(s) + 1) <=> Close \in Elems(s)
  <2>1. 1..((Len(s) + 1) - 1) = 1..Len(s)
    BY <1>2
  <2> QED BY <1>1, <1>2, <2>1 DEF Elems
<1>6. /\ LateItems(a) = {a[i] : i \in {j \in 1..(Len(s) + 1) : L(a, j)}}
      /\ LateItems(s) = {s[i] : i \in {j \in 1..Len(s) : L(s, j)}}
  BY <1>2 DEF LateItems
<1> HIDE DEF L
<1>7. \A j : j \in 1..(Len(s) + 1) <=> j \in 1..Len(s) \/ j = Len(s) + 1
  BY <1>2
<1>8. LateItems(a) = IF Close \in Elems(s) THEN LateItems(s) \cup {f} ELSE LateItems(s)
  <2>1. ASSUME NEW x PROVE x \in LateItems(s) <=> \E i \in 1..Len(s) : L(s, i) /\ x = s[i]
    BY <1>6
  <2>2. ASSUME NEW x PROVE x \in LateItems(a) <=> \E i \in 1..(Len(s) + 1) : L(a, i) /\ x = a[i]
    BY <1>6
  <2>3. ASSUME NEW x PROVE x \in LateItems(a) <=> x \in LateItems(s) \/ (x = f /\ Close \in Elems(s))
    BY <1>1, <1>4, <1>5, <1>7, <2>1, <2>2
  <2> QED BY <2>3
<1> QED BY <1>1, <1>3, <1>8 DEF a

\* The effect of writeData on all wires.
LEMMA WriteEffect ==
  ASSUME NEW c \in Conns, NEW f \in Items, WireType, wire' = Written(c, f)
  PROVE  /\ WireType'
         /\ \A x \in Conns :
              /\ x # c \/ socket[c] # "up" => wire'[x] = wire[x]
              /\ x = c /\ socket[c] = "up" =>
                    /\ Elems(wire'[x]) = Elems(wire[x]) \cup {f}
                    /\ LateItems(wire'[x]) = IF Close \in Elems(wire[x])
                                             THEN LateItems(wire[x]) \cup {f}
                                             ELSE LateItems(wire[x])
<1>1. CASE socket[c] = "up"
  <2>1. wire' = [wire EXCEPT ![c] = Append(wire[c], f)]
    BY <1>1 DEF Written
  <2>2. wire[c] \in Seq(Items)
    BY DEF WireType
  <2> HIDE DEF Conns, Items
  <2>3. wire'[c] = Append(wire[c], f) /\ \A x \in Conns \ {c} : wire'[x] = wire[x]
    BY <2>1 DEF WireType
  <2>4. WireType'
    BY <2>1, <2>2, AppendWire DEF WireType
  <2>5. /\ Elems(wire'[c]) = Elems(wire[c]) \cup {f}
        /\ LateItems(wire'[c]) = IF Close \in Elems(wire[c])
                                 THEN LateItems(wire[c]) \cup {f}
                                 ELSE LateItems(wire[c])
    BY <2>2, <2>3, AppendWire, ZenonT(30)
  <2> QED BY <1>1, <2>3, <2>4, <2>5
<1>2. CASE socket[c] # "up"
  BY <1>2 DEF Written, WireType
<1> QED BY <1>1, <1>2

\* A fragment is no close message, and names its thread and its message.
LEMMA FragmentItem ==
  ASSUME NEW t \in Threads, NEW x \in SendStates
  PROVE  /\ Fragment(t, x.no, x.part, x.of) \in Items
         /\ Fragment(t, x.no, x.part, x.of) # Close
         /\ Fragment(t, x.no, x.part, x.of).from = t
         /\ Fragment(t, x.no, x.part, x.of).no = x.no
<1>1. x.no \in Nat /\ x.part \in Nat
  BY DEF SendStates
<1>2. x.of \in CameraParts \cup {0, 1}
  BY DEF SendStates
<1>3. x.of \in Nat
  <2>1. \A y \in CameraParts : y \in Nat BY StreamerAssumption
  <2>2. x.of \in CameraParts \/ x.of = 0 \/ x.of = 1 BY <1>2
  <2> QED BY <2>1, <2>2
<1>4. PICK n \in Nat, i \in Nat, k \in Nat : x.no = n /\ x.part = i /\ x.of = k
  BY <1>1, <1>3
<1>5. [from |-> t, no |-> n, part |-> i, of |-> k]
         \in [from : Threads, no : Nat, part : Nat, of : Nat]
  OBVIOUS
<1>6. Fragment(t, x.no, x.part, x.of) = [from |-> t, no |-> n, part |-> i, of |-> k]
  BY <1>4 DEF Fragment
<1>7. Close.from \notin Threads
  BY DEF Close, Threads, Main, Camera
<1> QED BY <1>4, <1>5, <1>6, <1>7 DEF Items

\* What is on a wire has a sender: a thread, or the close message.
LEMMA WireItems ==
  ASSUME WireType, NEW c \in Conns
  PROVE  /\ Elems(wire[c]) \subseteq Items
         /\ LateItems(wire[c]) \subseteq Elems(wire[c])
         /\ LateItems(wire[c]) # {} => Close \in Elems(wire[c])
         /\ \A x \in Items : x.from \notin Threads <=> x = Close
         /\ \A x \in Items : x.from = "close" => x.no = 0
<1>1. wire[c] \in Seq(Items)
  BY DEF WireType
<1>2. \A x \in Items : (x.from \notin Threads <=> x = Close) /\ (x.from = "close" => x.no = 0)
  BY DEF Items, Close, Threads, Main, Camera
<1>3. Elems(wire[c]) \subseteq Items
  <2>1. \A i \in DOMAIN wire[c] : wire[c][i] \in Items
    BY <1>1
  <2> QED BY <2>1 DEF Elems
<1>4. LateItems(wire[c]) \subseteq Elems(wire[c])
  BY DEF Elems, LateItems
<1>5. LateItems(wire[c]) # {} => Close \in Elems(wire[c])
  <2>1. DOMAIN wire[c] = 1..Len(wire[c]) /\ Len(wire[c]) \in Nat
    BY <1>1
  <2>2. ASSUME NEW j \in DOMAIN wire[c], NEW k \in 1..(j - 1) PROVE k \in DOMAIN wire[c]
    BY <2>1
  <2> QED BY <2>2 DEF Elems, LateItems
<1> QED BY <1>2, <1>3, <1>4, <1>5

-----------------------------------------------------------------------------
(* The core of the invariant.                                               *)

\* The parts of the core that a step which writes nothing can only disturb
\* through other variables.
LEMMA WireSame ==
  ASSUME UNCHANGED wire
  PROVE  /\ WireType' <=> WireType
         /\ \A c \in Conns, t \in Threads : Has(c, t)' <=> Has(c, t)
BY DEF WireType, Has

\* A new message, or the rest of one, keeps the other thread as it is.
LEMMA SendCore == \A t \in Threads : Core /\ Sends(t) => Core'
<1> SUFFICES ASSUME NEW t \in Threads, Core, Sends(t) PROVE Core'
  OBVIOUS
<1> USE DEF Core
<1> DEFINE s == sending[t]
<1>t. /\ sending \in [Threads -> SendStates] /\ s \in SendStates
      /\ UNCHANGED <<mainVars, viewVars, frames, opened, wsVars, socket, serverClose>>
  BY DEF Sends, Submit, SendFragment, TypeOK, netVars
<1>1. /\ sending'[t] \in SendStates
      /\ sending' = [sending EXCEPT ![t] = sending'[t]]
      /\ sending'[t].pc \in {"idle", "fragments"}
      /\ Active(t)
      /\ sending'[t].pc = "fragments" => sending'[t].conn = s.conn /\ sending'[t].no = s.no
  <2>1. CASE Submit(t)
    BY <1>t, <2>1 DEF Submit, SendStates, NotSending, Nil, Active
  <2>2. CASE SendFragment(t)
    BY <1>t, <2>2 DEF SendFragment, SendStates, NotSending, Nil, Active
  <2> QED BY <2>1, <2>2 DEF Sends
<1>2. s.conn \in Conns /\ s.conn <= opened /\ opened \in Nat
  BY <1>1, StreamerAssumption DEF Phases, TypeOK, Conns
<1>3. /\ WireType'
      /\ \A c \in Conns, u \in Threads : Has(c, u)' => Has(c, u) \/ c = s.conn
      /\ \A c \in Conns : Close \in Elems(wire'[c]) => Close \in Elems(wire[c])
      /\ \A c \in Conns : socket[c] # "up" => wire'[c] = wire[c]
  <2>1. CASE wire' = wire
    BY <2>1, WireSame
  <2>2. CASE wire' # wire
    <3> DEFINE f == Fragment(t, s.no, s.part, s.of)
    <3>1. wire' = Written(s.conn, f)
      BY <2>2 DEF Sends, Submit, SendFragment, netVars
    <3>2. f \in Items /\ f # Close
      BY <1>t, FragmentItem
    <3> HIDE DEF f, s
    <3>3. \A c \in Conns :
             /\ wire'[c] = wire[c] \/ (c = s.conn /\ Elems(wire'[c]) = Elems(wire[c]) \cup {f})
             /\ socket[c] # "up" => wire'[c] = wire[c]
      BY <1>2, <3>1, <3>2, WriteEffect
    <3>4. WireType'
      BY <1>2, <3>1, <3>2, WriteEffect
    <3>5. \A c \in Conns : c # s.conn => wire'[c] = wire[c]
      BY <1>2, <3>1, <3>2, WriteEffect
    <3>6. \A c \in Conns, u \in Threads : Has(c, u)' => Has(c, u) \/ c = s.conn
      BY <3>5 DEF Has
    <3>7. \A c \in Conns : Close \in Elems(wire'[c]) => Close \in Elems(wire[c])
      BY <3>2, <3>3
    <3> QED BY <3>3, <3>4, <3>6, <3>7
  <2> QED BY <2>1, <2>2
<1> HIDE DEF s
<1>4. \A u \in Threads : sending'[u] = sending[u] \/ u = t
  BY <1>1, <1>t
<1>5. \A u \in Threads : Active(u)' => Active(u) /\ sending'[u].conn = sending[u].conn
                                      /\ sending'[u].no = sending[u].no
  BY <1>1, <1>4 DEF Active, s
<1>6. TypeOK'
  BY <1>t, <1>1 DEF TypeOK, mainVars, viewVars, wsVars
<1>7. Phases'
  <2>1. mpc = "semaphore" => s.conn # mconn
    BY <1>1 DEF Phases, s
  <2> QED BY <1>t, <1>2, <1>3, <1>5, <2>1 DEF Phases, TypeOK, mainVars, viewVars, wsVars
<1>8. Control'
  BY <1>t, <1>1, <1>4, <1>5 DEF Control, mainVars, viewVars, wsVars, Threads
<1>9. ClosePhase'
  BY <1>t, <1>3 DEF ClosePhase, Closed, mainVars, wsVars
<1> QED BY <1>3, <1>6, <1>7, <1>8, <1>9

\* A close message changes the wire of one connection, and that one is closing.
LEMMA CloseWritten ==
  ASSUME Core, NEW c \in Conns, socket' = socket, wire' = Written(c, Close)
  PROVE  /\ WireType'
         /\ \A x \in Conns : socket[x] \in {"none", "connecting"} => wire'[x] = wire[x]
         /\ \A x \in Conns, t \in Threads : Has(x, t)' <=> Has(x, t)
         /\ \A x \in Conns : Close \in Elems(wire'[x]) => Close \in Elems(wire[x]) \/ x = c
<1>1. Close \in Items /\ WireType
  BY DEF Items, Core
<1>2. Close.from \notin Threads
  BY DEF Close, Threads, Main, Camera
<1>3. \A x \in Conns : \/ wire'[x] = wire[x]
                       \/ x = c /\ Elems(wire'[x]) = Elems(wire[x]) \cup {Close}
  BY <1>1, WriteEffect
<1>4. \A x \in Conns : socket[x] \in {"none", "connecting"} => wire'[x] = wire[x]
  BY <1>1, WriteEffect
<1>5. \A x \in Conns, t \in Threads : Has(x, t)' <=> Has(x, t)
  <2> TAKE x \in Conns, t \in Threads
  <2>1. CASE wire'[x] = wire[x]
    BY <2>1 DEF Has
  <2>2. CASE Elems(wire'[x]) = Elems(wire[x]) \cup {Close}
    BY <1>2, <2>2 DEF Has
  <2> QED BY <1>3, <2>1, <2>2
<1>6. WireType'
  BY <1>1, WriteEffect
<1> QED BY <1>3, <1>4, <1>5, <1>6

\* The steps of close on the main thread, and the timer.
LEMMA CloseCore == Core /\ Closes => Core'
<1> SUFFICES ASSUME Core, Closes PROVE Core'
  OBVIOUS
<1> USE DEF Core
<1>1. /\ UNCHANGED <<mconn, button, chunk, viewVars, frames, sending, opened, socket, serverClose, semaphore>>
      /\ mpc \in {"close", "sendClose", "markClosing"}
      /\ mpc' \in {"sendClose", "markClosing", "stopped"}
  BY DEF Closes, SetClosing, SendClose, MarkClosing, netVars
<1>2. mconn \in Conns
  BY <1>1 DEF TypeOK, Nil
<1>3. /\ WireType'
      /\ \A x \in Conns : socket[x] \in {"none", "connecting"} => wire'[x] = wire[x]
      /\ \A x \in Conns, t \in Threads : Has(x, t)' <=> Has(x, t)
      /\ \A x \in Conns : Close \in Elems(wire'[x]) => Close \in Elems(wire[x]) \/ (x = mconn /\ mpc = "sendClose")
  <2>1. CASE SendClose
    BY <1>1, <1>2, <2>1, CloseWritten DEF SendClose
  <2>2. CASE SetClosing \/ MarkClosing
    <3>1. UNCHANGED wire BY <2>2 DEF SetClosing, MarkClosing, netVars
    <3> QED BY <3>1, WireSame
  <2> QED BY <2>1, <2>2 DEF Closes
<1>4. /\ readystate' = IF mpc = "close" THEN [readystate EXCEPT ![mconn] = "Closing"] ELSE readystate
      /\ isClosing' \in [Conns -> BOOLEAN] /\ timer' \in [Conns -> BOOLEAN]
  BY <1>2 DEF Closes, SetClosing, SendClose, MarkClosing, TypeOK
<1>5. TypeOK'
  BY <1>1, <1>2, <1>4 DEF TypeOK, viewVars, Nil
<1>6. \A t \in Threads : Active(t)' <=> Active(t)
  BY <1>1 DEF Active
<1>7. Phases'
  BY <1>1, <1>3, <1>6 DEF Phases, viewVars
<1>8. Control'
  BY <1>1, <1>6 DEF Control, viewVars, Threads
<1>9. ClosePhase'
  BY <1>1, <1>2, <1>3, <1>4 DEF ClosePhase, Closed, TypeOK
<1> QED BY <1>3, <1>5, <1>7, <1>8, <1>9

\* What the delegate queue of a connection, the timer, the network and the server
\* do to it.
LEMMA ConnCore ==
  \A c \in Conns : Core /\ (\/ DidOpen(c) \/ BadHandshake(c) \/ DelegateStep(c)
                            \/ CheckClose(c) \/ Lost(c) \/ ServerCloses(c)) => Core'
<1> SUFFICES ASSUME NEW c \in Conns, Core,
                    \/ DidOpen(c) \/ BadHandshake(c) \/ DelegateStep(c)
                    \/ CheckClose(c) \/ Lost(c) \/ ServerCloses(c)
             PROVE  Core'
  OBVIOUS
<1> USE DEF Core
<1>t. /\ socket \in [Conns -> {"none", "connecting", "dead", "up", "flushing", "down"}]
      /\ readystate \in [Conns -> {"Connecting", "Open", "Closing", "Closed"}]
      /\ semaphore \in [Conns -> 0..1]
  BY DEF TypeOK
<1>1. UNCHANGED <<mainVars, viewVars, frames, sending, opened>>
  BY DEF DidOpen, BadHandshake, DelegateStep, HandleClose, Flushed, SocketDidDisconnect,
         CheckClose, Lost, ServerCloses
<1>2. /\ WireType'
      /\ \A x \in Conns : socket[x] \in {"none", "connecting"} => wire'[x] = wire[x]
      /\ \A x \in Conns, t \in Threads : Has(x, t)' <=> Has(x, t)
      /\ \A x \in Conns : Close \in Elems(wire'[x]) => Close \in Elems(wire[x]) \/ (x = c /\ Closed(c)')
  <2>1. CASE wire' = wire
    BY <2>1, WireSame
  <2>2. CASE wire' # wire
    <3>1. wire' = Written(c, Close) /\ socket' = socket /\ readystate' = [readystate EXCEPT ![c] = "Closing"]
      BY <2>2 DEF DidOpen, BadHandshake, DelegateStep, HandleClose, Flushed, SocketDidDisconnect,
                  CheckClose, Lost, ServerCloses
    <3>2. Closed(c)'
      BY <1>t, <3>1 DEF Closed
    <3> QED BY <3>1, <3>2, CloseWritten
  <2> QED BY <2>1, <2>2
<1>3. /\ TypeOK'
      /\ \A x \in Conns :
            \/ socket'[x] = socket[x]
            \/ x = c /\ socket[c] # "none" /\ socket'[c] \notin {"none", "connecting"}
  <2>1. CASE DidOpen(c)
    BY <1>1, <2>1 DEF DidOpen, TypeOK, Phases, mainVars, viewVars
  <2>2. CASE BadHandshake(c)
    BY <1>1, <2>2 DEF BadHandshake, TypeOK, mainVars, viewVars, wsVars
  <2>s. ASSUME CloseSocket(c)
        PROVE  /\ readystate' \in [Conns -> {"Connecting", "Open", "Closing", "Closed"}]
               /\ socket' \in [Conns -> {"none", "connecting", "dead", "up", "flushing", "down"}]
               /\ \A x \in Conns :
                     \/ socket'[x] = socket[x]
                     \/ x = c /\ socket[c] = "up" /\ socket'[c] = "flushing"
    BY <1>t, <2>s DEF CloseSocket
  <2>3. CASE HandleClose(c)
    <3>1. /\ serverClose' \in [Conns -> {"no", "sent", "read"}]
          /\ UNCHANGED <<timer, semaphore>>
      BY <2>3 DEF HandleClose, TypeOK
    <3>2. CASE isClosing[c]
      <4>1. CloseSocket(c) /\ isClosing' = isClosing
        BY <2>3, <3>2 DEF HandleClose
      <4> QED BY <1>1, <3>1, <4>1, <2>s DEF TypeOK, mainVars, viewVars
    <3>3. CASE ~isClosing[c]
      <4>1. /\ isClosing' = [isClosing EXCEPT ![c] = TRUE] /\ socket' = socket
            /\ readystate' = [readystate EXCEPT ![c] = "Closing"]
        BY <2>3, <3>3 DEF HandleClose
      <4> QED BY <1>1, <3>1, <4>1 DEF TypeOK, mainVars, viewVars
    <3> QED BY <3>2, <3>3
  <2>4. CASE Flushed(c) \/ Lost(c)
    BY <1>1, <2>4 DEF Flushed, Lost, SocketDidDisconnect, TypeOK, mainVars, viewVars
  <2>5. CASE CheckClose(c)
    <3>1. /\ timer' = [timer EXCEPT ![c] = FALSE]
          /\ UNCHANGED <<isClosing, semaphore, serverClose>>
          /\ CloseSocket(c) \/ UNCHANGED <<readystate, socket>>
      BY <2>5 DEF CheckClose
    <3> QED BY <1>1, <3>1, <2>s DEF TypeOK, mainVars, viewVars
  <2>6. CASE ServerCloses(c)
    BY <1>1, <2>6 DEF ServerCloses, TypeOK, mainVars, viewVars, wsVars
  <2> QED BY <2>1, <2>2, <2>3, <2>4, <2>5, <2>6 DEF DelegateStep
<1>4. \/ semaphore' = semaphore
      \/ /\ socket[c] = "connecting" /\ socket'[c] = "up"
         /\ semaphore' = [semaphore EXCEPT ![c] = semaphore[c] + 1]
  BY <1>t DEF DidOpen, BadHandshake, DelegateStep, HandleClose, Flushed, SocketDidDisconnect,
         CheckClose, Lost, ServerCloses, wsVars
<1>5. \/ readystate' = readystate
      \/ socket[c] = "connecting" /\ readystate' = [readystate EXCEPT ![c] = "Open"]
      \/ \E r \in {"Closing", "Closed"} : readystate' = [readystate EXCEPT ![c] = r]
  BY DEF DidOpen, BadHandshake, DelegateStep, HandleClose, Flushed, SocketDidDisconnect,
         CheckClose, CloseSocket, Lost, ServerCloses, wsVars
<1>6. \A t \in Threads : Active(t)' <=> Active(t)
  BY <1>1 DEF Active
<1>7. Phases'
  <2>1. \A x \in Conns :
          /\ socket'[x] = "none" <=> x > opened
          /\ socket'[x] \in {"none", "connecting"} => wire'[x] = wire[x] /\ wire[x] = <<>>
          /\ socket'[x] = "connecting" => mpc = "semaphore" /\ mconn = x /\ semaphore'[x] = 0
          /\ semaphore'[x] > 0 => mpc = "semaphore" /\ mconn = x
    BY <1>t, <1>2, <1>3, <1>4 DEF Phases
  <2>2. mpc = "semaphore" => mconn \in Conns
    BY DEF TypeOK, Nil
  <2> QED BY <1>1, <1>2, <1>6, <2>1, <2>2 DEF Phases, mainVars, viewVars
<1>8. Control'
  BY <1>1, <1>6 DEF Control, mainVars, viewVars, Threads
<1>9. ClosePhase'
  <2>1. \A x \in Conns : Close \in Elems(wire[x]) => x # c \/ socket[c] # "connecting"
    BY EmptyWire DEF Phases
  <2>2. mpc # "semaphore" => socket[c] # "connecting"
    BY DEF Phases
  <2>3. mpc # "idle" => mconn \in Conns
    BY DEF TypeOK, Nil
  <2>4. \A x \in Conns : Closed(x) /\ (x # c \/ socket[c] # "connecting") => Closed(x)'
    BY <1>t, <1>5 DEF Closed
  <2> QED BY <1>1, <1>2, <2>1, <2>2, <2>3, <2>4 DEF ClosePhase, mainVars, Closed
<1> QED BY <1>2, <1>3, <1>7, <1>8, <1>9

\* The camera begins a message to the input that is in use.
LEMMA CameraCore == Core /\ (CaptureOutput \/ SubmitFrame) => Core'
<1> SUFFICES ASSUME Core, CaptureOutput \/ SubmitFrame PROVE Core'
  OBVIOUS
<1> USE DEF Core
<1>1. /\ UNCHANGED <<mainVars, viewVars, opened, wsVars, netVars>>
      /\ sending \in [Threads -> SendStates]
      /\ frames \in 0..MaxFrames /\ MaxFrames \in Nat
      /\ serverConnectionInput \in Conns \cup {Nil}
      /\ Main \in Threads /\ Camera \in Threads /\ Main # Camera
  BY StreamerAssumption DEF CaptureOutput, SubmitFrame, TypeOK, Threads, Main, Camera
<1>2. /\ WireType'
      /\ \A c \in Conns, t \in Threads : Has(c, t)' <=> Has(c, t)
  BY <1>1, WireSame DEF netVars
<1>3. /\ sending'[Camera] \in SendStates
      /\ sending' = [sending EXCEPT ![Camera] = sending'[Camera]]
      /\ frames' \in 0..MaxFrames
      /\ sending'[Camera].pc \in {"submit", "fragments"} =>
            /\ sending'[Camera].conn = serverConnectionInput /\ serverConnectionInput # Nil
            /\ sending'[Camera].no = frames'
  <2>1. CASE CaptureOutput
    BY <1>1, <2>1 DEF CaptureOutput, SendStates
  <2>2. CASE SubmitFrame /\ serverConnectionInput = Nil
    BY <1>1, <2>2 DEF SubmitFrame, SendStates, NotSending, Nil
  <2>3. CASE SubmitFrame /\ serverConnectionInput # Nil
    <3>1. PICK k \in CameraParts : sending' = [sending EXCEPT ![Camera] =
                [pc |-> "submit", conn |-> serverConnectionInput,
                 no |-> frames, part |-> 1, of |-> k]]
      BY <2>3 DEF SubmitFrame
    <3>2. frames' = frames
      BY <2>3 DEF SubmitFrame
    <3> QED BY <1>1, <2>3, <3>1, <3>2 DEF SendStates
  <2> QED BY <2>1, <2>2, <2>3
<1>4. sending'[Main] = sending[Main]
  BY <1>1, <1>3
<1>5. TypeOK'
  BY <1>1, <1>3 DEF TypeOK, mainVars, viewVars, wsVars, netVars
<1>6. (Active(Main)' <=> Active(Main)) /\ (Active(Camera)' => sending'[Camera].conn = serverConnectionInput)
  BY <1>3, <1>4 DEF Active
<1>7. \A t \in Threads : Active(t)' =>
         \/ Active(t) /\ sending'[t].conn = sending[t].conn
         \/ sending'[t].conn = serverConnectionInput /\ serverConnectionInput # Nil
  BY <1>1, <1>3, <1>4, <1>6 DEF Active, Threads
<1>8. Phases'
  <2>1. mpc = "semaphore" => mconn \in Conns
    BY DEF TypeOK, Nil
  <2>2. serverConnectionInput # Nil => serverConnectionInput \in 1..opened
    BY <1>1, StreamerAssumption DEF Phases, Conns, TypeOK
  <2> QED BY <1>1, <1>2, <1>7, <2>1, <2>2 DEF Phases, mainVars, viewVars, wsVars, netVars
<1>9. Control'
  BY <1>1, <1>3, <1>4, <1>6 DEF Control, Active, mainVars, viewVars
<1>10. ClosePhase'
  BY <1>1 DEF ClosePhase, Closed, mainVars, wsVars, netVars
<1> QED BY <1>2, <1>5, <1>8, <1>9, <1>10

\* A handler begins by opening a connection that no one has seen before.
LEMMA OpenCore == Core /\ (StartCapture \/ PredefStopStart) => Core'
<1> SUFFICES ASSUME Core, StartCapture \/ PredefStopStart PROVE Core'
  OBVIOUS
<1> USE DEF Core
<1> DEFINE n == opened + 1
<1>1. /\ UNCHANGED <<capturing, serverConnectionInput, replaced, frames, sending, wsVars, wire, serverClose>>
      /\ mpc = "idle" /\ mpc' = "semaphore" /\ mconn' = n /\ opened' = n
      /\ opened < MaxConns
      /\ \E o \in {"connecting", "dead"} : socket' = [socket EXCEPT ![n] = o]
      /\ \/ button' = "start" /\ running' = TRUE /\ ~capturing /\ UNCHANGED chunk
         \/ button' = "predef" /\ UNCHANGED running /\ chunk' = 0
  BY DEF StartCapture, PredefStopStart, InitWithUrl, viewVars
<1>2. opened \in Nat /\ MaxConns \in Nat /\ n \in Conns /\ n # Nil /\ n > opened
  BY <1>1, StreamerAssumption DEF TypeOK, Conns, Nil
<1>3. /\ WireType'
      /\ \A c \in Conns, t \in Threads : Has(c, t)' <=> Has(c, t)
  BY <1>1, WireSame
<1>4. socket[n] = "none" /\ wire[n] = <<>> /\ semaphore[n] = 0
  <2>1. semaphore[n] \in 0..1 /\ ~(semaphore[n] > 0)
    BY <1>1, <1>2 DEF Phases, TypeOK
  <2> QED BY <1>2, <2>1 DEF Phases
<1>5. \A t \in Threads : ~Has(n, t)
  BY <1>4, EmptyWire DEF Has
<1>6. \A t \in Threads : Active(t)' <=> Active(t)
  BY <1>1 DEF Active
<1>7. \A t \in Threads : Active(t) => sending[t].conn \in 1..opened
  BY DEF Phases
<1>8. socket' \in [Conns -> {"none", "connecting", "dead", "up", "flushing", "down"}]
       /\ socket'[n] \in {"connecting", "dead"} /\ \A c \in Conns \ {n} : socket'[c] = socket[c]
  BY <1>1, <1>2 DEF TypeOK
<1> HIDE DEF n
<1>9. TypeOK'
  <2>1. n \in 0..MaxConns
    BY <1>2 DEF Conns
  <2>2. chunk' \in 0..FileChunks
    BY <1>1, StreamerAssumption DEF TypeOK
  <2> QED BY <1>1, <1>2, <1>8, <2>1, <2>2 DEF TypeOK, wsVars
<1>10. Phases'
  <2>1. \A c \in Conns :
          /\ socket'[c] = "none" <=> c > n
          /\ socket'[c] \in {"none", "connecting"} => wire[c] = <<>>
          /\ socket'[c] = "connecting" => c = n /\ semaphore[c] = 0
          /\ ~(semaphore[c] > 0)
    <3> TAKE c \in Conns
    <3>1. CASE c = n
      BY <1>2, <1>4, <1>8, <3>1 DEF n
    <3>2. CASE c # n
      <4>1. c > opened <=> c > n
        BY <1>2, <3>2 DEF n, Conns
      <4>2. socket'[c] = socket[c]
        BY <1>8, <3>2
      <4>3. ~(semaphore[c] > 0) /\ socket[c] # "connecting"
        BY <1>1 DEF Phases
      <4>4. (socket[c] = "none" <=> c > opened) /\ (socket[c] \in {"none", "connecting"} => wire[c] = <<>>)
        BY DEF Phases
      <4> QED BY <4>1, <4>2, <4>3, <4>4
    <3> QED BY <3>1, <3>2
  <2>2. serverConnectionInput <= n /\ serverConnectionInput # n
    <3>1. serverConnectionInput \in Int /\ serverConnectionInput <= opened
      BY <1>2 DEF Phases, TypeOK, Conns, Nil
    <3> QED BY <1>2, <3>1 DEF n
  <2>3. \A t \in Threads : Active(t) => sending[t].conn \in 1..n /\ sending[t].conn # n
    BY <1>2, <1>7 DEF n
  <2>4. n <= n
    BY <1>2 DEF n
  <2> QED BY <1>1, <1>2, <1>3, <1>5, <1>6, <2>1, <2>2, <2>3, <2>4 DEF Phases, wsVars
<1>11. Control'
  BY <1>1, <1>6 DEF Control, Threads
<1>12. ClosePhase'
  BY <1>1 DEF ClosePhase, Closed, wsVars
<1> QED BY <1>3, <1>9, <1>10, <1>11, <1>12

\* The other steps of the handlers open nothing and write nothing.
LEMMA MainCore == Core /\ (SemaphoreWait \/ ReadChunk \/ StopCapture \/ Stopped) => Core'
<1> SUFFICES ASSUME Core, SemaphoreWait \/ ReadChunk \/ StopCapture \/ Stopped PROVE Core'
  OBVIOUS
<1> USE DEF Core
<1>t. /\ semaphore \in [Conns -> 0..1]
      /\ sending \in [Threads -> SendStates]
      /\ opened \in Nat
      /\ Main \in Threads /\ Camera \in Threads /\ Main # Camera
      /\ mpc # "idle" => mconn \in Conns
      /\ capturing => serverConnectionInput \in Conns
  BY StreamerAssumption DEF TypeOK, Threads, Main, Camera, Nil
<1>1. UNCHANGED <<frames, opened, netVars, readystate, isClosing, timer>>
  BY DEF SemaphoreWait, ReadChunk, StopCapture, Stopped, wsVars
<1>2. /\ WireType'
      /\ \A c \in Conns, t \in Threads : Has(c, t)' <=> Has(c, t)
  BY <1>1, WireSame DEF netVars
<1>3. CASE SemaphoreWait
  <2>1. /\ mpc = "semaphore" /\ mconn \in Conns /\ semaphore[mconn] > 0
        /\ semaphore' = [semaphore EXCEPT ![mconn] = semaphore[mconn] - 1]
        /\ serverConnectionInput' = mconn
        /\ replaced' = IF capturing THEN replaced \cup {serverConnectionInput} ELSE replaced
        /\ UNCHANGED <<chunk, running, sending>>
        /\ \/ /\ button = "start" /\ capturing' = TRUE
              /\ mpc' = "idle" /\ button' = "none" /\ mconn' = Nil
           \/ /\ button = "predef" /\ mpc' = "read"
              /\ UNCHANGED <<capturing, button, mconn>>
    BY <1>3, <1>t DEF SemaphoreWait
  <2>2. semaphore[mconn] = 1 /\ semaphore'[mconn] = 0 /\ semaphore' \in [Conns -> 0..1]
         /\ \A c \in Conns : ~(semaphore'[c] > 0) /\ socket[c] # "connecting"
    <3>1. semaphore[mconn] = 1
      BY <1>t, <2>1
    <3>2. \A c \in Conns : c # mconn => ~(semaphore[c] > 0)
      BY <2>1 DEF Phases
    <3>3. \A c \in Conns : socket[c] # "connecting"
      BY <2>1, <3>1 DEF Phases
    <3> QED BY <1>t, <2>1, <3>1, <3>2, <3>3
  <2>3. TypeOK'
    BY <1>1, <1>t, <2>1, <2>2, ZenonT(30) DEF TypeOK, netVars, Nil, Conns
  <2>4. \A t \in Threads : Active(t)' <=> Active(t)
    BY <2>1 DEF Active
  <2>5. Phases'
    <3>1. mconn' <= opened /\ serverConnectionInput' <= opened
      BY <1>t, <2>1 DEF Phases, Nil
    <3> QED BY <1>1, <2>1, <2>2, <2>4, <3>1 DEF Phases, netVars
  <2>6. Control'
    BY <1>1, <1>t, <2>1, <2>4 DEF Control
  <2>7. ClosePhase'
    BY <1>1, <2>1 DEF ClosePhase, Closed, netVars
  <2> QED BY <1>2, <2>3, <2>5, <2>6, <2>7
<1>4. CASE ReadChunk
  <2>1. /\ mpc = "read" /\ sending[Main].pc = "idle" /\ mconn \in Conns
        /\ UNCHANGED <<mconn, button, viewVars, semaphore>>
        /\ mpc' \in {"read", "close"}
        /\ chunk' \in 0..FileChunks
        /\ sending'[Main] \in SendStates
        /\ sending' = [sending EXCEPT ![Main] = sending'[Main]]
        /\ sending'[Main].pc # "input"
        /\ sending'[Main].pc # "idle" => mpc' = "read" /\ sending'[Main].conn = mconn
    <3>1. CASE chunk < FileChunks
      <4>1. /\ chunk' = chunk + 1 /\ mpc' = mpc
            /\ sending' = [sending EXCEPT ![Main] =
                   [pc |-> "submit", conn |-> mconn, no |-> chunk', part |-> 1, of |-> 1]]
        BY <1>4, <3>1, StreamerAssumption DEF ReadChunk, TypeOK
      <4>2. chunk' \in 0..FileChunks
        BY <3>1, <4>1, StreamerAssumption DEF TypeOK
      <4>3. mpc = "read" /\ sending[Main].pc = "idle" /\ UNCHANGED <<mconn, button, viewVars, semaphore>>
        BY <1>4 DEF ReadChunk, wsVars
      <4> QED BY <1>t, <4>1, <4>2, <4>3 DEF SendStates
    <3>2. CASE chunk = FileChunks
      <4>1. mpc' = "close" /\ UNCHANGED <<chunk, sending>>
        BY <1>4, <3>2, StreamerAssumption DEF ReadChunk, TypeOK
      <4> QED BY <1>4, <1>t, <4>1 DEF ReadChunk, TypeOK, wsVars
    <3> QED BY <1>4, <3>1, <3>2 DEF ReadChunk
  <2>2. sending'[Camera] = sending[Camera]
    BY <1>t, <2>1
  <2>3. TypeOK'
    BY <1>1, <1>t, <2>1 DEF TypeOK, netVars, viewVars, Nil, Conns
  <2>4. \A t \in Threads : Active(t)' =>
           \/ Active(t) /\ sending'[t].conn = sending[t].conn
           \/ t = Main /\ sending'[t].conn = mconn
    BY <1>t, <2>1, <2>2 DEF Active, Threads
  <2>5. mconn \in 1..opened
    BY <1>t, <2>1 DEF Phases, Conns
  <2>6. Phases'
    BY <1>1, <2>1, <2>4, <2>5 DEF Phases, netVars, viewVars
  <2>7. Control'
    BY <1>1, <2>1, <2>2 DEF Control, Active, viewVars
  <2>8. ClosePhase'
    BY <1>1, <2>1 DEF ClosePhase, Closed, netVars
  <2> QED BY <1>2, <2>3, <2>6, <2>7, <2>8
<1>5. CASE StopCapture
  <2>1. /\ mpc = "idle" /\ capturing /\ mpc' = "close" /\ button' = "stop" /\ running' = FALSE
        /\ mconn' = serverConnectionInput
        /\ UNCHANGED <<chunk, capturing, serverConnectionInput, replaced, sending, semaphore>>
    BY <1>5 DEF StopCapture, wsVars
  <2>2. TypeOK'
    BY <1>1, <1>t, <2>1 DEF TypeOK, netVars, Nil, Conns
  <2>3. \A t \in Threads : Active(t)' <=> Active(t)
    BY <2>1 DEF Active
  <2>4. Phases'
    BY <1>1, <2>1, <2>3 DEF Phases, netVars
  <2>5. Control'
    BY <1>1, <1>t, <2>1, <2>3 DEF Control
  <2>6. ClosePhase'
    BY <1>1, <2>1 DEF ClosePhase, Closed, netVars
  <2> QED BY <1>2, <2>2, <2>4, <2>5, <2>6
<1>6. CASE Stopped
  <2>1. /\ mpc = "stopped" /\ mpc' = "idle" /\ button' = "none" /\ mconn' = Nil
        /\ UNCHANGED <<chunk, running, replaced, sending, semaphore>>
        /\ IF button = "stop"
           THEN serverConnectionInput' = Nil /\ capturing' = FALSE
           ELSE UNCHANGED <<serverConnectionInput, capturing>>
    BY <1>6 DEF Stopped, wsVars
  <2>2. TypeOK'
    BY <1>1, <1>t, <2>1 DEF TypeOK, netVars, Nil, Conns
  <2>3. \A t \in Threads : Active(t)' <=> Active(t)
    BY <2>1 DEF Active
  <2>4. Phases'
    BY <1>1, <1>t, <2>1, <2>3 DEF Phases, netVars, Nil
  <2>5. Control'
    BY <1>1, <1>t, <2>1, <2>3 DEF Control
  <2>6. ClosePhase'
    BY <1>1, <2>1 DEF ClosePhase, Closed, netVars
  <2> QED BY <1>2, <2>2, <2>4, <2>5, <2>6
<1> QED BY <1>3, <1>4, <1>5, <1>6

\* Every step of the application preserves the core.
LEMMA CoreStep == Core /\ [Next]_vars => Core'
<1> SUFFICES ASSUME Core, [Next]_vars PROVE Core'
  OBVIOUS
<1>1. CASE UNCHANGED vars
  BY <1>1, WireSame DEF vars, Core, TypeOK, Phases, Control, ClosePhase, Closed, Active, Has,
          mainVars, viewVars, wsVars, netVars
<1>2. Main \in Threads /\ Camera \in Threads
  BY DEF Threads
<1> QED BY <1>1, <1>2, SendCore, CloseCore, ConnCore, CameraCore, OpenCore, MainCore DEF Next, MainStep

\* When the application starts there is no connection.
LEMMA CoreInit == Init => Core
<1> SUFFICES ASSUME Init PROVE Core
  OBVIOUS
<1>1. NotSending \in SendStates /\ NotSending.pc = "idle"
  BY DEF NotSending, SendStates, Nil
<1>2. /\ wire = [c \in Conns |-> <<>>]
      /\ sending = [t \in Threads |-> NotSending]
      /\ opened = 0 /\ mpc = "idle" /\ button = "none" /\ mconn = 0
      /\ serverConnectionInput = 0 /\ ~capturing /\ ~running
      /\ socket = [c \in Conns |-> "none"] /\ semaphore = [c \in Conns |-> 0]
  BY DEF Init, Nil
<1>3. WireType
  BY <1>2 DEF WireType
<1>4. TypeOK
  <2>1. 0 \in 0..FileChunks /\ 0 \in 0..MaxFrames /\ 0 \in 0..MaxConns /\ 0 \in 0..1
    BY StreamerAssumption
  <2>2. sending \in [Threads -> SendStates]
    BY <1>1, <1>2
  <2>3. semaphore \in [Conns -> 0..1]
    BY <1>2, <2>1
  <2> QED BY <2>1, <2>2, <2>3 DEF Init, TypeOK, Nil
<1>5. \A t \in Threads : ~Active(t) /\ sending[t].pc = "idle"
  BY <1>1, <1>2 DEF Active
<1>6. Phases
  BY <1>2, <1>5, StreamerAssumption DEF Phases, Conns
<1>7. Control
  BY <1>2, <1>5 DEF Control, Threads
<1>8. ClosePhase
  BY <1>2, EmptyWire DEF ClosePhase
<1> QED BY <1>3, <1>4, <1>6, <1>7, <1>8 DEF Core

\* Type correctness: every variable keeps a value of its kind, a connection's
\* semaphore is signalled once at most, and while capturing there is an input.
THEOREM TypeCorrect == Spec => []TypeOK
<1>1. Core => TypeOK
  BY DEF Core
<1> QED BY <1>1, CoreInit, CoreStep, PTL DEF Spec

-----------------------------------------------------------------------------
(* What a thread can still write after the close message.                   *)

\* A step begins a message, writes a fragment of one, writes a close message, or
\* writes nothing and leaves the messages under way as they are.
LEMMA StepKinds ==
  ASSUME Core, [Next]_vars
  PROVE  \/ \E t \in Threads : Submit(t) \/ SendFragment(t)
         \/ /\ \E c \in Conns : wire' = Written(c, Close)
            /\ UNCHANGED <<sending, frames, socket>>
         \/ /\ UNCHANGED wire
            /\ \A t \in Threads : sending'[t].pc = "fragments" => sending'[t] = sending[t]
<1> USE DEF Core
<1>t. sending \in [Threads -> SendStates] /\ Main \in Threads /\ Camera \in Threads /\ Main # Camera
  BY DEF TypeOK, Threads, Main, Camera
<1>1. CASE Sends(Main) \/ Sends(Camera)
  BY <1>1, <1>t DEF Sends
<1>2. CASE SendClose
  <2>1. mconn \in Conns
    BY <1>2 DEF SendClose, TypeOK, Nil
  <2> QED BY <1>2, <2>1 DEF SendClose
<1>3. ASSUME NEW c \in Conns, HandleClose(c)
      PROVE  \/ /\ wire' = Written(c, Close)
                /\ UNCHANGED <<sending, frames, socket>>
             \/ UNCHANGED <<wire, sending>>
  BY <1>3 DEF HandleClose
<1>4. CASE CaptureOutput \/ SubmitFrame
  <2>1. UNCHANGED wire /\ sending' = [sending EXCEPT ![Camera] = sending'[Camera]]
        /\ sending'[Camera].pc # "fragments"
    BY <1>4, <1>t DEF CaptureOutput, SubmitFrame, netVars, NotSending, SendStates
  <2>2. \A t \in Threads : t # Camera => sending'[t] = sending[t]
    BY <1>t, <2>1
  <2> QED BY <2>1, <2>2
<1>5. CASE ReadChunk
  <2>1. UNCHANGED wire
    BY <1>5 DEF ReadChunk, netVars
  <2>2. CASE UNCHANGED sending
    BY <2>1, <2>2
  <2>3. CASE sending' = [sending EXCEPT ![Main] =
                [pc |-> "submit", conn |-> mconn, no |-> chunk', part |-> 1, of |-> 1]]
    BY <1>t, <2>1, <2>3
  <2> QED BY <1>5, <2>2, <2>3 DEF ReadChunk
<1>6. CASE \/ StartCapture \/ PredefStopStart \/ StopCapture \/ SemaphoreWait \/ Stopped
           \/ SetClosing \/ MarkClosing \/ UNCHANGED vars
  <2>1. UNCHANGED <<wire, sending>>
    BY <1>6 DEF StartCapture, PredefStopStart, InitWithUrl, StopCapture, SemaphoreWait, Stopped,
                SetClosing, MarkClosing, vars, netVars
  <2> QED BY <2>1
<1>7. ASSUME NEW c \in Conns,
             DidOpen(c) \/ BadHandshake(c) \/ Flushed(c) \/ CheckClose(c) \/ Lost(c) \/ ServerCloses(c)
      PROVE  UNCHANGED <<wire, sending>>
  BY <1>7 DEF DidOpen, BadHandshake, Flushed, SocketDidDisconnect, CheckClose, Lost, ServerCloses, netVars
<1> QED BY <1>1, <1>2, <1>3, <1>4, <1>5, <1>6, <1>7 DEF Next, MainStep, Closes, DelegateStep

\* A fragment that is added to a wire comes from a thread in the middle of its
\* message; nothing else that is written counts for the two streams.
LEMMA WireGrowth ==
  ASSUME Core, [Next]_vars, NEW c \in Conns, NEW x \in Elems(wire'[c]),
         x \notin Elems(wire[c]), x.from \in Threads
  PROVE  /\ SendFragment(x.from)
         /\ sending[x.from].pc = "fragments" /\ sending[x.from].conn = c
         /\ x.no = sending[x.from].no
<1>w. WireType /\ sending \in [Threads -> SendStates]
  BY DEF Core, TypeOK
<1>1. ASSUME NEW u \in Threads, Submit(u) PROVE FALSE
  BY <1>1 DEF Submit, netVars
<1>2. ASSUME NEW u \in Threads, SendFragment(u)
      PROVE  x.from = u /\ sending[u].pc = "fragments" /\ sending[u].conn = c /\ x.no = sending[u].no
  <2> DEFINE s == sending[u]
             f == Fragment(u, s.no, s.part, s.of)
  <2>1. s.conn \in 1..opened /\ opened \in 0..MaxConns /\ s \in SendStates
    BY <1>2 DEF SendFragment, Core, Phases, Active, TypeOK
  <2>2. s.conn \in Conns /\ s.pc = "fragments" /\ wire' = Written(s.conn, f)
    <3>1. wire' # wire BY DEF Elems
    <3> QED BY <1>2, <2>1, <3>1, StreamerAssumption DEF SendFragment, Conns
  <2>3. f \in Items /\ f.from = u /\ f.no = s.no
    BY <2>1, FragmentItem
  <2> HIDE DEF f, s
  <2>4. \/ wire'[c] = wire[c]
        \/ c = s.conn /\ Elems(wire'[c]) = Elems(wire[c]) \cup {f}
    BY <1>w, <2>2, <2>3, WriteEffect
  <2>5. x = f /\ c = s.conn
    BY <2>4
  <2>6. s.pc = sending[u].pc /\ s.conn = sending[u].conn /\ s.no = sending[u].no
    BY DEF s
  <2> QED BY <2>2, <2>3, <2>5, <2>6
<1>3. ASSUME NEW d \in Conns, wire' = Written(d, Close) PROVE FALSE
  <2>1. Close \in Items /\ Close.from \notin Threads
    BY DEF Items, Close, Threads, Main, Camera
  <2>2. \/ wire'[c] = wire[c]
        \/ Elems(wire'[c]) = Elems(wire[c]) \cup {Close}
    <3>1. CASE c = d /\ socket[d] = "up"
      BY <1>3, <1>w, <2>1, <3>1, WriteEffect
    <3>2. CASE ~(c = d /\ socket[d] = "up")
      BY <1>3, <1>w, <2>1, <3>2, WriteEffect
    <3> QED BY <3>1, <3>2
  <2>3. x = Close
    BY <2>2
  <2> QED BY <2>1, <2>3
<1>4. CASE UNCHANGED wire
  BY <1>4
<1> QED BY <1>1, <1>2, <1>3, <1>4, StepKinds

\* A wire never loses what was written.
LEMMA WireKept ==
  ASSUME Core, [Next]_vars, NEW c \in Conns
  PROVE  Elems(wire[c]) \subseteq Elems(wire'[c])
<1>w. WireType /\ sending \in [Threads -> SendStates]
  BY DEF Core, TypeOK
<1>1. ASSUME NEW d \in Conns, NEW f \in Items, wire' = Written(d, f)
      PROVE  Elems(wire[c]) \subseteq Elems(wire'[c])
  <2>1. wire'[c] = wire[c] \/ Elems(wire'[c]) = Elems(wire[c]) \cup {f}
    BY <1>w, <1>1, WriteEffect
  <2> QED BY <2>1
<1>2. ASSUME NEW u \in Threads, SendFragment(u) PROVE Elems(wire[c]) \subseteq Elems(wire'[c])
  <2> DEFINE s == sending[u]
  <2>1. s.conn \in 1..opened /\ opened \in 0..MaxConns /\ s \in SendStates
    BY <1>2 DEF SendFragment, Core, Phases, Active, TypeOK
  <2>2. s.conn \in Conns
    BY <2>1, StreamerAssumption DEF Conns
  <2>3. Fragment(u, s.no, s.part, s.of) \in Items
    BY <2>1, FragmentItem
  <2>4. wire' = wire \/ wire' = Written(s.conn, Fragment(u, s.no, s.part, s.of))
    BY <1>2 DEF SendFragment
  <2> HIDE DEF s
  <2> QED BY <1>1, <2>2, <2>3, <2>4
<1>3. ASSUME NEW u \in Threads, Submit(u) PROVE UNCHANGED wire
  BY <1>3 DEF Submit, netVars
<1>4. Close \in Items
  BY DEF Items
<1> QED BY <1>1, <1>2, <1>3, <1>4, StepKinds

\* A message that is begun finds no close message on its wire; a fragment belongs
\* to the message its thread has been sending since.
LEMMA LateStep == Core /\ Core' /\ LateInv /\ [Next]_vars => LateInv'
<1> SUFFICES ASSUME Core, Core', LateInv, [Next]_vars, NEW c \in Conns, NEW x \in LateItems(wire'[c])
             PROVE  /\ \A y \in LateItems(wire'[c]) : x.from = y.from => x.no = y.no
                    /\ \A t \in Threads :
                         sending'[t].pc = "fragments" /\ sending'[t].conn = c /\ x.from = t
                           => x.no = sending'[t].no
  BY DEF LateInv
<1> DEFINE Same == \A y \in LateItems(wire'[c]) : x.from = y.from => x.no = y.no
           Rest == \A t \in Threads :
                      sending'[t].pc = "fragments" /\ sending'[t].conn = c /\ x.from = t
                        => x.no = sending'[t].no
<1>w. WireType /\ WireType' /\ sending \in [Threads -> SendStates]
  BY DEF Core, TypeOK
<1>0. /\ \A y \in LateItems(wire[c]), z \in LateItems(wire[c]) : y.from = z.from => y.no = z.no
      /\ \A y \in LateItems(wire[c]), t \in Threads :
            sending[t].pc = "fragments" /\ sending[t].conn = c /\ y.from = t => y.no = sending[t].no
  BY DEF LateInv
<1>1. ASSUME NEW u \in Threads, Submit(u) PROVE Same /\ Rest
  <2>1. wire' = wire
    BY <1>1 DEF Submit, netVars
  <2>2. \A t \in Threads : t # u => sending'[t] = sending[t]
    BY <1>1, <1>w DEF Submit
  <2>3. /\ sending[u].pc = "submit"
        /\ sending'[u].pc = "fragments" =>
              readystate[sending[u].conn] = "Open" /\ sending'[u].conn = sending[u].conn
    BY <1>1, <1>w DEF Submit, NotSending, SendStates
  <2>4. Close \in Elems(wire[c])
    BY <1>w, <2>1, WireItems
  <2>5. readystate[c] # "Open"
    BY <2>4 DEF Core, ClosePhase, Closed
  <2> QED BY <1>0, <2>1, <2>2, <2>3, <2>5
<1>2. ASSUME NEW u \in Threads, SendFragment(u) PROVE Same /\ Rest
  <2> DEFINE s == sending[u]
             f == Fragment(u, s.no, s.part, s.of)
  <2>1. /\ s.pc = "fragments" /\ s.conn \in Conns
        /\ wire' = wire \/ wire' = Written(s.conn, f)
    <3>1. s.conn \in 1..opened /\ opened \in 0..MaxConns
      BY <1>2 DEF SendFragment, Core, Phases, Active, TypeOK
    <3> QED BY <1>2, <3>1, StreamerAssumption DEF SendFragment, Conns
  <2>2. /\ \A t \in Threads : t # u => sending'[t] = sending[t]
        /\ sending'[u].pc = "fragments" => sending'[u].conn = s.conn /\ sending'[u].no = s.no
    BY <1>2, <1>w DEF SendFragment, NotSending, SendStates
  <2>3. f \in Items /\ f.from = u /\ f.no = s.no
    BY <1>w, FragmentItem
  <2> HIDE DEF f
  <2>4. \A y \in LateItems(wire'[c]) : y \in LateItems(wire[c]) \/ (y = f /\ c = s.conn)
    BY <1>w, <2>1, <2>3, WriteEffect, ZenonT(30)
  <2>5. Same
    BY <1>0, <2>1, <2>3, <2>4
  <2>6. Rest
    <3> SUFFICES ASSUME NEW t \in Threads,
                        sending'[t].pc = "fragments", sending'[t].conn = c, x.from = t
                 PROVE  x.no = sending'[t].no
      OBVIOUS
    <3>1. sending[t].pc = "fragments" /\ sending[t].conn = c /\ sending'[t].no = sending[t].no
      BY <2>1, <2>2
    <3> QED BY <1>0, <2>3, <2>4, <3>1
  <2> QED BY <2>5, <2>6
<1>3. ASSUME NEW d \in Conns, wire' = Written(d, Close), UNCHANGED sending PROVE Same /\ Rest
  <2>1. Close \in Items /\ Close.from \notin Threads
    BY DEF Items, Close, Threads, Main, Camera
  <2>2. \A y \in LateItems(wire'[c]) : y \in LateItems(wire[c]) \/ y = Close
    BY <1>3, <1>w, <2>1, WriteEffect, ZenonT(30)
  <2>3. \A y \in LateItems(wire'[c]) : y.from = Close.from => y = Close
    BY <1>w, <2>1, <2>2, WireItems
  <2>4. Same
    BY <1>0, <2>2, <2>3
  <2>5. Rest
    BY <1>0, <1>3, <2>1, <2>2
  <2> QED BY <2>4, <2>5
<1>4. ASSUME UNCHANGED wire, \A t \in Threads : sending'[t].pc = "fragments" => sending'[t] = sending[t]
      PROVE  Same /\ Rest
  BY <1>0, <1>4
<1> QED BY <1>1, <1>2, <1>3, <1>4, StepKinds

\* Behind a close message every thread writes what is left of one message at most.
THEOREM LateFramesHold == Spec => []LateFrames
<1>1. Init => LateInv
  <2> SUFFICES ASSUME Init, NEW c \in Conns PROVE LateItems(wire[c]) = {}
    BY DEF LateInv
  <2> QED BY EmptyWire DEF Init
<1>2. LateInv => LateFrames
  <2> SUFFICES ASSUME LateInv, NEW c \in Conns, NEW i \in AfterClose(c), NEW j \in AfterClose(c),
                      wire[c][i].from = wire[c][j].from
               PROVE  wire[c][i].no = wire[c][j].no
    BY DEF LateFrames
  <2>1. wire[c][i] \in LateItems(wire[c]) /\ wire[c][j] \in LateItems(wire[c])
    BY DEF LateItems, AfterClose
  <2> QED BY <2>1 DEF LateInv
<1> QED BY <1>1, <1>2, CoreInit, CoreStep, LateStep, PTL DEF Spec

-----------------------------------------------------------------------------
(* No connection is forgotten.                                              *)

\* What becomes open is in the hands of the handler that opened it; it leaves them
\* as the input in use, or with a close message.
LEMMA OpenStep == Core /\ Core' /\ OpenInv /\ [Next]_vars => OpenInv'
<1> SUFFICES ASSUME Core, Core', OpenInv, [Next]_vars PROVE OpenInv'
  OBVIOUS
<1> USE DEF Core
<1>t. /\ socket \in [Conns -> {"none", "connecting", "dead", "up", "flushing", "down"}]
      /\ mpc # "idle" => mconn \in Conns
      /\ mpc' # "idle" => mconn' \in Conns
      /\ WireType
  BY DEF TypeOK, Nil
<1>w. \A c \in Conns : Close \in Elems(wire[c]) => Close \in Elems(wire'[c])
  BY WireKept
<1>1. ASSUME UNCHANGED <<socket, mpc, mconn, capturing, serverConnectionInput, replaced>> PROVE OpenInv'
  BY <1>1, <1>t, <1>w DEF OpenInv, LeftOpen
<1>2. CASE \E t \in Threads : Submit(t) \/ SendFragment(t)
  BY <1>1, <1>2 DEF Submit, SendFragment, mainVars, viewVars, netVars
<1>3. CASE CaptureOutput \/ SubmitFrame \/ UNCHANGED vars
  BY <1>1, <1>3 DEF CaptureOutput, SubmitFrame, vars, mainVars, viewVars, netVars
<1>4. CASE SetClosing \/ MarkClosing
  BY <1>4, <1>t DEF SetClosing, MarkClosing, OpenInv, LeftOpen, viewVars, netVars
<1>5. CASE SendClose
  <2>1. mpc = "sendClose" /\ mpc' = "markClosing" /\ mconn \in Conns
        /\ wire' = Written(mconn, Close)
        /\ UNCHANGED <<socket, mconn, capturing, serverConnectionInput, replaced>>
    BY <1>5, <1>t DEF SendClose, viewVars
  <2>2. ~LeftOpen(mconn)'
    <3>1. Close \in Items
      BY DEF Items
    <3>2. socket[mconn] = "up" => Close \in Elems(wire'[mconn])
      BY <1>t, <2>1, <3>1, WriteEffect
    <3> QED BY <2>1, <3>2 DEF LeftOpen
  <2> QED BY <1>w, <2>1, <2>2 DEF OpenInv, LeftOpen
<1>6. CASE StartCapture \/ PredefStopStart
  <2>1. /\ mpc = "idle" /\ mpc' = "semaphore" /\ UNCHANGED <<capturing, serverConnectionInput, replaced, wire>>
        /\ \E o \in {"connecting", "dead"} : socket' = [socket EXCEPT ![opened + 1] = o]
    BY <1>6 DEF StartCapture, PredefStopStart, InitWithUrl, viewVars
  <2>2. \A c \in Conns : LeftOpen(c)' => LeftOpen(c)
    BY <1>t, <2>1 DEF LeftOpen
  <2> QED BY <2>1, <2>2 DEF OpenInv
<1>7. CASE SemaphoreWait
  BY <1>7, <1>t DEF SemaphoreWait, OpenInv, LeftOpen, netVars
<1>8. CASE ReadChunk
  BY <1>8, <1>t DEF ReadChunk, OpenInv, LeftOpen, netVars, viewVars
<1>9. CASE StopCapture
  BY <1>9, <1>t DEF StopCapture, OpenInv, LeftOpen, netVars
<1>10. CASE Stopped
  BY <1>10, <1>t DEF Stopped, OpenInv, LeftOpen, netVars, Control
<1>11. ASSUME NEW c \in Conns,
              \/ DidOpen(c) \/ BadHandshake(c) \/ DelegateStep(c)
              \/ CheckClose(c) \/ Lost(c) \/ ServerCloses(c)
       PROVE  OpenInv'
  <2>1. UNCHANGED <<mpc, mconn, capturing, serverConnectionInput, replaced>>
    BY <1>11 DEF DidOpen, BadHandshake, DelegateStep, HandleClose, Flushed, SocketDidDisconnect,
                 CheckClose, Lost, ServerCloses, mainVars, viewVars
  <2>2. \A x \in Conns : socket'[x] = "up" => socket[x] \in {"up", "connecting"}
    BY <1>11, <1>t DEF DidOpen, BadHandshake, DelegateStep, HandleClose, Flushed, SocketDidDisconnect,
                 CheckClose, CloseSocket, Lost, ServerCloses
  <2>3. \A x \in Conns : LeftOpen(x)' => LeftOpen(x) \/ (mpc = "semaphore" /\ mconn = x)
    BY <1>w, <2>2 DEF LeftOpen, Phases
  <2> QED BY <1>t, <2>1, <2>3 DEF OpenInv
<1> QED BY <1>2, <1>3, <1>4, <1>5, <1>6, <1>7, <1>8, <1>9, <1>10, <1>11
        DEF Next, MainStep, Sends, Closes, Threads

\* When the application is idle and not capturing, a connection that is still open
\* and was not told to close was replaced by predefStopStart while capturing.
THEOREM NothingLeftOpenHolds == Spec => []NothingLeftOpen
<1>1. Init => OpenInv
  BY DEF Init, OpenInv, LeftOpen
<1>2. OpenInv => NothingLeftOpen
  BY DEF OpenInv, NothingLeftOpen, LeftOpen, Elems
<1> QED BY <1>1, <1>2, CoreInit, CoreStep, OpenStep, PTL DEF Spec

-----------------------------------------------------------------------------
(* The streams of file and camera.                                          *)

\* What a step may change of the facts the streams depend on: who is fed, what is
\* closed, and whether frames are being captured.
LEMMA FeedStep ==
  ASSUME Core, [Next]_vars
  PROVE  /\ \A c \in Conns : Feeds(c)' /\ ~Feeds(c) =>
               /\ mpc = "semaphore" /\ mconn = c /\ UNCHANGED wire
               /\ replaced' = {} => ~running'
         /\ \A c \in Conns : Feeds(c) /\ ~Feeds(c)' => Closed(c)'
         /\ frames' # frames => running
         /\ replaced' = {} => replaced = {}
         /\ running' => running \/ button' = "start"
<1> USE DEF Core
<1>t. /\ mpc # "idle" => mconn \in Conns
      /\ Nil \notin Conns
      /\ button \in {"none", "start", "predef", "stop"}
  BY StreamerAssumption DEF TypeOK, Nil, Conns
<1>1. ASSUME UNCHANGED <<mpc, mconn, button, running, replaced>>, frames' = frames \/ running
      PROVE  /\ \A c \in Conns : Feeds(c)' <=> Feeds(c)
             /\ frames' # frames => running
             /\ replaced' = {} => replaced = {}
             /\ running' => running \/ button' = "start"
  BY <1>1 DEF Feeds
<1>2. CASE \E t \in Threads : Sends(t)
  BY <1>1, <1>2 DEF Sends, Submit, SendFragment, mainVars, viewVars
<1>3. CASE CaptureOutput \/ SubmitFrame \/ UNCHANGED vars
  BY <1>1, <1>3 DEF CaptureOutput, SubmitFrame, vars, mainVars, viewVars
<1>4. CASE \E c \in Conns : \/ DidOpen(c) \/ BadHandshake(c) \/ DelegateStep(c)
                            \/ CheckClose(c) \/ Lost(c) \/ ServerCloses(c)
  BY <1>1, <1>4 DEF DidOpen, BadHandshake, DelegateStep, HandleClose, Flushed, SocketDidDisconnect,
                    CheckClose, Lost, ServerCloses, mainVars, viewVars
<1>5. CASE StartCapture \/ PredefStopStart
  BY <1>5, <1>t DEF StartCapture, PredefStopStart, InitWithUrl, Feeds, Control, viewVars
<1>6. CASE SemaphoreWait
  <2>1. replaced' = {} => replaced = {} /\ ~capturing
    BY <1>6 DEF SemaphoreWait
  <2>2. /\ mpc = "semaphore" /\ UNCHANGED <<frames, running, wire>>
        /\ mconn' = mconn \/ mconn' = Nil
        /\ button' = "predef" => button = "predef"
    BY <1>6 DEF SemaphoreWait, netVars
  <2>3. button = "predef" /\ ~capturing => ~running
    BY DEF Control
  <2> QED BY <1>t, <2>1, <2>2, <2>3 DEF Feeds
<1>7. CASE ReadChunk \/ SetClosing \/ SendClose \/ MarkClosing
  BY <1>7 DEF ReadChunk, SetClosing, SendClose, MarkClosing, Feeds, viewVars
<1>8. CASE StopCapture
  BY <1>8, <1>t DEF StopCapture, Feeds, Control
<1>9. CASE Stopped
  BY <1>9, <1>t DEF Stopped, Feeds, ClosePhase, Closed, wsVars
<1> QED BY <1>2, <1>3, <1>4, <1>5, <1>6, <1>7, <1>8, <1>9 DEF Next, MainStep, Closes, Threads

\* A connection that is closing is not opened again, unless it was never open.
LEMMA ClosedStays ==
  ASSUME Core, [Next]_vars, NEW c \in Conns, Closed(c), ~(mpc = "semaphore" /\ mconn = c)
  PROVE  Closed(c)'
<1> USE DEF Core
<1>1. socket[c] # "connecting" /\ readystate \in [Conns -> {"Connecting", "Open", "Closing", "Closed"}]
  BY DEF Phases, TypeOK
<1>2. UNCHANGED readystate \/ \E d \in Conns :
         \/ \E r \in {"Closing", "Closed"} : readystate' = [readystate EXCEPT ![d] = r]
         \/ d # c /\ readystate' = [readystate EXCEPT ![d] = "Open"]
  <2>1. CASE \E t \in Threads : Sends(t)
    BY <2>1 DEF Sends, Submit, SendFragment, wsVars
  <2>2. CASE CaptureOutput \/ SubmitFrame \/ UNCHANGED vars
    BY <2>2 DEF CaptureOutput, SubmitFrame, vars, wsVars
  <2>3. ASSUME NEW d \in Conns, DidOpen(d) PROVE d # c /\ readystate' = [readystate EXCEPT ![d] = "Open"]
    BY <2>3, <1>1 DEF DidOpen
  <2>4. ASSUME NEW d \in Conns,
               BadHandshake(d) \/ DelegateStep(d) \/ CheckClose(d) \/ Lost(d) \/ ServerCloses(d)
        PROVE  \/ UNCHANGED readystate
               \/ \E r \in {"Closing", "Closed"} : readystate' = [readystate EXCEPT ![d] = r]
    BY <2>4 DEF BadHandshake, DelegateStep, HandleClose, Flushed, SocketDidDisconnect,
                CheckClose, CloseSocket, Lost, ServerCloses, wsVars
  <2>5. CASE StartCapture \/ PredefStopStart \/ SemaphoreWait \/ ReadChunk \/ StopCapture
             \/ Stopped \/ SendClose \/ MarkClosing
    BY <2>5 DEF StartCapture, PredefStopStart, SemaphoreWait, ReadChunk, StopCapture, Stopped,
                SendClose, MarkClosing, wsVars
  <2>6. CASE SetClosing
    BY <2>6 DEF SetClosing, TypeOK, Nil
  <2> QED BY <2>1, <2>2, <2>3, <2>4, <2>5, <2>6 DEF Next, MainStep, Closes, Threads
<1> QED BY <1>1, <1>2 DEF Closed

\* A camera message under way was under way before, or has just been found to have
\* an open connection; no frame is captured meanwhile.
LEMMA CameraMessage ==
  ASSUME Core, [Next]_vars, sending'[Camera].pc = "fragments"
  PROVE  /\ frames' = frames
         /\ sending'[Camera].conn = sending[Camera].conn
         /\ \/ sending[Camera].pc = "fragments"
            \/ readystate[sending[Camera].conn] = "Open" /\ UNCHANGED mainVars
<1>t. sending \in [Threads -> SendStates] /\ Main \in Threads /\ Camera \in Threads /\ Main # Camera
  BY DEF Core, TypeOK, Threads, Main, Camera
<1>1. ASSUME NEW t \in Threads, Submit(t) PROVE frames' = frames /\ (t = Camera \/ sending'[Camera] = sending[Camera])
  BY <1>1, <1>t DEF Submit
<1>2. ASSUME NEW t \in Threads, SendFragment(t)
      PROVE  frames' = frames /\ (t = Camera \/ sending'[Camera] = sending[Camera])
  BY <1>2, <1>t DEF SendFragment
<1>3. CASE Submit(Camera)
  BY <1>3, <1>1, <1>t DEF Submit, NotSending
<1>4. CASE SendFragment(Camera)
  BY <1>4, <1>2, <1>t DEF SendFragment, NotSending
<1>5. CASE CaptureOutput
  BY <1>5, <1>t DEF CaptureOutput, SendStates
<1>6. ASSUME frames' # frames PROVE CaptureOutput
  BY <1>6 DEF Next, MainStep, Sends, Submit, SendFragment, Closes, SetClosing, SendClose, MarkClosing,
     StartCapture, PredefStopStart, InitWithUrl, StopCapture, SemaphoreWait, ReadChunk, Stopped,
     SubmitFrame, DidOpen, BadHandshake, DelegateStep, HandleClose, Flushed, SocketDidDisconnect,
     CheckClose, Lost, ServerCloses, vars
<1> QED BY <1>1, <1>2, <1>3, <1>4, <1>5, <1>6, <1>t, StepKinds

\* While the file is sent the camera has one message at most for its connection,
\* and once that connection closes no other message is begun.
LEMMA StreamStep == Core /\ Core' /\ StreamInv /\ [Next]_vars => StreamInv'
<1> SUFFICES ASSUME Core, Core', StreamInv, [Next]_vars, replaced' = {} PROVE StreamInv'
  BY DEF StreamInv
<1>0. replaced = {}
  BY FeedStep
<1>1. /\ button = "predef" /\ mpc # "semaphore" => ~running
      /\ \A c \in Conns : Has(c, Main) => Feeds(c) \/ Closed(c)
      /\ \A c \in Conns : Has(c, Main) \/ Feeds(c) =>
            \A x, y \in Elems(wire[c]) : x.from = Camera /\ y.from = Camera => x.no = y.no
      /\ \A c \in Conns :
            \/ Feeds(c)
            \/ Has(c, Main) /\ sending[Camera].pc = "fragments" /\ sending[Camera].conn = c
            => \A x \in Elems(wire[c]) : x.from = Camera => x.no = frames
  BY <1>0 DEF StreamInv
<1>t. Main \in Threads /\ Camera \in Threads /\ Main # Camera /\ button \in {"none", "start", "predef", "stop"}
  BY DEF Threads, Main, Camera, Core, TypeOK
<1>2. button' = "predef" /\ mpc' # "semaphore" => ~running'
  <2> SUFFICES ASSUME button' = "predef", mpc' # "semaphore", running' PROVE FALSE
    OBVIOUS
  <2>1. PICK c \in Conns : Feeds(c)'
    BY DEF Core, Control, TypeOK, Nil, Feeds
  <2>2. running
    BY FeedStep
  <2>3. ~Feeds(c)
    BY <1>1, <2>2 DEF Feeds
  <2> QED BY <2>1, <2>3, FeedStep
<1> SUFFICES ASSUME NEW c \in Conns
             PROVE  /\ Has(c, Main)' => Feeds(c)' \/ Closed(c)'
                    /\ Has(c, Main)' \/ Feeds(c)' =>
                          \A x, y \in Elems(wire'[c]) :
                             x.from = Camera /\ y.from = Camera => x.no = y.no
                    /\ \/ Feeds(c)'
                       \/ Has(c, Main)' /\ sending'[Camera].pc = "fragments" /\ sending'[Camera].conn = c
                       => \A x \in Elems(wire'[c]) : x.from = Camera => x.no = frames'
  BY <1>2 DEF StreamInv
<1>3. \A x \in Elems(wire'[c]) : x.from \in Threads /\ x \notin Elems(wire[c]) =>
         /\ sending[x.from].pc = "fragments" /\ sending[x.from].conn = c
         /\ x.no = sending[x.from].no
  BY WireGrowth
\* A fragment of the file that is new on the wire: the connection is being fed.
<1>4. Has(c, Main)' /\ ~Has(c, Main) => Feeds(c) /\ Feeds(c)'
  <2> SUFFICES ASSUME Has(c, Main)', ~Has(c, Main) PROVE Feeds(c) /\ Feeds(c)'
    OBVIOUS
  <2>1. PICK x \in Elems(wire'[c]) : x.from = Main /\ x \notin Elems(wire[c])
    BY DEF Has
  <2>2. SendFragment(Main) /\ sending[Main].pc = "fragments" /\ sending[Main].conn = c
    BY <1>t, <2>1, WireGrowth
  <2>3. mpc = "read" /\ mconn = c /\ button = "predef"
    BY <1>t, <2>2 DEF Core, Control, Active
  <2>4. UNCHANGED mainVars
    BY <2>2 DEF SendFragment
  <2> QED BY <2>3, <2>4 DEF Feeds, mainVars
\* A fragment of the camera that is new on the wire is one of the last frame.
<1>5. \A x \in Elems(wire'[c]) : x.from = Camera /\ x \notin Elems(wire[c]) =>
         /\ sending[Camera].pc = "fragments" /\ sending[Camera].conn = c
         /\ x.no = frames
  BY <1>t, <1>3 DEF Core, Control, Active
\* A connection that is fed from now on has nothing from the camera, or the file.
<1>6. Feeds(c)' /\ ~Feeds(c) => \A x \in Elems(wire'[c]) : x.from \notin Threads
  BY FeedStep DEF Core, Phases, Has
<1>7. Has(c, Main)' => Feeds(c)' \/ Closed(c)'
  <2>1. Has(c, Main) => ~(mpc = "semaphore" /\ mconn = c)
    BY <1>t DEF Core, Phases
  <2> QED BY <1>1, <1>4, <2>1, ClosedStays, FeedStep
<1>8. Has(c, Main)' \/ Feeds(c)' =>
         \A x, y \in Elems(wire'[c]) : x.from = Camera /\ y.from = Camera => x.no = y.no
  <2>1. CASE Feeds(c)' /\ ~Feeds(c)
    BY <1>t, <1>6, <2>1
  <2>2. CASE Has(c, Main) \/ Feeds(c)
    <3>1. CASE \E z \in Elems(wire'[c]) : z.from = Camera /\ z \notin Elems(wire[c])
      <4>1. sending[Camera].pc = "fragments" /\ sending[Camera].conn = c
        BY <1>5, <3>1
      <4>2. \A x \in Elems(wire'[c]) : x.from = Camera => x.no = frames
        BY <1>1, <1>5, <2>2, <4>1
      <4> QED BY <4>2
    <3>2. CASE \A z \in Elems(wire'[c]) : z.from = Camera => z \in Elems(wire[c])
      BY <1>1, <2>2, <3>2
    <3> QED BY <3>1, <3>2
  <2> QED BY <1>4, <2>1, <2>2
<1>9. \/ Feeds(c)'
      \/ Has(c, Main)' /\ sending'[Camera].pc = "fragments" /\ sending'[Camera].conn = c
      => \A x \in Elems(wire'[c]) : x.from = Camera => x.no = frames'
  <2>1. CASE Feeds(c)' /\ ~Feeds(c)
    BY <1>t, <1>6, <2>1
  <2>2. CASE Feeds(c)' /\ Feeds(c)
    <3>1. frames' = frames
      BY <1>1, <2>2, FeedStep DEF Feeds
    <3> QED BY <1>1, <1>5, <2>2, <3>1
  <2>3. CASE ~Feeds(c)' /\ Has(c, Main)' /\ sending'[Camera].pc = "fragments" /\ sending'[Camera].conn = c
    <3>1. Has(c, Main)
      BY <1>4, <2>3
    <3>2. frames' = frames /\ sending[Camera].conn = c
      BY <2>3, CameraMessage
    <3>3. sending[Camera].pc = "fragments"
      <4> SUFFICES ASSUME readystate[c] = "Open", UNCHANGED mainVars PROVE FALSE
        BY <2>3, <3>2, CameraMessage
      <4>1. Feeds(c)
        BY <1>1, <3>1 DEF Closed
      <4> QED BY <2>3, <4>1 DEF Feeds, mainVars
    <3> QED BY <1>1, <1>5, <3>1, <3>2, <3>3
  <2> QED BY <2>1, <2>2, <2>3
<1> QED BY <1>7, <1>8, <1>9

\* Unless an input was replaced while it was being captured to, no connection
\* carries chunks of the file and more than one frame of the camera.
THEOREM StreamsSeparateHold == Spec => []StreamsSeparate
<1>1. Init => StreamInv
  <2> SUFFICES ASSUME Init PROVE StreamInv
    OBVIOUS
  <2>1. \A c \in Conns : Elems(wire[c]) = {} /\ ~Has(c, Main) /\ ~Feeds(c)
    BY EmptyWire DEF Init, Has, Feeds
  <2> QED BY <2>1 DEF Init, StreamInv
<1>2. StreamInv => StreamsSeparate
  <2> SUFFICES ASSUME StreamInv, replaced = {}, NEW c \in Conns,
                      NEW i \in DOMAIN wire[c], NEW j \in DOMAIN wire[c], NEW k \in DOMAIN wire[c],
                      wire[c][i].from = Main, wire[c][j].from = Camera, wire[c][k].from = Camera
               PROVE  wire[c][j].no = wire[c][k].no
    BY DEF StreamsSeparate
  <2>1. {wire[c][i], wire[c][j], wire[c][k]} \subseteq Elems(wire[c])
    BY DEF Elems
  <2>2. Has(c, Main)
    BY <2>1 DEF Has
  <2> QED BY <2>1, <2>2 DEF StreamInv
<1> QED BY <1>1, <1>2, CoreInit, CoreStep, StreamStep, PTL DEF Spec

=============================================================================
